------------------------ MODULE AsyncMultiPoolProofs ------------------------
(***************************************************************************)
(* Proofs about AsyncMultiPool, for any number of goroutines, pools and    *)
(* clients: logs go to their pool, a goroutine makes one client for a pool *)
(* at most, and Stop stops what was there when it was called.              *)
(***************************************************************************)
EXTENDS AsyncMultiPool, TLAPS

InMap(n) == AsyncClients[Key(made[n].pool)] = n

WorkerInv ==
  \A n \in Client : /\ wg[n] = IF life[n] = "running" THEN 1 ELSE 0
                    /\ life[n] = "none" => ch[n] = <<>>

MapInv ==
  \A k \in Present : AsyncClients[k] \in Made /\ Key(made[AsyncClients[k]].pool) = k

(* A client is in the map or was, unless its maker is about to store it.   *)
MadeInv ==
  \A n \in Made :
    \/ Key(made[n].pool) \in Present
    \/ pc[made[n].by] = "store" /\ mine[made[n].by] = n

PusherInv(p) ==
  /\ pc[p] # "idle" => target[p] \in Pool
  /\ pc[p] = "make" => \A n \in Made : made[n] # [pool |-> target[p], by |-> p]
  /\ pc[p] = "store" =>
       /\ mine[p] \in Made /\ made[mine[p]] = [pool |-> target[p], by |-> p]
       /\ \A k \in Keys : AsyncClients[k] # mine[p]
       /\ \A s \in Stopper : mine[p] \notin on[s]
  /\ pc[p] = "push" => mine[p] \in Made /\ made[mine[p]].pool = target[p]

(* What the Range under way has yet to do for a client of on[s].           *)
OnInv(s, n) ==
  LET k == Key(made[n].pool) IN
  /\ pass[s] \in {"cancel", "wait"} => k \in due[s]
  /\ pass[s] = "cancel" => (k \in visited[s] => cancelled[n] \/ at[s] = n)
  /\ pass[s] \in {"wait", "done"} => cancelled[n]
  /\ n \in ran[s] /\ (pass[s] = "done" \/ (pass[s] = "wait" /\ k \in visited[s] /\ at[s] # n))
       => life[n] = "exited"

StopperInv(s) ==
  /\ pass[s] = "idle" => on[s] = {}
  /\ on[s] \subseteq Made
  /\ \A n \in ran[s] : life[n] \in {"running", "exited"}
  /\ at[s] # NoClient => at[s] \in Made
  /\ \A n \in on[s] : InMap(n) => OnInv(s, n)

IInv ==
  /\ TypeOK /\ RightPool /\ OneClientEach
  /\ WorkerInv /\ MapInv /\ MadeInv
  /\ \A p \in Pusher : PusherInv(p)
  /\ \A s \in Stopper : StopperInv(s)

LEMMA KeyIsInjective ==
  \A k \in Pool : Key(k) = k /\ Key(k) \in Keys
  BY DEF Pool, Key, Keys

LEMMA ElementType ==
  ASSUME NEW S, NEW q \in Seq(S), NEW n \in DOMAIN q PROVE q[n] \in S
  OBVIOUS

LEMMA MadeType ==
  ASSUME PoolTypeOK
  PROVE  /\ Len(made) \in Nat /\ Made = 1..Len(made) /\ Made \subseteq Client
         /\ NoClient \notin Made
         /\ \A n \in Made : /\ made[n] \in [pool : Pool, by : Pusher]
                            /\ made[n].pool \in Pool /\ made[n].by \in Pusher
                            /\ Key(made[n].pool) \in Keys
<1>1. made \in Seq([pool : Pool, by : Pusher])
  BY DEF PoolTypeOK
<1>2. Len(made) \in Nat /\ Made = 1..Len(made)
  BY <1>1 DEF Made
<1>3. Made \subseteq Client
  BY <1>2, ClientAssumption DEF PoolTypeOK
<1>4. \A n \in Made : made[n] \in [pool : Pool, by : Pusher]
  BY <1>1, ElementType DEF Made
<1> QED
  BY <1>2, <1>3, <1>4, KeyIsInjective, NoClientAssumption

LEMMA InitInv == Init => IInv
<1> SUFFICES ASSUME Init PROVE IInv
  OBVIOUS
<1>1. made = <<>> /\ Len(made) = 0 /\ Made = {}
  BY DEF Init, Made
<1>2. WorkerTypeOK
  BY ChanAssumption DEF Init, WorkerInit, WorkerTypeOK
<1>3. PoolTypeOK
  BY <1>1, ClientAssumption DEF Init, PoolTypeOK
<1>4. StopTypeOK
  BY DEF Init, StopTypeOK
<1>5. TypeOK
  BY <1>1, <1>2, <1>3, <1>4 DEF TypeOK, Init
<1>6. WorkerInv
  BY DEF Init, WorkerInit, WorkerInv
<1>7. MapInv
  BY DEF Init, MapInv, Present
<1>8. \A p \in Pusher : PusherInv(p)
  BY DEF Init, PusherInv
<1>9. \A s \in Stopper : StopperInv(s)
  BY <1>1 DEF Init, StopperInv
<1> QED
  BY <1>1, <1>5, <1>6, <1>7, <1>8, <1>9
  DEF IInv, RightPool, OneClientEach, MadeInv

-----------------------------------------------------------------------------
(* A step of a worker.                                                     *)
LEMMA WorkerTypes ==
  ASSUME IInv, NEW n \in Client,
         RunStarts(n) \/ RunTakes(n) \/ RunReturns(n)
  PROVE  /\ WorkerTypeOK' /\ WorkerInv'
         /\ cancelled' = cancelled
         /\ \A m \in Client : /\ life'[m] = "none" <=> life[m] = "none"
                              /\ life[m] \in {"running", "exited"} =>
                                   life'[m] \in {"running", "exited"}
                              /\ life[m] = "exited" => life'[m] = "exited"
                              /\ ch'[m] = ch[m] \/ (ch[m] # <<>> /\ ch'[m] = Tail(ch[m]))
<1>1. WorkerTypeOK /\ WorkerInv
  BY DEF IInv, TypeOK
<1>2. CASE RunStarts(n)
  BY <1>1, <1>2 DEF RunStarts, WorkerTypeOK, WorkerInv
<1>3. CASE RunReturns(n)
  BY <1>1, <1>3 DEF RunReturns, WorkerTypeOK, WorkerInv
<1>4. CASE RunTakes(n)
  <2>1. ch[n] \in Seq(Item) /\ ch[n] # <<>>
    BY <1>1, <1>4 DEF RunTakes, WorkerTypeOK
  <2>2. Tail(ch[n]) \in Seq(Item) /\ Len(Tail(ch[n])) <= Len(ch[n])
    BY <2>1
  <2>3. WorkerTypeOK'
    <3>1. ch' \in [Client -> Seq(Item)]
      BY <1>1, <1>4, <2>2 DEF RunTakes, WorkerTypeOK
    <3>2. \A m \in Client : Len(ch'[m]) <= ChanSize
      <4>1. \A m \in Client : Len(ch'[m]) <= Len(ch[m])
        BY <1>1, <1>4, <2>2 DEF RunTakes, WorkerTypeOK
      <4>2. \A m \in Client : Len(ch'[m]) \in Nat /\ Len(ch[m]) \in Nat
        BY <1>1, <3>1 DEF WorkerTypeOK
      <4> QED
        BY <1>1, <4>1, <4>2, ChanAssumption DEF WorkerTypeOK
    <3> QED
      BY <1>1, <1>4, <3>1, <3>2 DEF RunTakes, WorkerTypeOK
  <2> QED
    BY <1>1, <1>4, <2>1, <2>3 DEF RunTakes, WorkerTypeOK, WorkerInv
<1> QED
  BY <1>2, <1>3, <1>4

LEMMA RunInv == ASSUME IInv, NEW n \in Client, Run(n) PROVE IInv'
<1>1. /\ UNCHANGED <<AsyncClients, made, pc, target, mine, late>>
      /\ UNCHANGED <<pass, due, visited, at, on, ran>>
  BY DEF Run, pushVars, stopVars
<1>2. RunStarts(n) \/ RunTakes(n) \/ RunReturns(n)
  BY DEF Run
<1>3. /\ WorkerTypeOK' /\ WorkerInv' /\ cancelled' = cancelled
      /\ \A m \in Client : /\ life'[m] = "none" <=> life[m] = "none"
                           /\ life[m] \in {"running", "exited"} =>
                                life'[m] \in {"running", "exited"}
                           /\ life[m] = "exited" => life'[m] = "exited"
                           /\ ch'[m] = ch[m] \/ (ch[m] # <<>> /\ ch'[m] = Tail(ch[m]))
  BY <1>2, WorkerTypes
<1>4. PoolTypeOK /\ Made \subseteq Client /\ Made' = Made /\ WorkerTypeOK
  BY <1>1, MadeType DEF IInv, TypeOK, Made
<1>5. TypeOK'
  BY <1>1, <1>3, <1>4 DEF IInv, TypeOK, PoolTypeOK, StopTypeOK
<1>6. RightPool'
  <2> SUFFICES ASSUME NEW m \in Made PROVE \A i \in DOMAIN ch'[m] : ch'[m][i] = made[m].pool
    BY <1>1, <1>4 DEF RightPool
  <2>1. ch[m] \in Seq(Item) /\ \A i \in DOMAIN ch[m] : ch[m][i] = made[m].pool
    BY <1>4 DEF IInv, RightPool, WorkerTypeOK
  <2>2. CASE ch[m] # <<>> /\ ch'[m] = Tail(ch[m])
    <3>1. \A i \in DOMAIN Tail(ch[m]) :
            i + 1 \in DOMAIN ch[m] /\ Tail(ch[m])[i] = ch[m][i + 1]
      BY <2>1, <2>2
    <3> QED
      BY <2>1, <2>2, <3>1
  <2> QED
    BY <1>3, <1>4, <2>1, <2>2
<1>7. OneClientEach' /\ MapInv' /\ MadeInv'
  BY <1>1, <1>4 DEF IInv, OneClientEach, MapInv, MadeInv, Present
<1>8. \A p \in Pusher : PusherInv(p)'
  BY <1>1, <1>4 DEF IInv, PusherInv
<1>9. ASSUME NEW s \in Stopper PROVE StopperInv(s)'
  <2>1. /\ StopperInv(s) /\ on[s] \subseteq Client /\ ran[s] \subseteq Client
    BY <1>4 DEF IInv, TypeOK, StopTypeOK
  <2>2. \A m \in on[s] : OnInv(s, m) => OnInv(s, m)'
    BY <1>1, <1>3, <2>1 DEF OnInv
  <2> QED
    BY <1>1, <1>3, <1>4, <2>1, <2>2 DEF StopperInv, InMap
<1> QED
  BY <1>3, <1>5, <1>6, <1>7, <1>8, <1>9 DEF IInv

-----------------------------------------------------------------------------
(* The steps of PushLog.                                                   *)
LEMMA LoadInv == ASSUME IInv, NEW p \in Pusher, NEW k \in Pool, Load(p, k) PROVE IInv'
<1>1. /\ target' = [target EXCEPT ![p] = k]
      /\ mine' = [mine EXCEPT ![p] = AsyncClients[Key(k)]]
      /\ pc[p] = "idle"
      /\ pc' = [pc EXCEPT ![p] = IF Key(k) \in Present THEN "push" ELSE "make"]
      /\ UNCHANGED <<life, cancelled, wg, ch, AsyncClients, made, late>>
      /\ UNCHANGED <<pass, due, visited, at, on, ran>>
  BY DEF Load, workerVars, stopVars
<1>2. PoolTypeOK /\ Made' = Made /\ Key(k) \in Keys /\ Present' = Present
  BY <1>1, KeyIsInjective DEF IInv, TypeOK, Made, Present
<1>3. TypeOK'
  <2>1. PoolTypeOK'
    BY <1>1, <1>2 DEF PoolTypeOK
  <2> QED
    BY <1>1, <1>2, <2>1 DEF IInv, TypeOK, WorkerTypeOK, StopTypeOK
<1>4. RightPool' /\ OneClientEach' /\ WorkerInv' /\ MapInv'
  BY <1>1, <1>2 DEF IInv, RightPool, OneClientEach, WorkerInv, MapInv
<1>5. MadeInv'
  BY <1>1, <1>2, MadeType DEF IInv, MadeInv, PoolTypeOK
<1>6. ASSUME NEW q \in Pusher PROVE PusherInv(q)'
  <2>1. CASE q # p
    BY <1>1, <1>2, <2>1 DEF IInv, PusherInv, PoolTypeOK
  <2>2. CASE q = p /\ Key(k) \in Present
    <3>1. pc'[p] = "push" /\ target'[p] = k /\ mine'[p] = AsyncClients[Key(k)]
      BY <1>1, <1>2, <2>2 DEF PoolTypeOK
    <3>2. mine'[p] \in Made /\ Key(made[mine'[p]].pool) = Key(k)
      BY <2>2, <3>1 DEF IInv, MapInv
    <3>3. made[mine'[p]].pool = k
      BY <1>2, <3>2, MadeType, KeyIsInjective
    <3> QED
      BY <1>1, <1>2, <2>2, <3>1, <3>2, <3>3 DEF PusherInv
  <2>3. CASE q = p /\ Key(k) \notin Present
    <3>1. pc'[p] = "make" /\ target'[p] = k
      BY <1>1, <1>2, <2>3 DEF PoolTypeOK
    <3>2. ASSUME NEW n \in Made, made[n] = [pool |-> k, by |-> p] PROVE FALSE
      BY <1>1, <2>3, <3>2 DEF IInv, MadeInv
    <3> QED
      BY <1>1, <1>2, <2>3, <3>1, <3>2 DEF PusherInv
  <2> QED
    BY <2>1, <2>2, <2>3
<1>7. \A s \in Stopper : StopperInv(s)'
  BY <1>1, <1>2 DEF IInv, StopperInv, InMap, OnInv
<1> QED
  BY <1>3, <1>4, <1>5, <1>6, <1>7 DEF IInv

LEMMA MakeInv == ASSUME IInv, NEW p \in Pusher, Make(p) PROVE IInv'
<1> DEFINE new == Len(made) + 1
           r == [pool |-> target[p], by |-> p]
<1>1. /\ pc[p] = "make" /\ Len(made) < MaxClients
      /\ life[new] = "none" /\ life' = [life EXCEPT ![new] = "spawned"]
      /\ made' = Append(made, r) /\ mine' = [mine EXCEPT ![p] = new]
      /\ pc' = [pc EXCEPT ![p] = "store"]
      /\ UNCHANGED <<cancelled, wg, ch, AsyncClients, target, late>>
      /\ UNCHANGED <<pass, due, visited, at, on, ran>>
  BY DEF Make, New, stopVars
<1>2. WorkerTypeOK /\ PoolTypeOK /\ StopTypeOK /\ target[p] \in Pool
      /\ made \in Seq([pool : Pool, by : Pusher])
  BY <1>1 DEF IInv, TypeOK, PusherInv, PoolTypeOK
<1>3. Len(made) \in Nat /\ Made = 1..Len(made) /\ new \in Client /\ new \notin Made
  BY <1>1, <1>2, MadeType, ClientAssumption
<1>4. r \in [pool : Pool, by : Pusher]
  BY <1>2
<1>5. /\ made' \in Seq([pool : Pool, by : Pusher]) /\ Len(made') = new
      /\ Made' = Made \cup {new}
      /\ \A n \in Made : made'[n] = made[n]
      /\ made'[new] = r
  <2>1. \A n \in 1..Len(made) : Append(made, r)[n] = made[n]
    BY <1>2, <1>4
  <2>2. Append(made, r)[new] = r /\ Len(Append(made, r)) = new
        /\ Append(made, r) \in Seq([pool : Pool, by : Pusher])
    BY <1>2, <1>3, <1>4
  <2>3. DOMAIN Append(made, r) = 1..new
    BY <2>2
  <2>4. 1..new = 1..Len(made) \cup {new}
    BY <1>3
  <2> QED
    BY <1>1, <1>3, <2>1, <2>2, <2>3, <2>4 DEF Made
<1> HIDE DEF new, r
<1>6. /\ r.pool = target[p] /\ r.by = p
  BY DEF r
<1>7. /\ mine'[p] = new /\ pc'[p] = "store" /\ life'[new] = "spawned"
      /\ \A q \in Pusher : q # p => mine'[q] = mine[q] /\ pc'[q] = pc[q]
      /\ \A n \in Made : life'[n] = life[n] /\ n \in Client /\ n # new
      /\ \A n \in Client : n # new => life'[n] = life[n]
  BY <1>1, <1>2, <1>3, MadeType DEF PoolTypeOK, WorkerTypeOK
<1>8. TypeOK'
  <2>1. WorkerTypeOK'
    BY <1>1, <1>2 DEF WorkerTypeOK
  <2>2. PoolTypeOK'
    <3>1. Len(made') <= MaxClients
      BY <1>1, <1>3, <1>5, ClientAssumption DEF new
    <3>2. mine' \in [Pusher -> Client \cup {NoClient}]
      BY <1>1, <1>2, <1>3 DEF PoolTypeOK
    <3> QED
      BY <1>1, <1>2, <1>5, <3>1, <3>2 DEF PoolTypeOK
  <2>3. \A n \in Client : life'[n] = "none" <=> n \notin Made'
    BY <1>5, <1>7 DEF IInv, TypeOK
  <2> QED
    BY <1>1, <1>2, <2>1, <2>2, <2>3 DEF TypeOK, StopTypeOK
<1>9. RightPool'
  <2>1. \A n \in Made : \A i \in DOMAIN ch'[n] : ch'[n][i] = made'[n].pool
    BY <1>1, <1>5 DEF IInv, RightPool
  <2>2. \A i \in DOMAIN ch'[new] : ch'[new][i] = made'[new].pool
    BY <1>1, <1>3 DEF IInv, WorkerInv
  <2> QED
    BY <1>5, <2>1, <2>2 DEF RightPool
<1>10. OneClientEach'
  <2>1. \A n \in Made : made[n] # r
    BY <1>1, <1>2 DEF IInv, PusherInv, r
  <2> QED
    BY <1>5, <2>1 DEF IInv, OneClientEach
<1>11. WorkerInv'
  BY <1>1, <1>2, <1>3, <1>7 DEF IInv, WorkerInv
<1>12. MapInv' /\ Present' = Present
  BY <1>1, <1>5 DEF IInv, MapInv, Present
<1>13. MadeInv'
  <2>1. \A n \in Made : \/ Key(made[n].pool) \in Present
                        \/ made[n].by # p /\ pc[made[n].by] = "store"
                           /\ mine[made[n].by] = n
    BY <1>1 DEF IInv, MadeInv
  <2> QED
    BY <1>2, <1>5, <1>6, <1>7, <1>12, <2>1, MadeType DEF MadeInv
<1>14. ASSUME NEW q \in Pusher PROVE PusherInv(q)'
  <2>1. PusherInv(q)
    BY DEF IInv
  <2>2. CASE q # p
    <3>1. \A n \in Made' : made'[n] = [pool |-> target[q], by |-> q] =>
            n \in Made /\ made[n] = [pool |-> target[q], by |-> q]
      <4>1. r # [pool |-> target[q], by |-> q]
        BY <2>2 DEF r
      <4> QED
        BY <1>5, <4>1
    <3>2. UNCHANGED <<pc[q], mine[q], target[q], AsyncClients, on>>
      BY <1>1, <1>7, <2>2
    <3>3. pc[q] = "make" => \A n \in Made' : made'[n] # [pool |-> target[q], by |-> q]
      BY <2>1, <3>1 DEF PusherInv
    <3>4. mine[q] \in Made => mine[q] \in Made' /\ made'[mine[q]] = made[mine[q]]
      BY <1>5
    <3> QED
      BY <2>1, <3>2, <3>3, <3>4 DEF PusherInv
  <2>3. CASE q = p
    <3>1. \A k \in Keys : AsyncClients[k] # new
      <4>1. new # NoClient
        BY <1>3, NoClientAssumption
      <4> QED
        BY <1>3, <4>1 DEF IInv, MapInv, Present
    <3>2. \A s \in Stopper : new \notin on[s]
      BY <1>3 DEF IInv, StopperInv
    <3> QED
      BY <1>1, <1>2, <1>5, <1>7, <2>3, <3>1, <3>2 DEF PusherInv, r
  <2> QED
    BY <2>2, <2>3
<1>15. ASSUME NEW s \in Stopper PROVE StopperInv(s)'
  <2>1. StopperInv(s) /\ on[s] \subseteq Made
    BY DEF IInv, StopperInv
  <2>2. \A n \in ran[s] : life'[n] \in {"running", "exited"}
    <3>1. new \notin ran[s]
      BY <1>1, <2>1 DEF StopperInv, new
    <3> QED
      BY <1>2, <1>7, <2>1, <3>1 DEF StopperInv, StopTypeOK
  <2>3. \A n \in on[s] : (InMap(n)' => InMap(n)) /\ (OnInv(s, n) => OnInv(s, n)')
    BY <1>1, <1>5, <1>7, <2>1 DEF InMap, OnInv
  <2> QED
    BY <1>1, <1>5, <2>1, <2>2, <2>3 DEF StopperInv
<1> QED
  BY <1>8, <1>9, <1>10, <1>11, <1>12, <1>13, <1>14, <1>15 DEF IInv

LEMMA StoreInv == ASSUME IInv, NEW p \in Pusher, Store(p) PROVE IInv'
<1> DEFINE K == Key(target[p])
           n0 == mine[p]
<1>1. /\ pc[p] = "store" /\ AsyncClients' = [AsyncClients EXCEPT ![K] = n0]
      /\ late' = [s \in Stopper |-> late[s] \/ pass[s] # "idle"]
      /\ pc' = [pc EXCEPT ![p] = "push"]
      /\ UNCHANGED <<life, cancelled, wg, ch, made, target, mine>>
      /\ UNCHANGED <<pass, due, visited, at, on, ran>>
  BY DEF Store, StoreClient, workerVars, stopVars
<1>2. WorkerTypeOK /\ PoolTypeOK /\ StopTypeOK /\ Made' = Made
  BY <1>1 DEF IInv, TypeOK, Made
<1>3. /\ target[p] \in Pool /\ n0 \in Made
      /\ made[n0] = [pool |-> target[p], by |-> p]
      /\ \A k \in Keys : AsyncClients[k] # n0
      /\ \A s \in Stopper : n0 \notin on[s]
  BY <1>1 DEF IInv, PusherInv
<1>4. K \in Keys /\ n0 # NoClient /\ n0 \in Client
  BY <1>2, <1>3, MadeType, KeyIsInjective
<1>5. made[n0].pool = target[p] /\ made[n0].by = p
  BY <1>3
<1> HIDE DEF K, n0
<1>6. /\ AsyncClients'[K] = n0
      /\ \A k \in Keys : k # K => AsyncClients'[k] = AsyncClients[k]
      /\ Present' = Present \cup {K}
      /\ pc'[p] = "push" /\ \A q \in Pusher : q # p => pc'[q] = pc[q]
  BY <1>1, <1>2, <1>4 DEF PoolTypeOK, Present
<1>7. TypeOK'
  <2>1. PoolTypeOK'
    BY <1>1, <1>2, <1>4 DEF PoolTypeOK
  <2>2. late' \in [Stopper -> BOOLEAN]
    BY <1>1
  <2> QED
    BY <1>1, <1>2, <2>1, <2>2 DEF IInv, TypeOK, WorkerTypeOK, StopTypeOK
<1>8. RightPool' /\ OneClientEach' /\ WorkerInv'
  BY <1>1, <1>2 DEF IInv, RightPool, OneClientEach, WorkerInv
<1>9. MapInv'
  <2>1. Key(made[n0].pool) = K
    BY <1>5 DEF K
  <2>2. Present \subseteq Keys
    BY DEF Present
  <2> QED
    BY <1>1, <1>2, <1>3, <1>6, <2>1, <2>2 DEF IInv, MapInv
<1>10. MadeInv'
  <2>1. ASSUME NEW n \in Made
        PROVE  Key(made[n].pool) \in Present' \/ (pc'[made[n].by] = "store" /\ mine[made[n].by] = n)
    <3>1. CASE n = n0
      BY <1>5, <1>6, <3>1 DEF K
    <3>2. CASE n # n0
      <4>1. \/ Key(made[n].pool) \in Present
            \/ pc[made[n].by] = "store" /\ mine[made[n].by] = n /\ made[n].by # p
        BY <3>2 DEF IInv, MadeInv, n0
      <4> QED
        BY <1>2, <1>6, <4>1, MadeType
    <3> QED
      BY <3>1, <3>2
  <2> QED
    BY <1>1, <1>2, <2>1 DEF MadeInv
<1>11. ASSUME NEW q \in Pusher PROVE PusherInv(q)'
  <2>1. PusherInv(q)
    BY DEF IInv
  <2>2. CASE q # p
    <3>1. pc'[q] = pc[q]
      BY <1>6, <2>2
    <3>2. pc[q] = "store" => mine[q] # n0
      BY <1>5, <2>1, <2>2 DEF PusherInv
    <3>3. pc[q] = "store" => \A k \in Keys : AsyncClients'[k] # mine[q]
      BY <1>6, <2>1, <3>2 DEF PusherInv
    <3> QED
      BY <1>1, <1>2, <2>1, <3>1, <3>3 DEF PusherInv
  <2>3. CASE q = p
    BY <1>1, <1>2, <1>3, <1>5, <1>6, <2>3 DEF PusherInv, n0
  <2> QED
    BY <2>2, <2>3
<1>12. ASSUME NEW s \in Stopper PROVE StopperInv(s)'
  <2>1. StopperInv(s) /\ on[s] \subseteq Made
    BY DEF IInv, StopperInv
  <2>2. ASSUME NEW n \in on[s], InMap(n)' PROVE InMap(n)
    <3>1. n # n0 /\ Key(made[n].pool) \in Keys
      BY <1>2, <1>3, <2>1, MadeType
    <3> QED
      BY <1>1, <1>6, <2>2, <3>1 DEF InMap
  <2>3. \A n \in on[s] : OnInv(s, n) => OnInv(s, n)'
    BY <1>1 DEF OnInv
  <2> QED
    BY <1>1, <1>2, <2>1, <2>2, <2>3 DEF StopperInv
<1> QED
  BY <1>7, <1>8, <1>9, <1>10, <1>11, <1>12 DEF IInv

LEMMA AppendElement ==
  ASSUME NEW S, NEW q \in Seq(S), NEW e \in S, NEW x \in S,
         \A i \in DOMAIN q : q[i] = x, e = x
  PROVE  /\ Append(q, e) \in Seq(S) /\ Len(Append(q, e)) = Len(q) + 1
         /\ \A i \in DOMAIN Append(q, e) : Append(q, e)[i] = x
<1>1. Len(q) \in Nat /\ DOMAIN Append(q, e) = 1..Len(q) + 1
  OBVIOUS
<1>2. \A i \in 1..Len(q) : Append(q, e)[i] = q[i]
  OBVIOUS
<1> QED
  BY <1>1, <1>2

LEMMA PushReturnsInv == ASSUME IInv, NEW p \in Pusher, PushReturns(p) PROVE IInv'
<1> DEFINE n0 == mine[p]
           k == target[p]
<1>1. /\ pc[p] = "push" /\ pc' = [pc EXCEPT ![p] = "idle"]
      /\ life[n0] # "none" /\ Len(ch[n0]) < ChanSize
      /\ ch' = [ch EXCEPT ![n0] = Append(ch[n0], k)]
      /\ target' = [target EXCEPT ![p] = NoPool]
      /\ mine' = [mine EXCEPT ![p] = NoClient]
      /\ UNCHANGED <<life, cancelled, wg, AsyncClients, made, late>>
      /\ UNCHANGED <<pass, due, visited, at, on, ran>>
  BY DEF PushReturns, Push, stopVars
<1>2. WorkerTypeOK /\ PoolTypeOK /\ StopTypeOK /\ Made' = Made
  BY <1>1 DEF IInv, TypeOK, Made
<1>3. k \in Pool /\ n0 \in Made /\ made[n0].pool = k /\ n0 \in Client
  BY <1>1, <1>2, MadeType DEF IInv, PusherInv
<1> HIDE DEF n0, k
<1>4. /\ ch[n0] \in Seq(Item) /\ k \in Item
      /\ \A i \in DOMAIN ch[n0] : ch[n0][i] = k
  BY <1>2, <1>3, ItemAssumption DEF IInv, RightPool, WorkerTypeOK
<1>5. /\ Append(ch[n0], k) \in Seq(Item) /\ Len(Append(ch[n0], k)) = Len(ch[n0]) + 1
      /\ \A i \in DOMAIN Append(ch[n0], k) : Append(ch[n0], k)[i] = k
  BY <1>4, AppendElement
<1>6. /\ ch'[n0] = Append(ch[n0], k)
      /\ \A n \in Client : n # n0 => ch'[n] = ch[n]
      /\ ch' \in [Client -> Seq(Item)]
  BY <1>1, <1>2, <1>3, <1>5 DEF WorkerTypeOK
<1>7. TypeOK'
  <2>1. \A n \in Client : Len(ch'[n]) <= ChanSize
    <3>1. Len(ch[n0]) \in Nat
      BY <1>4
    <3> QED
      BY <1>1, <1>2, <1>5, <1>6, <3>1, ChanAssumption DEF WorkerTypeOK
  <2>2. WorkerTypeOK'
    BY <1>1, <1>2, <1>6, <2>1 DEF WorkerTypeOK
  <2>3. PoolTypeOK'
    BY <1>1, <1>2 DEF PoolTypeOK
  <2> QED
    BY <1>1, <1>2, <2>2, <2>3 DEF IInv, TypeOK, StopTypeOK
<1>8. RightPool'
  <2>1. \A n \in Made : n \in Client
    BY <1>2, MadeType
  <2> QED
    BY <1>1, <1>2, <1>3, <1>5, <1>6, <2>1 DEF IInv, RightPool
<1>9. WorkerInv'
  BY <1>1, <1>2, <1>3, <1>6 DEF IInv, WorkerInv
<1>10. OneClientEach' /\ MapInv'
  BY <1>1, <1>2 DEF IInv, OneClientEach, MapInv, Present
<1>11. /\ pc'[p] = "idle"
       /\ \A q \in Pusher : q # p => UNCHANGED <<pc[q], target[q], mine[q]>>
  BY <1>1, <1>2 DEF PoolTypeOK
<1>12. MadeInv'
  BY <1>1, <1>2, <1>11, MadeType DEF IInv, MadeInv, Present
<1>13. ASSUME NEW q \in Pusher PROVE PusherInv(q)'
  <2>1. PusherInv(q)
    BY DEF IInv
  <2>2. CASE q # p
    BY <1>1, <1>2, <1>11, <2>1, <2>2 DEF PusherInv
  <2>3. CASE q = p
    BY <1>11, <2>3 DEF PusherInv
  <2> QED
    BY <2>2, <2>3
<1>14. \A s \in Stopper : StopperInv(s)'
  BY <1>1, <1>2 DEF IInv, StopperInv, InMap, OnInv
<1> QED
  BY <1>7, <1>8, <1>9, <1>10, <1>12, <1>13, <1>14 DEF IInv

-----------------------------------------------------------------------------
(* The steps of Stop change only what a stopper has and what is cancelled. *)
LEMMA StopFrame ==
  ASSUME IInv, UNCHANGED <<life, wg, ch>>,
         UNCHANGED <<AsyncClients, made, pc, target, mine, late>>,
         cancelled' \in [Client -> BOOLEAN], StopTypeOK',
         \A n \in Client : cancelled[n] => cancelled'[n],
         \A s \in Stopper : \A n \in on'[s] : n \in on[s] \/ \E k \in Keys : AsyncClients[k] = n,
         NEW c \in Stopper,
         \A s \in Stopper : s # c => UNCHANGED <<pass[s], due[s], visited[s], at[s], on[s], ran[s]>>,
         StopperInv(c)'
  PROVE  IInv'
<1>1. Made' = Made /\ Present' = Present
  BY DEF Made, Present
<1>2. TypeOK'
  <2>1. WorkerTypeOK'
    BY DEF IInv, TypeOK, WorkerTypeOK
  <2> QED
    BY <1>1, <2>1 DEF IInv, TypeOK, PoolTypeOK
<1>3. RightPool' /\ OneClientEach' /\ WorkerInv' /\ MapInv' /\ MadeInv'
  BY <1>1 DEF IInv, RightPool, OneClientEach, WorkerInv, MapInv, MadeInv
<1>4. \A p \in Pusher : PusherInv(p)'
  BY <1>1 DEF IInv, PusherInv
<1>5. ASSUME NEW s \in Stopper, s # c PROVE StopperInv(s)'
  <2>1. StopperInv(s) /\ UNCHANGED <<pass[s], due[s], visited[s], at[s], on[s], ran[s]>>
    BY <1>5 DEF IInv
  <2>2. on[s] \subseteq Client
    BY DEF IInv, TypeOK, StopTypeOK
  <2>3. \A n \in on[s] : OnInv(s, n) => OnInv(s, n)'
    BY <2>1, <2>2 DEF OnInv
  <2> QED
    BY <1>1, <2>1, <2>3 DEF StopperInv, InMap
<1> QED
  BY <1>2, <1>3, <1>4, <1>5 DEF IInv

LEMMA StopInv == ASSUME IInv, NEW s \in Stopper, Stop(s) PROVE IInv'
<1>1. /\ pass[s] = "idle" /\ pass' = [pass EXCEPT ![s] = "cancel"]
      /\ due' = [due EXCEPT ![s] = Present] /\ visited' = [visited EXCEPT ![s] = {}]
      /\ at' = at
      /\ on' = [on EXCEPT ![s] = {AsyncClients[k] : k \in Present}]
      /\ ran' = [ran EXCEPT ![s] =
                   {n \in {AsyncClients[k] : k \in Present} : life[n] = "running"}]
      /\ UNCHANGED <<life, wg, ch, cancelled>>
      /\ UNCHANGED <<AsyncClients, made, pc, target, mine, late>>
  BY DEF Stop, RangeBegins, workerVars, pushVars
<1>2. StopTypeOK /\ PoolTypeOK /\ WorkerTypeOK /\ MapInv /\ StopperInv(s)
  BY DEF IInv, TypeOK
<1>3. /\ Present \subseteq Keys
      /\ {AsyncClients[k] : k \in Present} \subseteq Client
      /\ {n \in {AsyncClients[k] : k \in Present} : life[n] = "running"} \subseteq Client
  BY <1>2 DEF Present, PoolTypeOK
<1>4. StopTypeOK'
  BY <1>1, <1>2, <1>3 DEF IInv, TypeOK, StopTypeOK
<1>5. /\ pass'[s] = "cancel" /\ due'[s] = Present /\ visited'[s] = {} /\ at'[s] = at[s]
      /\ on'[s] = {AsyncClients[k] : k \in Present}
      /\ ran'[s] = {n \in {AsyncClients[k] : k \in Present} : life[n] = "running"}
      /\ \A t \in Stopper : t # s =>
           UNCHANGED <<pass[t], due[t], visited[t], at[t], on[t], ran[t]>>
  BY <1>1, <1>2 DEF StopTypeOK
<1>6. StopperInv(s)'
  <2>1. on'[s] \subseteq Made' /\ Made' = Made
    BY <1>1, <1>2, <1>5 DEF MapInv, Made
  <2>2. \A n \in on'[s] : OnInv(s, n)'
    BY <1>1, <1>2, <1>5 DEF OnInv, MapInv
  <2> QED
    BY <1>1, <1>2, <1>5, <2>1, <2>2 DEF StopperInv
<1>7. cancelled' \in [Client -> BOOLEAN] /\ \A n \in Client : cancelled[n] => cancelled'[n]
  BY <1>1, <1>2 DEF WorkerTypeOK
<1>8. \A t \in Stopper : \A n \in on'[t] : n \in on[t] \/ \E k \in Keys : AsyncClients[k] = n
  BY <1>3, <1>5
<1> QED
  BY <1>1, <1>4, <1>5, <1>6, <1>7, <1>8, StopFrame

LEMMA VisitInv == ASSUME IInv, NEW s \in Stopper, NEW k \in Keys, Visit(s, k) PROVE IInv'
<1>1. /\ pass[s] \in {"cancel", "wait"} /\ at[s] = NoClient
      /\ k \in Present \ visited[s]
      /\ at' = [at EXCEPT ![s] = AsyncClients[k]]
      /\ visited' = [visited EXCEPT ![s] = visited[s] \cup {k}]
      /\ UNCHANGED <<life, wg, ch, cancelled>>
      /\ UNCHANGED <<AsyncClients, made, pc, target, mine, late>>
      /\ UNCHANGED <<pass, due, on, ran>>
  BY DEF Visit, workerVars, pushVars
<1>2. StopTypeOK /\ PoolTypeOK /\ WorkerTypeOK /\ MapInv /\ StopperInv(s)
  BY DEF IInv, TypeOK
<1>3. AsyncClients[k] \in Made /\ AsyncClients[k] \in Client
  BY <1>1, <1>2, MadeType DEF MapInv
<1>4. StopTypeOK'
  <2>1. at' \in [Stopper -> Client \cup {NoClient}] /\ visited' \in [Stopper -> SUBSET Keys]
    BY <1>1, <1>2, <1>3 DEF StopTypeOK
  <2> QED
    BY <1>1, <1>2, <2>1 DEF StopTypeOK
<1>5. /\ at'[s] = AsyncClients[k] /\ visited'[s] = visited[s] \cup {k}
      /\ \A t \in Stopper : t # s =>
           UNCHANGED <<pass[t], due[t], visited[t], at[t], on[t], ran[t]>>
  BY <1>1, <1>2 DEF StopTypeOK
<1>6. StopperInv(s)'
  <2>1. Made' = Made
    BY <1>1 DEF Made
  <2>2. ASSUME NEW n \in on[s], InMap(n) PROVE OnInv(s, n)'
    <3>1. OnInv(s, n) /\ n \in Made /\ n # NoClient
      BY <1>2, <2>2, MadeType DEF StopperInv
    <3>2. Key(made[n].pool) = k => AsyncClients[k] = n
      BY <2>2 DEF InMap
    <3> QED
      BY <1>1, <1>5, <3>1, <3>2 DEF OnInv
  <2>3. \A n \in on[s] : InMap(n)' = InMap(n)
    BY <1>1 DEF InMap
  <2> QED
    BY <1>1, <1>2, <1>3, <1>5, <2>1, <2>2, <2>3 DEF StopperInv
<1>7. cancelled' \in [Client -> BOOLEAN] /\ \A n \in Client : cancelled[n] => cancelled'[n]
  BY <1>1, <1>2 DEF WorkerTypeOK
<1> QED
  BY <1>1, <1>4, <1>5, <1>6, <1>7, StopFrame

LEMMA CancelsInv == ASSUME IInv, NEW s \in Stopper, Cancels(s) PROVE IInv'
<1> DEFINE n0 == at[s]
<1>1. /\ pass[s] = "cancel" /\ n0 # NoClient
      /\ cancelled' = [cancelled EXCEPT ![n0] = TRUE]
      /\ at' = [at EXCEPT ![s] = NoClient]
      /\ UNCHANGED <<life, wg, ch>>
      /\ UNCHANGED <<AsyncClients, made, pc, target, mine, late>>
      /\ UNCHANGED <<pass, due, visited, on, ran>>
  BY DEF Cancels, Cancel, pushVars
<1>2. StopTypeOK /\ PoolTypeOK /\ WorkerTypeOK /\ StopperInv(s)
  BY DEF IInv, TypeOK
<1>3. n0 \in Client
  BY <1>1, <1>2 DEF StopTypeOK
<1>4. /\ at'[s] = NoClient /\ cancelled'[n0]
      /\ cancelled' \in [Client -> BOOLEAN] /\ \A n \in Client : cancelled[n] => cancelled'[n]
      /\ \A t \in Stopper : t # s =>
           UNCHANGED <<pass[t], due[t], visited[t], at[t], on[t], ran[t]>>
  BY <1>1, <1>2, <1>3 DEF StopTypeOK, WorkerTypeOK
<1>5. StopTypeOK'
  BY <1>1, <1>2 DEF IInv, TypeOK, StopTypeOK
<1>6. StopperInv(s)'
  <2>1. Made' = Made /\ on[s] \subseteq Client
    BY <1>1, <1>2 DEF Made, StopTypeOK
  <2>2. \A n \in on[s] : OnInv(s, n) => OnInv(s, n)'
    BY <1>1, <1>4, <2>1 DEF OnInv
  <2> QED
    BY <1>1, <1>2, <1>4, <2>1, <2>2 DEF StopperInv, InMap
<1> QED
  BY <1>1, <1>4, <1>5, <1>6, StopFrame

LEMMA CancelledAllInv == ASSUME IInv, NEW s \in Stopper, CancelledAll(s) PROVE IInv'
<1>1. /\ pass[s] = "cancel" /\ at[s] = NoClient /\ due[s] \subseteq visited[s]
      /\ pass' = [pass EXCEPT ![s] = "wait"]
      /\ due' = [due EXCEPT ![s] = Present] /\ visited' = [visited EXCEPT ![s] = {}]
      /\ UNCHANGED <<life, wg, ch, cancelled>>
      /\ UNCHANGED <<AsyncClients, made, pc, target, mine, late>>
      /\ UNCHANGED <<at, on, ran>>
  BY DEF CancelledAll, RangeDone, RangeBegins, workerVars, pushVars
<1>2. StopTypeOK /\ PoolTypeOK /\ WorkerTypeOK /\ StopperInv(s)
  BY DEF IInv, TypeOK
<1>3. /\ pass'[s] = "wait" /\ due'[s] = Present /\ visited'[s] = {}
      /\ \A t \in Stopper : t # s =>
           UNCHANGED <<pass[t], due[t], visited[t], at[t], on[t], ran[t]>>
  BY <1>1, <1>2 DEF StopTypeOK
<1>4. StopTypeOK'
  BY <1>1, <1>2 DEF IInv, TypeOK, StopTypeOK, Present
<1>5. StopperInv(s)'
  <2>1. Made' = Made
    BY <1>1 DEF Made
  <2>2. ASSUME NEW n \in on[s], InMap(n) PROVE OnInv(s, n)'
    <3>1. /\ OnInv(s, n) /\ n \in Made /\ n # NoClient /\ Key(made[n].pool) \in Keys
      BY <1>2, <2>2, MadeType DEF StopperInv
    <3>2. Key(made[n].pool) \in Present /\ cancelled[n]
      BY <1>1, <2>2, <3>1 DEF OnInv, InMap, Present
    <3> QED
      BY <1>1, <1>3, <3>2 DEF OnInv
  <2>3. \A n \in on[s] : InMap(n)' = InMap(n)
    BY <1>1 DEF InMap
  <2> QED
    BY <1>1, <1>2, <1>3, <2>1, <2>2, <2>3 DEF StopperInv
<1>6. cancelled' \in [Client -> BOOLEAN] /\ \A n \in Client : cancelled[n] => cancelled'[n]
  BY <1>1, <1>2 DEF WorkerTypeOK
<1> QED
  BY <1>1, <1>3, <1>4, <1>5, <1>6, StopFrame

LEMMA WaitsInv == ASSUME IInv, NEW s \in Stopper, Waits(s) PROVE IInv'
<1> DEFINE n0 == at[s]
<1>1. /\ pass[s] = "wait" /\ n0 # NoClient /\ wg[n0] = 0
      /\ at' = [at EXCEPT ![s] = NoClient]
      /\ UNCHANGED <<life, wg, ch, cancelled>>
      /\ UNCHANGED <<AsyncClients, made, pc, target, mine, late>>
      /\ UNCHANGED <<pass, due, visited, on, ran>>
  BY DEF Waits, MayGoOn, Waited, workerVars, pushVars
<1>2. StopTypeOK /\ PoolTypeOK /\ WorkerTypeOK /\ StopperInv(s) /\ WorkerInv
  BY DEF IInv, TypeOK
<1>3. life[n0] # "running"
  BY <1>1, <1>2 DEF StopTypeOK, WorkerInv
<1>4. /\ at'[s] = NoClient
      /\ \A t \in Stopper : t # s =>
           UNCHANGED <<pass[t], due[t], visited[t], at[t], on[t], ran[t]>>
  BY <1>1, <1>2 DEF StopTypeOK
<1>5. StopTypeOK'
  BY <1>1, <1>2 DEF IInv, TypeOK, StopTypeOK
<1>6. StopperInv(s)'
  <2>1. Made' = Made
    BY <1>1 DEF Made
  <2>2. n0 \in ran[s] => life[n0] = "exited"
    BY <1>2, <1>3 DEF StopperInv
  <2>3. \A n \in on[s] : OnInv(s, n) => OnInv(s, n)'
    BY <1>1, <1>4, <2>2 DEF OnInv
  <2> QED
    BY <1>1, <1>2, <1>4, <2>1, <2>3 DEF StopperInv, InMap
<1>7. cancelled' \in [Client -> BOOLEAN] /\ \A n \in Client : cancelled[n] => cancelled'[n]
  BY <1>1, <1>2 DEF WorkerTypeOK
<1> QED
  BY <1>1, <1>4, <1>5, <1>6, <1>7, StopFrame

LEMMA StopReturnsInv == ASSUME IInv, NEW s \in Stopper, StopReturns(s) PROVE IInv'
<1>1. /\ pass[s] = "wait" /\ at[s] = NoClient /\ due[s] \subseteq visited[s]
      /\ pass' = [pass EXCEPT ![s] = "done"]
      /\ due' = [due EXCEPT ![s] = {}] /\ visited' = [visited EXCEPT ![s] = {}]
      /\ UNCHANGED <<life, wg, ch, cancelled>>
      /\ UNCHANGED <<AsyncClients, made, pc, target, mine, late>>
      /\ UNCHANGED <<at, on, ran>>
  BY DEF StopReturns, RangeDone, workerVars, pushVars
<1>2. StopTypeOK /\ PoolTypeOK /\ WorkerTypeOK /\ StopperInv(s)
  BY DEF IInv, TypeOK
<1>3. /\ pass'[s] = "done"
      /\ \A t \in Stopper : t # s =>
           UNCHANGED <<pass[t], due[t], visited[t], at[t], on[t], ran[t]>>
  BY <1>1, <1>2 DEF StopTypeOK
<1>4. StopTypeOK'
  BY <1>1, <1>2 DEF IInv, TypeOK, StopTypeOK
<1>5. StopperInv(s)'
  <2>1. Made' = Made /\ \A n \in on[s] : n # NoClient
    BY <1>1, <1>2, MadeType DEF Made, StopperInv
  <2>2. \A n \in on[s] : OnInv(s, n) => OnInv(s, n)'
    BY <1>1, <1>3, <2>1 DEF OnInv
  <2> QED
    BY <1>1, <1>2, <1>3, <2>1, <2>2 DEF StopperInv, InMap
<1>6. cancelled' \in [Client -> BOOLEAN] /\ \A n \in Client : cancelled[n] => cancelled'[n]
  BY <1>1, <1>2 DEF WorkerTypeOK
<1> QED
  BY <1>1, <1>3, <1>4, <1>5, <1>6, StopFrame

-----------------------------------------------------------------------------
LEMMA StepInv == IInv /\ [Next]_vars => IInv'
<1> SUFFICES ASSUME IInv, [Next]_vars PROVE IInv'
  OBVIOUS
<1>1. CASE UNCHANGED vars
  <2>1. /\ UNCHANGED <<life, cancelled, wg, ch>>
        /\ UNCHANGED <<AsyncClients, made, pc, target, mine, late>>
        /\ UNCHANGED <<pass, due, visited, at, on, ran>>
    BY <1>1 DEF vars, workerVars, pushVars, stopVars
  <2>2. Made' = Made /\ Present' = Present
    BY <2>1 DEF Made, Present
  <2>3. TypeOK'
    BY <2>1, <2>2 DEF IInv, TypeOK, WorkerTypeOK, PoolTypeOK, StopTypeOK
  <2>4. RightPool' /\ OneClientEach' /\ WorkerInv' /\ MapInv' /\ MadeInv'
    BY <2>1, <2>2 DEF IInv, RightPool, OneClientEach, WorkerInv, MapInv, MadeInv
  <2>5. \A p \in Pusher : PusherInv(p)'
    BY <2>1, <2>2 DEF IInv, PusherInv
  <2>6. \A s \in Stopper : StopperInv(s)'
    BY <2>1, <2>2 DEF IInv, StopperInv, InMap, OnInv
  <2> QED
    BY <2>3, <2>4, <2>5, <2>6 DEF IInv
<1>2. ASSUME NEW n \in Client, Run(n) PROVE IInv'
  BY <1>2, RunInv
<1>3. ASSUME NEW p \in Pusher, PushLog(p) PROVE IInv'
  BY <1>3, LoadInv, MakeInv, StoreInv, PushReturnsInv DEF PushLog
<1>4. ASSUME NEW s \in Stopper, Stop(s) \/ Stopping(s) PROVE IInv'
  BY <1>4, StopInv, VisitInv, CancelsInv, CancelledAllInv, WaitsInv, StopReturnsInv
  DEF Stopping
<1> QED
  BY <1>1, <1>2, <1>3, <1>4 DEF Next

LEMMA Invariance == Spec => []IInv
<1> QED
  BY InitInv, StepInv, PTL DEF Spec

(* Types, and a worker exactly for each client that was made.              *)
THEOREM TypeCorrect == Spec => []TypeOK
<1>1. IInv => TypeOK
  BY DEF IInv
<1> QED
  BY <1>1, Invariance, PTL

(* No log is sent to another pool than the one it was pushed to, however   *)
(* the loads and stores of the goroutines interleave.                      *)
THEOREM LogsGoToTheirPool == Spec => []RightPool
<1>1. IInv => RightPool
  BY DEF IInv
<1> QED
  BY <1>1, Invariance, PTL

(* First pushes that race make at most one client for each goroutine.      *)
THEOREM ClientsAreBounded == Spec => []OneClientEach
<1>1. IInv => OneClientEach
  BY DEF IInv
<1> QED
  BY <1>1, Invariance, PTL

(* Stop stops the clients that were in the map, whatever is pushed and     *)
(* stored while it ranges over it.                                         *)
THEOREM StopReachesClients == Spec => []StopReaches
<1>1. IInv => StopReaches
  BY DEF IInv, StopperInv, OnInv, InMap, StopReaches
<1> QED
  BY <1>1, Invariance, PTL

-----------------------------------------------------------------------------
(* As long as no client is stored, the map holds only those that a Stop    *)
(* found there.                                                            *)
NothingNew(s) ==
  pass[s] # "idle" /\ ~late[s] => \A k \in Present : AsyncClients[k] \in on[s]

WaitInv(s) ==
  NothingNew(s)
    /\ (pass[s] = "wait" /\ at[s] # NoClient /\ ~late[s] => cancelled[at[s]])

(* The steps that leave a stopper and the map alone.                       *)
LEMMA WaitFrame ==
  ASSUME NEW s \in Stopper, IInv, WaitInv(s),
         UNCHANGED <<AsyncClients, pass[s], at[s], on[s], late[s]>>,
         \A n \in Client : cancelled[n] => cancelled'[n]
  PROVE  WaitInv(s)'
<1>1. at[s] # NoClient => at[s] \in Client
  BY DEF IInv, TypeOK, StopTypeOK
<1>2. Present' = Present
  BY DEF Present
<1> QED
  BY <1>1, <1>2 DEF WaitInv, NothingNew

LEMMA CancelledStays ==
  ASSUME IInv, [Next]_vars, NEW n \in Client, cancelled[n] PROVE cancelled'[n]
<1>1. cancelled \in [Client -> BOOLEAN]
  BY DEF IInv, TypeOK, WorkerTypeOK
<1>2. cancelled' = cancelled \/ \E c : cancelled' = [cancelled EXCEPT ![c] = TRUE]
  <2>1. CASE UNCHANGED vars
    BY <2>1 DEF vars, workerVars
  <2>2. CASE \E c \in Client : Run(c)
    BY <2>2 DEF Run, RunStarts, RunTakes, RunReturns
  <2>3. CASE \E p \in Pusher : PushLog(p)
    BY <2>3 DEF PushLog, Load, Make, New, Store, PushReturns, Push, workerVars
  <2>4. CASE \E t \in Stopper : Stop(t) \/ Stopping(t)
    BY <2>4 DEF Stop, Stopping, Visit, Cancels, Cancel, CancelledAll, Waits, StopReturns,
            workerVars
  <2> QED
    BY <2>1, <2>2, <2>3, <2>4 DEF Next
<1> QED
  BY <1>1, <1>2

(* The client a second Range comes to was there when Stop was called, and  *)
(* OnInv says that the first Range has cancelled it.                       *)
LEMMA VisitWaits ==
  ASSUME IInv, NEW s \in Stopper, WaitInv(s), NEW k \in Keys, Visit(s, k)
  PROVE  WaitInv(s)'
<1>1. /\ k \in Present /\ at' = [at EXCEPT ![s] = AsyncClients[k]]
      /\ UNCHANGED <<AsyncClients, late, pass, on, cancelled>>
  BY DEF Visit, pushVars, workerVars
<1>2. StopTypeOK /\ MapInv /\ StopperInv(s)
  BY DEF IInv, TypeOK
<1>3. at'[s] = AsyncClients[k] /\ Present' = Present
  BY <1>1, <1>2 DEF StopTypeOK, Present
<1>4. ASSUME pass[s] = "wait", ~late[s] PROVE cancelled[AsyncClients[k]]
  <2>1. AsyncClients[k] \in on[s]
    BY <1>1, <1>4 DEF WaitInv, NothingNew
  <2>2. InMap(AsyncClients[k])
    BY <1>1, <1>2 DEF MapInv, InMap
  <2> QED
    BY <1>2, <1>4, <2>1, <2>2 DEF StopperInv, OnInv
<1> QED
  BY <1>1, <1>3, <1>4 DEF WaitInv, NothingNew

LEMMA WaitStep ==
  ASSUME IInv, [Next]_vars, NEW s \in Stopper, WaitInv(s) PROVE WaitInv(s)'
<1>1. \A n \in Client : cancelled[n] => cancelled'[n]
  BY CancelledStays
<1>2. StopTypeOK
  BY DEF IInv, TypeOK
<1>3. CASE UNCHANGED vars \/ \E n \in Client : Run(n)
  BY <1>1, <1>3, WaitFrame DEF vars, Run, pushVars, stopVars
<1>4. ASSUME NEW p \in Pusher, PushLog(p) PROVE WaitInv(s)'
  <2>1. CASE (\E k \in Pool : Load(p, k)) \/ Make(p) \/ PushReturns(p)
    BY <1>1, <2>1, WaitFrame DEF Load, Make, PushReturns, stopVars
  <2>2. CASE Store(p)
    <3>1. /\ late'[s] = (late[s] \/ pass[s] # "idle") /\ UNCHANGED <<pass, at, on>>
      BY <2>2 DEF Store, stopVars
    <3> QED
      BY <3>1 DEF WaitInv, NothingNew
  <2> QED
    BY <1>4, <2>1, <2>2 DEF PushLog
<1>5. ASSUME NEW t \in Stopper, t # s, Stop(t) \/ Stopping(t) PROVE WaitInv(s)'
  <2>1. UNCHANGED <<AsyncClients, late, pass[s], at[s], on[s]>>
    BY <1>2, <1>5 DEF StopTypeOK, Stop, Stopping, RangeBegins, Visit, Cancels,
       CancelledAll, Waits, StopReturns, pushVars
  <2> QED
    BY <1>1, <2>1, WaitFrame
<1>6. CASE Stop(s)
  <2>1. /\ pass[s] = "idle" /\ pass'[s] = "cancel" /\ UNCHANGED <<AsyncClients, late>>
        /\ on'[s] = {AsyncClients[k] : k \in Present}
    BY <1>2, <1>6 DEF Stop, RangeBegins, StopTypeOK, pushVars
  <2>2. Present' = Present
    BY <2>1 DEF Present
  <2> QED
    BY <2>1, <2>2 DEF WaitInv, NothingNew
<1>7. CASE \E k \in Keys : Visit(s, k)
  BY <1>7, VisitWaits
<1>8. CASE Cancels(s) \/ CancelledAll(s) \/ Waits(s) \/ StopReturns(s)
  <2>1. /\ UNCHANGED <<AsyncClients, late, on>>
        /\ at'[s] = NoClient \/ pass'[s] = "done"
        /\ pass[s] # "idle"
    BY <1>2, <1>8 DEF Cancels, CancelledAll, Waits, StopReturns, RangeBegins, RangeDone,
       StopTypeOK, pushVars
  <2>2. Present' = Present
    BY <2>1 DEF Present
  <2> QED
    BY <2>1, <2>2 DEF WaitInv, NothingNew
<1> QED
  BY <1>3, <1>4, <1>5, <1>6, <1>7, <1>8 DEF Next, Stopping

(* The second Range of Stop, api.async.multi.pool.go:55-59, waits for no   *)
(* worker that nobody has cancelled, unless a push stores a client after   *)
(* Stop was called: what StopEnds leaves to fairness is that a cancelled   *)
(* worker returns.                                                         *)
THEOREM StopWaitsForCancelled == Spec => []WaitsForCancelled
<1> DEFINE Waiting == \A s \in Stopper : WaitInv(s)
<1>1. Init => Waiting
  BY DEF Init, WaitInv, NothingNew
<1>2. IInv /\ Waiting /\ [Next]_vars => Waiting'
  BY WaitStep
<1>3. Waiting => WaitsForCancelled
  BY DEF WaitInv, WaitsForCancelled
<1> HIDE DEF Waiting
<1> QED
  BY <1>1, <1>2, <1>3, Invariance, PTL DEF Spec

-----------------------------------------------------------------------------
(* What a pool does to its clients.                                        *)
LEMMA PoolStep ==
  ASSUME IInv, Next PROVE WorkerNext \/ UNCHANGED workerVars
<1>1. PoolTypeOK /\ StopTypeOK
  BY DEF IInv, TypeOK
<1>2. CASE \E n \in Client : Run(n)
  BY <1>2 DEF Run, WorkerNext
<1>3. ASSUME NEW p \in Pusher, PushLog(p) PROVE WorkerNext \/ UNCHANGED workerVars
  <2>1. CASE (\E k \in Pool : Load(p, k)) \/ Store(p)
    BY <2>1 DEF Load, Store
  <2>2. CASE Make(p)
    <3>1. Len(made) \in Nat /\ Len(made) + 1 \in Client
      BY <1>1, <2>2, MadeType, ClientAssumption DEF Make
    <3> QED
      BY <2>2, <3>1 DEF Make, WorkerNext
  <2>3. CASE PushReturns(p)
    <3>1. mine[p] \in Client /\ target[p] \in Item
      BY <1>1, <2>3, MadeType, ItemAssumption DEF IInv, PusherInv, PushReturns
    <3> QED
      BY <2>3, <3>1 DEF PushReturns, WorkerNext
  <2> QED
    BY <1>3, <2>1, <2>2, <2>3 DEF PushLog
<1>4. ASSUME NEW s \in Stopper, Stop(s) \/ Stopping(s)
      PROVE  WorkerNext \/ UNCHANGED workerVars
  <2>1. CASE Cancels(s)
    <3>1. at[s] \in Client
      BY <1>1, <2>1 DEF Cancels, StopTypeOK
    <3> QED
      BY <2>1, <3>1 DEF Cancels, WorkerNext
  <2>2. CASE ~Cancels(s)
    BY <1>4, <2>2 DEF Stop, Stopping, Visit, CancelledAll, Waits, StopReturns
  <2> QED
    BY <2>1, <2>2
<1> QED
  BY <1>2, <1>3, <1>4 DEF Next

(* A pool does nothing to its clients but what an AsyncClient's methods    *)
(* do: it pushes to and cancels only clients that NewAsyncClient has made, *)
(* and makes none of them twice.  AsyncClient implements the same          *)
(* AsyncWorker (AsyncClientProofs), so what is proved of a pool holds of   *)
(* one that is made of them.                                               *)
THEOREM PoolUsesWorkers == Spec => WorkerSafety
<1>1. Init => WorkerInit
  BY DEF Init
<1>2. IInv /\ [Next]_vars => [WorkerNext]_workerVars
  BY PoolStep DEF vars
<1> QED
  BY <1>1, <1>2, Invariance, PTL DEF Spec, WorkerSafety
=============================================================================
