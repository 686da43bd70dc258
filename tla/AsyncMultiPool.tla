--------------------------- MODULE AsyncMultiPool ---------------------------
(***************************************************************************)
(* klog/api.async.multi.pool.go: goroutines that push logs to many pools,  *)
(* the sync.Map with an AsyncClient per pool, made by the first push, and  *)
(* goroutines that call Stop, which ranges over the map twice.             *)
(***************************************************************************)
EXTENDS AsyncWorker

CONSTANTS
  Pusher, Stopper,  \* goroutines; a stopper calls Stop once
  Project, LogPool, \* names; each goroutine pushes to any of their pairs
  MaxClients,       \* bound: at most this many clients are made
  NoClient,         \* a nil *AsyncClient, and a key that is not in the map
  NoPool            \* no PushLog is under way

Pool == Project \X LogPool

ASSUME ClientAssumption == MaxClients \in Nat /\ Client = 1..MaxClients
ASSUME ItemAssumption == Item = Pool
ASSUME NoClientAssumption == NoClient \notin Client

VARIABLES
  AsyncClients, \* the sync.Map, from keys to clients
  made,         \* per client, the pool in its options, and who made it
  pc, target,   \* per pusher, how far its PushLog is, and its arguments
  mine,         \* and its variable client
  pass,         \* per stopper, which Range it is in
  due, visited, \* the keys this Range must visit, and those it has
  at,           \* the client the function it calls is at work on
  on, ran,      \* history: the clients in the map when Stop was called,
                \*   and those of them whose worker was running then
  late          \* history: a client was stored since Stop was called

pushVars == <<AsyncClients, made, pc, target, mine, late>>
stopVars == <<pass, due, visited, at, on, ran>>
vars == <<workerVars, pushVars, stopVars>>

(* fmt.Sprintf("%s\001%s"), for names without the separator.               *)
KeyOfProject(k) == <<k[1]>>                 \* mutant: one client per project
Key(k) == <<k[1], k[2]>>
Keys == {Key(k) : k \in Pool}

Present == {k \in Keys : AsyncClients[k] # NoClient}

Init ==
  /\ WorkerInit /\ life = [n \in Client |-> "none"]
  /\ AsyncClients = [k \in Keys |-> NoClient] /\ made = <<>>
  /\ pc = [p \in Pusher |-> "idle"] /\ target = [p \in Pusher |-> NoPool]
  /\ mine = [p \in Pusher |-> NoClient]
  /\ pass = [s \in Stopper |-> "idle"]
  /\ due = [s \in Stopper |-> {}] /\ visited = [s \in Stopper |-> {}]
  /\ at = [s \in Stopper |-> NoClient]
  /\ on = [s \in Stopper |-> {}] /\ ran = [s \in Stopper |-> {}]
  /\ late = [s \in Stopper |-> FALSE]

-----------------------------------------------------------------------------
(* PushLog: load; if there is none, make a client and store it; push.      *)
Load(p, k) ==
  /\ pc[p] = "idle"
  /\ target' = [target EXCEPT ![p] = k]
  /\ mine' = [mine EXCEPT ![p] = AsyncClients[Key(k)]]
  /\ pc' = [pc EXCEPT ![p] = IF Key(k) \in Present THEN "push" ELSE "make"]
  /\ UNCHANGED <<workerVars, AsyncClients, made, late, stopVars>>

Make(p) ==
  /\ pc[p] = "make"
  /\ Len(made) < MaxClients
  /\ New(Len(made) + 1)
  /\ made' = Append(made, [pool |-> target[p], by |-> p])
  /\ mine' = [mine EXCEPT ![p] = Len(made) + 1]
  /\ pc' = [pc EXCEPT ![p] = "store"]
  /\ UNCHANGED <<AsyncClients, target, late, stopVars>>

StoreNothing(p) == UNCHANGED AsyncClients   \* mutant: the client is not kept
StoreClient(p) == AsyncClients' = [AsyncClients EXCEPT ![Key(target[p])] = mine[p]]

Store(p) ==
  /\ pc[p] = "store"
  /\ StoreClient(p)
  /\ late' = [s \in Stopper |-> late[s] \/ pass[s] # "idle"]
  /\ pc' = [pc EXCEPT ![p] = "push"]
  /\ UNCHANGED <<workerVars, made, target, mine, stopVars>>

PushReturns(p) ==
  /\ pc[p] = "push"
  /\ Push(mine[p], target[p])
  /\ pc' = [pc EXCEPT ![p] = "idle"]
  /\ target' = [target EXCEPT ![p] = NoPool] /\ mine' = [mine EXCEPT ![p] = NoClient]
  /\ UNCHANGED <<AsyncClients, made, late, stopVars>>

-----------------------------------------------------------------------------
(* Stop.  sync.Map.Range calls its function for each key that is there     *)
(* when it begins, once, and maybe for keys stored while it runs; it loads *)
(* the client of a key when it comes to it.                                *)
RangeBegins(s, which) ==
  /\ pass' = [pass EXCEPT ![s] = which]
  /\ due' = [due EXCEPT ![s] = Present]
  /\ visited' = [visited EXCEPT ![s] = {}]
  /\ UNCHANGED at

RangeDoneEarly(s) ==                        \* mutant: return false
  at[s] = NoClient /\ (due[s] # {} => visited[s] # {})
RangeDone(s) == at[s] = NoClient /\ due[s] \subseteq visited[s]

Stop(s) ==
  /\ pass[s] = "idle"
  /\ RangeBegins(s, "cancel")
  /\ on' = [on EXCEPT ![s] = {AsyncClients[k] : k \in Present}]
  /\ ran' = [ran EXCEPT ![s] = {n \in {AsyncClients[k] : k \in Present} : life[n] = "running"}]
  /\ UNCHANGED <<workerVars, pushVars>>

Visit(s, k) ==
  /\ pass[s] \in {"cancel", "wait"} /\ at[s] = NoClient
  /\ k \in Present \ visited[s]
  /\ at' = [at EXCEPT ![s] = AsyncClients[k]]
  /\ visited' = [visited EXCEPT ![s] = @ \cup {k}]
  /\ UNCHANGED <<workerVars, pushVars, pass, due, on, ran>>

(* client.Stop(false)                                                      *)
Cancels(s) ==
  /\ pass[s] = "cancel" /\ at[s] # NoClient
  /\ Cancel(at[s])
  /\ at' = [at EXCEPT ![s] = NoClient]
  /\ UNCHANGED <<pushVars, pass, due, visited, on, ran>>

CancelledAll(s) ==
  /\ pass[s] = "cancel" /\ RangeDone(s)
  /\ RangeBegins(s, "wait")
  /\ UNCHANGED <<workerVars, pushVars, on, ran>>

(* client.wg.Wait()                                                        *)
WaitsNever(s) == TRUE                       \* mutant: Stop(false) again
MayGoOn(s) == Waited(at[s])

Waits(s) ==
  /\ pass[s] = "wait" /\ at[s] # NoClient
  /\ MayGoOn(s)
  /\ at' = [at EXCEPT ![s] = NoClient]
  /\ UNCHANGED <<workerVars, pushVars, pass, due, visited, on, ran>>

StopReturns(s) ==
  /\ pass[s] = "wait" /\ RangeDone(s)
  /\ pass' = [pass EXCEPT ![s] = "done"]
  /\ due' = [due EXCEPT ![s] = {}] /\ visited' = [visited EXCEPT ![s] = {}]
  /\ UNCHANGED <<workerVars, pushVars, at, on, ran>>

-----------------------------------------------------------------------------
Run(n) == /\ RunStarts(n) \/ RunTakes(n) \/ RunReturns(n)
          /\ UNCHANGED <<pushVars, stopVars>>
PushLog(p) == (\E k \in Pool : Load(p, k)) \/ Make(p) \/ Store(p) \/ PushReturns(p)
Stopping(s) == (\E k \in Keys : Visit(s, k)) \/ Cancels(s) \/ CancelledAll(s)
               \/ Waits(s) \/ StopReturns(s)

Next ==
  \/ \E n \in Client : Run(n)
  \/ \E p \in Pusher : PushLog(p)
  \/ \E s \in Stopper : Stop(s) \/ Stopping(s)

Spec == Init /\ [][Next]_vars

(* A worker starts and, once cancelled, returns (WorkerEnds), and a Stop   *)
(* goes on whenever it can.                                                *)
Returns(n) == RunReturns(n) /\ UNCHANGED <<pushVars, stopVars>>
Starts(n) == RunStarts(n) /\ UNCHANGED <<pushVars, stopVars>>
LiveSpec ==
  /\ Spec
  /\ \A n \in Client : WF_vars(Starts(n)) /\ WF_vars(Returns(n))
  /\ \A s \in Stopper : WF_vars(Stopping(s))

-----------------------------------------------------------------------------
Made == DOMAIN made

PoolTypeOK ==
  /\ AsyncClients \in [Keys -> Client \cup {NoClient}]
  /\ made \in Seq([pool : Pool, by : Pusher]) /\ Len(made) <= MaxClients
  /\ pc \in [Pusher -> {"idle", "make", "store", "push"}]
  /\ target \in [Pusher -> Pool \cup {NoPool}]
  /\ mine \in [Pusher -> Client \cup {NoClient}]

StopTypeOK ==
  /\ pass \in [Stopper -> {"idle", "cancel", "wait", "done"}]
  /\ due \in [Stopper -> SUBSET Keys] /\ visited \in [Stopper -> SUBSET Keys]
  /\ at \in [Stopper -> Client \cup {NoClient}]
  /\ on \in [Stopper -> SUBSET Client] /\ ran \in [Stopper -> SUBSET Client]
  /\ late \in [Stopper -> BOOLEAN]

(* The type of the state; a client has a life exactly if it was made.      *)
TypeOK ==
  /\ WorkerTypeOK /\ PoolTypeOK /\ StopTypeOK
  /\ \A n \in Client : life[n] = "none" <=> n \notin Made

(* A log goes to the channel of a client of the pool it was pushed to, be  *)
(* it the one in the map or one that has been overwritten there.           *)
RightPool ==
  \A n \in Made : \A i \in DOMAIN ch[n] : ch[n][i] = made[n].pool

(* A goroutine makes at most one client for a pool: however their loads    *)
(* and stores interleave, there are no more clients of a pool than         *)
(* goroutines that push to it.                                             *)
OneClientEach ==
  \A m, n \in Made : made[m] = made[n] => m = n

(* When Stop returns, it has cancelled every client that was in the map    *)
(* when it was called and still is, and those of them that ran then have   *)
(* returned.                                                               *)
StopReaches ==
  \A s \in Stopper : pass[s] = "done" =>
    \A n \in on[s] : AsyncClients[Key(made[n].pool)] = n =>
      cancelled[n] /\ (n \in ran[s] => life[n] = "exited")

(* Stop waits only for a worker that will return: the client the second    *)
(* Range is at has been cancelled by the first, or it is one that was      *)
(* stored in the map after Stop was called.                                *)
WaitsForCancelled ==
  \A s \in Stopper :
    pass[s] = "wait" /\ at[s] # NoClient /\ ~late[s] => cancelled[at[s]]

(* Stop returns, unless a client is stored in the map after it was called. *)
StopEnds == \A s \in Stopper : pass[s] # "idle" ~> pass[s] = "done" \/ late[s]

-----------------------------------------------------------------------------
(* What the documentation says, where the code differs.                    *)

(* README.md:123-124: Stop is for the exit of the process, so it returns.  *)
(* A client that is stored after the first Range and before the second is  *)
(* waited for although nobody cancels it.                                  *)
StopAlwaysEnds == \A s \in Stopper : pass[s] # "idle" ~> pass[s] = "done"
=============================================================================
