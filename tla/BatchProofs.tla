---------------------------- MODULE BatchProofs ----------------------------
(***************************************************************************)
(* Proofs about the batches of AsyncClient: what a request may carry, what *)
(* bufSize is worth, and why the retry without a back-off ends.  The sizes *)
(* are added up by a recursive function; what it computes is proved by     *)
(* induction on its argument, in the form of SetInduction.                 *)
(***************************************************************************)
EXTENDS AsyncClientProofs, WellFoundedInduction

(* Induction over Nat for a set instead of a predicate: the least element  *)
(* outside S, which WFMin gives, cannot be.                                *)
LEMMA SetInduction ==
  ASSUME NEW S, 0 \in S, \A n \in Nat : n \in S => n + 1 \in S
  PROVE  Nat \subseteq S
<1> DEFINE R == {ss \in Nat \X Nat : ss[1] < ss[2]}
           T == Nat \ S
<1> SUFFICES ASSUME T # {} PROVE FALSE
  OBVIOUS
<1>1. T \subseteq Nat
  OBVIOUS
<1>2. IsWellFoundedOn(R, Nat)
  BY NatLessThanWellFounded DEF OpToRel
<1>3. PICK x \in T : \A y \in T : <<y, x>> \notin R
  <2> HIDE DEF R, T
  <2> QED
    BY <1>1, <1>2, WFMin
<1>4. \A y \in T : ~(y < x)
  BY <1>1, <1>3
<1>5. x # 0 /\ x - 1 \in Nat /\ x - 1 < x
  OBVIOUS
<1>6. x - 1 \in S
  BY <1>4, <1>5
<1> QED
  BY <1>5, <1>6

-----------------------------------------------------------------------------
(* SumTo, the sum of the sizes of the first logs.                          *)
IsSum(f, s, n) ==
  f = [i \in 0..n |-> IF i = 0 THEN 0 ELSE f[i - 1] + Size[s[i]]]

LEMMA SumExists ==
  ASSUME NEW s \in Seq(Log)
  PROVE  \A n \in Nat : n <= Len(s) => \E f \in [0..n -> Nat] : IsSum(f, s, n)
<1> DEFINE S == {n \in Nat : n <= Len(s) => \E f \in [0..n -> Nat] : IsSum(f, s, n)}
<1>1. 0 \in S
  <2> DEFINE f == [i \in 0..0 |-> 0]
  <2>1. f \in [0..0 -> Nat] /\ IsSum(f, s, 0)
    BY DEF IsSum
  <2> QED
    BY <2>1
<1>2. ASSUME NEW n \in Nat, n \in S PROVE n + 1 \in S
  <2> SUFFICES ASSUME n + 1 <= Len(s)
               PROVE  \E f \in [0..n + 1 -> Nat] : IsSum(f, s, n + 1)
    OBVIOUS
  <2>1. PICK f \in [0..n -> Nat] : IsSum(f, s, n)
    BY <1>2
  <2>2. s[n + 1] \in Log /\ Size[s[n + 1]] \in Nat
    BY SizeAssumption
  <2> DEFINE g == [i \in 0..n + 1 |-> IF i = n + 1 THEN f[n] + Size[s[n + 1]] ELSE f[i]]
  <2>3. g \in [0..n + 1 -> Nat]
    BY <2>2
  <2>4. \A i \in 0..n + 1 : g[i] = IF i = 0 THEN 0 ELSE g[i - 1] + Size[s[i]]
    BY <2>1 DEF IsSum
  <2>5. IsSum(g, s, n + 1)
    <3> HIDE DEF g
    <3> QED
      BY <2>3, <2>4 DEF IsSum
  <2> QED
    BY <2>3, <2>5
<1> HIDE DEF S
<1>3. Nat \subseteq S
  BY <1>1, <1>2, SetInduction
<1> QED
  BY <1>3 DEF S

(* Two sums agree as far as their sequences do.                            *)
LEMMA SumUnique ==
  ASSUME NEW s, NEW t, NEW n \in Nat, NEW m \in Nat, NEW f, NEW g,
         IsSum(f, s, n), IsSum(g, t, m)
  PROVE  \A k \in Nat : k <= n /\ k <= m /\ (\A i \in 1..k : s[i] = t[i]) => f[k] = g[k]
<1> SUFFICES ASSUME NEW k \in Nat, k <= n, k <= m, \A i \in 1..k : s[i] = t[i]
             PROVE  f[k] = g[k]
  OBVIOUS
<1> DEFINE S == {j \in Nat : j <= k => f[j] = g[j]}
<1>1. /\ \A i \in 0..n : f[i] = IF i = 0 THEN 0 ELSE f[i - 1] + Size[s[i]]
      /\ \A i \in 0..m : g[i] = IF i = 0 THEN 0 ELSE g[i - 1] + Size[t[i]]
  BY DEF IsSum
<1>2. 0 \in S
  <2>1. 0 \in 0..n /\ 0 \in 0..m
    OBVIOUS
  <2>2. f[0] = 0 /\ g[0] = 0
    BY <1>1, <2>1
  <2> QED
    BY <2>2
<1>3. ASSUME NEW j \in Nat, j \in S PROVE j + 1 \in S
  <2> SUFFICES ASSUME j + 1 <= k PROVE f[j + 1] = g[j + 1]
    OBVIOUS
  <2>1. f[j] = g[j] /\ s[j + 1] = t[j + 1]
    BY <1>3
  <2>2. j + 1 \in 0..n /\ j + 1 \in 0..m /\ j + 1 # 0 /\ (j + 1) - 1 = j
    OBVIOUS
  <2>3. f[j + 1] = f[j] + Size[s[j + 1]] /\ g[j + 1] = g[j] + Size[t[j + 1]]
    BY <1>1, <2>2
  <2> QED
    BY <2>1, <2>3
<1> HIDE DEF S
<1>4. Nat \subseteq S
  BY <1>2, <1>3, SetInduction
<1> QED
  BY <1>4 DEF S

(* SumTo is the sum of the first n sizes.                                  *)
LEMMA SumIs ==
  ASSUME NEW s \in Seq(Log), NEW n \in 0..Len(s)
  PROVE  SumTo(s, n) \in Nat /\ \E f : IsSum(f, s, n) /\ SumTo(s, n) = f[n]
<1> DEFINE F == CHOOSE f : IsSum(f, s, n)
<1>1. SumTo(s, n) = F[n]
  BY DEF SumTo, IsSum
<1>2. n \in Nat /\ n <= Len(s)
  OBVIOUS
<1>3. PICK f \in [0..n -> Nat] : IsSum(f, s, n)
  BY <1>2, SumExists
<1>4. IsSum(F, s, n)
  BY <1>3
<1> HIDE DEF F
<1>5. F[n] = f[n]
  BY <1>2, <1>3, <1>4, SumUnique
<1> QED
  BY <1>1, <1>2, <1>3, <1>4, <1>5

(* The sum of a prefix is the same in every sequence that has the prefix.  *)
LEMMA SumOfPrefix ==
  ASSUME NEW s \in Seq(Log), NEW t \in Seq(Log),
         NEW n \in 0..Len(s), n <= Len(t), \A i \in 1..n : s[i] = t[i]
  PROVE  SumTo(s, n) = SumTo(t, n)
<1>1. n \in Nat /\ n \in 0..Len(t)
  OBVIOUS
<1>2. PICK f : IsSum(f, s, n) /\ SumTo(s, n) = f[n]
  BY SumIs
<1>3. PICK g : IsSum(g, t, n) /\ SumTo(t, n) = g[n]
  BY <1>1, SumIs
<1>4. f[n] = g[n]
  BY <1>1, <1>2, <1>3, SumUnique
<1> QED
  BY <1>2, <1>3, <1>4

LEMMA SumStep ==
  ASSUME NEW s \in Seq(Log), NEW n \in 1..Len(s)
  PROVE  SumTo(s, n) = SumTo(s, n - 1) + Size[s[n]]
<1> DEFINE k == n - 1
<1>1. /\ n \in 0..Len(s) /\ n \in 0..n /\ n # 0 /\ n \in Nat
      /\ k \in 0..Len(s) /\ k \in Nat /\ k <= n
  OBVIOUS
<1>2. PICK f : IsSum(f, s, n) /\ SumTo(s, n) = f[n]
  BY <1>1, SumIs
<1>3. f[n] = f[k] + Size[s[n]]
  BY <1>1, <1>2 DEF IsSum
<1> HIDE DEF k
<1>4. PICK g : IsSum(g, s, k) /\ SumTo(s, k) = g[k]
  BY <1>1, SumIs
<1>5. f[k] = g[k]
  BY <1>1, <1>2, <1>4, SumUnique
<1> QED
  BY <1>2, <1>3, <1>4, <1>5 DEF k

LEMMA SumZero == ASSUME NEW s \in Seq(Log) PROVE SumTo(s, 0) = 0
<1>1. 0 \in 0..Len(s)
  OBVIOUS
<1>2. PICK f : IsSum(f, s, 0) /\ SumTo(s, 0) = f[0]
  BY <1>1, SumIs
<1> QED
  BY <1>2 DEF IsSum

LEMMA SumSizeType == ASSUME NEW s \in Seq(Log) PROVE SumSize(s) \in Nat
<1>1. Len(s) \in 0..Len(s)
  OBVIOUS
<1> QED
  BY <1>1, SumIs DEF SumSize

LEMMA SumSizeEmpty == SumSize(<<>>) = 0
<1>1. <<>> \in Seq(Log) /\ Len(<<>>) = 0
  OBVIOUS
<1> QED
  BY <1>1, SumZero DEF SumSize

(* A log that is appended adds its size.                                   *)
LEMMA SumSizeAppend ==
  ASSUME NEW s \in Seq(Log), NEW log \in Log
  PROVE  SumSize(Append(s, log)) = SumSize(s) + Size[log]
<1> DEFINE t == Append(s, log)
           n == Len(s)
<1>1. /\ t \in Seq(Log) /\ Len(t) = n + 1 /\ t[n + 1] = log /\ n \in Nat
      /\ n \in 0..Len(s) /\ n <= Len(t) /\ \A i \in 1..n : s[i] = t[i]
  OBVIOUS
<1>2. n + 1 \in 1..Len(t) /\ (n + 1) - 1 = n
  BY <1>1
<1>3. SumTo(t, n + 1) = SumTo(t, (n + 1) - 1) + Size[t[n + 1]]
  <2> HIDE DEF t, n
  <2> QED
    BY <1>1, <1>2, SumStep
<1>4. SumTo(s, n) = SumTo(t, n)
  <2> HIDE DEF t, n
  <2> QED
    BY <1>1, SumOfPrefix
<1> QED
  <2> HIDE DEF t, n
  <2>1. SumTo(t, Len(t)) = SumTo(s, n) + Size[log]
    BY <1>1, <1>2, <1>3, <1>4
  <2> QED
    BY <2>1 DEF SumSize, t, n

-----------------------------------------------------------------------------
(* How many logs the buffers hold, by where the worker is.                 *)
BatchCounted ==
  /\ pc = "select" => Len(buf) < MaxBulkSize /\ (buf = <<>> => bufSize = 0)
  /\ pc \in {"put", "remove", "backoff", "finish"} => Len(buf) <= MaxBulkSize
  /\ pc \in {"put", "backoff"} => Len(buf) # 0
  /\ pc = "remove" => Len(newBuf) < pos
  /\ pc = "spawned" => buf = <<>> /\ bufSize = 0

LEMMA TakeCounted ==
  ASSUME NEW ev, NEW logs \in Seq(Log), NEW ids, NEW size, ev \in Event,
         Len(logs) < MaxBulkSize, Take(ev, logs, ids, size)
  PROVE  BatchCounted'
<1>1. buf' = Append(logs, ev.log) /\ Len(buf') = Len(logs) + 1 /\ Len(logs) \in Nat
  BY DEF Take, Event
<1>2. \/ pc' = "put"
      \/ pc' = "select" /\ ~(Len(buf') >= MaxBulkSize)
  BY DEF Take
<1>3. MaxBulkSize \in Nat /\ Len(buf') <= MaxBulkSize /\ Len(buf') # 0
  BY <1>1, LimitAssumption
<1>4. buf' # <<>>
  BY <1>3
<1> QED
  BY <1>2, <1>3, <1>4 DEF BatchCounted

LEMMA CountedStep == IInv /\ BatchCounted /\ [Next]_vars => BatchCounted'
<1> SUFFICES ASSUME IInv, BatchCounted, [Next]_vars PROVE BatchCounted'
  OBVIOUS
<1> USE LimitAssumption
<1>1. /\ buf \in Seq(Log) /\ newBuf \in Seq(Log) /\ bufSize \in Nat
      /\ pos \in 1..Len(buf) + 1 /\ Len(buf) \in Nat /\ Len(newBuf) \in Nat
  BY DEF IInv, TypeOK, BatchTypeOK
<1>2. ASSUME UNCHANGED <<pc, batch, scan>> PROVE BatchCounted'
  BY <1>2 DEF BatchCounted, batch, scan
<1>3. CASE UNCHANGED vars \/ Age \/ (\E b \in limbo : LateStore(b))
           \/ \E p \in Producer : PushReturns(p) \/ \E log \in Log : PushLog(p, log)
  BY <1>2, <1>3 DEF vars, Age, LateStore, PushLog, PushReturns
<1>4. CASE \E s \in Stopper : StopReturns(s) \/ \E wait \in BOOLEAN : Stop(s, wait)
  BY <1>2, <1>4 DEF StopReturns, Stop
<1>5. CASE RunStarts
  BY <1>5 DEF RunStarts, BatchCounted, batch, scan
<1>6. CASE SelectDone
  BY <1>6 DEF SelectDone, BatchCounted
<1>7. CASE SelectEvent
  <2> DEFINE ev == Head(ch)
  <2>1. pc = "select" /\ ev \in Event /\ scan' = scan
    BY <1>7 DEF SelectEvent, IInv, TypeOK, QueueTypeOK
  <2> HIDE DEF ev
  <2>2. CASE UNCHANGED <<pc, batch>>
    BY <1>2, <2>1, <2>2
  <2>3. CASE ~TooLarge(ev.log) /\ Overflows(ev.log) /\ pc' = "put" /\ buf' = buf
    <3>1. Size[ev.log] \in Nat /\ Size[ev.log] <= MaxLogSize
      BY <2>1, <2>3, SizeAssumption DEF TooLarge, Event
    <3>2. bufSize # 0
      BY <1>1, <2>3, <3>1 DEF Overflows
    <3>3. Len(buf) # 0
      BY <1>1, <2>1, <3>2 DEF BatchCounted
    <3> QED
      BY <1>1, <2>1, <2>3, <3>3 DEF BatchCounted
  <2>4. CASE Take(ev, buf, idBuf, bufSize)
    BY <1>1, <2>1, <2>4, TakeCounted DEF BatchCounted
  <2> QED
    BY <1>7, <2>2, <2>3, <2>4 DEF SelectEvent, ev
<1>8. CASE SelectTick
  BY <1>1, <1>8 DEF SelectTick, Due, BatchCounted, batch
<1>9. ASSUME NEW e \in Err, PutLogs(e) PROVE BatchCounted'
  <2>1. pc = "put" /\ pc' \in {"finish", "remove", "backoff"} /\ UNCHANGED <<batch, scan>>
    BY <1>9 DEF PutLogs, OnReply
  <2>2. pos = 1 /\ Len(newBuf) = 0
    BY <2>1 DEF IInv, LoopsAtRest
  <2> QED
    BY <2>1, <2>2 DEF BatchCounted, batch, scan
<1>10. CASE RemoveStep
  <2>1. /\ pc = "remove" /\ pc' = pc /\ batch' = batch /\ pos' = pos + 1
        /\ pos <= Len(buf)
        /\ newBuf' = newBuf \/ newBuf' = Append(newBuf, buf[pos])
    BY <1>10 DEF RemoveStep, Keep
  <2>2. Len(newBuf') <= Len(newBuf) + 1
    <3>1. buf[pos] \in Log
      BY <1>1, <2>1
    <3> QED
      BY <1>1, <2>1, <3>1
  <2>3. Len(newBuf') \in Nat
    BY <1>1, <2>1
  <2> QED
    BY <1>1, <2>1, <2>2, <2>3 DEF BatchCounted, batch
<1>11. CASE RemoveReturns
  <2>1. pc = "remove" /\ buf' = newBuf /\ pc' = AfterRemove(newBuf)
    BY <1>11 DEF RemoveReturns
  <2>2. Len(newBuf) <= Len(buf)
    BY <1>1, <2>1 DEF BatchCounted
  <2>3. pc' \in {"put", "backoff"} => Len(newBuf) # 0
    BY <1>1, <2>1 DEF AfterRemove
  <2>4. pc' \in {"put", "backoff", "finish"}
    BY <2>1 DEF AfterRemove
  <2> QED
    BY <1>1, <2>1, <2>2, <2>3, <2>4 DEF BatchCounted
<1>12. CASE TimerFires \/ StopsRetrying
  BY <1>12 DEF TimerFires, StopsRetrying, BatchCounted, batch, scan
<1>13. CASE FinishStep
  BY <1>13 DEF FinishStep, BatchCounted, batch
<1>14. CASE SendReturns
  <2>1. BackInRun
    BY <1>14 DEF SendReturns
  <2>2. CASE held = NoEvent
    BY <2>1, <2>2 DEF BackInRun, BatchCounted
  <2>3. CASE held # NoEvent
    <3>1. Take(held, <<>>, <<>>, 0) /\ held \in Event
      BY <2>1, <2>3 DEF BackInRun, IInv, TypeOK, QueueTypeOK
    <3>2. <<>> \in Seq(Log) /\ Len(<<>>) < MaxBulkSize
      OBVIOUS
    <3> QED
      BY <3>1, <3>2, TakeCounted
  <2> QED
    BY <2>2, <2>3
<1> QED
  BY <1>3, <1>4, <1>5, <1>6, <1>7, <1>8, <1>9, <1>10, <1>11, <1>12, <1>13, <1>14
  DEF Next, Run, Send

-----------------------------------------------------------------------------
(* What the buffers weigh, by where the worker is: the group never more    *)
(* than it may, bufSize exactly as much in run(), what a removal keeps at  *)
(* most as much as what it has gone through.  A removal that follows the   *)
(* error of proto.Marshal has a log to remove, before or behind pos.       *)
Weighed ==
  /\ SumSize(buf) <= MaxLogGroupSize
  /\ pc \in {"spawned", "select"} => bufSize = SumSize(buf)
  /\ pc = "remove" => SumSize(newBuf) <= SumTo(buf, pos - 1)
  /\ held # NoEvent => ~TooLarge(held.log)

HasBadLog ==
  pc = "remove" /\ err = "Utf8" =>
    \E i \in 1..Len(buf) :
      CheckLog(buf[i]) # Nil /\ (i < pos => Len(newBuf) < pos - 1)

LEMMA TakeWeighed ==
  ASSUME NEW ev \in Event, NEW logs \in Seq(Log), NEW ids, NEW size \in Nat,
         size = SumSize(logs), size + Size[ev.log] <= MaxLogGroupSize,
         Take(ev, logs, ids, size)
  PROVE  /\ SumSize(buf') <= MaxLogGroupSize /\ bufSize' = SumSize(buf')
         /\ pc' \in {"put", "select"}
<1>1. ev.log \in Log /\ Size[ev.log] \in Nat
  BY SizeAssumption DEF Event
<1>2. buf' = Append(logs, ev.log) /\ bufSize' = size + Size[ev.log]
  BY DEF Take
<1>3. SumSize(buf') = size + Size[ev.log]
  BY <1>1, <1>2, SumSizeAppend
<1>4. pc' \in {"put", "select"}
  BY DEF Take
<1> QED
  BY <1>2, <1>3, <1>4

LEMMA WeighedStep == IInv /\ Weighed /\ [Next]_vars => Weighed'
<1> SUFFICES ASSUME IInv, Weighed, [Next]_vars PROVE Weighed'
  OBVIOUS
<1> USE LimitAssumption
<1>1. /\ buf \in Seq(Log) /\ newBuf \in Seq(Log) /\ bufSize \in Nat
      /\ pos \in 1..Len(buf) + 1 /\ Len(buf) \in Nat
      /\ held \in Event \cup {NoEvent}
  BY DEF IInv, TypeOK, BatchTypeOK, QueueTypeOK
<1>2. SumSize(<<>>) = 0 /\ SumSize(buf) \in Nat /\ SumSize(newBuf) \in Nat
  BY <1>1, SumSizeEmpty, SumSizeType
(* A step that leaves the batch alone need only not enter a stricter place. *)
<1>3. ASSUME UNCHANGED <<batch, scan>>,
             pc' = pc \/ pc' \notin {"spawned", "select", "remove"} \/ pc = "spawned"
      PROVE  Weighed'
  <2>1. pc' = "remove" => pc = "remove" \/ pc = "spawned"
    BY <1>3
  <2>2. CASE pc = "spawned"
    <3>1. pos = 1 /\ newBuf = <<>>
      BY <2>2 DEF IInv, LoopsAtRest
    <3>2. SumTo(buf, pos - 1) = 0
      BY <1>1, <3>1, SumZero
    <3> QED
      BY <1>2, <1>3, <2>2, <3>1, <3>2 DEF Weighed, batch, scan
  <2>3. CASE pc # "spawned"
    BY <1>3, <2>3 DEF Weighed, batch, scan
  <2> QED
    BY <2>2, <2>3
<1>4. CASE UNCHANGED vars \/ Age \/ (\E b \in limbo : LateStore(b))
           \/ \E p \in Producer : PushReturns(p) \/ \E log \in Log : PushLog(p, log)
  BY <1>3, <1>4 DEF vars, Age, LateStore, PushLog, PushReturns
<1>5. CASE \E s \in Stopper : StopReturns(s) \/ \E wait \in BOOLEAN : Stop(s, wait)
  BY <1>3, <1>5 DEF StopReturns, Stop
<1>6. CASE RunStarts \/ SelectDone \/ SelectTick \/ TimerFires \/ StopsRetrying
  BY <1>3, <1>6 DEF RunStarts, SelectDone, SelectTick, TimerFires, StopsRetrying
<1>7. CASE SelectEvent
  <2> DEFINE ev == Head(ch)
  <2>1. pc = "select" /\ ev \in Event /\ scan' = scan
    BY <1>7 DEF SelectEvent, IInv, TypeOK, QueueTypeOK
  <2>2. Size[ev.log] \in Nat
    BY <2>1, SizeAssumption DEF Event
  <2> HIDE DEF ev
  <2>3. CASE UNCHANGED <<pc, batch>>
    BY <1>3, <2>1, <2>3
  <2>4. CASE ~TooLarge(ev.log) /\ held' = ev /\ pc' = "put" /\ UNCHANGED <<buf, bufSize>>
    BY <2>1, <2>4 DEF Weighed
  <2>5. CASE ~Overflows(ev.log) /\ Take(ev, buf, idBuf, bufSize) /\ held' = held
    <3>1. bufSize = SumSize(buf) /\ bufSize + Size[ev.log] <= MaxLogGroupSize
      BY <1>1, <2>1, <2>2, <2>5 DEF Weighed, Overflows
    <3>2. /\ SumSize(buf') <= MaxLogGroupSize /\ bufSize' = SumSize(buf')
          /\ pc' \in {"put", "select"}
      BY <1>1, <2>1, <2>5, <3>1, TakeWeighed
    <3> QED
      BY <2>5, <3>2 DEF Weighed, TooLarge
  <2> QED
    BY <1>7, <2>3, <2>4, <2>5 DEF SelectEvent, ev
<1>8. ASSUME NEW e \in Err, PutLogs(e) PROVE Weighed'
  <2>1. /\ pc = "put" /\ pc' \in {"finish", "remove", "backoff"}
        /\ UNCHANGED <<batch, scan>>
    BY <1>8 DEF PutLogs, OnReply
  <2>2. pos = 1 /\ newBuf = <<>>
    BY <2>1 DEF IInv, LoopsAtRest
  <2>3. SumTo(buf, pos - 1) = 0
    BY <1>1, <2>2, SumZero
  <2> QED
    BY <1>2, <2>1, <2>2, <2>3 DEF Weighed, batch, scan
<1>9. CASE RemoveStep
  <2>1. /\ pc = "remove" /\ pc' = pc /\ batch' = batch /\ pos' = pos + 1
        /\ pos <= Len(buf)
        /\ newBuf' = newBuf \/ newBuf' = Append(newBuf, buf[pos])
    BY <1>9 DEF RemoveStep, Keep
  <2>2. /\ buf[pos] \in Log /\ Size[buf[pos]] \in Nat
        /\ pos \in 1..Len(buf) /\ pos - 1 \in 0..Len(buf) /\ pos' - 1 = pos
    BY <1>1, <2>1, SizeAssumption
  <2>3. SumTo(buf, pos) = SumTo(buf, pos - 1) + Size[buf[pos]]
    BY <1>1, <2>2, SumStep
  <2>4. SumTo(buf, pos - 1) \in Nat
    BY <1>1, <2>2, SumIs
  <2>5. SumSize(Append(newBuf, buf[pos])) = SumSize(newBuf) + Size[buf[pos]]
    BY <1>1, <2>2, SumSizeAppend
  <2>6. SumSize(newBuf) <= SumTo(buf, pos - 1)
    BY <2>1 DEF Weighed
  <2>7. SumSize(newBuf') <= SumTo(buf, pos)
    <3>1. CASE newBuf' = newBuf
      BY <1>2, <2>2, <2>3, <2>4, <2>6, <3>1
    <3>2. CASE newBuf' = Append(newBuf, buf[pos])
      BY <1>2, <2>2, <2>3, <2>4, <2>5, <2>6, <3>2
    <3> QED
      BY <2>1, <3>1, <3>2
  <2> QED
    BY <2>1, <2>2, <2>7 DEF Weighed, batch
<1>10. CASE RemoveReturns
  <2>1. /\ pc = "remove" /\ pos = Len(buf) + 1 /\ buf' = newBuf
        /\ pc' \in {"put", "backoff", "finish"} /\ held' = held
    BY <1>1, <1>10 DEF RemoveReturns, AfterRemove
  <2>2. SumSize(newBuf) <= SumSize(buf)
    BY <1>1, <2>1 DEF Weighed, SumSize
  <2>3. SumSize(buf') <= MaxLogGroupSize
    BY <1>2, <2>1, <2>2 DEF Weighed
  <2> QED
    BY <2>1, <2>3 DEF Weighed
<1>11. CASE FinishStep
  BY <1>11 DEF FinishStep, Weighed, batch
<1>12. CASE SendReturns
  <2>1. BackInRun /\ held' = NoEvent
    BY <1>12 DEF SendReturns
  <2>2. CASE held = NoEvent
    <3>1. buf' = <<>> /\ bufSize' = 0 /\ pc' = "select"
      BY <2>1, <2>2 DEF BackInRun
    <3> QED
      BY <1>2, <2>1, <3>1 DEF Weighed
  <2>3. CASE held # NoEvent
    <3>1. Take(held, <<>>, <<>>, 0) /\ held \in Event /\ <<>> \in Seq(Log)
      BY <1>1, <2>1, <2>3 DEF BackInRun
    <3>2. Size[held.log] \in Nat
      BY <3>1, SizeAssumption DEF Event
    <3>3. 0 + Size[held.log] <= MaxLogGroupSize
      BY <2>3, <3>2 DEF Weighed, TooLarge
    <3>4. /\ SumSize(buf') <= MaxLogGroupSize /\ bufSize' = SumSize(buf')
          /\ pc' \in {"put", "select"}
      <4>1. 0 \in Nat /\ 0 = SumSize(<<>>)
        BY <1>2
      <4> QED
        BY <3>1, <3>3, <4>1, TakeWeighed
    <3> QED
      BY <2>1, <3>4 DEF Weighed
  <2> QED
    BY <2>2, <2>3
<1> QED
  BY <1>4, <1>5, <1>6, <1>7, <1>8, <1>9, <1>10, <1>11, <1>12 DEF Next, Run, Send

-----------------------------------------------------------------------------
(* A group that proto.Marshal refuses holds a log that CheckLog refuses.   *)
LEMMA BadLogStep == IInv /\ BatchCounted /\ HasBadLog /\ [Next]_vars => HasBadLog'
<1> SUFFICES ASSUME IInv, BatchCounted, HasBadLog, [Next]_vars PROVE HasBadLog'
  OBVIOUS
<1>1. /\ buf \in Seq(Log) /\ newBuf \in Seq(Log) /\ pos \in 1..Len(buf) + 1
      /\ Len(buf) \in Nat /\ Len(newBuf) \in Nat
  BY DEF IInv, TypeOK, BatchTypeOK
<1>2. ASSUME UNCHANGED <<pc, batch, scan, err>> PROVE HasBadLog'
  BY <1>2 DEF HasBadLog, batch, scan
<1>3. ASSUME pc' # "remove" PROVE HasBadLog'
  BY <1>3 DEF HasBadLog
<1>4. CASE UNCHANGED vars \/ Age \/ (\E b \in limbo : LateStore(b))
           \/ \E p \in Producer : PushReturns(p) \/ \E log \in Log : PushLog(p, log)
  BY <1>2, <1>4 DEF vars, Age, LateStore, PushLog, PushReturns
<1>5. CASE \E s \in Stopper : StopReturns(s) \/ \E wait \in BOOLEAN : Stop(s, wait)
  BY <1>2, <1>5 DEF StopReturns, Stop
<1>6. CASE RunStarts \/ SelectDone \/ SelectTick \/ TimerFires \/ StopsRetrying
  BY <1>3, <1>6 DEF RunStarts, SelectDone, SelectTick, TimerFires, StopsRetrying
<1>7. CASE SelectEvent
  <2>1. pc = "select" /\ (pc' = pc \/ pc' = "put" \/ pc' = "select")
    BY <1>7 DEF SelectEvent, Take
  <2> QED
    BY <1>3, <2>1
<1>8. ASSUME NEW e \in Err, PutLogs(e) PROVE HasBadLog'
  <2>1. pc = "put" /\ err' = e /\ UNCHANGED <<batch, scan>>
    BY <1>8 DEF PutLogs
  <2>2. pos = 1
    BY <2>1 DEF IInv, LoopsAtRest
  <2>3. ASSUME e = "Utf8"
        PROVE  \E i \in 1..Len(buf) : CheckLog(buf[i]) # Nil
    <3>1. Logs(buf) \cap BadUtf8 # {}
      <4>1. "Utf8" \notin ServiceErr \cup {Nil}
        BY NilAssumption DEF ServiceErr, PutErr
      <4> QED
        BY <1>8, <2>3, <4>1 DEF PutLogs, Replies
    <3>2. PICK i \in 1..Len(buf) : buf[i] \in BadUtf8
      BY <1>1, <3>1 DEF Logs
    <3>3. CheckLog(buf[i]) # Nil
      BY <3>2, NilAssumption DEF CheckLog, CheckErr
    <3> QED
      BY <3>2, <3>3
  <2> QED
    BY <2>1, <2>2, <2>3 DEF HasBadLog, batch, scan
<1>9. CASE RemoveStep
  <2> SUFFICES ASSUME err = "Utf8" PROVE HasBadLog'
    BY <1>9 DEF RemoveStep, HasBadLog
  <2>1. /\ pc = "remove" /\ batch' = batch /\ pos' = pos + 1 /\ pos <= Len(buf)
        /\ IF CheckLog(buf[pos]) # Nil
           THEN newBuf' = newBuf ELSE newBuf' = Append(newBuf, buf[pos])
    BY <1>9 DEF RemoveStep, Keep
  <2>2. PICK i \in 1..Len(buf) :
          CheckLog(buf[i]) # Nil /\ (i < pos => Len(newBuf) < pos - 1)
    BY <2>1 DEF HasBadLog
  <2>3. Len(newBuf) < pos
    BY <2>1 DEF BatchCounted
  <2>4. buf[pos] \in Log
    BY <1>1, <2>1
  <2>5. i < pos + 1 => Len(newBuf') < pos
    <3>1. CASE CheckLog(buf[pos]) # Nil
      <4>1. newBuf' = newBuf
        BY <2>1, <3>1
      <4> QED
        BY <2>3, <4>1
    <3>2. CASE CheckLog(buf[pos]) = Nil
      <4>1. i # pos
        BY <2>2, <3>2
      <4>2. Len(newBuf') = Len(newBuf) + 1
        BY <1>1, <2>1, <2>4, <3>2
      <4> QED
        BY <1>1, <2>2, <4>1, <4>2
    <3> QED
      BY <3>1, <3>2
  <2> QED
    BY <1>1, <2>1, <2>2, <2>5 DEF HasBadLog, batch
<1>10. CASE RemoveReturns
  BY <1>3, <1>10 DEF RemoveReturns, AfterRemove
<1>11. CASE FinishStep
  BY <1>3, <1>11 DEF FinishStep
<1>12. CASE SendReturns
  BY <1>3, <1>12 DEF SendReturns, BackInRun, Take
<1> QED
  BY <1>4, <1>5, <1>6, <1>7, <1>8, <1>9, <1>10, <1>11, <1>12 DEF Next, Run, Send

-----------------------------------------------------------------------------
BInv == IInv /\ BatchCounted /\ Weighed /\ HasBadLog

(* HasBadLog needs the counts; the counts and the weights need the types.  *)
LEMMA BatchInvariance == Spec => []BInv
<1>1. Init => BInv
  <2> SUFFICES ASSUME Init PROVE BInv
    OBVIOUS
  <2>1. BatchCounted
    BY LimitAssumption DEF Init, BatchCounted
  <2>2. Weighed /\ HasBadLog
    BY LimitAssumption, SumSizeEmpty DEF Init, Weighed, HasBadLog
  <2> QED
    BY <2>1, <2>2, InitInv DEF BInv
<1>2. BInv /\ [Next]_vars => BInv'
  BY StepInv, CountedStep, WeighedStep, BadLogStep DEF BInv
<1> QED
  BY <1>1, <1>2, PTL DEF Spec

(* What PutLogs may be given, api.async.go:117-127: whatever the sizes of  *)
(* the logs and the limits, a request is not empty and stays within both   *)
(* limits, also after a removal and with the event kept across a send().   *)
THEOREM BatchesWithinLimits == Spec => []BatchWithinLimits
<1>1. BInv => BatchWithinLimits
  BY LimitAssumption
  DEF BInv, BatchCounted, Weighed, BatchWithinLimits, IInv, TypeOK, BatchTypeOK
<1> QED
  BY <1>1, BatchInvariance, PTL

(* bufSize is the sum of the sizes in buf whenever run() tests it.         *)
THEOREM BufSizeIsExact == Spec => []BufSizeExact
<1>1. BInv => BufSizeExact
  BY DEF BInv, Weighed, BufSizeExact
<1> QED
  BY <1>1, BatchInvariance, PTL

(* The loop of send() that does not back off makes the group smaller each  *)
(* time, api.async.go:166-173: it ends after at most MaxBulkSize rounds.   *)
THEOREM BusyRetriesShrink == Spec => BusyRetryShrinks
<1>1. BInv /\ [Next]_vars => [pc = "remove" /\ pc' = "put" => Len(buf') < Len(buf)]_vars
  <2> SUFFICES ASSUME BInv, Next, pc = "remove", pc' = "put"
               PROVE  Len(buf') < Len(buf)
    OBVIOUS
  <2>1. RemoveReturns
    BY DEF Next, PushReturns, PushLog, StopReturns, Stop, Age, LateStore, Run, Send,
           RunStarts, SelectDone, SelectEvent, SelectTick, PutLogs, RemoveStep,
           TimerFires, StopsRetrying, FinishStep, SendReturns
  <2>2. /\ pos = Len(buf) + 1 /\ buf' = newBuf /\ err = "Utf8"
        /\ Len(buf) \in Nat /\ Len(newBuf) \in Nat
    BY <2>1 DEF RemoveReturns, AfterRemove, BInv, IInv, TypeOK, BatchTypeOK
  <2>3. \E i \in 1..Len(buf) : i < pos => Len(newBuf) < pos - 1
    BY <2>2 DEF BInv, HasBadLog
  <2> QED
    BY <2>2, <2>3
<1> QED
  BY <1>1, BatchInvariance, PTL DEF Spec, BusyRetryShrinks
=============================================================================
