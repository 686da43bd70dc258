------------------------- MODULE AsyncClientProofs -------------------------
(***************************************************************************)
(* Proofs about AsyncClient: its type invariant and what a Stop(true) may  *)
(* rely on.  IInv is the inductive invariant.                              *)
(***************************************************************************)
EXTENDS AsyncClient, TLAPS

(* The WaitGroup counts the goroutine of run() exactly while it runs.      *)
WaitGroupCounts ==
  /\ wg = IF pc \in {"spawned", "exited"} THEN 0 ELSE 1
  /\ \A s \in Stopper : sawRun[s] => pc # "spawned"

(* The removal and the deferred function have loop variables; elsewhere    *)
(* these have their initial values.                                        *)
LoopsAtRest ==
  /\ pc \notin {"remove", "finish"} => pos = 1
  /\ pc # "remove" => newBuf = <<>> /\ newIdBuf = <<>>

IInv == TypeOK /\ WaitGroupCounts /\ LoopsAtRest /\ StopWaits

LEMMA ChanSizeType == ChanSize \in Nat \ {0}
  BY QueueAssumption DEF ChanSize

(* Init establishes the invariant.                                         *)
LEMMA InitInv == Init => IInv
<1> SUFFICES ASSUME Init PROVE IInv
  OBVIOUS
<1> USE DEF Init
<1>1. QueueTypeOK
  BY ChanSizeType, OptionAssumption DEF QueueTypeOK
<1>2. BatchTypeOK
  BY DEF BatchTypeOK
<1>3. ControlTypeOK
  BY DEF ControlTypeOK
<1>4. HistoryTypeOK
  BY DEF HistoryTypeOK
<1>5. WaitGroupCounts /\ LoopsAtRest /\ StopWaits
  BY DEF WaitGroupCounts, LoopsAtRest, StopWaits
<1> QED
  BY <1>1, <1>2, <1>3, <1>4, <1>5 DEF IInv, TypeOK

(* What run() does when it appends an event to well-typed buffers.         *)
LEMMA TakeType ==
  ASSUME NEW ev \in Event, NEW logs \in Seq(Log), NEW ids \in Seq(1..MaxPushes),
         NEW size \in Nat, Len(ids) = Len(logs),
         pos' \in 1..Len(logs) + 1,
         Take(ev, logs, ids, size)
  PROVE  /\ buf' \in Seq(Log) /\ idBuf' \in Seq(1..MaxPushes)
         /\ Len(idBuf') = Len(buf')
         /\ bufSize' \in Nat
         /\ pos' \in 1..Len(buf') + 1
         /\ pc' \in {"put", "select"}
  BY SizeAssumption DEF Take, Event

(* A callback is recorded as one.                                          *)
LEMMA CallbackType ==
  ASSUME NEW n \in 1..MaxPushes, NEW log \in Log, NEW e \in Err,
         HistoryTypeOK, DoCallback(n, log, e)
  PROVE  notified' \in [1..MaxPushes -> Seq([log : Log, err : Err])]
<1> DEFINE Call == [log : Log, err : Err]
           call == [log |-> log, err |-> e]
<1>1. notified[n] \in Seq(Call) /\ call \in Call
  BY DEF HistoryTypeOK
<1>2. Append(notified[n], call) \in Seq(Call)
  BY <1>1
<1>3. notified' = [notified EXCEPT ![n] = Append(notified[n], call)]
  BY DEF DoCallback
<1>4. notified \in [1..MaxPushes -> Seq(Call)]
  BY DEF HistoryTypeOK
<1> HIDE DEF Call, call
<1>5. notified' \in [1..MaxPushes -> Seq(Call)]
  BY <1>2, <1>3, <1>4
<1> QED
  BY <1>5 DEF Call

(* The elements of a sequence, and those at the loop index.                *)
LEMMA LogsType == ASSUME NEW S, NEW s \in Seq(S) PROVE Logs(s) \subseteq S
  BY DEF Logs

LEMMA ElementType ==
  ASSUME NEW S, NEW s \in Seq(S), NEW i \in 1..Len(s) PROVE s[i] \in S
  OBVIOUS

LEMMA PosType ==
  ASSUME BatchTypeOK, pos <= Len(buf)
  PROVE  /\ pos \in 1..Len(buf) /\ pos + 1 \in 1..Len(buf) + 1
         /\ buf[pos] \in Log /\ idBuf[pos] \in 1..MaxPushes
<1>1. buf \in Seq(Log) /\ idBuf \in Seq(1..MaxPushes) /\ Len(idBuf) = Len(buf)
  BY DEF BatchTypeOK
<1>2. pos \in 1..Len(buf) /\ pos + 1 \in 1..Len(buf) + 1
  BY <1>1 DEF BatchTypeOK
<1>3. buf[pos] \in Log
  BY <1>1, <1>2
<1>4. pos \in 1..Len(idBuf)
  BY <1>1, <1>2
<1>5. idBuf[pos] \in 1..MaxPushes
  BY <1>1, <1>4, ElementType
<1> QED
  BY <1>2, <1>3, <1>5

LEMMA CheckLogType == \A log \in Log : CheckLog(log) \in {Nil} \cup CheckErr
  BY DEF CheckLog, CheckErr

LEMMA OnReplyType ==
  \A e \in {Nil} \cup PutErr : OnReply(e) \in {"finish", "remove", "backoff"}
  BY DEF OnReply

-----------------------------------------------------------------------------
(* The steps of the producers and of the stoppers.                         *)
LEMMA PushLogInv ==
  ASSUME IInv, NEW p \in Producer, NEW log \in Log, PushLog(p, log)
  PROVE  IInv'
<1> USE DEF IInv, TypeOK, PushLog
<1>1. number + 1 \in 1..MaxPushes /\ number' \in 0..MaxPushes
  BY OptionAssumption DEF QueueTypeOK
<1>2. [seqNo |-> number + 1, log |-> log] \in Event
  BY <1>1 DEF Event
<1>3. QueueTypeOK'
  BY <1>1, <1>2, ChanSizeType DEF QueueTypeOK, batch
<1>4. HistoryTypeOK'
  <2>1. [log |-> log, by |-> p] \in [log : Log, by : Producer]
    OBVIOUS
  <2>2. pushed' \in Seq([log : Log, by : Producer]) /\ Len(pushed') = Len(pushed) + 1
    BY <2>1 DEF HistoryTypeOK
  <2>3. UNCHANGED <<limbo, stored, notified>>
    BY DEF service
  <2> QED
    BY <2>2, <2>3 DEF HistoryTypeOK
<1>5. BatchTypeOK'
  BY DEF BatchTypeOK, batch, scan
<1>6. ControlTypeOK'
  BY DEF ControlTypeOK, stopping
<1>7. (WaitGroupCounts /\ LoopsAtRest /\ StopWaits)'
  BY DEF WaitGroupCounts, LoopsAtRest, StopWaits, stopping, scan
<1> QED
  BY <1>3, <1>4, <1>5, <1>6, <1>7

LEMMA PushReturnsInv ==
  ASSUME IInv, NEW p \in Producer, PushReturns(p)
  PROVE  IInv'
<1> USE DEF IInv, TypeOK, PushReturns
<1>1. pushing[p] \in Event
  BY DEF QueueTypeOK
<1>2. ch' \in Seq(Event) /\ Len(ch') = Len(ch) + 1
  BY <1>1 DEF QueueTypeOK, Enqueue
<1>3. QueueTypeOK'
  <2>1. Len(ch') <= ChanSize
    BY <1>2, ChanSizeType DEF QueueTypeOK
  <2>2. pushing' \in [Producer -> Event \cup {NoEvent}]
    BY DEF QueueTypeOK
  <2>3. number' \in 0..MaxPushes /\ held' \in Event \cup {NoEvent}
    BY DEF QueueTypeOK, batch
  <2> QED
    BY <1>2, <2>1, <2>2, <2>3 DEF QueueTypeOK, ChanSize
<1>4. BatchTypeOK' /\ ControlTypeOK' /\ HistoryTypeOK'
  BY DEF BatchTypeOK, ControlTypeOK, HistoryTypeOK, batch, scan, stopping, service
<1>5. (WaitGroupCounts /\ LoopsAtRest /\ StopWaits)'
  BY DEF WaitGroupCounts, LoopsAtRest, StopWaits, stopping, scan
<1> QED
  BY <1>3, <1>4, <1>5

LEMMA StopInv ==
  ASSUME IInv, NEW s \in Stopper, NEW wait \in BOOLEAN, Stop(s, wait)
  PROVE  IInv'
<1> USE DEF IInv, TypeOK, Stop
<1>1. ControlTypeOK'
  BY DEF ControlTypeOK
<1>2. WaitGroupCounts' /\ StopWaits'
  BY DEF WaitGroupCounts, StopWaits, ControlTypeOK
<1>3. QueueTypeOK' /\ BatchTypeOK' /\ HistoryTypeOK' /\ LoopsAtRest'
  BY DEF QueueTypeOK, BatchTypeOK, HistoryTypeOK, LoopsAtRest,
         client, batch, scan, service, ChanSize
<1> QED
  BY <1>1, <1>2, <1>3

(* A stopper that saw run() started returns on wg = 0, when run() is over. *)
LEMMA StopReturnsInv ==
  ASSUME IInv, NEW s \in Stopper, StopReturns(s)
  PROVE  IInv'
<1> USE DEF IInv, TypeOK, StopReturns
<1>1. ControlTypeOK'
  BY DEF ControlTypeOK
<1>2. WaitGroupCounts'
  BY DEF WaitGroupCounts
<1>3. sawRun[s] => pc = "exited"
  BY DEF WaitGroupCounts, ControlTypeOK
<1>4. StopWaits'
  BY <1>3 DEF StopWaits, ControlTypeOK
<1>5. QueueTypeOK' /\ BatchTypeOK' /\ HistoryTypeOK' /\ LoopsAtRest'
  BY DEF QueueTypeOK, BatchTypeOK, HistoryTypeOK, LoopsAtRest,
         client, batch, scan, service, ChanSize
<1> QED
  BY <1>1, <1>2, <1>4, <1>5

-----------------------------------------------------------------------------
(* The steps of run().                                                     *)
LEMMA RunStartsInv == ASSUME IInv, RunStarts PROVE IInv'
<1> USE DEF IInv, TypeOK, RunStarts
<1>1. ControlTypeOK' /\ WaitGroupCounts' /\ StopWaits'
  BY DEF ControlTypeOK, WaitGroupCounts, StopWaits
<1>2. QueueTypeOK' /\ BatchTypeOK' /\ HistoryTypeOK' /\ LoopsAtRest'
  BY DEF QueueTypeOK, BatchTypeOK, HistoryTypeOK, LoopsAtRest,
         client, batch, scan, service, ChanSize
<1> QED
  BY <1>1, <1>2

LEMMA SelectDoneInv == ASSUME IInv, SelectDone PROVE IInv'
<1> USE DEF IInv, TypeOK, SelectDone
<1>1. ControlTypeOK' /\ WaitGroupCounts' /\ StopWaits'
  BY DEF ControlTypeOK, WaitGroupCounts, StopWaits
<1>2. QueueTypeOK' /\ BatchTypeOK' /\ HistoryTypeOK' /\ LoopsAtRest'
  BY DEF QueueTypeOK, BatchTypeOK, HistoryTypeOK, LoopsAtRest,
         client, batch, scan, service, ChanSize
<1> QED
  BY <1>1, <1>2

LEMMA SelectEventInv == ASSUME IInv, SelectEvent PROVE IInv'
<1> USE DEF IInv, TypeOK
<1> DEFINE ev == Head(ch)
<1>1. ev \in Event /\ ev.seqNo \in 1..MaxPushes /\ ev.log \in Log
  <2>1. ch \in Seq(Event) /\ ch # <<>>
    BY DEF QueueTypeOK, SelectEvent
  <2>2. ev \in Event
    BY <2>1
  <2> QED
    BY <2>2 DEF Event
<1>2. ch' \in Seq(Event) /\ Len(ch') <= ChanSize
  BY ChanSizeType DEF QueueTypeOK, SelectEvent
<1>3. pc = "select" /\ pos = 1 /\ newBuf = <<>> /\ newIdBuf = <<>>
  BY DEF SelectEvent, LoopsAtRest
<1>4. UNCHANGED <<number, pushing, aged, err, scan, stopping, service, pushed>>
  BY DEF SelectEvent
<1>5. CASE /\ TooLarge(ev.log)
           /\ DoCallback(ev.seqNo, ev.log, "MaxLogSizeExceeded")
           /\ UNCHANGED <<pc, batch>>
  <2>1. notified' \in [1..MaxPushes -> Seq([log : Log, err : Err])]
    BY <1>1, <1>5, CallbackType DEF Err
  <2>2. QueueTypeOK' /\ HistoryTypeOK'
    BY <1>2, <1>4, <1>5, <2>1
    DEF QueueTypeOK, HistoryTypeOK, batch, service, ChanSize
  <2>3. BatchTypeOK' /\ ControlTypeOK'
    BY <1>4, <1>5 DEF BatchTypeOK, ControlTypeOK, batch, scan, stopping
  <2>4. (WaitGroupCounts /\ LoopsAtRest /\ StopWaits)'
    BY <1>4, <1>5 DEF WaitGroupCounts, LoopsAtRest, StopWaits, stopping, scan
  <2> QED
    BY <2>2, <2>3, <2>4
<1>6. CASE /\ held' = ev
           /\ pc' = "put"
           /\ UNCHANGED <<buf, idBuf, bufSize, notified>>
  <2>1. QueueTypeOK' /\ HistoryTypeOK'
    BY <1>1, <1>2, <1>4, <1>6 DEF QueueTypeOK, HistoryTypeOK, service, ChanSize
  <2>2. BatchTypeOK' /\ ControlTypeOK'
    BY <1>4, <1>6 DEF BatchTypeOK, ControlTypeOK, scan, stopping
  <2>3. (WaitGroupCounts /\ LoopsAtRest /\ StopWaits)'
    BY <1>3, <1>4, <1>6 DEF WaitGroupCounts, LoopsAtRest, StopWaits, stopping, scan
  <2> QED
    BY <2>1, <2>2, <2>3
<1>7. CASE /\ Take(ev, buf, idBuf, bufSize)
           /\ UNCHANGED <<held, notified>>
  <2>1. pos' \in 1..Len(buf) + 1
    BY <1>4 DEF BatchTypeOK, scan
  <2>2. /\ buf' \in Seq(Log) /\ idBuf' \in Seq(1..MaxPushes)
        /\ Len(idBuf') = Len(buf')
        /\ bufSize' \in Nat
        /\ pos' \in 1..Len(buf') + 1
        /\ pc' \in {"put", "select"}
    BY <1>1, <1>7, <2>1, TakeType DEF BatchTypeOK
  <2>3. QueueTypeOK' /\ HistoryTypeOK'
    BY <1>2, <1>4, <1>7 DEF QueueTypeOK, HistoryTypeOK, service, ChanSize
  <2>4. BatchTypeOK' /\ ControlTypeOK'
    BY <1>4, <2>2 DEF BatchTypeOK, ControlTypeOK, scan, stopping
  <2>5. (WaitGroupCounts /\ LoopsAtRest /\ StopWaits)'
    BY <1>3, <1>4, <2>2 DEF WaitGroupCounts, LoopsAtRest, StopWaits, stopping, scan
  <2> QED
    BY <2>3, <2>4, <2>5
<1> QED
  BY <1>5, <1>6, <1>7 DEF SelectEvent

(* Steps that only move run() or send(), or let time pass.                 *)
LEMMA MoveInv ==
  ASSUME IInv, SelectTick \/ Age \/ TimerFires \/ StopsRetrying
  PROVE  IInv'
<1> USE DEF IInv, TypeOK, SelectTick, Age, TimerFires, StopsRetrying
<1>1. ControlTypeOK'
  BY DEF ControlTypeOK, stopping
<1>2. QueueTypeOK' /\ BatchTypeOK' /\ HistoryTypeOK'
  BY DEF QueueTypeOK, BatchTypeOK, HistoryTypeOK, client, batch, scan, service,
         ChanSize
<1>3. (WaitGroupCounts /\ LoopsAtRest /\ StopWaits)'
  BY DEF WaitGroupCounts, LoopsAtRest, StopWaits, stopping, scan
<1> QED
  BY <1>1, <1>2, <1>3

-----------------------------------------------------------------------------
(* The steps of send() and of the service.                                 *)
LEMMA PutLogsInv == ASSUME IInv, NEW e \in Err, PutLogs(e) PROVE IInv'
<1> USE DEF IInv, TypeOK
<1>1. e \in {Nil} \cup PutErr
  BY DEF PutLogs, Replies, PutErr
<1>2. Logs(idBuf) \subseteq 1..MaxPushes
  BY LogsType DEF BatchTypeOK
<1>3. stored' \subseteq 1..MaxPushes /\ limbo' \subseteq SUBSET (1..MaxPushes)
  BY <1>2 DEF PutLogs, HistoryTypeOK
<1>4. pc = "put" /\ pc' \in {"finish", "remove", "backoff"} /\ err' = e
  BY <1>1, OnReplyType DEF PutLogs
<1>5. UNCHANGED <<client, batch, aged, scan, stopping, pushed, notified>>
  BY DEF PutLogs
<1>6. QueueTypeOK' /\ BatchTypeOK' /\ HistoryTypeOK'
  BY <1>3, <1>5 DEF QueueTypeOK, BatchTypeOK, HistoryTypeOK, client, batch, scan,
                    ChanSize
<1>7. ControlTypeOK'
  BY <1>1, <1>4, <1>5 DEF ControlTypeOK, stopping
<1>8. (WaitGroupCounts /\ LoopsAtRest /\ StopWaits)'
  BY <1>4, <1>5 DEF WaitGroupCounts, LoopsAtRest, StopWaits, stopping, scan
<1> QED
  BY <1>6, <1>7, <1>8

LEMMA LateStoreInv == ASSUME IInv, NEW b \in limbo, LateStore(b) PROVE IInv'
<1> USE DEF IInv, TypeOK, LateStore
<1>1. HistoryTypeOK'
  BY DEF HistoryTypeOK, client
<1>2. QueueTypeOK' /\ BatchTypeOK' /\ ControlTypeOK'
  BY DEF QueueTypeOK, BatchTypeOK, ControlTypeOK, client, batch, scan, stopping,
         ChanSize
<1>3. (WaitGroupCounts /\ LoopsAtRest /\ StopWaits)'
  BY DEF WaitGroupCounts, LoopsAtRest, StopWaits, stopping, scan
<1> QED
  BY <1>1, <1>2, <1>3

LEMMA RemoveStepInv == ASSUME IInv, RemoveStep PROVE IInv'
<1> USE DEF IInv, TypeOK
<1>1. /\ pos \in 1..Len(buf) /\ pos' = pos + 1 /\ pos' \in 1..Len(buf) + 1
      /\ pc = "remove" /\ buf[pos] \in Log /\ idBuf[pos] \in 1..MaxPushes
  BY PosType DEF RemoveStep
<1>2. UNCHANGED <<client, pc, batch, aged, err, stopping, service, pushed>>
  BY DEF RemoveStep
<1>3. /\ notified' \in [1..MaxPushes -> Seq([log : Log, err : Err])]
      /\ newBuf' \in Seq(Log) /\ newIdBuf' \in Seq(1..MaxPushes)
      /\ Len(newIdBuf') = Len(newBuf')
  <2>1. CASE CheckLog(buf[pos]) # Nil
    <3>1. CheckLog(buf[pos]) \in Err
      BY <1>1, CheckLogType DEF Err
    <3>2. DoCallback(idBuf[pos], buf[pos], CheckLog(buf[pos]))
      BY <2>1 DEF RemoveStep
    <3>3. UNCHANGED <<newBuf, newIdBuf>>
      BY <2>1 DEF RemoveStep
    <3>4. notified' \in [1..MaxPushes -> Seq([log : Log, err : Err])]
      BY <1>1, <3>1, <3>2, CallbackType
    <3> QED
      BY <3>3, <3>4 DEF BatchTypeOK
  <2>2. CASE CheckLog(buf[pos]) = Nil
    <3>1. /\ newBuf' = Append(newBuf, buf[pos])
          /\ newIdBuf' = Append(newIdBuf, idBuf[pos])
          /\ notified' = notified
      BY <2>2 DEF RemoveStep, Keep
    <3>2. /\ newBuf \in Seq(Log) /\ newIdBuf \in Seq(1..MaxPushes)
          /\ Len(newIdBuf) = Len(newBuf)
      BY DEF BatchTypeOK
    <3>3. /\ newBuf' \in Seq(Log) /\ newIdBuf' \in Seq(1..MaxPushes)
          /\ Len(newIdBuf') = Len(newBuf')
      BY <1>1, <3>1, <3>2
    <3> QED
      BY <3>1, <3>3 DEF HistoryTypeOK
  <2> QED
    BY <2>1, <2>2
<1>4. QueueTypeOK' /\ ControlTypeOK'
  BY <1>2 DEF QueueTypeOK, ControlTypeOK, client, batch, stopping, ChanSize
<1>5. BatchTypeOK'
  BY <1>1, <1>2, <1>3 DEF BatchTypeOK, batch
<1>6. HistoryTypeOK'
  BY <1>2, <1>3 DEF HistoryTypeOK, client, service
<1>7. (WaitGroupCounts /\ LoopsAtRest /\ StopWaits)'
  BY <1>1, <1>2 DEF WaitGroupCounts, LoopsAtRest, StopWaits, stopping
<1> QED
  BY <1>4, <1>5, <1>6, <1>7

LEMMA RemoveReturnsInv == ASSUME IInv, RemoveReturns PROVE IInv'
<1> USE DEF IInv, TypeOK, RemoveReturns
<1>1. BatchTypeOK'
  BY DEF BatchTypeOK
<1>2. pc' \in {"put", "backoff", "finish"}
  BY DEF AfterRemove
<1>3. QueueTypeOK' /\ ControlTypeOK' /\ HistoryTypeOK'
  BY <1>2 DEF QueueTypeOK, ControlTypeOK, HistoryTypeOK, client, stopping, service,
              ChanSize
<1>4. (WaitGroupCounts /\ LoopsAtRest /\ StopWaits)'
  BY <1>2 DEF WaitGroupCounts, LoopsAtRest, StopWaits, stopping
<1> QED
  BY <1>1, <1>3, <1>4

LEMMA FinishStepInv == ASSUME IInv, FinishStep PROVE IInv'
<1> USE DEF IInv, TypeOK, FinishStep
<1>1. /\ pos \in 1..Len(buf) /\ pos + 1 \in 1..Len(buf) + 1
      /\ buf[pos] \in Log /\ idBuf[pos] \in 1..MaxPushes
  BY PosType
<1>2. Verdict \in Err
  BY DEF ControlTypeOK, Verdict, Err
<1>3. notified' \in [1..MaxPushes -> Seq([log : Log, err : Err])]
  BY <1>1, <1>2, CallbackType
<1>4. BatchTypeOK' /\ HistoryTypeOK'
  BY <1>1, <1>3 DEF BatchTypeOK, HistoryTypeOK, batch, client, service
<1>5. QueueTypeOK' /\ ControlTypeOK'
  BY DEF QueueTypeOK, ControlTypeOK, client, batch, stopping, ChanSize
<1>6. (WaitGroupCounts /\ LoopsAtRest /\ StopWaits)'
  BY DEF WaitGroupCounts, LoopsAtRest, StopWaits, stopping
<1> QED
  BY <1>4, <1>5, <1>6

LEMMA SendReturnsInv == ASSUME IInv, SendReturns PROVE IInv'
<1> USE DEF IInv, TypeOK
<1>1. /\ pc = "finish" /\ pos' = 1 /\ aged' = FALSE /\ err' = Nil
      /\ held' = NoEvent
      /\ UNCHANGED <<client, newBuf, newIdBuf, stopping, service, pushed, notified>>
  BY DEF SendReturns
<1>2. /\ buf' \in Seq(Log) /\ idBuf' \in Seq(1..MaxPushes)
      /\ Len(idBuf') = Len(buf')
      /\ bufSize' \in Nat
      /\ pos' \in 1..Len(buf') + 1
      /\ pc' \in {"put", "select"}
  <2>1. CASE held = NoEvent
    BY <1>1, <2>1 DEF SendReturns, BackInRun
  <2>2. CASE held # NoEvent
    <3>1. held \in Event
      BY <2>2 DEF QueueTypeOK
    <3>2. Take(held, <<>>, <<>>, 0)
      BY <2>2 DEF SendReturns, BackInRun
    <3>3. pos' \in 1..Len(<<>>) + 1
      BY <1>1
    <3>4. /\ <<>> \in Seq(Log) /\ <<>> \in Seq(1..MaxPushes)
          /\ Len(<<>>) = Len(<<>>) /\ 0 \in Nat
      OBVIOUS
    <3> QED
      BY <3>1, <3>2, <3>3, <3>4, TakeType
  <2> QED
    BY <2>1, <2>2
<1>3. QueueTypeOK' /\ HistoryTypeOK'
  BY <1>1 DEF QueueTypeOK, HistoryTypeOK, client, service, ChanSize
<1>4. BatchTypeOK' /\ ControlTypeOK'
  BY <1>1, <1>2 DEF BatchTypeOK, ControlTypeOK, stopping
<1>5. (WaitGroupCounts /\ LoopsAtRest /\ StopWaits)'
  BY <1>1, <1>2 DEF WaitGroupCounts, LoopsAtRest, StopWaits, stopping
<1> QED
  BY <1>3, <1>4, <1>5

LEMMA StutterInv == ASSUME IInv, UNCHANGED vars PROVE IInv'
  BY DEF IInv, TypeOK, QueueTypeOK, BatchTypeOK, ControlTypeOK, HistoryTypeOK,
         WaitGroupCounts, LoopsAtRest, StopWaits, ChanSize,
         vars, client, batch, scan, stopping, service

-----------------------------------------------------------------------------
LEMMA StepInv == IInv /\ [Next]_vars => IInv'
<1> SUFFICES ASSUME IInv, [Next]_vars PROVE IInv'
  OBVIOUS
<1>1. ASSUME NEW p \in Producer, PushReturns(p) PROVE IInv'
  BY <1>1, PushReturnsInv
<1>2. ASSUME NEW p \in Producer, NEW log \in Log, PushLog(p, log) PROVE IInv'
  BY <1>2, PushLogInv
<1>3. ASSUME NEW s \in Stopper, StopReturns(s) PROVE IInv'
  BY <1>3, StopReturnsInv
<1>4. ASSUME NEW s \in Stopper, NEW wait \in BOOLEAN, Stop(s, wait) PROVE IInv'
  BY <1>4, StopInv
<1>5. CASE RunStarts
  BY <1>5, RunStartsInv
<1>6. CASE SelectDone
  BY <1>6, SelectDoneInv
<1>7. CASE SelectEvent
  BY <1>7, SelectEventInv
<1>8. CASE SelectTick \/ Age \/ TimerFires \/ StopsRetrying
  BY <1>8, MoveInv
<1>9. ASSUME NEW e \in Err, PutLogs(e) PROVE IInv'
  BY <1>9, PutLogsInv
<1>10. CASE RemoveStep
  BY <1>10, RemoveStepInv
<1>11. CASE RemoveReturns
  BY <1>11, RemoveReturnsInv
<1>12. CASE FinishStep
  BY <1>12, FinishStepInv
<1>13. CASE SendReturns
  BY <1>13, SendReturnsInv
<1>14. ASSUME NEW b \in limbo, LateStore(b) PROVE IInv'
  BY <1>14, LateStoreInv
<1>15. CASE UNCHANGED vars
  BY <1>15, StutterInv
<1> QED
  BY <1>1, <1>2, <1>3, <1>4, <1>5, <1>6, <1>7, <1>8, <1>9, <1>10, <1>11, <1>12,
     <1>13, <1>14, <1>15
  DEF Next, Run, Send

THEOREM Invariance == Spec => []IInv
<1>1. Init => IInv
  BY InitInv
<1>2. IInv /\ [Next]_vars => IInv'
  BY StepInv
<1> QED
  BY <1>1, <1>2, PTL DEF Spec

(* Type correctness for every number of producers, stoppers and logs, every *)
(* queue and every limit.                                                  *)
THEOREM TypeCorrect == Spec => []TypeOK
<1>1. IInv => TypeOK
  BY DEF IInv
<1> QED
  BY <1>1, Invariance, PTL

(* Stop(true) of the client, api.async.go:100-105: called once run() has   *)
(* started, it returns only after run() has returned, whatever else runs.  *)
THEOREM StopIsSafe == Spec => []StopWaits
<1>1. IInv => StopWaits
  BY DEF IInv
<1> QED
  BY <1>1, Invariance, PTL

-----------------------------------------------------------------------------
(* The steps of the client as AsyncWorker sees them.                       *)
LEMMA OfExcept ==
  ASSUME NEW x, NEW y PROVE [Of(x) EXCEPT !["this"] = y] = Of(y) /\ Of(x)["this"] = x
  BY DEF Of

LEMMA WorkerStutters ==
  ASSUME Life' = Life, UNCHANGED <<cancelled, wg, ch>>
  PROVE  UNCHANGED Worker!workerVars
  BY DEF Worker!workerVars, Of

LEMMA QuietSteps ==
  ASSUME UNCHANGED <<cancelled, wg, ch>>,
         pc' = pc \/ {pc, pc'} \cap {"spawned", "exited"} = {}
  PROVE  UNCHANGED Worker!workerVars
<1>1. Life' = Life
  BY DEF Life
<1> QED
  BY <1>1, WorkerStutters

LEMMA WorkerStep == IInv /\ [Next]_vars => [Worker!WorkerNext]_(Worker!workerVars)
<1> SUFFICES ASSUME IInv, [Next]_vars
             PROVE  Worker!WorkerNext \/ UNCHANGED Worker!workerVars
  OBVIOUS
<1> DEFINE this == "this"
<1>1. /\ wg = IF pc \in {"spawned", "exited"} THEN 0 ELSE 1
      /\ pushing \in [Producer -> Event \cup {NoEvent}] /\ ControlTypeOK
  BY DEF IInv, TypeOK, WaitGroupCounts, QueueTypeOK
<1>2. ASSUME NEW p \in Producer, PushReturns(p) PROVE Worker!WorkerNext
  <2>1. /\ pushing[p] \in Event /\ Len(ch) < ChanSize /\ ch' = Append(ch, pushing[p])
        /\ UNCHANGED <<pc, cancelled, wg>>
    BY <1>1, <1>2 DEF PushReturns, Enqueue, stopping
  <2>2. Life' = Life /\ Life # "none"
    BY <2>1 DEF Life
  <2>3. Worker!Push(this, pushing[p])
    BY <2>1, <2>2, OfExcept DEF Worker!Push, Of
  <2> QED
    BY <2>1, <2>3 DEF Worker!WorkerNext
<1>3. ASSUME NEW s \in Stopper, NEW wait \in BOOLEAN, Stop(s, wait) PROVE Worker!WorkerNext
  <2>1. cancelled' = TRUE /\ UNCHANGED <<pc, wg, ch>>
    BY <1>3 DEF Stop, client
  <2>2. Life' = Life /\ Life # "none"
    BY <2>1 DEF Life
  <2>3. Worker!Cancel(this)
    BY <2>1, <2>2, OfExcept DEF Worker!Cancel, Of
  <2> QED
    BY <2>3 DEF Worker!WorkerNext
<1>4. CASE RunStarts
  <2>1. /\ pc = "spawned" /\ pc' = "select" /\ wg' = wg + 1 /\ UNCHANGED <<cancelled, ch>>
    BY <1>4 DEF RunStarts, client
  <2>2. Life = "spawned" /\ Life' = "running"
    BY <2>1 DEF Life
  <2>3. Worker!RunStarts(this)
    BY <2>1, <2>2, OfExcept DEF Worker!RunStarts, Of
  <2> QED
    BY <2>3 DEF Worker!WorkerNext
<1>5. CASE SelectDone
  <2>1. /\ pc = "select" /\ pc' = "exited" /\ cancelled /\ wg' = wg - 1
        /\ UNCHANGED <<cancelled, ch>>
    BY <1>5 DEF SelectDone, client
  <2>2. Life = "running" /\ Life' = "exited"
    BY <2>1 DEF Life
  <2>3. Worker!RunReturns(this)
    BY <2>1, <2>2, OfExcept DEF Worker!RunReturns, Of
  <2> QED
    BY <2>3 DEF Worker!WorkerNext
<1>6. CASE SelectEvent
  <2>1. /\ pc = "select" /\ ch # <<>> /\ ch' = Tail(ch) /\ UNCHANGED <<cancelled, wg>>
        /\ pc' \in {"select", "put"}
    BY <1>6 DEF SelectEvent, Take, batch, stopping
  <2>2. Life = "running" /\ Life' = Life
    BY <2>1 DEF Life
  <2>3. Worker!RunTakes(this)
    BY <2>1, <2>2, OfExcept DEF Worker!RunTakes, Of
  <2> QED
    BY <2>3 DEF Worker!WorkerNext
<1>7. ASSUME NEW p \in Producer, NEW log \in Log, PushLog(p, log)
      PROVE  UNCHANGED Worker!workerVars
  BY <1>7, QuietSteps DEF PushLog, stopping
<1>8. ASSUME NEW s \in Stopper, StopReturns(s) PROVE UNCHANGED Worker!workerVars
  BY <1>8, QuietSteps DEF StopReturns, client
<1>9. CASE SelectTick \/ Age \/ TimerFires \/ StopsRetrying
  BY <1>9, QuietSteps DEF SelectTick, Age, TimerFires, StopsRetrying, client, stopping
<1>10. ASSUME NEW e \in Err, PutLogs(e) PROVE UNCHANGED Worker!workerVars
  <2>1. pc = "put" /\ pc' \in {"finish", "remove", "backoff"}
    BY <1>10 DEF PutLogs, OnReply
  <2> QED
    BY <1>10, <2>1, QuietSteps DEF PutLogs, client, stopping
<1>11. CASE RemoveStep \/ FinishStep
  BY <1>11, QuietSteps DEF RemoveStep, FinishStep, client, stopping
<1>12. CASE RemoveReturns
  <2>1. pc = "remove" /\ pc' \in {"finish", "put", "backoff"}
    BY <1>12 DEF RemoveReturns, AfterRemove
  <2> QED
    BY <1>12, <2>1, QuietSteps DEF RemoveReturns, client, stopping
<1>13. CASE SendReturns
  <2>1. pc = "finish" /\ pc' \in {"select", "put"}
    BY <1>13 DEF SendReturns, BackInRun, Take
  <2> QED
    BY <1>13, <2>1, QuietSteps DEF SendReturns, client, stopping
<1>14. ASSUME NEW b \in limbo, LateStore(b) PROVE UNCHANGED Worker!workerVars
  BY <1>14, QuietSteps DEF LateStore, client, stopping
<1>15. CASE UNCHANGED vars
  BY <1>15, QuietSteps DEF vars, client, stopping
<1> QED
  BY <1>2, <1>3, <1>4, <1>5, <1>6, <1>7, <1>8, <1>9, <1>10, <1>11, <1>12, <1>13,
     <1>14, <1>15
  DEF Next, Run, Send

(* The client is safe in the hands of AsyncMultiPool: each of its steps is *)
(* one that AsyncWorker allows, or none.  That its worker returns once     *)
(* cancelled is left to the run.                                           *)
THEOREM WorkerImplemented == Spec => Worker!WorkerSafety
<1>1. Init => Worker!WorkerInit
  <2> SUFFICES ASSUME Init PROVE Worker!WorkerInit
    OBVIOUS
  <2>1. Life = "spawned" /\ cancelled = FALSE /\ wg = 0 /\ ch = <<>>
    BY DEF Init, Life
  <2> QED
    BY <2>1 DEF Worker!WorkerInit, Of
<1>2. IInv /\ [Next]_vars => [Worker!WorkerNext]_(Worker!workerVars)
  BY WorkerStep
<1> QED
  BY <1>1, <1>2, Invariance, PTL DEF Spec, Worker!WorkerSafety
=============================================================================
