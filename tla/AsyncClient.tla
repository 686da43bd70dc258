---------------------------- MODULE AsyncClient ----------------------------
(***************************************************************************)
(* The asynchronous client of klog/api.async.go: goroutines that call      *)
(* PushLog, the bounded channel, the one worker goroutine run() with its   *)
(* send() loop, the goroutines that call Stop, and the log service as the  *)
(* worker sees it through PutLogs.                                         *)
(***************************************************************************)
EXTENDS Integers, Sequences

CONSTANTS
  Producer,             \* goroutines that call PushLog
  Stopper,              \* goroutines that call Stop, each at most once
  Log,                  \* the logs, told apart by what the client tests:
  Size,                 \*   proto.Size of a log,
  BadUtf8,              \*   the logs proto.Marshal refuses,
  OverLimit,            \*   the logs with too many or too large contents
  MaxLogSize, MaxLogGroupSize, LogGroupSizeToSend, MaxBulkSize,
  QueueSize,            \* AsyncClientOptions.QueueSize
  DefaultQueueSize,     \* what NewAsyncClient replaces a QueueSize of 0 by
  DropIfPoolNotExists,  \* AsyncClientOptions.DropIfPoolNotExists
  MaxPushes,            \* bound: PushLog is called at most this many times
  Nil,                  \* no error
  NoEvent               \* no *event at hand

ASSUME SizeAssumption == Size \in [Log -> Nat]
ASSUME KindAssumption == BadUtf8 \subseteq Log /\ OverLimit \subseteq Log
ASSUME LimitAssumption ==
  /\ MaxLogSize \in Nat /\ MaxLogGroupSize \in Nat
  /\ LogGroupSizeToSend \in Nat \ {0} /\ MaxBulkSize \in Nat \ {0}
  /\ MaxLogSize <= MaxLogGroupSize
ASSUME QueueAssumption == QueueSize \in Nat /\ DefaultQueueSize \in Nat \ {0}
ASSUME OptionAssumption == DropIfPoolNotExists \in BOOLEAN /\ MaxPushes \in Nat

(* What PutLogs can return, sorted by how send() reacts.  "Utf8" is the    *)
(* error of proto.Marshal; "Invalid" stands for the MaxKey*Exceeded, the   *)
(* MaxValueSizeExceeded and the PostBodyInvalid codes; "NoPool" for        *)
(* UserNotExist and ProjectOrLogPoolNotExist; "Other" for every other.     *)
ServiceErr == {"Invalid", "NoPool", "Other"}
PutErr == ServiceErr \cup {"Utf8"}
CheckErr == {"InvalidUtf8", "LimitExceeded"}
Err == {Nil, "MaxLogSizeExceeded"} \cup PutErr \cup CheckErr

ASSUME NilAssumption ==
  Nil \notin {"MaxLogSizeExceeded"} \cup PutErr \cup CheckErr

Event == [seqNo : 1..MaxPushes, log : Log]

ASSUME NoEventAssumption == NoEvent \notin Event

VARIABLES
  number,     \* service.generator.number
  pushing,    \* per producer, the event PushLog is about to put in ch
  ch,         \* the channel
  pc,         \* where the goroutine of run() is
  buf, idBuf, bufSize,
  aged,       \* more than two seconds have passed since lastSendAt
  held,       \* the event run() keeps while it first sends what it has
  err,        \* the variable err of send()
  pos,        \* loop index of removeInvalidLogs and of the deferred function
  newBuf, newIdBuf,
  cancelled,  \* ctx is done
  wg,         \* the counter of the WaitGroup
  stop,       \* per stopper, how far its call of Stop is
  limbo,      \* batches of failed requests the service may still take
  stored,     \* history: the sequence numbers of the logs the service has
  pushed,     \* history: the log of each sequence number, and who pushed it
  notified,   \* history: per sequence number, the calls of the callback
  sawRun      \* history: per stopper, had run() started when it called Stop?

client  == <<number, pushing, ch>>
batch   == <<buf, idBuf, bufSize, held>>
scan    == <<pos, newBuf, newIdBuf>>
stopping == <<cancelled, wg, stop, sawRun>>
service == <<limbo, stored>>
vars == <<client, pc, batch, aged, err, scan, stopping, service, pushed, notified>>

-----------------------------------------------------------------------------
ChanSize == IF QueueSize # 0 THEN QueueSize ELSE DefaultQueueSize

Init ==
  /\ number = 0 /\ pushing = [p \in Producer |-> NoEvent] /\ ch = <<>>
  /\ pc = "spawned"
  /\ buf = <<>> /\ idBuf = <<>> /\ bufSize = 0 /\ held = NoEvent
  /\ aged = FALSE
  /\ err = Nil
  /\ pos = 1 /\ newBuf = <<>> /\ newIdBuf = <<>>
  /\ cancelled = FALSE /\ wg = 0
  /\ stop = [s \in Stopper |-> "idle"] /\ sawRun = [s \in Stopper |-> FALSE]
  /\ limbo = {} /\ stored = {}
  /\ pushed = <<>> /\ notified = [n \in 1..MaxPushes |-> <<>>]

(***************************************************************************)
(* PushLog: take a sequence number, then send on the channel.  Another     *)
(* producer may run in between, and the channel may be full.               *)
(***************************************************************************)
PushLog(p, log) ==
  /\ pushing[p] = NoEvent
  /\ number < MaxPushes
  /\ number' = number + 1
  /\ pushing' = [pushing EXCEPT ![p] = [seqNo |-> number + 1, log |-> log]]
  /\ pushed' = Append(pushed, [log |-> log, by |-> p])
  /\ UNCHANGED <<ch, pc, batch, aged, err, scan, stopping, service, notified>>

EnqueueInFront(ev) == ch' = <<ev>> \o ch    \* mutant: the channel as a stack
Enqueue(ev) == ch' = Append(ch, ev)

PushReturns(p) ==
  /\ pushing[p] # NoEvent
  /\ Len(ch) < ChanSize
  /\ Enqueue(pushing[p])
  /\ pushing' = [pushing EXCEPT ![p] = NoEvent]
  /\ UNCHANGED <<number, pc, batch, aged, err, scan, stopping, service,
                 pushed, notified>>

(***************************************************************************)
(* Stop cancels the context and, if asked to, waits for the WaitGroup.     *)
(***************************************************************************)
Stop(s, wait) ==
  /\ stop[s] = "idle"
  /\ cancelled' = TRUE
  /\ stop' = [stop EXCEPT ![s] = IF wait THEN "waiting" ELSE "left"]
  /\ sawRun' = [sawRun EXCEPT ![s] = pc # "spawned"]
  /\ UNCHANGED <<client, pc, batch, aged, err, scan, wg, service, pushed, notified>>

StopReturns(s) ==
  /\ stop[s] = "waiting"
  /\ wg = 0
  /\ stop' = [stop EXCEPT ![s] = "waited"]
  /\ UNCHANGED <<client, pc, batch, aged, err, scan, cancelled, wg, sawRun,
                 service, pushed, notified>>

-----------------------------------------------------------------------------
DoCallback(n, log, e) ==
  notified' = [notified EXCEPT ![n] = Append(@, [log |-> log, err |-> e])]

CheckLogKeyCount(log) ==                    \* mutant: looks for no UTF-8 error
  IF log \in OverLimit THEN "LimitExceeded" ELSE Nil
(* The error CheckLog gives for a log, Nil when it accepts it.             *)
CheckLog(log) ==
  CASE log \in OverLimit -> "LimitExceeded"
    [] log \in BadUtf8 \ OverLimit -> "InvalidUtf8"
    [] OTHER -> Nil

(* run() appends the event to what is in the buffers and goes on to send() *)
(* when that makes the batch large enough, else back to its select.        *)
Take(ev, logs, ids, size) ==
  /\ buf' = Append(logs, ev.log)
  /\ idBuf' = Append(ids, ev.seqNo)
  /\ bufSize' = size + Size[ev.log]
  /\ pc' = IF bufSize' >= LogGroupSizeToSend \/ Len(buf') >= MaxBulkSize
           THEN "put" ELSE "select"

(* Mutant: no wg.Add.                                                      *)
RunStartsUncounted ==
  /\ pc = "spawned"
  /\ pc' = "select"
  /\ UNCHANGED <<client, batch, aged, err, scan, stopping, service, pushed, notified>>

RunStarts ==
  /\ pc = "spawned"
  /\ pc' = "select"
  /\ wg' = wg + 1
  /\ UNCHANGED <<client, batch, aged, err, scan, cancelled, stop, sawRun,
                 service, pushed, notified>>

(* The select of run(): any case that is ready may be chosen.              *)
SelectDone ==
  /\ pc = "select"
  /\ cancelled
  /\ pc' = "exited"
  /\ wg' = wg - 1
  /\ UNCHANGED <<client, batch, aged, err, scan, cancelled, stop, sawRun,
                 service, pushed, notified>>

TooLarge(log) == Size[log] > MaxLogSize
OverflowsAlone(log) == Size[log] > MaxLogGroupSize  \* mutant: forgets bufSize
Overflows(log) == Size[log] + bufSize > MaxLogGroupSize

SelectEvent ==
  /\ pc = "select"
  /\ ch # <<>>
  /\ ch' = Tail(ch)
  /\ LET ev == Head(ch) IN
     \/ /\ TooLarge(ev.log)
        /\ DoCallback(ev.seqNo, ev.log, "MaxLogSizeExceeded")
        /\ UNCHANGED <<pc, batch>>
     \/ /\ ~TooLarge(ev.log) /\ Overflows(ev.log)
        /\ held' = ev
        /\ pc' = "put"
        /\ UNCHANGED <<buf, idBuf, bufSize, notified>>
     \/ /\ ~TooLarge(ev.log) /\ ~Overflows(ev.log)
        /\ Take(ev, buf, idBuf, bufSize)
        /\ UNCHANGED <<held, notified>>
  /\ UNCHANGED <<number, pushing, aged, err, scan, stopping, service, pushed>>

DueForTwo == aged /\ Len(buf) > 1           \* mutant: len(o.buf) > 1
Due == aged /\ Len(buf) > 0

SelectTick ==
  /\ pc = "select"
  /\ Due
  /\ pc' = "put"
  /\ UNCHANGED <<client, batch, aged, err, scan, stopping, service, pushed, notified>>

(* lastSendAt is read in the select only, and send() ends by resetting it. *)
Age ==
  /\ pc = "select"
  /\ ~aged
  /\ aged' = TRUE
  /\ UNCHANGED <<client, pc, batch, err, scan, stopping, service, pushed, notified>>

(***************************************************************************)
(* send().  PutLogs marshals the group, which fails when a log is not      *)
(* UTF-8; otherwise a request goes out, possibly several times.  PutLogs   *)
(* reports the last attempt, so an error leaves open whether the service   *)
(* has taken, or will take, the group.                                     *)
(***************************************************************************)
Logs(s) == {s[i] : i \in DOMAIN s}

Replies(logs) ==
  IF Logs(logs) \cap BadUtf8 # {} THEN {"Utf8"}
  ELSE IF Logs(logs) \cap OverLimit # {} THEN ServiceErr
  ELSE ServiceErr \cup {Nil}

Storable(logs) == Logs(logs) \cap (BadUtf8 \cup OverLimit) = {}

(* Mutant: only the two errors that send() names are retried.              *)
OnReplyGivingUp(e) ==
  CASE e = Nil -> "finish"
    [] e \in {"Utf8", "Invalid"} -> "remove"
    [] e = "NoPool" /\ ~DropIfPoolNotExists -> "backoff"
    [] OTHER -> "finish"

(* What send() does next on a reply.                                       *)
OnReply(e) ==
  CASE e = Nil -> "finish"
    [] e \in {"Utf8", "Invalid"} -> "remove"
    [] e = "NoPool" /\ DropIfPoolNotExists -> "finish"
    [] OTHER -> "backoff"

PutLogs(e) ==
  /\ pc = "put"
  /\ e \in Replies(buf)
  /\ err' = e
  /\ pc' = OnReply(e)
  /\ stored' = IF e = Nil THEN stored \cup Logs(idBuf) ELSE stored
  /\ limbo' = IF e # Nil /\ Storable(buf) THEN limbo \cup {Logs(idBuf)} ELSE limbo
  /\ UNCHANGED <<client, batch, aged, scan, stopping, pushed, notified>>

(* The service takes a batch whose request the client has given up on.     *)
LateStore(b) ==
  /\ b \in limbo
  /\ limbo' = limbo \ {b}
  /\ stored' = stored \cup b
  /\ UNCHANGED <<client, pc, batch, aged, err, scan, stopping, pushed, notified>>

(* removeInvalidLogs, one iteration of its loop at a time.                 *)
KeepLogOnly ==                              \* mutant: no append to newIdBuf
  newBuf' = Append(newBuf, buf[pos]) /\ newIdBuf' = newIdBuf
KeepInFront ==                              \* mutant: newIdBuf in reverse
  newBuf' = Append(newBuf, buf[pos]) /\ newIdBuf' = <<idBuf[pos]>> \o newIdBuf
Keep ==
  newBuf' = Append(newBuf, buf[pos]) /\ newIdBuf' = Append(newIdBuf, idBuf[pos])

RemoveStep ==
  /\ pc = "remove"
  /\ pos <= Len(buf)
  /\ pos' = pos + 1
  /\ IF CheckLog(buf[pos]) # Nil
     THEN /\ DoCallback(idBuf[pos], buf[pos], CheckLog(buf[pos]))
          /\ UNCHANGED <<newBuf, newIdBuf>>
     ELSE /\ Keep
          /\ UNCHANGED notified
  /\ UNCHANGED <<client, pc, batch, aged, err, stopping, service, pushed>>

(* After it, send() returns, retries at once or goes to sleep.             *)
AfterRemove(logs) ==
  CASE logs = <<>> -> "finish"
    [] logs # <<>> /\ err = "Utf8" -> "put"
    [] OTHER -> "backoff"

RemoveReturns ==
  /\ pc = "remove"
  /\ pos > Len(buf)
  /\ buf' = newBuf
  /\ idBuf' = newIdBuf
  /\ pos' = 1 /\ newBuf' = <<>> /\ newIdBuf' = <<>>
  /\ pc' = AfterRemove(newBuf)
  /\ UNCHANGED <<client, bufSize, held, aged, err, stopping, service, pushed, notified>>

(* The select of send(): the timer, or the cancelled context.              *)
TimerFires ==
  /\ pc = "backoff"
  /\ pc' = "put"
  /\ UNCHANGED <<client, batch, aged, err, scan, stopping, service, pushed, notified>>

(* Mutant: break, which leaves the select and not the loop.                *)
StopsSelecting ==
  /\ pc = "backoff"
  /\ cancelled
  /\ pc' = "put"
  /\ UNCHANGED <<client, batch, aged, err, scan, stopping, service, pushed, notified>>

StopsRetrying ==
  /\ pc = "backoff"
  /\ cancelled
  /\ pc' = "finish"
  /\ UNCHANGED <<client, batch, aged, err, scan, stopping, service, pushed, notified>>

(* The function send() defers: a callback for each log that is left, then  *)
(* the reset of the buffers; run() then takes the event it kept, if any.   *)
VerdictShadowed == Nil                      \* mutant: err := in the loop
VerdictMarking == IF err = "NoPool" THEN Nil ELSE err  \* mutant: see line 178
Verdict == err

FinishStep ==
  /\ pc = "finish"
  /\ pos <= Len(buf)
  /\ DoCallback(idBuf[pos], buf[pos], Verdict)
  /\ pos' = pos + 1
  /\ UNCHANGED <<client, pc, batch, aged, err, newBuf, newIdBuf, stopping,
                 service, pushed>>

ForgetHeld ==                               \* mutant: run() selects again
  buf' = <<>> /\ idBuf' = <<>> /\ bufSize' = 0 /\ pc' = "select"
KeepSize ==                                 \* mutant: bufSize is not reset
  IF held = NoEvent
  THEN buf' = <<>> /\ idBuf' = <<>> /\ bufSize' = bufSize /\ pc' = "select"
  ELSE Take(held, <<>>, <<>>, bufSize)
BackInRun ==
  IF held = NoEvent
  THEN buf' = <<>> /\ idBuf' = <<>> /\ bufSize' = 0 /\ pc' = "select"
  ELSE Take(held, <<>>, <<>>, 0)

SendReturns ==
  /\ pc = "finish"
  /\ pos > Len(buf)
  /\ pos' = 1
  /\ aged' = FALSE
  /\ err' = Nil
  /\ held' = NoEvent
  /\ BackInRun
  /\ UNCHANGED <<client, newBuf, newIdBuf, stopping, service, pushed, notified>>

-----------------------------------------------------------------------------
Send == \/ \E e \in Err : PutLogs(e)
        \/ RemoveStep \/ RemoveReturns
        \/ TimerFires \/ StopsRetrying
        \/ FinishStep \/ SendReturns
Run == RunStarts \/ SelectDone \/ SelectEvent \/ SelectTick \/ Send

Next ==
  \/ \E p \in Producer : PushReturns(p) \/ \E log \in Log : PushLog(p, log)
  \/ \E s \in Stopper : StopReturns(s) \/ \E wait \in BOOLEAN : Stop(s, wait)
  \/ Run
  \/ Age
  \/ \E b \in limbo : LateStore(b)

Spec == Init /\ [][Next]_vars

-----------------------------------------------------------------------------
(* The worker is a goroutine: it runs as long as it can.  A select in Go   *)
(* picks among its ready cases at random, so a case that is ready again    *)
(* and again is taken.  PutLogs returns, whatever it answers.              *)
WorkerFairness == WF_vars(Run) /\ SF_vars(SelectDone) /\ SF_vars(StopsRetrying)

(* A service that is asked again and again ends up giving a batch the      *)
(* answer it deserves: it takes a valid one, refuses an invalid one.       *)
Answer == PutLogs(IF Logs(buf) \cap OverLimit # {} THEN "Invalid" ELSE Nil)

StopSpec == Spec /\ WorkerFairness /\ \A s \in Stopper : WF_vars(StopReturns(s))
LiveSpec == Spec /\ WorkerFairness /\ WF_vars(Age) /\ SF_vars(Answer)
                 /\ \A p \in Producer : WF_vars(PushReturns(p))

-----------------------------------------------------------------------------
(* The sizes of the first n logs, and of all logs of a group, added up.    *)
SumTo(logs, n) ==
  LET sum[i \in 0..n] == IF i = 0 THEN 0 ELSE sum[i - 1] + Size[logs[i]]
  IN  sum[n]
SumSize(logs) == SumTo(logs, Len(logs))

(* The logs the client still has to report, wherever they are.             *)
Carried(n) ==
  \/ \E p \in Producer : pushing[p] # NoEvent /\ pushing[p].seqNo = n
  \/ \E i \in DOMAIN ch : ch[i].seqNo = n
  \/ held # NoEvent /\ held.seqNo = n
  \/ \E i \in pos..Len(idBuf) : idBuf[i] = n
  \/ \E i \in DOMAIN newIdBuf : newIdBuf[i] = n

(* PushLog has returned n to its caller.                                   *)
Returned(n) ==
  n \in 1..number /\ \A p \in Producer : pushing[p] # NoEvent => pushing[p].seqNo # n

(* The errors the callback was given for n: at most one, see CallbackOnce. *)
Reported(n) == {notified[n][i].err : i \in DOMAIN notified[n]}

QueueTypeOK ==
  /\ number \in 0..MaxPushes
  /\ pushing \in [Producer -> Event \cup {NoEvent}]
  /\ ch \in Seq(Event) /\ Len(ch) <= ChanSize
  /\ held \in Event \cup {NoEvent}

BatchTypeOK ==
  /\ buf \in Seq(Log) /\ idBuf \in Seq(1..MaxPushes) /\ Len(idBuf) = Len(buf)
  /\ newBuf \in Seq(Log) /\ newIdBuf \in Seq(1..MaxPushes)
  /\ Len(newIdBuf) = Len(newBuf)
  /\ bufSize \in Nat
  /\ pos \in 1..Len(buf) + 1

ControlTypeOK ==
  /\ pc \in {"spawned", "select", "put", "remove", "backoff", "finish", "exited"}
  /\ aged \in BOOLEAN /\ cancelled \in BOOLEAN
  /\ err \in {Nil} \cup PutErr
  /\ wg \in {0, 1}
  /\ stop \in [Stopper -> {"idle", "left", "waiting", "waited"}]
  /\ sawRun \in [Stopper -> BOOLEAN]

HistoryTypeOK ==
  /\ limbo \subseteq SUBSET (1..MaxPushes) /\ stored \subseteq 1..MaxPushes
  /\ pushed \in Seq([log : Log, by : Producer]) /\ Len(pushed) = number
  /\ notified \in [1..MaxPushes -> Seq([log : Log, err : Err])]

(* The type of the state; idBuf is as long as buf, also while              *)
(* removeInvalidLogs runs, and the channel holds at most ChanSize events.  *)
TypeOK == QueueTypeOK /\ BatchTypeOK /\ ControlTypeOK /\ HistoryTypeOK

(* The callback is called at most once for a sequence number, and with the *)
(* log that PushLog gave that number: buf and idBuf stay aligned through   *)
(* removeInvalidLogs and the resets of send().                             *)
CallbackOnce ==
  \A n \in 1..MaxPushes :
    /\ Len(notified[n]) <= 1
    /\ \A i \in DOMAIN notified[n] :
         n <= number /\ notified[n][i].log = pushed[n].log

(* A log is either still in the client's hands or has been reported: never *)
(* both, and never neither (the event kept across the first send() of      *)
(* run(), the buffers swapped by removeInvalidLogs).                       *)
NothingLost == \A n \in 1..number : Carried(n) <=> notified[n] = <<>>

(* A callback with a nil error means that the service has the log, however *)
(* many attempts, removals and cancellations send() went through.          *)
NilMeansStored == \A n \in 1..MaxPushes : Nil \in Reported(n) => n \in stored

(* A request never carries an empty group, more than MaxBulkSize logs or   *)
(* logs whose sizes add up to more than MaxLogGroupSize, also not on a     *)
(* retry and not when an event is appended after a send().                 *)
BatchWithinLimits ==
  pc = "put" => Len(buf) \in 1..MaxBulkSize /\ SumSize(buf) <= MaxLogGroupSize

(* When run() is back in its select, bufSize is what buf holds, although   *)
(* removeInvalidLogs shrinks buf without adjusting it.                     *)
BufSizeExact == pc = "select" => bufSize = SumSize(buf)

(* send() retries without a back-off only when it has removed a log: the   *)
(* `continue' behind removeInvalidLogs cannot send one group again and     *)
(* again, because what proto.Marshal refuses CheckLog refuses too.         *)
BusyRetryShrinks == [][pc = "remove" /\ pc' = "put" => Len(buf') < Len(buf)]_vars

(* Logs that one goroutine pushes reach the service in that order: one the *)
(* service has is never overtaken by one pushed after it, and a group      *)
(* lists them in the order of their sequence numbers.                      *)
ProducerOrder ==
  \A m, n \in 1..number :
    m < n /\ pushed[m].by = pushed[n].by =>
      /\ n \in stored => m \in stored \/ notified[m] # <<>>
      /\ \A i, j \in DOMAIN idBuf : idBuf[i] = m /\ idBuf[j] = n => i < j

(* A log is given up only because it is too large, because it is invalid,  *)
(* because the pool is gone and the options say so, or because of Stop:    *)
(* every other failure is retried.                                         *)
DropJustified ==
  \A n \in 1..number : \A e \in Reported(n) \ {Nil} :
    \/ TooLarge(pushed[n].log) \/ pushed[n].log \in BadUtf8 \cup OverLimit
    \/ e = "NoPool" /\ DropIfPoolNotExists
    \/ cancelled

(* A Stop(true) called once run() has started returns only after run() has *)
(* returned.                                                               *)
StopWaits == \A s \in Stopper : stop[s] = "waited" /\ sawRun[s] => pc = "exited"

(* Every log PushLog has returned a number for is reported in the end,     *)
(* unless the client is stopped: neither the thresholds nor a bad log in   *)
(* the batch hold it back for ever.                                        *)
LogSettled ==
  \A n \in 1..MaxPushes : Returned(n) ~> (notified[n] # <<>> \/ cancelled)

(* A PushLog on a full channel does not block for ever, unless the client  *)
(* is stopped: whatever the logs before it are, send() comes to an end     *)
(* with them and run() makes room.                                         *)
PushLogReturns ==
  \A p \in Producer : pushing[p] # NoEvent ~> pushing[p] = NoEvent \/ cancelled

(* Once cancelled, run() returns and so does every Stop(true), even if the *)
(* service never takes a log and send() is in its retry loop.              *)
StopTerminates ==
  /\ cancelled ~> pc = "exited"
  /\ \A s \in Stopper : stop[s] = "waiting" ~> stop[s] = "waited"

(* The client keeps the promise of LogDelivery: a verdict is given once,   *)
(* to a log that is owed one, and a confirmed log is one the service has.  *)
Delivery == INSTANCE LogDelivery WITH
  Id        <- 1..MaxPushes,
  owed      <- {n \in 1..number : notified[n] = <<>>},
  confirmed <- {n \in 1..MaxPushes : Nil \in Reported(n)},
  refused   <- {n \in 1..MaxPushes : notified[n] # <<>> /\ Nil \notin Reported(n)}
ImplementsDelivery == Delivery!Spec

(* The client is what AsyncWorker says of it, and AsyncMultiPool builds    *)
(* on: run() counts itself in wg from its start to its end, takes events   *)
(* only in between, and returns, once cancelled, wherever it was.          *)
Life == CASE pc = "spawned" -> "spawned" [] pc = "exited" -> "exited" [] OTHER -> "running"
Of(x) == [c \in {"this"} |-> x]
Worker == INSTANCE AsyncWorker WITH
  Client <- {"this"}, Item <- Event, ChanSize <- ChanSize,
  life <- Of(Life), cancelled <- Of(cancelled), wg <- Of(wg), ch <- Of(ch)
ImplementsWorker == Worker!WorkerSpec

-----------------------------------------------------------------------------
(* What the documentation and the comments say, where the code differs.    *)

(* api.async.go:46: the callback is called for each log when it is sent or *)
(* discarded.  When run() returns, what is in buf and in ch is discarded   *)
(* without a call.                                                         *)
EveryLogReported ==
  pc = "exited" => \A n \in 1..number : Returned(n) => notified[n] # <<>>

(* api.async.go:99: Stop() waits for the current request, then the client  *)
(* stops.  run() itself calls wg.Add, so a Stop(true) that comes before it *)
(* returns at once, and requests may be sent after that.                   *)
StopQuiesces == \A s \in Stopper : stop[s] = "waited" => pc # "put"
=============================================================================
