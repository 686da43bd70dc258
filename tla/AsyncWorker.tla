----------------------------- MODULE AsyncWorker -----------------------------
(***************************************************************************)
(* What an AsyncClient (klog/api.async.go) is to a goroutine that only has *)
(* a pointer to it: a channel, a context, a WaitGroup and a worker that    *)
(* returns once the context is cancelled.  AsyncClient implements it, and  *)
(* AsyncMultiPool is built from it.                                        *)
(***************************************************************************)
EXTENDS Integers, Sequences

CONSTANTS
  Client,       \* the AsyncClients
  Item,         \* what their channels carry
  ChanSize      \* the capacity of each channel

ASSUME ChanAssumption == ChanSize \in Nat \ {0}

VARIABLES
  life,         \* "none" until NewAsyncClient; then that of the goroutine
  cancelled,    \* its context is done
  wg,           \* the counter of its WaitGroup
  ch            \* its channel

workerVars == <<life, cancelled, wg, ch>>

WorkerInit ==
  /\ life \in [Client -> {"none", "spawned"}]
  /\ cancelled = [n \in Client |-> FALSE]
  /\ wg = [n \in Client |-> 0]
  /\ ch = [n \in Client |-> <<>>]

(* NewAsyncClient: go run().                                               *)
New(n) ==
  /\ life[n] = "none"
  /\ life' = [life EXCEPT ![n] = "spawned"]
  /\ UNCHANGED <<cancelled, wg, ch>>

RunStarts(n) ==
  /\ life[n] = "spawned"
  /\ life' = [life EXCEPT ![n] = "running"]
  /\ wg' = [wg EXCEPT ![n] = @ + 1]
  /\ UNCHANGED <<cancelled, ch>>

RunTakes(n) ==
  /\ life[n] = "running"
  /\ ch[n] # <<>>
  /\ ch' = [ch EXCEPT ![n] = Tail(@)]
  /\ UNCHANGED <<life, cancelled, wg>>

RunReturnsUncounted(n) ==                   \* mutant: no defer wg.Done
  /\ life[n] = "running"
  /\ cancelled[n]
  /\ life' = [life EXCEPT ![n] = "exited"]
  /\ UNCHANGED <<cancelled, wg, ch>>
RunReturns(n) ==
  /\ life[n] = "running"
  /\ cancelled[n]
  /\ life' = [life EXCEPT ![n] = "exited"]
  /\ wg' = [wg EXCEPT ![n] = @ - 1]
  /\ UNCHANGED <<cancelled, ch>>

(* The last step of PushLog, the only one of Stop(false), and the wait of  *)
(* Stop(true).                                                             *)
PushDropping(n, i) ==                       \* mutant: the channel never blocks
  /\ life[n] # "none"
  /\ ch' = [ch EXCEPT ![n] = Append(@, i)]
  /\ UNCHANGED <<life, cancelled, wg>>
Push(n, i) ==
  /\ life[n] # "none"
  /\ Len(ch[n]) < ChanSize
  /\ ch' = [ch EXCEPT ![n] = Append(@, i)]
  /\ UNCHANGED <<life, cancelled, wg>>

Cancel(n) ==
  /\ life[n] # "none"
  /\ cancelled' = [cancelled EXCEPT ![n] = TRUE]
  /\ UNCHANGED <<life, wg, ch>>

Waited(n) == wg[n] = 0

WorkerNext ==
  \E n \in Client :
    \/ New(n) \/ RunStarts(n) \/ RunTakes(n) \/ RunReturns(n)
    \/ Cancel(n) \/ \E i \in Item : Push(n, i)

WorkerSafety == WorkerInit /\ [][WorkerNext]_workerVars
WorkerEnds == \A n \in Client : cancelled[n] ~> life[n] = "exited"
WorkerSpec == WorkerSafety /\ WorkerEnds

WorkerTypeOK ==
  /\ life \in [Client -> {"none", "spawned", "running", "exited"}]
  /\ cancelled \in [Client -> BOOLEAN]
  /\ wg \in [Client -> {0, 1}]
  /\ ch \in [Client -> Seq(Item)] /\ \A n \in Client : Len(ch[n]) <= ChanSize
=============================================================================
