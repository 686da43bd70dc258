--------------------------- MODULE DeliveryProofs ---------------------------
(***************************************************************************)
(* What becomes of each log in AsyncClient: it is in one place of the      *)
(* client until the callback is called for it, once and with the log that  *)
(* was pushed, and the client implements LogDelivery.                      *)
(***************************************************************************)
EXTENDS AsyncClientProofs

(* The places a log can be in, by the sequence numbers found there.        *)
PushIds == {n \in 1..MaxPushes :
              \E p \in Producer : pushing[p] # NoEvent /\ pushing[p].seqNo = n}
ChIds   == {n \in 1..MaxPushes : \E i \in DOMAIN ch : ch[i].seqNo = n}
HeldIds == {n \in 1..MaxPushes : held # NoEvent /\ held.seqNo = n}
LeftIds == {n \in 1..MaxPushes : \E i \in pos..Len(idBuf) : idBuf[i] = n}
NewIds  == {n \in 1..MaxPushes : \E i \in DOMAIN newIdBuf : newIdBuf[i] = n}

Owed == {n \in 1..number : notified[n] = <<>>}

Apart(P, C, H, L, N) ==
  /\ P \cap C = {} /\ P \cap H = {} /\ P \cap L = {} /\ P \cap N = {}
  /\ C \cap H = {} /\ C \cap L = {} /\ C \cap N = {}
  /\ H \cap L = {} /\ H \cap N = {}
  /\ L \cap N = {}

(* A number that is owed a callback is in one of the places,               *)
OnePlace ==
  /\ Apart(PushIds, ChIds, HeldIds, LeftIds, NewIds)
  /\ PushIds \cup ChIds \cup HeldIds \cup LeftIds \cup NewIds = Owed

(* once,                                                                   *)
Single ==
  /\ \A p, q \in Producer :
       pushing[p] # NoEvent /\ pushing[q] # NoEvent /\ pushing[p].seqNo = pushing[q].seqNo
         => p = q
  /\ \A i, j \in DOMAIN ch : ch[i].seqNo = ch[j].seqNo => i = j
  /\ \A i, j \in pos..Len(idBuf) : idBuf[i] = idBuf[j] => i = j
  /\ \A i, j \in DOMAIN newIdBuf : newIdBuf[i] = newIdBuf[j] => i = j

(* and next to its log.                                                    *)
SameLog ==
  /\ \A p \in Producer :
       pushing[p] # NoEvent => pushing[p].log = pushed[pushing[p].seqNo].log
  /\ \A i \in DOMAIN ch : ch[i].log = pushed[ch[i].seqNo].log
  /\ held # NoEvent => held.log = pushed[held.seqNo].log
  /\ \A i \in pos..Len(idBuf) : buf[i] = pushed[idBuf[i]].log
  /\ \A i \in DOMAIN newIdBuf : newBuf[i] = pushed[newIdBuf[i]].log

(* run() keeps an event only across a send().                              *)
HeldInSend == held # NoEvent => pc \in {"put", "remove", "backoff", "finish"}

Ledger == OnePlace /\ Single /\ SameLog /\ HeldInSend /\ CallbackOnce

-----------------------------------------------------------------------------
LEMMA LedgerInit == Init => Ledger
<1> SUFFICES ASSUME Init PROVE Ledger
  OBVIOUS
<1> USE DEF Init
<1>1. Owed = {}
  BY DEF Owed
<1>2. PushIds = {} /\ ChIds = {} /\ HeldIds = {} /\ LeftIds = {} /\ NewIds = {}
  BY DEF PushIds, ChIds, HeldIds, LeftIds, NewIds
<1>3. OnePlace
  BY <1>1, <1>2 DEF OnePlace, Apart
<1>4. Single /\ SameLog /\ HeldInSend
  BY DEF Single, SameLog, HeldInSend
<1>5. CallbackOnce
  BY DEF CallbackOnce
<1> QED
  BY <1>3, <1>4, <1>5 DEF Ledger

(* Numbers found anywhere have been given out.                             *)
LEMMA IdsKnown ==
  ASSUME IInv, Ledger
  PROVE  /\ \A p \in Producer : pushing[p] # NoEvent =>
              pushing[p].seqNo \in 1..number /\ pushing[p].seqNo \in PushIds
         /\ \A i \in DOMAIN ch : ch[i].seqNo \in 1..number /\ ch[i].seqNo \in ChIds
         /\ held # NoEvent => held.seqNo \in 1..number /\ held.seqNo \in HeldIds
         /\ \A i \in pos..Len(idBuf) : idBuf[i] \in 1..number /\ idBuf[i] \in LeftIds
         /\ \A i \in DOMAIN newIdBuf : newIdBuf[i] \in 1..number /\ newIdBuf[i] \in NewIds
<1> USE DEF IInv, TypeOK, Ledger
<1>1. ASSUME NEW p \in Producer, pushing[p] # NoEvent
      PROVE  pushing[p].seqNo \in PushIds
  <2>1. pushing[p] \in Event
    BY <1>1 DEF QueueTypeOK
  <2> QED
    BY <1>1, <2>1 DEF PushIds, Event
<1>2. ASSUME NEW i \in DOMAIN ch PROVE ch[i].seqNo \in ChIds
  <2>1. ch[i] \in Event
    BY DEF QueueTypeOK
  <2> QED
    BY <2>1 DEF ChIds, Event
<1>3. ASSUME held # NoEvent PROVE held.seqNo \in HeldIds
  BY <1>3 DEF HeldIds, QueueTypeOK, Event
<1>4. ASSUME NEW i \in pos..Len(idBuf) PROVE idBuf[i] \in LeftIds
  <2>1. idBuf[i] \in 1..MaxPushes
    <3>1. idBuf \in Seq(1..MaxPushes) /\ pos \in Nat \ {0}
      BY DEF BatchTypeOK
    <3>2. i \in 1..Len(idBuf)
      BY <3>1
    <3> QED
      BY <3>1, <3>2, ElementType
  <2> QED
    BY <2>1 DEF LeftIds
<1>5. ASSUME NEW i \in DOMAIN newIdBuf PROVE newIdBuf[i] \in NewIds
  <2>1. newIdBuf[i] \in 1..MaxPushes
    <3>1. newIdBuf \in Seq(1..MaxPushes)
      BY DEF BatchTypeOK
    <3>2. i \in 1..Len(newIdBuf)
      BY <3>1
    <3> QED
      BY <3>1, <3>2, ElementType
  <2> QED
    BY <2>1 DEF NewIds
<1>6. PushIds \cup ChIds \cup HeldIds \cup LeftIds \cup NewIds \subseteq 1..number
  BY DEF OnePlace, Owed
<1> QED
  BY <1>1, <1>2, <1>3, <1>4, <1>5, <1>6

(* The steps that leave every log where it is.                             *)
LEMMA LedgerFrame ==
  ASSUME IInv, Ledger, HeldInSend',
         UNCHANGED <<client, buf, idBuf, held, scan, pushed, notified>>
  PROVE  Ledger'
<1> USE DEF Ledger, client, scan
<1>1. UNCHANGED <<PushIds, ChIds, HeldIds, LeftIds, NewIds, Owed>>
  BY DEF PushIds, ChIds, HeldIds, LeftIds, NewIds, Owed
<1>2. OnePlace'
  BY <1>1 DEF OnePlace, Apart
<1>3. Single'
  BY DEF Single
<1>4. SameLog'
  BY DEF SameLog
<1>5. CallbackOnce'
  BY DEF CallbackOnce
<1> QED
  BY <1>2, <1>3, <1>4, <1>5

-----------------------------------------------------------------------------
(* PushLog takes a number that is nowhere yet.                             *)
LEMMA PushLogLedger ==
  ASSUME IInv, Ledger, NEW p \in Producer, NEW log \in Log, PushLog(p, log)
  PROVE  Ledger'
<1> USE DEF IInv, TypeOK, Ledger
<1> DEFINE n == number + 1
           ev == [seqNo |-> n, log |-> log]
<1>1. /\ pushing[p] = NoEvent /\ number < MaxPushes /\ number' = n
      /\ pushing' = [pushing EXCEPT ![p] = ev]
      /\ pushed' = Append(pushed, [log |-> log, by |-> p])
      /\ UNCHANGED <<ch, pc, batch, scan, notified>>
  BY DEF PushLog
<1>2. number \in Nat /\ MaxPushes \in Nat /\ n \in 1..MaxPushes /\ n \notin 1..number
  BY <1>1, OptionAssumption DEF QueueTypeOK
<1>3. ev \in Event /\ ev # NoEvent /\ ev.seqNo = n /\ ev.log = log
  BY <1>2, NoEventAssumption DEF Event
<1> HIDE DEF ev
<1>4. pushing'[p] = ev /\ \A q \in Producer \ {p} : pushing'[q] = pushing[q]
  BY <1>1 DEF QueueTypeOK
<1>5. /\ pushed'[n].log = log
      /\ \A k \in 1..number : pushed'[k] = pushed[k]
  BY <1>1, <1>2 DEF HistoryTypeOK
<1>6. notified[n] = <<>>
  BY <1>2 DEF CallbackOnce, HistoryTypeOK
<1>7. Owed' = Owed \cup {n}
  <2>1. 1..n = 1..number \cup {n}
    BY <1>2
  <2> QED
    BY <1>1, <1>6, <2>1 DEF Owed
<1>8. PushIds' = PushIds \cup {n}
  BY <1>1, <1>2, <1>3, <1>4 DEF PushIds
<1>9. UNCHANGED <<ChIds, HeldIds, LeftIds, NewIds>>
  BY <1>1 DEF ChIds, HeldIds, LeftIds, NewIds, batch, scan
<1>10. n \notin Owed
  BY <1>2 DEF Owed
<1>11. OnePlace'
  BY <1>7, <1>8, <1>9, <1>10 DEF OnePlace, Apart
<1>12. Single'
  <2>1. \A q \in Producer : pushing[q] # NoEvent => pushing[q].seqNo # n
    BY <1>2, IdsKnown
  <2>2. \A q, r \in Producer :
          pushing'[q] # NoEvent /\ pushing'[r] # NoEvent
            /\ pushing'[q].seqNo = pushing'[r].seqNo => q = r
    BY <1>3, <1>4, <2>1 DEF Single
  <2> QED
    BY <1>1, <2>2 DEF Single, batch, scan
<1>13. SameLog'
  <2>1. \A q \in Producer :
          pushing'[q] # NoEvent => pushing'[q].log = pushed'[pushing'[q].seqNo].log
    BY <1>3, <1>4, <1>5, IdsKnown DEF SameLog
  <2>2. \A i \in DOMAIN ch : ch[i].log = pushed'[ch[i].seqNo].log
    BY <1>5, IdsKnown DEF SameLog
  <2>3. held # NoEvent => held.log = pushed'[held.seqNo].log
    BY <1>5, IdsKnown DEF SameLog
  <2>4. \A i \in pos..Len(idBuf) : buf[i] = pushed'[idBuf[i]].log
    BY <1>5, IdsKnown DEF SameLog
  <2>5. \A i \in DOMAIN newIdBuf : newBuf[i] = pushed'[newIdBuf[i]].log
    BY <1>5, IdsKnown DEF SameLog
  <2> QED
    BY <1>1, <2>1, <2>2, <2>3, <2>4, <2>5 DEF SameLog, batch, scan
<1>14. HeldInSend'
  BY <1>1 DEF HeldInSend, batch
<1>15. CallbackOnce'
  <2> SUFFICES ASSUME NEW k \in 1..MaxPushes, NEW i \in DOMAIN notified[k]
               PROVE  k <= n /\ notified[k][i].log = pushed'[k].log
    BY <1>1 DEF CallbackOnce
  <2>1. k \in 1..number /\ notified[k][i].log = pushed[k].log
    BY <1>2 DEF CallbackOnce
  <2> QED
    BY <1>2, <1>5, <2>1
<1> QED
  BY <1>11, <1>12, <1>13, <1>14, <1>15

(* The event goes from the producer to the channel.                        *)
LEMMA PushReturnsLedger ==
  ASSUME IInv, Ledger, NEW p \in Producer, PushReturns(p)
  PROVE  Ledger'
<1> USE DEF IInv, TypeOK, Ledger
<1> DEFINE ev == pushing[p]
           n == ev.seqNo
<1>1. /\ ev # NoEvent
      /\ ch' = Append(ch, ev)
      /\ pushing' = [pushing EXCEPT ![p] = NoEvent]
      /\ UNCHANGED <<number, pc, batch, scan, pushed, notified>>
  BY DEF PushReturns, Enqueue
<1>2. ev \in Event /\ n \in 1..MaxPushes /\ n \in PushIds
  BY <1>1, IdsKnown DEF QueueTypeOK, Event
<1>3. pushing'[p] = NoEvent /\ \A q \in Producer \ {p} : pushing'[q] = pushing[q]
  BY <1>1 DEF QueueTypeOK
<1>4. \A q \in Producer \ {p} : pushing[q] # NoEvent => pushing[q].seqNo # n
  BY <1>1 DEF Single
<1>5. /\ DOMAIN ch = 1..Len(ch) /\ DOMAIN ch' = 1..Len(ch) + 1 /\ Len(ch) \in Nat
      /\ ch'[Len(ch) + 1] = ev
      /\ \A i \in 1..Len(ch) : ch'[i] = ch[i]
  BY <1>1, <1>2 DEF QueueTypeOK
<1> HIDE DEF ev, n
<1>6. PushIds' = PushIds \ {n}
  BY <1>3, <1>4 DEF PushIds, n, ev
<1>7. ChIds' = ChIds \cup {n}
  <2>1. \A k \in 1..MaxPushes : (\E i \in DOMAIN ch' : ch'[i].seqNo = k)
                                <=> k = n \/ \E i \in DOMAIN ch : ch[i].seqNo = k
    BY <1>5 DEF n
  <2> QED
    BY <1>2, <2>1 DEF ChIds
<1>8. UNCHANGED <<HeldIds, LeftIds, NewIds, Owed>>
  BY <1>1 DEF HeldIds, LeftIds, NewIds, Owed, batch, scan
<1>9. OnePlace'
  BY <1>2, <1>6, <1>7, <1>8 DEF OnePlace, Apart
<1>10. Single'
  <2>1. n \notin ChIds
    BY <1>2 DEF OnePlace, Apart
  <2>2. \A i \in DOMAIN ch : ch[i].seqNo # n
    BY <2>1, IdsKnown
  <2>3. \A i, j \in DOMAIN ch' : ch'[i].seqNo = ch'[j].seqNo => i = j
    BY <1>5, <2>2 DEF Single, n
  <2>4. \A q, r \in Producer :
          pushing'[q] # NoEvent /\ pushing'[r] # NoEvent
            /\ pushing'[q].seqNo = pushing'[r].seqNo => q = r
    BY <1>3 DEF Single
  <2> QED
    BY <1>1, <2>3, <2>4 DEF Single, batch, scan
<1>11. SameLog'
  <2>1. ev.log = pushed[ev.seqNo].log
    BY <1>1 DEF SameLog, ev
  <2>2. \A i \in DOMAIN ch' : ch'[i].log = pushed[ch'[i].seqNo].log
    BY <1>5, <2>1 DEF SameLog
  <2>3. \A q \in Producer :
          pushing'[q] # NoEvent => pushing'[q].log = pushed[pushing'[q].seqNo].log
    BY <1>3 DEF SameLog
  <2> QED
    BY <1>1, <2>2, <2>3 DEF SameLog, batch, scan
<1>12. HeldInSend' /\ CallbackOnce'
  BY <1>1 DEF HeldInSend, CallbackOnce, batch
<1> QED
  BY <1>9, <1>10, <1>11, <1>12

-----------------------------------------------------------------------------
(* The callback for a log settles what it is owed.                         *)
LEMMA Notify ==
  ASSUME IInv, CallbackOnce, NEW n \in Owed, NEW log, NEW e,
         log = pushed[n].log,
         DoCallback(n, log, e), UNCHANGED <<number, pushed>>
  PROVE  Owed' = Owed \ {n} /\ CallbackOnce'
<1> USE DEF IInv, TypeOK
<1> DEFINE call == [log |-> log, err |-> e]
<1>1. n \in 1..number /\ n \in 1..MaxPushes /\ notified[n] = <<>>
  BY OptionAssumption DEF Owed, QueueTypeOK
<1>2. notified' = [notified EXCEPT ![n] = Append(<<>>, call)]
  BY <1>1 DEF DoCallback
<1>3. call.log = log
  OBVIOUS
<1> HIDE DEF call
<1>4. /\ notified'[n] = <<call>>
      /\ \A k \in 1..MaxPushes \ {n} : notified'[k] = notified[k]
  BY <1>1, <1>2 DEF HistoryTypeOK
<1>5. <<call>> # <<>> /\ Len(<<call>>) = 1 /\ DOMAIN <<call>> = {1} /\ <<call>>[1] = call
  OBVIOUS
<1>6. 1..number \subseteq 1..MaxPushes
  BY OptionAssumption DEF QueueTypeOK
<1>7. Owed' = Owed \ {n}
  BY <1>4, <1>5, <1>6 DEF Owed
<1>8. CallbackOnce'
  <2> SUFFICES ASSUME NEW k \in 1..MaxPushes
               PROVE  /\ Len(notified'[k]) <= 1
                      /\ \A i \in DOMAIN notified'[k] :
                           k <= number /\ notified'[k][i].log = pushed[k].log
    BY DEF CallbackOnce
  <2>1. CASE k = n
    <3>1. notified'[k] = <<call>> /\ k \in 1..number
      BY <1>1, <1>4, <2>1
    <3>2. k <= number
      BY <3>1 DEF QueueTypeOK
    <3>3. \A i \in DOMAIN notified'[k] : notified'[k][i] = call
      BY <1>5, <3>1
    <3> QED
      BY <1>3, <1>5, <2>1, <3>1, <3>2, <3>3
  <2>2. CASE k # n
    BY <1>4, <2>2 DEF CallbackOnce
  <2> QED
    BY <2>1, <2>2
<1> QED
  BY <1>7, <1>8

(* The head of the channel leaves it.                                      *)
LEMMA Dequeue ==
  ASSUME IInv, Ledger, ch # <<>>, ch' = Tail(ch)
  PROVE  /\ Head(ch) \in Event /\ Head(ch).seqNo \in ChIds
         /\ Head(ch).log = pushed[Head(ch).seqNo].log
         /\ ChIds' = ChIds \ {Head(ch).seqNo}
         /\ \A i, j \in DOMAIN ch' : ch'[i].seqNo = ch'[j].seqNo => i = j
         /\ \A i \in DOMAIN ch' : ch'[i].log = pushed[ch'[i].seqNo].log
<1> USE DEF IInv, TypeOK, Ledger
<1>1. /\ Head(ch) = ch[1] /\ Len(ch) \in Nat \ {0}
      /\ DOMAIN ch = 1..Len(ch) /\ 1 \in DOMAIN ch
      /\ DOMAIN ch' = 1..Len(ch) - 1
      /\ \A i \in 1..Len(ch) - 1 : ch'[i] = ch[i + 1] /\ i + 1 \in 1..Len(ch)
  BY DEF QueueTypeOK
<1>2. Head(ch) \in Event
  BY DEF QueueTypeOK
<1>3. Head(ch).seqNo \in ChIds /\ Head(ch).log = pushed[Head(ch).seqNo].log
  BY <1>1, IdsKnown DEF SameLog
<1>4. \A i \in 1..Len(ch) : i # 1 => ch[i].seqNo # ch[1].seqNo
  BY <1>1 DEF Single
<1>5. \A k : (\E i \in DOMAIN ch' : ch'[i].seqNo = k)
             <=> k # ch[1].seqNo /\ \E i \in DOMAIN ch : ch[i].seqNo = k
  <2> TAKE k
  <2>1. ASSUME NEW i \in DOMAIN ch', ch'[i].seqNo = k
        PROVE  k # ch[1].seqNo /\ \E j \in DOMAIN ch : ch[j].seqNo = k
    <3>1. i \in 1..Len(ch) - 1 /\ i + 1 \in 1..Len(ch) /\ i + 1 # 1
      BY <1>1
    <3> QED
      BY <1>1, <1>4, <2>1, <3>1
  <2>2. ASSUME k # ch[1].seqNo, NEW j \in DOMAIN ch, ch[j].seqNo = k
        PROVE  \E i \in DOMAIN ch' : ch'[i].seqNo = k
    <3>1. j - 1 \in 1..Len(ch) - 1
      BY <1>1, <2>2
    <3>2. ch'[j - 1] = ch[j]
      BY <1>1, <3>1
    <3> QED
      BY <1>1, <2>2, <3>1, <3>2
  <2> QED
    BY <2>1, <2>2
<1>6. ChIds' = ChIds \ {Head(ch).seqNo}
  <2>1. \A k \in 1..MaxPushes : k \in ChIds' <=> k # ch[1].seqNo /\ k \in ChIds
    BY <1>5 DEF ChIds
  <2>2. ChIds \subseteq 1..MaxPushes /\ ChIds' \subseteq 1..MaxPushes
    BY DEF ChIds
  <2> QED
    BY <1>1, <2>1, <2>2
<1>7. \A i, j \in DOMAIN ch' : ch'[i].seqNo = ch'[j].seqNo => i = j
  <2> SUFFICES ASSUME NEW i \in 1..Len(ch) - 1, NEW j \in 1..Len(ch) - 1,
                      ch'[i].seqNo = ch'[j].seqNo
               PROVE  i = j
    BY <1>1
  <2>1. i + 1 = j + 1
    BY <1>1 DEF Single
  <2> QED
    BY <2>1
<1>8. \A i \in DOMAIN ch' : ch'[i].log = pushed[ch'[i].seqNo].log
  BY <1>1 DEF SameLog
<1> QED
  BY <1>2, <1>3, <1>6, <1>7, <1>8

(* An event is appended to a batch whose logs are all still to be reported.*)
LEMMA TakeLeft ==
  ASSUME NEW ids \in Seq(1..MaxPushes), NEW logs \in Seq(Log), Len(ids) = Len(logs),
         NEW ev \in Event, NEW size, Take(ev, logs, ids, size), pos' = 1,
         \A i \in 1..Len(ids) : ids[i] # ev.seqNo /\ logs[i] = pushed[ids[i]].log,
         \A i, j \in 1..Len(ids) : ids[i] = ids[j] => i = j,
         ev.log = pushed[ev.seqNo].log
  PROVE  /\ LeftIds' = {n \in 1..MaxPushes : \E i \in 1..Len(ids) : ids[i] = n}
                        \cup {ev.seqNo}
         /\ \A i, j \in pos'..Len(idBuf') : idBuf'[i] = idBuf'[j] => i = j
         /\ \A i \in pos'..Len(idBuf') : buf'[i] = pushed[idBuf'[i]].log
         /\ pc' \in {"put", "select"}
<1>1. ev.seqNo \in 1..MaxPushes /\ ev.log \in Log
  BY DEF Event
<1>2. idBuf' = Append(ids, ev.seqNo) /\ buf' = Append(logs, ev.log) /\ pc' \in {"put", "select"}
  BY DEF Take
<1>3. /\ pos'..Len(idBuf') = 1..Len(ids) + 1 /\ Len(ids) \in Nat
      /\ idBuf'[Len(ids) + 1] = ev.seqNo /\ buf'[Len(ids) + 1] = ev.log
      /\ \A i \in 1..Len(ids) : idBuf'[i] = ids[i] /\ buf'[i] = logs[i]
  BY <1>1, <1>2
<1>4. \A n : (\E i \in pos'..Len(idBuf') : idBuf'[i] = n)
             <=> n = ev.seqNo \/ \E i \in 1..Len(ids) : ids[i] = n
  BY <1>3
<1>5. LeftIds' = {n \in 1..MaxPushes : \E i \in 1..Len(ids) : ids[i] = n}
                 \cup {ev.seqNo}
  BY <1>1, <1>4 DEF LeftIds
<1>6. \A i, j \in pos'..Len(idBuf') : idBuf'[i] = idBuf'[j] => i = j
  BY <1>3
<1>7. \A i \in pos'..Len(idBuf') : buf'[i] = pushed[idBuf'[i]].log
  BY <1>3
<1> QED
  BY <1>2, <1>5, <1>6, <1>7

LEMMA SelectEventLedger == ASSUME IInv, Ledger, SelectEvent PROVE Ledger'
<1> USE DEF IInv, TypeOK, Ledger
<1> DEFINE ev == Head(ch)
           n == ev.seqNo
<1>1. /\ pc = "select" /\ ch # <<>> /\ ch' = Tail(ch)
      /\ UNCHANGED <<number, pushing, scan, pushed>>
  BY DEF SelectEvent
<1>2. /\ ev \in Event /\ n \in ChIds /\ ev.log = pushed[n].log
      /\ ChIds' = ChIds \ {n}
      /\ \A i, j \in DOMAIN ch' : ch'[i].seqNo = ch'[j].seqNo => i = j
      /\ \A i \in DOMAIN ch' : ch'[i].log = pushed[ch'[i].seqNo].log
  BY <1>1, Dequeue
<1>3. held = NoEvent /\ HeldIds = {} /\ pos = 1
  BY <1>1 DEF HeldInSend, HeldIds, LoopsAtRest
<1>4. n \in Owed /\ n \notin LeftIds /\ n \in 1..MaxPushes
  BY <1>2 DEF OnePlace, Apart, ChIds
<1>5. UNCHANGED <<PushIds, NewIds>>
  BY <1>1 DEF PushIds, NewIds, scan
<1> HIDE DEF ev
<1>6. CASE /\ DoCallback(n, ev.log, "MaxLogSizeExceeded")
           /\ UNCHANGED <<pc, batch>>
  <2>1. Owed' = Owed \ {n} /\ CallbackOnce'
    BY <1>1, <1>2, <1>4, <1>6, Notify
  <2>2. UNCHANGED <<HeldIds, LeftIds>>
    BY <1>1, <1>6 DEF HeldIds, LeftIds, batch, scan
  <2>3. OnePlace'
    BY <1>2, <1>5, <2>1, <2>2 DEF OnePlace, Apart
  <2>4. Single' /\ SameLog' /\ HeldInSend'
    BY <1>1, <1>2, <1>6 DEF Single, SameLog, HeldInSend, batch, scan
  <2> QED
    BY <2>1, <2>3, <2>4
<1>7. CASE /\ held' = ev
           /\ pc' = "put"
           /\ UNCHANGED <<buf, idBuf, bufSize, notified>>
  <2>1. UNCHANGED <<LeftIds, Owed>>
    BY <1>1, <1>7 DEF LeftIds, Owed, scan
  <2>2. HeldIds' = {n}
    BY <1>2, <1>4, <1>7, NoEventAssumption DEF HeldIds
  <2>3. OnePlace'
    BY <1>2, <1>3, <1>5, <2>1, <2>2 DEF OnePlace, Apart
  <2>4. Single'
    BY <1>1, <1>2, <1>7 DEF Single, scan
  <2>5. SameLog' /\ HeldInSend'
    BY <1>1, <1>2, <1>7 DEF SameLog, HeldInSend, scan
  <2>6. CallbackOnce'
    BY <1>1, <1>7 DEF CallbackOnce
  <2> QED
    BY <2>3, <2>4, <2>5, <2>6
<1>8. CASE Take(ev, buf, idBuf, bufSize) /\ UNCHANGED <<held, notified>>
  <2>1. pos' = 1 /\ UNCHANGED <<HeldIds, Owed>>
    BY <1>1, <1>3, <1>8 DEF HeldIds, Owed, scan
  <2>2. \A i \in 1..Len(idBuf) : idBuf[i] # n /\ buf[i] = pushed[idBuf[i]].log
    BY <1>3, <1>4, IdsKnown DEF SameLog
  <2>3. \A i, j \in 1..Len(idBuf) : idBuf[i] = idBuf[j] => i = j
    BY <1>3 DEF Single
  <2>4. LeftIds = {k \in 1..MaxPushes : \E i \in 1..Len(idBuf) : idBuf[i] = k}
    BY <1>3 DEF LeftIds
  <2>5. /\ LeftIds' = LeftIds \cup {n}
        /\ \A i, j \in pos'..Len(idBuf') : idBuf'[i] = idBuf'[j] => i = j
        /\ \A i \in pos'..Len(idBuf') : buf'[i] = pushed[idBuf'[i]].log
        /\ pc' \in {"put", "select"}
    BY <1>2, <1>8, <2>1, <2>2, <2>3, <2>4, TakeLeft DEF BatchTypeOK
  <2>6. OnePlace'
    BY <1>2, <1>5, <2>1, <2>5 DEF OnePlace, Apart
  <2>7. Single'
    BY <1>1, <1>2, <2>5 DEF Single, scan
  <2>8. SameLog'
    BY <1>1, <1>2, <1>8, <2>5 DEF SameLog, scan
  <2>9. HeldInSend' /\ CallbackOnce'
    BY <1>1, <1>3, <1>8 DEF HeldInSend, CallbackOnce
  <2> QED
    BY <2>6, <2>7, <2>8, <2>9
<1> QED
  BY <1>6, <1>7, <1>8 DEF SelectEvent, ev

-----------------------------------------------------------------------------
(* The next log of the batch is settled, or copied, and then passed.       *)
LEMMA Pass ==
  ASSUME IInv, Ledger, pos <= Len(buf), pos' = pos + 1, idBuf' = idBuf
  PROVE  /\ idBuf[pos] \in LeftIds /\ idBuf[pos] \in Owed
         /\ buf[pos] = pushed[idBuf[pos]].log
         /\ LeftIds' = LeftIds \ {idBuf[pos]}
         /\ pos'..Len(idBuf) \subseteq pos..Len(idBuf)
<1> USE DEF IInv, TypeOK, Ledger
<1>1. /\ Len(idBuf) \in Nat /\ pos \in Nat \ {0}
      /\ pos \in pos..Len(idBuf) /\ pos'..Len(idBuf) = (pos..Len(idBuf)) \ {pos}
  BY DEF BatchTypeOK
<1>2. idBuf[pos] \in LeftIds /\ buf[pos] = pushed[idBuf[pos]].log
  BY <1>1, IdsKnown DEF SameLog
<1>3. \A k : (\E i \in pos'..Len(idBuf) : idBuf[i] = k)
             <=> k # idBuf[pos] /\ \E i \in pos..Len(idBuf) : idBuf[i] = k
  BY <1>1 DEF Single
<1>4. LeftIds' = LeftIds \ {idBuf[pos]}
  <2>1. \A k \in 1..MaxPushes : k \in LeftIds' <=> k # idBuf[pos] /\ k \in LeftIds
    BY <1>3 DEF LeftIds
  <2>2. LeftIds \subseteq 1..MaxPushes /\ LeftIds' \subseteq 1..MaxPushes
    BY DEF LeftIds
  <2> QED
    BY <2>1, <2>2
<1>5. idBuf[pos] \in Owed
  BY <1>2 DEF OnePlace
<1> QED
  BY <1>1, <1>2, <1>4, <1>5

LEMMA RemoveStepLedger == ASSUME IInv, Ledger, RemoveStep PROVE Ledger'
<1> USE DEF IInv, TypeOK, Ledger
<1> DEFINE n == idBuf[pos]
           log == buf[pos]
<1>1. /\ pc = "remove" /\ pos <= Len(buf) /\ pos' = pos + 1
      /\ UNCHANGED <<number, pushing, ch, pc, buf, idBuf, held, pushed>>
  BY DEF RemoveStep, client, batch
<1>2. /\ n \in LeftIds /\ n \in Owed /\ log = pushed[n].log
      /\ LeftIds' = LeftIds \ {n}
      /\ pos'..Len(idBuf) \subseteq pos..Len(idBuf)
  BY <1>1, Pass
<1>3. n \in 1..MaxPushes /\ log \in Log
  BY <1>1, PosType
<1>4. UNCHANGED <<PushIds, ChIds, HeldIds>>
  BY <1>1 DEF PushIds, ChIds, HeldIds
<1>5. /\ \A i, j \in pos'..Len(idBuf') : idBuf'[i] = idBuf'[j] => i = j
      /\ \A i \in pos'..Len(idBuf') : buf'[i] = pushed'[idBuf'[i]].log
  BY <1>1, <1>2 DEF Single, SameLog
<1> HIDE DEF n, log
<1>6. CASE /\ DoCallback(n, log, CheckLog(log))
           /\ UNCHANGED <<newBuf, newIdBuf>>
  <2>1. Owed' = Owed \ {n} /\ CallbackOnce'
    BY <1>1, <1>2, <1>6, Notify
  <2>2. NewIds' = NewIds
    BY <1>6 DEF NewIds
  <2>3. OnePlace'
    BY <1>2, <1>4, <2>1, <2>2 DEF OnePlace, Apart
  <2>4. Single' /\ SameLog' /\ HeldInSend'
    BY <1>1, <1>5, <1>6 DEF Single, SameLog, HeldInSend
  <2> QED
    BY <2>1, <2>3, <2>4
<1>7. CASE /\ newBuf' = Append(newBuf, log) /\ newIdBuf' = Append(newIdBuf, n)
           /\ UNCHANGED notified
  <2>1. /\ DOMAIN newIdBuf = 1..Len(newIdBuf) /\ DOMAIN newIdBuf' = 1..Len(newIdBuf) + 1
        /\ Len(newIdBuf) \in Nat
        /\ newIdBuf'[Len(newIdBuf) + 1] = n /\ newBuf'[Len(newIdBuf) + 1] = log
        /\ \A i \in 1..Len(newIdBuf) : newIdBuf'[i] = newIdBuf[i] /\ newBuf'[i] = newBuf[i]
    BY <1>3, <1>7 DEF BatchTypeOK
  <2>2. NewIds' = NewIds \cup {n}
    <3>1. \A k \in 1..MaxPushes : k \in NewIds' <=> k = n \/ k \in NewIds
      BY <2>1 DEF NewIds
    <3>2. NewIds \subseteq 1..MaxPushes /\ NewIds' \subseteq 1..MaxPushes
      BY DEF NewIds
    <3> QED
      BY <1>3, <3>1, <3>2
  <2>3. Owed' = Owed
    BY <1>1, <1>7 DEF Owed
  <2>4. OnePlace'
    BY <1>2, <1>4, <2>2, <2>3 DEF OnePlace, Apart
  <2>5. \A i \in DOMAIN newIdBuf : newIdBuf[i] # n
    BY <1>2, IdsKnown DEF OnePlace, Apart
  <2>6. \A i, j \in DOMAIN newIdBuf' : newIdBuf'[i] = newIdBuf'[j] => i = j
    BY <2>1, <2>5 DEF Single
  <2>7. \A i \in DOMAIN newIdBuf' : newBuf'[i] = pushed[newIdBuf'[i]].log
    BY <1>2, <2>1 DEF SameLog
  <2>8. Single'
    BY <1>1, <1>5, <2>6 DEF Single
  <2>9. SameLog' /\ HeldInSend'
    BY <1>1, <1>5, <2>7 DEF SameLog, HeldInSend
  <2>10. CallbackOnce'
    BY <1>1, <1>7 DEF CallbackOnce
  <2> QED
    BY <2>4, <2>8, <2>9, <2>10
<1> QED
  BY <1>6, <1>7 DEF RemoveStep, Keep, n, log

(* The copy takes the place of the buffers.                                *)
LEMMA RemoveReturnsLedger == ASSUME IInv, Ledger, RemoveReturns PROVE Ledger'
<1> USE DEF IInv, TypeOK, Ledger
<1>1. /\ pc = "remove" /\ pos > Len(buf)
      /\ buf' = newBuf /\ idBuf' = newIdBuf
      /\ pos' = 1 /\ newBuf' = <<>> /\ newIdBuf' = <<>>
      /\ pc' \in {"put", "backoff", "finish"}
      /\ UNCHANGED <<client, held, pushed, notified>>
  BY DEF RemoveReturns, AfterRemove
<1>2. DOMAIN newIdBuf = pos'..Len(idBuf')
  BY <1>1 DEF BatchTypeOK
<1>3. LeftIds = {} /\ NewIds' = {}
  BY <1>1 DEF LeftIds, NewIds, BatchTypeOK
<1>4. LeftIds' = NewIds
  BY <1>1, <1>2 DEF LeftIds, NewIds
<1>5. UNCHANGED <<PushIds, ChIds, HeldIds, Owed>>
  BY <1>1 DEF PushIds, ChIds, HeldIds, Owed, client
<1>6. OnePlace'
  BY <1>3, <1>4, <1>5 DEF OnePlace, Apart
<1>7. Single'
  BY <1>1, <1>2 DEF Single, client
<1>8. SameLog'
  BY <1>1, <1>2 DEF SameLog, client
<1>9. HeldInSend' /\ CallbackOnce'
  BY <1>1 DEF HeldInSend, CallbackOnce, client
<1> QED
  BY <1>6, <1>7, <1>8, <1>9

LEMMA FinishStepLedger == ASSUME IInv, Ledger, FinishStep PROVE Ledger'
<1> USE DEF IInv, TypeOK, Ledger
<1> DEFINE n == idBuf[pos]
<1>1. /\ pos <= Len(buf) /\ pos' = pos + 1
      /\ DoCallback(n, buf[pos], Verdict)
      /\ UNCHANGED <<client, pc, batch, newBuf, newIdBuf, pushed>>
  BY DEF FinishStep
<1>2. /\ n \in LeftIds /\ n \in Owed /\ buf[pos] = pushed[n].log
      /\ LeftIds' = LeftIds \ {n}
      /\ pos'..Len(idBuf) \subseteq pos..Len(idBuf)
  BY <1>1, Pass DEF batch
<1>3. Owed' = Owed \ {n} /\ CallbackOnce'
  BY <1>1, <1>2, Notify DEF client
<1>4. UNCHANGED <<PushIds, ChIds, HeldIds, NewIds>>
  BY <1>1 DEF PushIds, ChIds, HeldIds, NewIds, client, batch
<1>5. OnePlace'
  BY <1>2, <1>3, <1>4 DEF OnePlace, Apart
<1>6. Single'
  BY <1>1, <1>2 DEF Single, client, batch
<1>7. SameLog' /\ HeldInSend'
  BY <1>1, <1>2 DEF SameLog, HeldInSend, client, batch
<1> QED
  BY <1>3, <1>5, <1>6, <1>7

(* The buffers are emptied, and filled again with the event run() kept.    *)
LEMMA SendReturnsLedger == ASSUME IInv, Ledger, SendReturns PROVE Ledger'
<1> USE DEF IInv, TypeOK, Ledger
<1>1. /\ pc = "finish" /\ pos > Len(buf) /\ pos' = 1 /\ held' = NoEvent /\ BackInRun
      /\ UNCHANGED <<client, newBuf, newIdBuf, pushed, notified>>
  BY DEF SendReturns
<1>2. LeftIds = {} /\ HeldIds' = {}
  BY <1>1 DEF LeftIds, HeldIds, BatchTypeOK
<1>3. UNCHANGED <<PushIds, ChIds, NewIds, Owed>>
  BY <1>1 DEF PushIds, ChIds, NewIds, Owed, client
<1>4. HeldInSend' /\ CallbackOnce'
  BY <1>1 DEF HeldInSend, CallbackOnce, client
<1>5. /\ LeftIds' = HeldIds
      /\ \A i, j \in pos'..Len(idBuf') : idBuf'[i] = idBuf'[j] => i = j
      /\ \A i \in pos'..Len(idBuf') : buf'[i] = pushed[idBuf'[i]].log
  <2>1. CASE held = NoEvent
    <3>1. idBuf' = <<>> /\ pos'..Len(idBuf') = {}
      BY <1>1, <2>1 DEF BackInRun
    <3> QED
      BY <2>1, <3>1 DEF LeftIds, HeldIds
  <2>2. CASE held # NoEvent
    <3>1. held \in Event /\ Take(held, <<>>, <<>>, 0) /\ held.log = pushed[held.seqNo].log
      BY <1>1, <2>2 DEF BackInRun, QueueTypeOK, SameLog
    <3>2. /\ <<>> \in Seq(Log) /\ <<>> \in Seq(1..MaxPushes)
          /\ Len(<<>>) = 0 /\ 1..0 = {}
      OBVIOUS
    <3>3. /\ LeftIds' = {n \in 1..MaxPushes : \E i \in 1..0 : <<>>[i] = n}
                        \cup {held.seqNo}
          /\ \A i, j \in pos'..Len(idBuf') : idBuf'[i] = idBuf'[j] => i = j
          /\ \A i \in pos'..Len(idBuf') : buf'[i] = pushed[idBuf'[i]].log
      BY <1>1, <3>1, <3>2, TakeLeft
    <3>4. LeftIds' = {held.seqNo} /\ HeldIds = {held.seqNo}
      BY <2>2, <3>1, <3>2, <3>3 DEF HeldIds, Event
    <3> QED
      BY <3>3, <3>4
  <2> QED
    BY <2>1, <2>2
<1>6. OnePlace'
  BY <1>2, <1>3, <1>5 DEF OnePlace, Apart
<1>7. Single'
  BY <1>1, <1>5 DEF Single, client
<1>8. SameLog'
  BY <1>1, <1>5 DEF SameLog, client
<1> QED
  BY <1>4, <1>6, <1>7, <1>8

-----------------------------------------------------------------------------
LEMMA LedgerStep == IInv /\ Ledger /\ [Next]_vars => Ledger'
<1> SUFFICES ASSUME IInv, Ledger, [Next]_vars PROVE Ledger'
  OBVIOUS
<1>1. CASE UNCHANGED vars
  <2>1. HeldInSend'
    BY <1>1 DEF Ledger, HeldInSend, vars, batch
  <2> QED
    BY <1>1, <2>1, LedgerFrame DEF vars, batch
<1>2. ASSUME NEW p \in Producer, NEW log \in Log, PushLog(p, log) PROVE Ledger'
  BY <1>2, PushLogLedger
<1>3. ASSUME NEW p \in Producer, PushReturns(p) PROVE Ledger'
  BY <1>3, PushReturnsLedger
<1>4. ASSUME NEW s \in Stopper, (\E wait \in BOOLEAN : Stop(s, wait)) \/ StopReturns(s)
      PROVE  Ledger'
  <2>1. UNCHANGED <<client, pc, batch, scan, pushed, notified>>
    BY <1>4 DEF Stop, StopReturns
  <2>2. HeldInSend'
    BY <2>1 DEF Ledger, HeldInSend, batch
  <2> QED
    BY <2>1, <2>2, LedgerFrame DEF batch
<1>5. CASE RunStarts \/ SelectDone \/ SelectTick \/ Age \/ TimerFires \/ StopsRetrying
  <2>1. UNCHANGED <<client, batch, scan, pushed, notified>>
    BY <1>5 DEF RunStarts, SelectDone, SelectTick, Age, TimerFires, StopsRetrying
  <2>2. HeldInSend'
    BY <1>5, <2>1 DEF Ledger, HeldInSend, batch, RunStarts, SelectDone, SelectTick,
                      Age, TimerFires, StopsRetrying
  <2> QED
    BY <2>1, <2>2, LedgerFrame DEF batch
<1>6. ASSUME NEW e \in Err, PutLogs(e) PROVE Ledger'
  <2>1. e \in {Nil} \cup PutErr
    BY <1>6 DEF PutLogs, Replies, PutErr
  <2>2. UNCHANGED <<client, batch, scan, pushed, notified>>
        /\ pc' \in {"finish", "remove", "backoff"}
    BY <1>6, <2>1, OnReplyType DEF PutLogs
  <2>3. HeldInSend'
    BY <2>2 DEF HeldInSend
  <2> QED
    BY <2>2, <2>3, LedgerFrame DEF batch
<1>7. ASSUME NEW b \in limbo, LateStore(b) PROVE Ledger'
  <2>1. UNCHANGED <<client, pc, batch, scan, pushed, notified>>
    BY <1>7 DEF LateStore
  <2>2. HeldInSend'
    BY <2>1 DEF Ledger, HeldInSend, batch
  <2> QED
    BY <2>1, <2>2, LedgerFrame DEF batch
<1>8. CASE SelectEvent
  BY <1>8, SelectEventLedger
<1>9. CASE RemoveStep \/ RemoveReturns
  BY <1>9, RemoveStepLedger, RemoveReturnsLedger
<1>10. CASE FinishStep \/ SendReturns
  BY <1>10, FinishStepLedger, SendReturnsLedger
<1> QED
  BY <1>1, <1>2, <1>3, <1>4, <1>5, <1>6, <1>7, <1>8, <1>9, <1>10 DEF Next, Run, Send

LEMMA LedgerKept == Spec => [](IInv /\ Ledger)
<1>1. Init => IInv /\ Ledger
  BY InitInv, LedgerInit
<1>2. (IInv /\ Ledger) /\ [Next]_vars => (IInv /\ Ledger)'
  BY StepInv, LedgerStep
<1> QED
  BY <1>1, <1>2, PTL DEF Spec

(* One callback for each log, for its number and with its log, whatever    *)
(* batches, removals, retries and stops it goes through.                   *)
THEOREM CalledOnce == Spec => []CallbackOnce
<1>1. IInv /\ Ledger => CallbackOnce
  BY DEF Ledger
<1> QED
  BY <1>1, LedgerKept, PTL

(* Until that call the client has the log, in exactly one place.           *)
THEOREM NoneLost == Spec => []NothingLost
<1>1. IInv /\ Ledger => NothingLost
  <2> SUFFICES ASSUME IInv, Ledger, NEW n \in 1..number
               PROVE  Carried(n) <=> notified[n] = <<>>
    BY DEF NothingLost
  <2>1. n \in 1..MaxPushes
    BY OptionAssumption DEF IInv, TypeOK, QueueTypeOK
  <2>2. Carried(n) <=> n \in PushIds \cup ChIds \cup HeldIds \cup LeftIds \cup NewIds
    BY <2>1 DEF Carried, PushIds, ChIds, HeldIds, LeftIds, NewIds
  <2> QED
    BY <2>2 DEF Ledger, OnePlace, Owed
<1> QED
  BY <1>1, LedgerKept, PTL

-----------------------------------------------------------------------------
(* What the verdict of a batch is worth when the callbacks are due.        *)
VerdictEarned ==
  /\ pc \in {"remove", "backoff"} => err # Nil
  /\ pc = "finish" /\ err = Nil => LeftIds \subseteq stored
  /\ pc = "finish" /\ err # Nil =>
       LeftIds = {} \/ cancelled \/ (err = "NoPool" /\ DropIfPoolNotExists)

Outcome ==
  /\ VerdictEarned /\ NilMeansStored /\ DropJustified
  /\ limbo \subseteq SUBSET (1..number)

Confirmed == {n \in 1..MaxPushes : Nil \in Reported(n)}
Refused == {n \in 1..MaxPushes : notified[n] # <<>> /\ Nil \notin Reported(n)}

LEMMA OutcomeInit == Init => Outcome
  BY DEF Init, Outcome, VerdictEarned, NilMeansStored, DropJustified, Reported

(* A callback settles the log it is for and no other.                      *)
LEMMA Settle ==
  ASSUME IInv, Ledger, NEW n \in Owed, NEW log, NEW e, DoCallback(n, log, e)
  PROVE  /\ Reported(n)' = {e} /\ notified'[n] # <<>> /\ n \notin Confirmed \cup Refused
         /\ \A k \in 1..MaxPushes \ {n} :
              Reported(k)' = Reported(k) /\ notified'[k] = notified[k]
         /\ Confirmed' = IF e = Nil THEN Confirmed \cup {n} ELSE Confirmed
         /\ Refused' = IF e = Nil THEN Refused ELSE Refused \cup {n}
<1> USE DEF IInv, TypeOK
<1> DEFINE call == [log |-> log, err |-> e]
<1>1. n \in 1..MaxPushes /\ notified[n] = <<>>
  BY OptionAssumption DEF Owed, QueueTypeOK
<1>2. notified' = [notified EXCEPT ![n] = Append(<<>>, call)]
  BY <1>1 DEF DoCallback
<1>3. call.err = e
  OBVIOUS
<1> HIDE DEF call
<1>4. /\ notified'[n] = <<call>>
      /\ \A k \in 1..MaxPushes \ {n} : notified'[k] = notified[k]
  BY <1>1, <1>2 DEF HistoryTypeOK
<1>5. <<call>> # <<>> /\ DOMAIN <<call>> = {1} /\ <<call>>[1] = call
  OBVIOUS
<1>6. Reported(n)' = {e}
  BY <1>3, <1>4, <1>5 DEF Reported
<1>7. \A k \in 1..MaxPushes \ {n} : Reported(k)' = Reported(k)
  BY <1>4 DEF Reported
<1>8. Reported(n) = {}
  BY <1>1 DEF Reported
<1>9. n \notin Confirmed \cup Refused /\ notified'[n] # <<>>
  BY <1>1, <1>4, <1>5, <1>8 DEF Confirmed, Refused
<1>10. Confirmed' = IF e = Nil THEN Confirmed \cup {n} ELSE Confirmed
  BY <1>1, <1>6, <1>7, <1>8 DEF Confirmed
<1>11. Refused' = IF e = Nil THEN Refused ELSE Refused \cup {n}
  BY <1>1, <1>4, <1>6, <1>7, <1>9 DEF Refused
<1> QED
  BY <1>4, <1>6, <1>7, <1>9, <1>10, <1>11

(* So it keeps what is known of the outcomes if its error is deserved.     *)
LEMMA SettleOutcome ==
  ASSUME IInv, Ledger, Outcome, NEW n \in Owed, NEW log, NEW e, DoCallback(n, log, e),
         e = Nil => n \in stored,
         e # Nil => \/ TooLarge(pushed[n].log) \/ pushed[n].log \in BadUtf8 \cup OverLimit
                    \/ e = "NoPool" /\ DropIfPoolNotExists
                    \/ cancelled,
         UNCHANGED <<number, pushed, stored, cancelled>>
  PROVE  NilMeansStored' /\ DropJustified'
<1> USE DEF Outcome
<1>1. Reported(n)' = {e}
      /\ \A k \in 1..MaxPushes \ {n} : Reported(k)' = Reported(k)
  BY Settle
<1>2. 1..number \subseteq 1..MaxPushes
  BY OptionAssumption DEF IInv, TypeOK, QueueTypeOK
<1>3. NilMeansStored'
  BY <1>1 DEF NilMeansStored
<1>4. DropJustified'
  BY <1>1, <1>2 DEF DropJustified, TooLarge
<1> QED
  BY <1>3, <1>4

(* The steps that call nobody back.                                        *)
LEMMA OutcomeFrame ==
  ASSUME IInv, Outcome, VerdictEarned', number' \in Nat, number <= number',
         \A n \in 1..number : pushed'[n] = pushed[n],
         \A n \in 1..MaxPushes : n > number => notified[n] = <<>>,
         stored \subseteq stored', cancelled => cancelled',
         limbo' \subseteq SUBSET (1..number'),
         number' <= MaxPushes, UNCHANGED notified
  PROVE  Outcome'
<1> USE DEF IInv, TypeOK, Outcome
<1>1. \A n \in 1..MaxPushes : Reported(n)' = Reported(n)
  BY DEF Reported
<1>2. NilMeansStored'
  BY <1>1 DEF NilMeansStored
<1>3. \A n \in 1..number' : n \in 1..number \/ Reported(n)' = {}
  BY <1>1, OptionAssumption DEF QueueTypeOK, Reported
<1>4. DropJustified'
  <2> SUFFICES ASSUME NEW n \in 1..number', NEW e \in Reported(n)' \ {Nil}
               PROVE  \/ TooLarge(pushed'[n].log)
                      \/ pushed'[n].log \in BadUtf8 \cup OverLimit
                      \/ e = "NoPool" /\ DropIfPoolNotExists
                      \/ cancelled'
    BY DEF DropJustified, TooLarge
  <2>1. n \in 1..number /\ e \in Reported(n)
    BY <1>1, <1>3, OptionAssumption DEF QueueTypeOK
  <2> QED
    BY <2>1 DEF DropJustified
<1> QED
  BY <1>2, <1>4

(* Numbers not given out have no callback.                                 *)
LEMMA Unknown ==
  ASSUME IInv, Ledger
  PROVE  /\ number \in Nat /\ number <= MaxPushes
         /\ \A n \in 1..MaxPushes : n > number => notified[n] = <<>>
<1>1. number \in Nat /\ number <= MaxPushes /\ MaxPushes \in Nat
  BY OptionAssumption DEF IInv, TypeOK, QueueTypeOK
<1>2. ASSUME NEW n \in 1..MaxPushes, n > number PROVE notified[n] = <<>>
  BY <1>1, <1>2 DEF IInv, TypeOK, HistoryTypeOK, Ledger, CallbackOnce
<1> QED
  BY <1>1, <1>2

LEMMA PushLogOutcome ==
  ASSUME IInv, Ledger, Outcome, NEW p \in Producer, NEW log \in Log, PushLog(p, log)
  PROVE  Outcome'
<1> USE DEF IInv, TypeOK
<1>1. /\ number < MaxPushes /\ number' = number + 1
      /\ pushed' = Append(pushed, [log |-> log, by |-> p])
      /\ UNCHANGED <<ch, pc, batch, err, scan, stopping, service, notified>>
  BY DEF PushLog
<1>2. \A n \in 1..number : pushed'[n] = pushed[n]
  BY <1>1 DEF HistoryTypeOK
<1>3. number' \in Nat /\ number <= number' /\ number' <= MaxPushes
  BY <1>1, OptionAssumption DEF QueueTypeOK
<1>4. limbo' \subseteq SUBSET (1..number')
  BY <1>1, <1>3 DEF Outcome, service, QueueTypeOK
<1>5. VerdictEarned'
  BY <1>1 DEF Outcome, VerdictEarned, LeftIds, batch, scan, stopping, service
<1> QED
  BY <1>1, <1>2, <1>3, <1>4, <1>5, Unknown, OutcomeFrame DEF stopping, service

(* The steps of run() and send() that only decide what comes next.         *)
LEMMA QuietOutcome ==
  ASSUME IInv, Ledger, Outcome, VerdictEarned',
         UNCHANGED <<number, pushed, service, notified>>, cancelled => cancelled'
  PROVE  Outcome'
  BY Unknown, OutcomeFrame DEF Outcome, service

(* PutLogs: with a nil error the service has the whole batch.              *)
LEMMA PutLogsOutcome ==
  ASSUME IInv, Ledger, Outcome, NEW e \in Err, PutLogs(e) PROVE Outcome'
<1> USE DEF IInv, TypeOK
<1>1. /\ pc = "put" /\ err' = e /\ pc' = OnReply(e)
      /\ stored' = IF e = Nil THEN stored \cup Logs(idBuf) ELSE stored
      /\ limbo' \subseteq limbo \cup {Logs(idBuf)}
      /\ e \in {Nil} \cup PutErr
      /\ UNCHANGED <<client, batch, scan, stopping, pushed, notified>>
  BY DEF PutLogs, Replies, PutErr
<1>2. pos = 1 /\ pos' = 1
  BY <1>1 DEF LoopsAtRest, scan
<1>3. Logs(idBuf) = LeftIds /\ LeftIds' = LeftIds
  <2>1. DOMAIN idBuf = pos..Len(idBuf) /\ Logs(idBuf) \subseteq 1..MaxPushes
    <3>1. idBuf \in Seq(1..MaxPushes)
      BY DEF BatchTypeOK
    <3>2. DOMAIN idBuf = pos..Len(idBuf)
      BY <1>2, <3>1
    <3>3. Logs(idBuf) \subseteq 1..MaxPushes
      BY <3>1, LogsType
    <3> QED
      BY <3>2, <3>3
  <2>2. \A n : n \in Logs(idBuf) <=> \E i \in pos..Len(idBuf) : idBuf[i] = n
    BY <2>1 DEF Logs
  <2>3. LeftIds = Logs(idBuf)
    BY <2>1, <2>2 DEF LeftIds
  <2> QED
    BY <1>1, <2>3 DEF LeftIds, batch, scan
<1>4. LeftIds \subseteq 1..number
  BY DEF Ledger, OnePlace, Owed
<1>5. VerdictEarned'
  <2>1. OnReply(e) = "finish" => e = Nil \/ (e = "NoPool" /\ DropIfPoolNotExists)
    BY <1>1 DEF OnReply
  <2>2. e = Nil => OnReply(e) = "finish"
    BY NilAssumption DEF OnReply, PutErr, ServiceErr
  <2> QED
    BY <1>1, <1>3, <2>1, <2>2 DEF VerdictEarned
<1>6. limbo' \subseteq SUBSET (1..number)
  BY <1>1, <1>3, <1>4 DEF Outcome
<1> QED
  BY <1>1, <1>5, <1>6, Unknown, OutcomeFrame DEF client, stopping

LEMMA LateStoreOutcome ==
  ASSUME IInv, Ledger, Outcome, NEW b \in limbo, LateStore(b) PROVE Outcome'
<1>1. /\ limbo' = limbo \ {b} /\ stored' = stored \cup b
      /\ UNCHANGED <<client, pc, batch, err, scan, stopping, pushed, notified>>
  BY DEF LateStore
<1>2. VerdictEarned'
  BY <1>1 DEF Outcome, VerdictEarned, LeftIds, batch, scan, stopping
<1>3. limbo' \subseteq SUBSET (1..number)
  BY <1>1 DEF Outcome
<1> QED
  BY <1>1, <1>2, <1>3, Unknown, OutcomeFrame DEF client, stopping

LEMMA SelectEventOutcome ==
  ASSUME IInv, Ledger, Outcome, SelectEvent PROVE Outcome'
<1> USE DEF IInv, TypeOK
<1> DEFINE ev == Head(ch)
           n == ev.seqNo
<1>1. /\ pc = "select" /\ ch # <<>> /\ ch' = Tail(ch)
      /\ UNCHANGED <<number, err, stopping, service, pushed>>
  BY DEF SelectEvent
<1>2. n \in Owed /\ ev.log = pushed[n].log /\ ev \in Event
  BY <1>1, Dequeue DEF Ledger, OnePlace
<1> HIDE DEF ev
<1>3. CASE /\ TooLarge(ev.log)
           /\ DoCallback(n, ev.log, "MaxLogSizeExceeded")
           /\ pc' = pc
  <2>1. "MaxLogSizeExceeded" # Nil
    BY NilAssumption
  <2>2. NilMeansStored' /\ DropJustified'
    BY <1>1, <1>2, <1>3, <2>1, SettleOutcome DEF stopping, service
  <2>3. VerdictEarned'
    BY <1>1, <1>3 DEF VerdictEarned
  <2> QED
    BY <1>1, <2>2, <2>3 DEF Outcome, service
<1>4. CASE pc' \in {"put", "select"} /\ notified' = notified
  <2>1. VerdictEarned'
    BY <1>4 DEF VerdictEarned
  <2> QED
    BY <1>1, <1>4, <2>1, QuietOutcome DEF stopping
<1> QED
  BY <1>3, <1>4 DEF SelectEvent, Take, ev, batch

LEMMA RemoveStepOutcome ==
  ASSUME IInv, Ledger, Outcome, RemoveStep PROVE Outcome'
<1> USE DEF IInv, TypeOK
<1> DEFINE n == idBuf[pos]
           log == buf[pos]
<1>1. /\ pc = "remove" /\ pos <= Len(buf) /\ pos' = pos + 1
      /\ UNCHANGED <<number, pc, idBuf, err, stopping, service, pushed>>
  BY DEF RemoveStep, client, batch
<1>2. n \in Owed /\ log = pushed[n].log
  BY <1>1, Pass
<1>3. VerdictEarned'
  BY <1>1 DEF Outcome, VerdictEarned
<1> HIDE DEF n, log
<1>4. CASE DoCallback(n, log, CheckLog(log)) /\ CheckLog(log) # Nil
  <2>1. log \in BadUtf8 \cup OverLimit
    BY <1>4 DEF CheckLog
  <2>2. NilMeansStored' /\ DropJustified'
    BY <1>1, <1>2, <1>4, <2>1, SettleOutcome DEF stopping, service
  <2> QED
    BY <1>1, <1>3, <2>2 DEF Outcome, service
<1>5. CASE notified' = notified
  BY <1>1, <1>3, <1>5, QuietOutcome DEF stopping
<1> QED
  BY <1>4, <1>5 DEF RemoveStep, n, log

LEMMA RemoveReturnsOutcome ==
  ASSUME IInv, Ledger, Outcome, RemoveReturns PROVE Outcome'
<1> USE DEF IInv, TypeOK
<1>1. /\ pc = "remove" /\ buf' = newBuf /\ idBuf' = newIdBuf /\ pos' = 1
      /\ pc' = AfterRemove(newBuf)
      /\ UNCHANGED <<client, err, stopping, service, pushed, notified>>
  BY DEF RemoveReturns
<1>2. err # Nil
  BY <1>1 DEF Outcome, VerdictEarned
<1>3. pc' = "finish" => LeftIds' = {}
  <2>1. pc' = "finish" => newBuf = <<>>
    BY <1>1 DEF AfterRemove
  <2>2. newBuf = <<>> => newIdBuf = <<>>
    BY DEF BatchTypeOK
  <2> QED
    BY <1>1, <2>1, <2>2 DEF LeftIds
<1>4. VerdictEarned'
  BY <1>1, <1>2, <1>3 DEF VerdictEarned
<1> QED
  BY <1>1, <1>4, QuietOutcome DEF client, stopping

LEMMA FinishStepOutcome ==
  ASSUME IInv, Ledger, Outcome, FinishStep PROVE Outcome'
<1> USE DEF IInv, TypeOK
<1> DEFINE n == idBuf[pos]
<1>1. /\ pc = "finish" /\ pos <= Len(buf) /\ pos' = pos + 1
      /\ DoCallback(n, buf[pos], err)
      /\ UNCHANGED <<client, pc, batch, err, stopping, service, pushed>>
  BY DEF FinishStep, Verdict
<1>2. /\ n \in LeftIds /\ n \in Owed /\ buf[pos] = pushed[n].log
      /\ LeftIds' = LeftIds \ {n}
  BY <1>1, Pass DEF batch
<1>3. /\ err = Nil => n \in stored
      /\ err # Nil => cancelled \/ (err = "NoPool" /\ DropIfPoolNotExists)
  BY <1>1, <1>2 DEF Outcome, VerdictEarned
<1>4. VerdictEarned'
  BY <1>1, <1>2 DEF Outcome, VerdictEarned, stopping, service
<1> HIDE DEF n
<1>5. NilMeansStored' /\ DropJustified'
  BY <1>1, <1>2, <1>3, SettleOutcome DEF client, stopping, service
<1> QED
  BY <1>1, <1>4, <1>5 DEF Outcome, client, service

LEMMA OutcomeStep == IInv /\ Ledger /\ Outcome /\ [Next]_vars => Outcome'
<1> SUFFICES ASSUME IInv, Ledger, Outcome, [Next]_vars PROVE Outcome'
  OBVIOUS
<1>1. CASE UNCHANGED vars
  <2>1. VerdictEarned'
    BY <1>1 DEF Outcome, VerdictEarned, LeftIds, vars, batch, scan, stopping, service
  <2> QED
    BY <1>1, <2>1, QuietOutcome DEF vars, client, stopping
<1>2. ASSUME NEW p \in Producer, NEW log \in Log, PushLog(p, log) PROVE Outcome'
  BY <1>2, PushLogOutcome
<1>3. ASSUME \/ \E p \in Producer : PushReturns(p)
             \/ \E s \in Stopper : StopReturns(s) \/ \E wait \in BOOLEAN : Stop(s, wait)
      PROVE  Outcome'
  <2>1. /\ UNCHANGED <<number, pc, batch, err, scan, service, pushed, notified>>
        /\ cancelled => cancelled'
    BY <1>3 DEF PushReturns, StopReturns, Stop, client, stopping
  <2>2. VerdictEarned'
    BY <2>1 DEF Outcome, VerdictEarned, LeftIds, batch, scan, service
  <2> QED
    BY <2>1, <2>2, QuietOutcome
<1>4. CASE RunStarts \/ SelectDone \/ SelectTick \/ Age
  <2>1. /\ UNCHANGED <<number, cancelled, service, pushed, notified>>
        /\ pc' \in {"select", "exited", "put"}
    BY <1>4 DEF RunStarts, SelectDone, SelectTick, Age, client, stopping
  <2>2. VerdictEarned'
    BY <2>1 DEF VerdictEarned
  <2> QED
    BY <2>1, <2>2, QuietOutcome
<1>5. CASE TimerFires \/ StopsRetrying \/ SendReturns
  <2>1. UNCHANGED <<number, cancelled, service, pushed, notified>>
    BY <1>5 DEF TimerFires, StopsRetrying, SendReturns, client, stopping
  <2>2. \/ pc' \in {"select", "put"}
        \/ pc = "backoff" /\ pc' = "finish" /\ err' = err /\ cancelled
    BY <1>5 DEF TimerFires, StopsRetrying, SendReturns, BackInRun, Take
  <2>3. VerdictEarned'
    BY <2>1, <2>2 DEF Outcome, VerdictEarned
  <2> QED
    BY <2>1, <2>3, QuietOutcome
<1>6. CASE \E e \in Err : PutLogs(e)
  BY <1>6, PutLogsOutcome
<1>7. CASE \E b \in limbo : LateStore(b)
  BY <1>7, LateStoreOutcome
<1>8. CASE SelectEvent
  BY <1>8, SelectEventOutcome
<1>9. CASE RemoveStep \/ RemoveReturns
  BY <1>9, RemoveStepOutcome, RemoveReturnsOutcome
<1>10. CASE FinishStep
  BY <1>10, FinishStepOutcome
<1> QED
  BY <1>1, <1>2, <1>3, <1>4, <1>5, <1>6, <1>7, <1>8, <1>9, <1>10 DEF Next, Run, Send

-----------------------------------------------------------------------------
LEMMA OutcomeKept == Spec => [](IInv /\ Ledger /\ Outcome)
<1>1. Init => IInv /\ Ledger /\ Outcome
  BY InitInv, LedgerInit, OutcomeInit
<1>2. (IInv /\ Ledger /\ Outcome) /\ [Next]_vars => (IInv /\ Ledger /\ Outcome)'
  BY StepInv, LedgerStep, OutcomeStep
<1> QED
  BY <1>1, <1>2, PTL DEF Spec

(* A nil error is given only for a log the service has.                    *)
THEOREM NilIsStored == Spec => []NilMeansStored
<1>1. IInv /\ Ledger /\ Outcome => NilMeansStored
  BY DEF Outcome
<1> QED
  BY <1>1, OutcomeKept, PTL

(* Every failure that does not condemn the log is retried until Stop.      *)
THEOREM DropsAreJustified == Spec => []DropJustified
<1>1. IInv /\ Ledger /\ Outcome => DropJustified
  BY DEF Outcome
<1> QED
  BY <1>1, OutcomeKept, PTL

-----------------------------------------------------------------------------
(* The refinement.  A call of the callback is a Confirm or a Refuse.       *)
LEMMA SettleRefines ==
  ASSUME IInv, Ledger, NEW n \in Owed, NEW log, NEW e, DoCallback(n, log, e),
         log = pushed[n].log, e = Nil => n \in stored,
         UNCHANGED <<number, pushed, stored>>
  PROVE  Delivery!Next
<1>1. Owed' = Owed \ {n}
  BY Notify DEF Ledger
<1>2. /\ Confirmed' = IF e = Nil THEN Confirmed \cup {n} ELSE Confirmed
      /\ Refused' = IF e = Nil THEN Refused ELSE Refused \cup {n}
  BY Settle
<1>3. n \in 1..MaxPushes
  BY OptionAssumption DEF Owed, IInv, TypeOK, QueueTypeOK
<1>4. CASE e = Nil
  <2>1. Delivery!Confirm(n)
    BY <1>1, <1>2, <1>4 DEF Delivery!Confirm, Owed, Confirmed, Refused
  <2> QED
    BY <1>3, <2>1 DEF Delivery!Next
<1>5. CASE e # Nil
  <2>1. Delivery!Refuse(n)
    BY <1>1, <1>2, <1>5 DEF Delivery!Refuse, Owed, Confirmed, Refused
  <2> QED
    BY <1>3, <2>1 DEF Delivery!Next
<1> QED
  BY <1>4, <1>5

(* PushLog is a Push.                                                      *)
LEMMA PushRefines ==
  ASSUME IInv, Ledger, NEW p \in Producer, NEW log \in Log, PushLog(p, log)
  PROVE  Delivery!Next
<1> PICK n : n = number + 1
  OBVIOUS
<1>1. number < MaxPushes /\ number' = n /\ UNCHANGED <<stored, notified>>
  BY DEF PushLog, service
<1>2. number \in Nat /\ n \in 1..MaxPushes /\ 1..n = 1..number \cup {n} /\ n \notin 1..number
  BY <1>1, OptionAssumption DEF IInv, TypeOK, QueueTypeOK
<1>3. notified[n] = <<>>
  BY <1>2, Unknown
<1>4. Reported(n) = {}
  BY <1>3 DEF Reported
<1>5. n \notin Owed \cup Confirmed \cup Refused
  BY <1>2, <1>3, <1>4 DEF Owed, Confirmed, Refused
<1>6. Owed' = Owed \cup {n}
  BY <1>1, <1>2, <1>3 DEF Owed
<1>7. Confirmed' = Confirmed /\ Refused' = Refused
  BY <1>1 DEF Confirmed, Refused, Reported
<1>8. Delivery!Push(n)
  BY <1>1, <1>2, <1>5, <1>6, <1>7 DEF Delivery!Push, Owed, Confirmed, Refused
<1> QED
  BY <1>2, <1>8 DEF Delivery!Next

(* What the service takes from a batch is a Store of the logs in it that   *)
(* are not confirmed yet.                                                  *)
LEMMA StoreRefines ==
  ASSUME IInv, Ledger, Outcome, NEW b \in SUBSET (1..number), stored' = stored \cup b,
         UNCHANGED <<number, notified>>
  PROVE  Delivery!Next
<1> PICK S : S = b \ Confirmed
  OBVIOUS
<1>1. 1..number \subseteq 1..MaxPushes
  BY OptionAssumption DEF IInv, TypeOK, QueueTypeOK
<1>2. Confirmed \subseteq stored
  BY DEF Confirmed, Outcome, NilMeansStored
<1>3. stored' = stored \cup S
  BY <1>2
<1>4. S \subseteq Owed \cup Refused
  BY <1>1 DEF Owed, Refused, Confirmed
<1>5. UNCHANGED <<Owed, Confirmed, Refused>>
  BY DEF Owed, Confirmed, Refused, Reported
<1>6. Delivery!Store(S)
  BY <1>3, <1>4, <1>5 DEF Delivery!Store, Owed, Confirmed, Refused
<1>7. Owed \cup Refused
        = {n \in 1..number : notified[n] = <<>>}
          \cup {n \in 1..MaxPushes : notified[n] # <<>> /\ Nil \notin Reported(n)}
  BY DEF Owed, Refused
<1>8. \E T \in SUBSET (Owed \cup Refused) : Delivery!Store(T)
  BY <1>4, <1>6
<1> QED
  BY <1>7, <1>8 DEF Delivery!Next

LEMMA StutterRefines ==
  ASSUME UNCHANGED <<number, stored, notified>>
  PROVE  UNCHANGED Delivery!promise
  BY DEF Delivery!promise, Reported

LEMMA StepRefines ==
  IInv /\ Ledger /\ Outcome /\ [Next]_vars => [Delivery!Next]_Delivery!promise
<1> SUFFICES ASSUME IInv, Ledger, Outcome, [Next]_vars
             PROVE  Delivery!Next \/ UNCHANGED Delivery!promise
  OBVIOUS
<1> USE DEF client, service
<1>1. CASE UNCHANGED vars
  BY <1>1, StutterRefines DEF vars
<1>2. CASE \E p \in Producer, log \in Log : PushLog(p, log)
  BY <1>2, PushRefines
<1>3. CASE \/ \E p \in Producer : PushReturns(p)
           \/ \E s \in Stopper : StopReturns(s) \/ \E wait \in BOOLEAN : Stop(s, wait)
  <2>1. UNCHANGED <<number, stored, notified>>
    BY <1>3 DEF PushReturns, StopReturns, Stop
  <2> QED
    BY <2>1, StutterRefines
<1>4. CASE \/ RunStarts \/ SelectDone \/ SelectTick \/ Age
           \/ RemoveReturns \/ TimerFires \/ StopsRetrying \/ SendReturns
  <2>1. UNCHANGED <<number, stored, notified>>
    BY <1>4 DEF RunStarts, SelectDone, SelectTick, Age, RemoveReturns, TimerFires,
                StopsRetrying, SendReturns
  <2> QED
    BY <2>1, StutterRefines
<1>5. ASSUME NEW e \in Err, PutLogs(e)
      PROVE  Delivery!Next \/ UNCHANGED Delivery!promise
  <2>1. UNCHANGED <<number, notified>>
        /\ stored' = IF e = Nil THEN stored \cup Logs(idBuf) ELSE stored
    BY <1>5 DEF PutLogs
  <2>2. CASE e = Nil
    <3>1. pos = 1
      BY <1>5 DEF PutLogs, IInv, LoopsAtRest
    <3>2. \A i \in DOMAIN idBuf : i \in pos..Len(idBuf)
      BY <3>1 DEF IInv, TypeOK, BatchTypeOK
    <3>3. Logs(idBuf) \subseteq 1..number
      BY <3>2, IdsKnown DEF Logs
    <3> QED
      BY <2>1, <2>2, <3>3, StoreRefines
  <2>3. CASE e # Nil
    BY <2>1, <2>3, StutterRefines
  <2> QED
    BY <2>2, <2>3
<1>6. ASSUME NEW b \in limbo, LateStore(b) PROVE Delivery!Next
  <2>1. UNCHANGED <<number, notified>> /\ stored' = stored \cup b
    BY <1>6 DEF LateStore
  <2>2. b \in SUBSET (1..number)
    BY DEF Outcome
  <2> QED
    BY <2>1, <2>2, StoreRefines
<1>7. CASE SelectEvent
  <2>1. UNCHANGED <<number, stored, pushed>> /\ ch # <<>> /\ ch' = Tail(ch)
    BY <1>7 DEF SelectEvent
  <2>2. Head(ch).seqNo \in Owed /\ Head(ch).log = pushed[Head(ch).seqNo].log
    BY <2>1, Dequeue DEF Ledger, OnePlace
  <2>3. CASE DoCallback(Head(ch).seqNo, Head(ch).log, "MaxLogSizeExceeded")
    BY <2>1, <2>2, <2>3, NilAssumption, SettleRefines
  <2>4. CASE UNCHANGED notified
    BY <2>1, <2>4, StutterRefines
  <2> QED
    BY <1>7, <2>3, <2>4 DEF SelectEvent
<1>8. CASE RemoveStep
  <2>1. /\ UNCHANGED <<number, stored, pushed, idBuf>>
        /\ pos <= Len(buf) /\ pos' = pos + 1
    BY <1>8 DEF RemoveStep, batch
  <2>2. idBuf[pos] \in Owed /\ buf[pos] = pushed[idBuf[pos]].log
    BY <2>1, Pass
  <2>3. CASE DoCallback(idBuf[pos], buf[pos], CheckLog(buf[pos])) /\ CheckLog(buf[pos]) # Nil
    BY <2>1, <2>2, <2>3, SettleRefines
  <2>4. CASE UNCHANGED notified
    BY <2>1, <2>4, StutterRefines
  <2> QED
    BY <1>8, <2>3, <2>4 DEF RemoveStep
<1>9. CASE FinishStep
  <2>1. /\ UNCHANGED <<number, stored, pushed, idBuf>>
        /\ pos <= Len(buf) /\ pos' = pos + 1
        /\ pc = "finish" /\ DoCallback(idBuf[pos], buf[pos], err)
    BY <1>9 DEF FinishStep, Verdict, batch
  <2>2. idBuf[pos] \in Owed /\ buf[pos] = pushed[idBuf[pos]].log /\ idBuf[pos] \in LeftIds
    BY <2>1, Pass
  <2>3. err = Nil => idBuf[pos] \in stored
    BY <2>1, <2>2 DEF Outcome, VerdictEarned
  <2> QED
    BY <2>1, <2>2, <2>3, SettleRefines
<1> QED
  BY <1>1, <1>2, <1>3, <1>4, <1>5, <1>6, <1>7, <1>8, <1>9 DEF Next, Run, Send

(* The client implements LogDelivery.                                      *)
THEOREM DeliveryImplemented == Spec => ImplementsDelivery
<1>1. Init => Delivery!Init
  BY DEF Init, Delivery!Init, Reported
<1>2. IInv /\ Ledger /\ Outcome /\ [Next]_vars => [Delivery!Next]_Delivery!promise
  BY StepRefines
<1> QED
  BY <1>1, <1>2, OutcomeKept, PTL DEF Spec, Delivery!Spec, ImplementsDelivery
=============================================================================
