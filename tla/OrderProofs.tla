---------------------------- MODULE OrderProofs ----------------------------
(***************************************************************************)
(* The logs of one goroutine keep their order in AsyncClient: through the  *)
(* channel, the event run() keeps, the buffers that removeInvalidLogs      *)
(* copies, and the requests that are retried or taken late.                *)
(***************************************************************************)
EXTENDS DeliveryProofs

SameBy(m, n) == pushed[m].by = pushed[n].by

(* Of the logs a goroutine pushed, those in S have the smaller numbers,    *)
Before(S, T) == \A m \in S, n \in T : SameBy(m, n) => m < n

InOrder ==
  /\ Before(NewIds, LeftIds) /\ Before(NewIds, HeldIds) /\ Before(NewIds, ChIds)
  /\ Before(LeftIds, HeldIds) /\ Before(LeftIds, ChIds)
  /\ Before(HeldIds, ChIds)

(* in a sequence they come in the order of their numbers,                  *)
Rising(ids) == \A i, j \in DOMAIN ids : i < j /\ SameBy(ids[i], ids[j]) => ids[i] < ids[j]

InSequence ==
  /\ \A i \in DOMAIN idBuf : idBuf[i] \in 1..number
  /\ Rising(idBuf) /\ Rising(newIdBuf)
  /\ \A i, j \in DOMAIN ch :
       i < j /\ SameBy(ch[i].seqNo, ch[j].seqNo) => ch[i].seqNo < ch[j].seqNo

(* and the one being pushed is the last of its goroutine.                  *)
Latest ==
  \A p \in Producer : pushing[p] # NoEvent =>
    /\ pushed[pushing[p].seqNo].by = p
    /\ \A n \in 1..number : pushed[n].by = p => n <= pushing[p].seqNo

Order == InOrder /\ InSequence /\ Latest

(* Whoever has a log of S has, or need not have, the earlier ones.         *)
Closed(S) ==
  \A n \in S, m \in 1..number :
    m < n /\ SameBy(m, n) => m \in S \/ m \in stored \/ notified[m] # <<>>

(* This holds of what the service has, and of what it may still take.      *)
Overtakes ==
  /\ stored \subseteq 1..number /\ Closed(stored)
  /\ \A b \in limbo : b \subseteq 1..number /\ Closed(b)

-----------------------------------------------------------------------------
LEMMA OrderInit == Init => Order /\ Overtakes
<1> SUFFICES ASSUME Init PROVE Order /\ Overtakes
  OBVIOUS
<1> USE DEF Init
<1>1. LeftIds = {} /\ HeldIds = {} /\ NewIds = {}
  BY DEF LeftIds, HeldIds, NewIds
<1>2. InOrder
  BY <1>1 DEF InOrder, Before
<1>3. InSequence /\ Latest
  BY DEF InSequence, Rising, Latest
<1> QED
  BY <1>2, <1>3 DEF Order, Overtakes, Closed

(* The places hold numbers that have been given out, and share none.       *)
LEMMA Places ==
  ASSUME IInv, Ledger
  PROVE  /\ number \in Nat
         /\ NewIds \subseteq 1..number /\ LeftIds \subseteq 1..number
         /\ HeldIds \subseteq 1..number /\ ChIds \subseteq 1..number
  BY DEF IInv, TypeOK, QueueTypeOK, Ledger, OnePlace, Owed

(* A step that only takes logs away from the places.                       *)
LEMMA OrderShrinks ==
  ASSUME IInv, Ledger, Order, UNCHANGED <<number, pushing, idBuf, pushed>>,
         NewIds' \subseteq NewIds, LeftIds' \subseteq LeftIds,
         HeldIds' \subseteq HeldIds, ChIds' \subseteq ChIds,
         Rising(newIdBuf)',
         (\A i, j \in DOMAIN ch :
            i < j /\ SameBy(ch[i].seqNo, ch[j].seqNo) => ch[i].seqNo < ch[j].seqNo)'
  PROVE  Order'
<1> USE DEF Order
<1>1. InOrder'
  BY DEF InOrder, Before, SameBy
<1>2. InSequence'
  BY DEF InSequence, Rising, SameBy
<1>3. Latest'
  BY DEF Latest
<1> QED
  BY <1>1, <1>2, <1>3

LEMMA OrderFrame ==
  ASSUME IInv, Ledger, Order, UNCHANGED <<client, idBuf, held, scan, pushed>>
  PROVE  Order'
<1>1. UNCHANGED <<NewIds, LeftIds, HeldIds, ChIds>>
  BY DEF NewIds, LeftIds, HeldIds, ChIds, client, scan
<1>2. /\ Rising(newIdBuf)'
      /\ (\A i, j \in DOMAIN ch :
            i < j /\ SameBy(ch[i].seqNo, ch[j].seqNo) => ch[i].seqNo < ch[j].seqNo)'
  BY DEF Order, InSequence, Rising, SameBy, client, scan
<1> QED
  BY <1>1, <1>2, OrderShrinks DEF client

-----------------------------------------------------------------------------
(* The new number is the largest of all.                                   *)
LEMMA PushLogOrder ==
  ASSUME IInv, Ledger, Order, NEW p \in Producer, NEW log \in Log, PushLog(p, log)
  PROVE  Order'
<1> USE DEF Order
<1> DEFINE n == number + 1
           ev == [seqNo |-> n, log |-> log]
<1>1. /\ pushing[p] = NoEvent /\ number < MaxPushes /\ number' = n
      /\ pushing' = [pushing EXCEPT ![p] = ev]
      /\ pushed' = Append(pushed, [log |-> log, by |-> p])
      /\ UNCHANGED <<ch, idBuf, held, scan>>
  BY DEF PushLog, batch
<1>2. number \in Nat /\ 1..n = 1..number \cup {n} /\ n \notin 1..number
  BY DEF IInv, TypeOK, QueueTypeOK
<1>3. ev.seqNo = n
  OBVIOUS
<1> HIDE DEF ev
<1>4. pushing'[p] = ev /\ \A q \in Producer \ {p} : pushing'[q] = pushing[q]
  BY <1>1 DEF IInv, TypeOK, QueueTypeOK
<1>5. pushed'[n].by = p /\ \A k \in 1..number : pushed'[k] = pushed[k]
  BY <1>1, <1>2 DEF IInv, TypeOK, HistoryTypeOK
<1>6. UNCHANGED <<ChIds, HeldIds, LeftIds, NewIds>>
  BY <1>1 DEF ChIds, HeldIds, LeftIds, NewIds, scan
<1>7. InOrder'
  BY <1>5, <1>6, Places DEF InOrder, Before, SameBy
<1>8. InSequence'
  <2>1. \A i \in DOMAIN idBuf : idBuf[i] \in 1..number
    BY DEF InSequence
  <2>2. /\ \A i \in DOMAIN newIdBuf : newIdBuf[i] \in 1..number
        /\ \A i \in DOMAIN ch : ch[i].seqNo \in 1..number
    BY IdsKnown
  <2> DEFINE By(k) == pushed[k].by
             NewBy(k) == pushed'[k].by
  <2>3. \A k \in 1..number : NewBy(k) = By(k)
    BY <1>5
  <2>4. /\ \A i, j \in DOMAIN idBuf : i < j /\ By(idBuf[i]) = By(idBuf[j]) => idBuf[i] < idBuf[j]
        /\ \A i, j \in DOMAIN newIdBuf :
             i < j /\ By(newIdBuf[i]) = By(newIdBuf[j]) => newIdBuf[i] < newIdBuf[j]
        /\ \A i, j \in DOMAIN ch :
             i < j /\ By(ch[i].seqNo) = By(ch[j].seqNo) => ch[i].seqNo < ch[j].seqNo
    BY DEF InSequence, Rising, SameBy
  <2>5. UNCHANGED <<idBuf, newIdBuf, ch>>
    BY <1>1 DEF scan
  <2> HIDE DEF By, NewBy
  <2>6. Rising(idBuf)'
    <3>1. \A i, j \in DOMAIN idBuf : i < j /\ NewBy(idBuf[i]) = NewBy(idBuf[j]) => idBuf[i] < idBuf[j]
      BY <2>1, <2>3, <2>4
    <3> QED
      BY <2>5, <3>1 DEF Rising, SameBy, NewBy
  <2>7. Rising(newIdBuf)'
    <3>1. \A i, j \in DOMAIN newIdBuf :
            i < j /\ NewBy(newIdBuf[i]) = NewBy(newIdBuf[j]) => newIdBuf[i] < newIdBuf[j]
      BY <2>2, <2>3, <2>4
    <3> QED
      BY <2>5, <3>1 DEF Rising, SameBy, NewBy
  <2>8. (\A i, j \in DOMAIN ch :
            i < j /\ SameBy(ch[i].seqNo, ch[j].seqNo) => ch[i].seqNo < ch[j].seqNo)'
    <3>1. \A i, j \in DOMAIN ch :
            i < j /\ NewBy(ch[i].seqNo) = NewBy(ch[j].seqNo) => ch[i].seqNo < ch[j].seqNo
      BY <2>2, <2>3, <2>4
    <3> QED
      BY <2>5, <3>1 DEF SameBy, NewBy
  <2> QED
    BY <1>1, <1>2, <2>1, <2>6, <2>7, <2>8 DEF InSequence
<1>9. Latest'
  <2> SUFFICES ASSUME NEW q \in Producer, pushing'[q] # NoEvent
               PROVE  /\ pushed'[pushing'[q].seqNo].by = q
                      /\ \A k \in 1..n : pushed'[k].by = q => k <= pushing'[q].seqNo
    BY <1>1 DEF Latest
  <2>1. CASE q = p
    BY <1>2, <1>3, <1>4, <1>5, <2>1
  <2>2. CASE q # p
    <3>1. pushing'[q] = pushing[q] /\ pushing[q].seqNo \in 1..number
      BY <1>4, <2>2, IdsKnown
    <3> QED
      BY <1>2, <1>5, <2>2, <3>1 DEF Latest
  <2> QED
    BY <2>1, <2>2
<1> QED
  BY <1>7, <1>8, <1>9

(* The event that enters the channel is the last of its goroutine.         *)
LEMMA PushReturnsOrder ==
  ASSUME IInv, Ledger, Order, NEW p \in Producer, PushReturns(p)
  PROVE  Order'
<1> USE DEF Order
<1> DEFINE ev == pushing[p]
           n == ev.seqNo
<1>1. /\ ev # NoEvent
      /\ ch' = Append(ch, ev)
      /\ pushing' = [pushing EXCEPT ![p] = NoEvent]
      /\ UNCHANGED <<number, idBuf, held, scan, pushed>>
  BY DEF PushReturns, Enqueue, batch
<1>2. ev \in Event /\ n \in 1..MaxPushes /\ n \in PushIds
  BY <1>1, IdsKnown DEF IInv, TypeOK, QueueTypeOK, Event
<1>3. /\ DOMAIN ch = 1..Len(ch) /\ DOMAIN ch' = 1..Len(ch) + 1 /\ Len(ch) \in Nat
      /\ ch'[Len(ch) + 1] = ev
      /\ \A i \in 1..Len(ch) : ch'[i] = ch[i]
  BY <1>1, <1>2 DEF IInv, TypeOK, QueueTypeOK
<1>4. pushed[n].by = p /\ \A k \in 1..number : pushed[k].by = p => k <= n
  BY <1>1 DEF Latest
<1>5. n \notin NewIds \cup LeftIds \cup HeldIds \cup ChIds
  BY <1>2 DEF Ledger, OnePlace, Apart
<1>6. \A k \in NewIds \cup LeftIds \cup HeldIds \cup ChIds : SameBy(k, n) => k < n
  <2> SUFFICES ASSUME NEW k \in NewIds \cup LeftIds \cup HeldIds \cup ChIds, SameBy(k, n)
               PROVE  k < n
    OBVIOUS
  <2>1. k \in 1..number /\ k # n
    BY <1>5, Places
  <2>2. k <= n
    BY <1>4, <2>1 DEF SameBy
  <2> QED
    BY <1>2, <2>1, <2>2
<1> HIDE DEF ev, n
<1>7. ChIds' = ChIds \cup {n}
  <2>1. \A k \in 1..MaxPushes : (\E i \in DOMAIN ch' : ch'[i].seqNo = k)
                                <=> k = n \/ \E i \in DOMAIN ch : ch[i].seqNo = k
    BY <1>3 DEF n
  <2> QED
    BY <1>2, <2>1 DEF ChIds
<1>8. UNCHANGED <<HeldIds, LeftIds, NewIds>>
  BY <1>1 DEF HeldIds, LeftIds, NewIds, scan
<1>9. InOrder'
  BY <1>1, <1>6, <1>7, <1>8 DEF InOrder, Before, SameBy
<1>10. InSequence'
  <2>1. \A i \in DOMAIN ch : SameBy(ch[i].seqNo, n) => ch[i].seqNo < n
    BY <1>6, IdsKnown
  <2>2. \A i, j \in DOMAIN ch' :
          i < j /\ SameBy(ch'[i].seqNo, ch'[j].seqNo) => ch'[i].seqNo < ch'[j].seqNo
    <3> SUFFICES ASSUME NEW i \in 1..Len(ch) + 1, NEW j \in 1..Len(ch) + 1, i < j,
                        SameBy(ch'[i].seqNo, ch'[j].seqNo)
                 PROVE  ch'[i].seqNo < ch'[j].seqNo
      BY <1>3
    <3>1. i \in 1..Len(ch) /\ ch'[i] = ch[i]
      BY <1>3
    <3>2. CASE j = Len(ch) + 1
      BY <1>3, <2>1, <3>1, <3>2 DEF n
    <3>3. CASE j \in 1..Len(ch)
      BY <1>3, <3>1, <3>3 DEF InSequence
    <3> QED
      BY <1>3, <3>2, <3>3
  <2> QED
    BY <1>1, <2>2 DEF InSequence, Rising, SameBy, scan
<1>11. Latest'
  <2>1. pushing'[p] = NoEvent /\ \A q \in Producer \ {p} : pushing'[q] = pushing[q]
    BY <1>1 DEF IInv, TypeOK, QueueTypeOK
  <2> QED
    BY <1>1, <2>1 DEF Latest
<1> QED
  BY <1>9, <1>10, <1>11

-----------------------------------------------------------------------------
(* The head of the channel comes before the rest of it, and after what     *)
(* run() has taken before.                                                 *)
LEMMA DequeueOrder ==
  ASSUME IInv, Ledger, Order, ch # <<>>, ch' = Tail(ch), pushed' = pushed
  PROVE  /\ \A k \in ChIds' : SameBy(Head(ch).seqNo, k) => Head(ch).seqNo < k
         /\ \A k \in NewIds \cup LeftIds \cup HeldIds :
              SameBy(k, Head(ch).seqNo) => k < Head(ch).seqNo
         /\ (\A i, j \in DOMAIN ch :
               i < j /\ SameBy(ch[i].seqNo, ch[j].seqNo) => ch[i].seqNo < ch[j].seqNo)'
<1> USE DEF Order
<1>1. /\ DOMAIN ch = 1..Len(ch) /\ 1 \in DOMAIN ch /\ Len(ch) \in Nat
      /\ DOMAIN ch' = 1..Len(ch) - 1
      /\ \A i \in 1..Len(ch) - 1 : ch'[i] = ch[i + 1] /\ i + 1 \in 1..Len(ch)
      /\ Head(ch) = ch[1]
  BY DEF IInv, TypeOK, QueueTypeOK
<1>2. \A k \in ChIds' : SameBy(Head(ch).seqNo, k) => Head(ch).seqNo < k
  <2> SUFFICES ASSUME NEW i \in 1..Len(ch) - 1, SameBy(ch[1].seqNo, ch[i + 1].seqNo)
               PROVE  ch[1].seqNo < ch[i + 1].seqNo
    BY <1>1 DEF ChIds
  <2>1. i + 1 \in DOMAIN ch /\ 1 < i + 1
    BY <1>1
  <2> QED
    BY <1>1, <2>1 DEF InSequence
<1>3. \A k \in NewIds \cup LeftIds \cup HeldIds :
        SameBy(k, Head(ch).seqNo) => k < Head(ch).seqNo
  BY Dequeue DEF InOrder, Before
<1>4. \A i, j \in DOMAIN ch' :
        i < j /\ SameBy(ch'[i].seqNo, ch'[j].seqNo) => ch'[i].seqNo < ch'[j].seqNo
  <2> SUFFICES ASSUME NEW i \in 1..Len(ch) - 1, NEW j \in 1..Len(ch) - 1, i < j,
                      SameBy(ch[i + 1].seqNo, ch[j + 1].seqNo)
               PROVE  ch[i + 1].seqNo < ch[j + 1].seqNo
    BY <1>1
  <2>1. i + 1 \in DOMAIN ch /\ j + 1 \in DOMAIN ch /\ i + 1 < j + 1
    BY <1>1
  <2> QED
    BY <2>1 DEF InSequence
<1> QED
  BY <1>2, <1>3, <1>4 DEF SameBy

(* What is appended after everything of its goroutine keeps the order.     *)
LEMMA RisingAppend ==
  ASSUME NEW ids \in Seq(1..MaxPushes), NEW n \in 1..MaxPushes, Rising(ids),
         \A i \in DOMAIN ids : SameBy(ids[i], n) => ids[i] < n
  PROVE  Rising(Append(ids, n))
<1> DEFINE new == Append(ids, n)
<1>1. /\ DOMAIN ids = 1..Len(ids) /\ DOMAIN new = 1..Len(ids) + 1 /\ Len(ids) \in Nat
      /\ new[Len(ids) + 1] = n /\ \A i \in 1..Len(ids) : new[i] = ids[i]
  OBVIOUS
<1> HIDE DEF new
<1> SUFFICES ASSUME NEW i \in 1..Len(ids) + 1, NEW j \in 1..Len(ids) + 1, i < j,
                    SameBy(new[i], new[j])
             PROVE  new[i] < new[j]
  BY <1>1 DEF Rising, new
<1>2. i \in 1..Len(ids) /\ new[i] = ids[i]
  BY <1>1
<1>3. CASE j = Len(ids) + 1
  BY <1>1, <1>2, <1>3
<1>4. CASE j \in 1..Len(ids)
  BY <1>1, <1>2, <1>4 DEF Rising
<1> QED
  BY <1>1, <1>3, <1>4

(* run() drops, keeps or takes the head of the channel.                    *)
LEMMA SelectEventOrder == ASSUME IInv, Ledger, Order, SelectEvent PROVE Order'
<1> DEFINE ev == Head(ch)
           n == ev.seqNo
<1>1. /\ pc = "select" /\ ch # <<>> /\ ch' = Tail(ch)
      /\ UNCHANGED <<number, pushing, scan, pushed>>
  BY DEF SelectEvent
<1>2. /\ ev \in Event /\ n \in ChIds /\ n \in 1..number /\ n \in 1..MaxPushes
      /\ ChIds' = ChIds \ {n}
  BY <1>1, Dequeue, Places DEF Event
<1>3. /\ \A k \in ChIds' : SameBy(n, k) => n < k
      /\ \A k \in NewIds \cup LeftIds \cup HeldIds : SameBy(k, n) => k < n
      /\ (\A i, j \in DOMAIN ch :
            i < j /\ SameBy(ch[i].seqNo, ch[j].seqNo) => ch[i].seqNo < ch[j].seqNo)'
  BY <1>1, DequeueOrder
<1>4. held = NoEvent /\ HeldIds = {} /\ pos = 1 /\ NewIds = {} /\ newIdBuf = <<>>
  BY <1>1 DEF Ledger, HeldInSend, HeldIds, NewIds, IInv, LoopsAtRest
<1>5. UNCHANGED NewIds /\ Rising(newIdBuf)'
  BY <1>1, <1>4 DEF NewIds, scan, Rising
<1>6. Latest'
  BY <1>1 DEF Order, Latest
<1> HIDE DEF ev, n
<1>7. CASE UNCHANGED <<held, idBuf>>
  <2>1. UNCHANGED <<HeldIds, LeftIds>>
    BY <1>1, <1>7 DEF HeldIds, LeftIds, scan
  <2> QED
    BY <1>1, <1>2, <1>3, <1>5, <1>7, <2>1, OrderShrinks
<1>8. CASE held' = ev /\ idBuf' = idBuf
  <2>1. LeftIds' = LeftIds
    BY <1>1, <1>8 DEF LeftIds, scan
  <2>2. HeldIds' \subseteq {n}
    BY <1>8 DEF HeldIds, n
  <2>3. InOrder'
    BY <1>1, <1>2, <1>3, <1>4, <1>5, <2>1, <2>2 DEF Order, InOrder, Before, SameBy
  <2>4. InSequence'
    BY <1>1, <1>3, <1>5, <1>8 DEF Order, InSequence, Rising, SameBy
  <2> QED
    BY <1>6, <2>3, <2>4 DEF Order
<1>9. CASE Take(ev, buf, idBuf, bufSize) /\ held' = held
  <2>1. idBuf' = Append(idBuf, n) /\ idBuf \in Seq(1..MaxPushes) /\ pos' = 1
    BY <1>1, <1>4, <1>9 DEF Take, IInv, TypeOK, BatchTypeOK, scan, n
  <2>2. /\ DOMAIN idBuf = 1..Len(idBuf) /\ DOMAIN idBuf' = 1..Len(idBuf) + 1
        /\ Len(idBuf) \in Nat /\ Len(idBuf') = Len(idBuf) + 1
        /\ idBuf'[Len(idBuf) + 1] = n
        /\ \A i \in 1..Len(idBuf) : idBuf'[i] = idBuf[i]
    BY <1>2, <2>1
  <2>3. LeftIds' \subseteq LeftIds \cup {n} /\ HeldIds' = {}
    BY <1>4, <1>9, <2>1, <2>2 DEF LeftIds, HeldIds
  <2>4. \A i \in DOMAIN idBuf : idBuf[i] \in LeftIds
    BY <1>4, <2>2, IdsKnown
  <2>5. Rising(idBuf)'
    <3>1. Rising(idBuf')
      BY <1>2, <1>3, <2>1, <2>4, RisingAppend DEF Order, InSequence
    <3> QED
      BY <1>1, <3>1 DEF Rising, SameBy
  <2>6. \A i \in DOMAIN idBuf' : idBuf'[i] \in 1..number
    BY <1>2, <2>2 DEF Order, InSequence
  <2>7. InOrder'
    BY <1>1, <1>2, <1>3, <1>4, <1>5, <2>3 DEF Order, InOrder, Before, SameBy
  <2>8. InSequence'
    BY <1>1, <1>3, <1>5, <2>5, <2>6 DEF InSequence
  <2> QED
    BY <1>6, <2>7, <2>8 DEF Order
<1> QED
  BY <1>7, <1>8, <1>9 DEF SelectEvent, ev, batch

-----------------------------------------------------------------------------
(* The copy grows by the next log of the batch, or does not.               *)
LEMMA RemoveStepOrder == ASSUME IInv, Ledger, Order, RemoveStep PROVE Order'
<1> DEFINE n == idBuf[pos]
<1>1. /\ pos <= Len(buf) /\ pos' = pos + 1
      /\ UNCHANGED <<number, pushing, ch, idBuf, held, pushed>>
  BY DEF RemoveStep, client, batch
<1>2. n \in LeftIds /\ LeftIds' = LeftIds \ {n}
  BY <1>1, Pass
<1>3. pos \in 1..Len(idBuf) /\ n \in 1..MaxPushes /\ Len(idBuf) \in Nat
  BY <1>1, PosType DEF IInv, TypeOK, BatchTypeOK
<1>4. UNCHANGED <<ChIds, HeldIds>>
  BY <1>1 DEF ChIds, HeldIds
<1>5. (\A i, j \in DOMAIN ch :
         i < j /\ SameBy(ch[i].seqNo, ch[j].seqNo) => ch[i].seqNo < ch[j].seqNo)'
  BY <1>1 DEF Order, InSequence, SameBy
<1>6. CASE newIdBuf' = newIdBuf
  <2>1. NewIds' = NewIds /\ Rising(newIdBuf)'
    BY <1>1, <1>6 DEF NewIds, Order, InSequence, Rising, SameBy
  <2> QED
    BY <1>1, <1>2, <1>4, <1>5, <2>1, OrderShrinks
<1>7. CASE newIdBuf' = Append(newIdBuf, n)
  <2>1. newIdBuf \in Seq(1..MaxPushes)
    BY DEF IInv, TypeOK, BatchTypeOK
  <2>2. NewIds' \subseteq NewIds \cup {n}
    BY <1>3, <1>7, <2>1 DEF NewIds
  <2>3. \A k \in LeftIds' : SameBy(n, k) => n < k
    <3> SUFFICES ASSUME NEW i \in pos + 1..Len(idBuf), SameBy(n, idBuf[i])
                 PROVE  n < idBuf[i]
      BY <1>1 DEF LeftIds
    <3> QED
      BY <1>3 DEF Order, InSequence, Rising, IInv, TypeOK, BatchTypeOK
  <2>4. \A k \in NewIds : SameBy(k, n) => k < n
    BY <1>2 DEF Order, InOrder, Before
  <2>5. Rising(newIdBuf)'
    <3>1. \A i \in DOMAIN newIdBuf : SameBy(newIdBuf[i], n) => newIdBuf[i] < n
      BY <2>4, IdsKnown
    <3>2. Rising(newIdBuf')
      BY <1>3, <1>7, <2>1, <3>1, RisingAppend DEF Order, InSequence
    <3> QED
      BY <1>1, <3>2 DEF Rising, SameBy
  <2>6. InOrder'
    BY <1>1, <1>2, <1>4, <2>2, <2>3 DEF Order, InOrder, Before, SameBy
  <2>7. InSequence'
    BY <1>1, <1>5, <2>5 DEF Order, InSequence, Rising, SameBy
  <2>8. Latest'
    BY <1>1 DEF Order, Latest
  <2> QED
    BY <2>6, <2>7, <2>8 DEF Order
<1> QED
  BY <1>6, <1>7 DEF RemoveStep, Keep

LEMMA RemoveReturnsOrder == ASSUME IInv, Ledger, Order, RemoveReturns PROVE Order'
<1>1. /\ pc = "remove" /\ pos > Len(buf) /\ idBuf' = newIdBuf
      /\ pos' = 1 /\ newIdBuf' = <<>>
      /\ UNCHANGED <<client, held, pushed>>
  BY DEF RemoveReturns
<1>2. newIdBuf \in Seq(1..MaxPushes) /\ DOMAIN newIdBuf = pos'..Len(idBuf')
  BY <1>1 DEF IInv, TypeOK, BatchTypeOK
<1>3. NewIds' = {} /\ LeftIds' = NewIds
  BY <1>1, <1>2 DEF LeftIds, NewIds
<1>4. UNCHANGED <<ChIds, HeldIds>>
  BY <1>1 DEF ChIds, HeldIds, client
<1>5. InOrder'
  BY <1>1, <1>3, <1>4 DEF Order, InOrder, Before, SameBy
<1>6. InSequence'
  <2>1. \A i \in DOMAIN newIdBuf : newIdBuf[i] \in 1..number
    BY IdsKnown
  <2> QED
    BY <1>1, <2>1 DEF Order, InSequence, Rising, SameBy, client
<1>7. Latest'
  BY <1>1 DEF Order, Latest, client
<1> QED
  BY <1>5, <1>6, <1>7 DEF Order

LEMMA FinishStepOrder == ASSUME IInv, Ledger, Order, FinishStep PROVE Order'
<1>1. /\ pos <= Len(buf) /\ pos' = pos + 1
      /\ UNCHANGED <<client, batch, newIdBuf, pushed>>
  BY DEF FinishStep
<1>2. LeftIds' \subseteq LeftIds
  BY <1>1, Pass DEF batch
<1>3. UNCHANGED <<NewIds, HeldIds, ChIds>>
  BY <1>1 DEF NewIds, HeldIds, ChIds, batch, client
<1>4. /\ Rising(newIdBuf)'
      /\ (\A i, j \in DOMAIN ch :
            i < j /\ SameBy(ch[i].seqNo, ch[j].seqNo) => ch[i].seqNo < ch[j].seqNo)'
  BY <1>1 DEF Order, InSequence, Rising, SameBy, client
<1> QED
  BY <1>1, <1>2, <1>3, <1>4, OrderShrinks DEF client, batch

(* The event that was kept is the only one of the new batch.               *)
LEMMA SendReturnsOrder == ASSUME IInv, Ledger, Order, SendReturns PROVE Order'
<1>1. /\ pc = "finish" /\ pos' = 1 /\ held' = NoEvent /\ BackInRun
      /\ UNCHANGED <<client, newIdBuf, pushed>>
  BY DEF SendReturns
<1>2. HeldIds' = {} /\ newIdBuf = <<>> /\ NewIds = {} /\ NewIds' = {} /\ ChIds' = ChIds
  BY <1>1 DEF HeldIds, NewIds, ChIds, client, IInv, LoopsAtRest
<1>3. /\ LeftIds' \subseteq HeldIds
      /\ \A i \in DOMAIN idBuf' : i = 1 /\ idBuf'[i] \in HeldIds
  <2>1. CASE held = NoEvent
    BY <1>1, <2>1 DEF BackInRun, LeftIds
  <2>2. CASE held # NoEvent
    <3>1. idBuf' = Append(<<>>, held.seqNo) /\ held.seqNo \in HeldIds
      BY <1>1, <2>2, IdsKnown DEF BackInRun, Take
    <3>2. idBuf' = <<held.seqNo>>
      BY <3>1
    <3>3. Len(idBuf') = 1 /\ DOMAIN idBuf' = {1} /\ idBuf'[1] = held.seqNo
      BY <3>2
    <3> QED
      BY <1>1, <3>1, <3>3 DEF LeftIds
  <2> QED
    BY <2>1, <2>2
<1>4. InOrder'
  BY <1>1, <1>2, <1>3 DEF Order, InOrder, Before, SameBy
<1>5. InSequence'
  <2>1. \A i \in DOMAIN idBuf' : idBuf'[i] \in 1..number'
    BY <1>1, <1>3, Places DEF client
  <2> QED
    BY <1>1, <1>2, <1>3, <2>1 DEF Order, InSequence, Rising, SameBy, client
<1>6. Latest'
  BY <1>1 DEF Order, Latest, client
<1> QED
  BY <1>4, <1>5, <1>6 DEF Order

LEMMA OrderStep == IInv /\ Ledger /\ Order /\ [Next]_vars => Order'
<1> SUFFICES ASSUME IInv, Ledger, Order, [Next]_vars PROVE Order'
  OBVIOUS
<1>1. CASE UNCHANGED vars
  BY <1>1, OrderFrame DEF vars, batch
<1>2. ASSUME NEW p \in Producer, PushReturns(p) \/ \E log \in Log : PushLog(p, log)
      PROVE  Order'
  BY <1>2, PushLogOrder, PushReturnsOrder
<1>3. ASSUME NEW s \in Stopper, StopReturns(s) \/ \E wait \in BOOLEAN : Stop(s, wait)
      PROVE  Order'
  BY <1>3, OrderFrame DEF Stop, StopReturns, batch
<1>4. CASE RunStarts \/ SelectDone \/ SelectTick \/ Age \/ TimerFires \/ StopsRetrying
  <2>1. UNCHANGED <<client, batch, scan, pushed>>
    BY <1>4 DEF RunStarts, SelectDone, SelectTick, Age, TimerFires, StopsRetrying
  <2> QED
    BY <2>1, OrderFrame DEF batch
<1>5. CASE (\E e \in Err : PutLogs(e)) \/ \E b \in limbo : LateStore(b)
  <2>1. UNCHANGED <<client, batch, scan, pushed>>
    BY <1>5 DEF PutLogs, LateStore
  <2> QED
    BY <2>1, OrderFrame DEF batch
<1>6. CASE SelectEvent
  BY <1>6, SelectEventOrder
<1>7. CASE RemoveStep \/ RemoveReturns
  BY <1>7, RemoveStepOrder, RemoveReturnsOrder
<1>8. CASE FinishStep \/ SendReturns
  BY <1>8, FinishStepOrder, SendReturnsOrder
<1> QED
  BY <1>1, <1>2, <1>3, <1>4, <1>5, <1>6, <1>7, <1>8 DEF Next, Run, Send

-----------------------------------------------------------------------------
(* No step unsays a callback, or changes who pushed a log.                 *)
Persists ==
  /\ number \in Nat /\ number' \in Nat
  /\ \A n \in 1..number : pushed'[n] = pushed[n] /\ n \in 1..number'
  /\ \A n \in 1..number : notified[n] # <<>> => notified'[n] # <<>>

LEMMA CallbackPersists ==
  ASSUME IInv, NEW n, NEW log, NEW e, DoCallback(n, log, e)
  PROVE  \A k \in 1..number : notified[k] # <<>> => notified'[k] # <<>>
<1> SUFFICES ASSUME NEW k \in 1..number, notified[k] # <<>> PROVE notified'[k] # <<>>
  OBVIOUS
<1>1. k \in 1..MaxPushes
  BY OptionAssumption DEF IInv, TypeOK, QueueTypeOK
<1>2. notified \in [1..MaxPushes -> Seq([log : Log, err : Err])]
  BY DEF IInv, TypeOK, HistoryTypeOK
<1>3. CASE k # n
  BY <1>1, <1>2, <1>3 DEF DoCallback
<1>4. CASE k = n
  <2> DEFINE call == [log |-> log, err |-> e]
  <2>1. notified'[k] = Append(notified[k], call)
    BY <1>1, <1>2, <1>4 DEF DoCallback
  <2>2. notified[k] \in Seq([log : Log, err : Err])
    BY <1>1, <1>2
  <2> HIDE DEF call
  <2>3. Len(Append(notified[k], call)) = Len(notified[k]) + 1 /\ Len(notified[k]) \in Nat
    BY <2>2
  <2>4. Len(notified'[k]) # 0 /\ Len(<<>>) = 0
    BY <2>1, <2>3
  <2> QED
    BY <2>4
<1> QED
  BY <1>3, <1>4

LEMMA StepPersists == IInv /\ Ledger /\ [Next]_vars => Persists
<1> SUFFICES ASSUME IInv, Ledger, [Next]_vars PROVE Persists
  OBVIOUS
<1>1. number \in Nat
  BY DEF IInv, TypeOK, QueueTypeOK
<1>2. ASSUME UNCHANGED <<number, pushed, notified>> PROVE Persists
  BY <1>1, <1>2 DEF Persists
<1>3. ASSUME NEW n, NEW log, NEW e, DoCallback(n, log, e), UNCHANGED <<number, pushed>>
      PROVE  Persists
  BY <1>1, <1>3, CallbackPersists DEF Persists
<1>4. ASSUME NEW p \in Producer, NEW log \in Log, PushLog(p, log) PROVE Persists
  <2>1. /\ number' = number + 1 /\ notified' = notified
        /\ pushed' = Append(pushed, [log |-> log, by |-> p])
    BY <1>4 DEF PushLog
  <2>2. \A k \in 1..number : pushed'[k] = pushed[k]
    BY <2>1 DEF IInv, TypeOK, HistoryTypeOK
  <2>3. number' \in Nat /\ \A k \in 1..number : k \in 1..number'
    BY <1>1, <2>1
  <2> QED
    BY <1>1, <2>1, <2>2, <2>3 DEF Persists
<1>5. CASE \/ UNCHANGED vars \/ \E p \in Producer : PushReturns(p)
           \/ \E s \in Stopper : StopReturns(s) \/ \E wait \in BOOLEAN : Stop(s, wait)
           \/ RunStarts \/ SelectDone \/ SelectTick \/ Age \/ TimerFires \/ StopsRetrying
           \/ RemoveReturns \/ SendReturns
           \/ (\E e \in Err : PutLogs(e)) \/ \E b \in limbo : LateStore(b)
  <2>1. UNCHANGED <<number, pushed, notified>>
    BY <1>5 DEF vars, client, PushReturns, StopReturns, Stop, RunStarts, SelectDone,
                SelectTick, Age, TimerFires, StopsRetrying, RemoveReturns, SendReturns,
                PutLogs, LateStore
  <2> QED
    BY <1>2, <2>1
<1>6. CASE SelectEvent
  BY <1>2, <1>3, <1>6 DEF SelectEvent
<1>7. CASE RemoveStep
  BY <1>2, <1>3, <1>7 DEF RemoveStep, client
<1>8. CASE FinishStep
  BY <1>3, <1>8 DEF FinishStep, client
<1> QED
  BY <1>4, <1>5, <1>6, <1>7, <1>8 DEF Next, Run, Send

(* A set that is closed stays so.                                          *)
LEMMA ClosedStays ==
  ASSUME Persists, stored \subseteq stored', NEW S, S \subseteq 1..number, Closed(S)
  PROVE  /\ S \subseteq 1..number'
         /\ \A n \in S, m \in 1..number' :
              m < n /\ pushed'[m].by = pushed'[n].by =>
                m \in S \/ m \in stored' \/ notified'[m] # <<>>
<1>1. S \subseteq 1..number'
  BY DEF Persists
<1>2. ASSUME NEW n \in S, NEW m \in 1..number', m < n, pushed'[m].by = pushed'[n].by
      PROVE  m \in S \/ m \in stored' \/ notified'[m] # <<>>
  <2>1. n \in 1..number /\ m \in 1..number
    BY <1>2 DEF Persists
  <2>2. SameBy(m, n)
    BY <1>2, <2>1 DEF Persists, SameBy
  <2> QED
    BY <1>2, <2>1, <2>2 DEF Closed, Persists
<1> QED
  BY <1>1, <1>2

(* A batch that is sent holds, or has reported, whatever its goroutines    *)
(* pushed before its logs.                                                 *)
LEMMA BatchClosed ==
  ASSUME IInv, Ledger, Order, pc = "put"
  PROVE  Logs(idBuf) \subseteq 1..number /\ Closed(Logs(idBuf))
<1>1. pos = 1 /\ NewIds = {} /\ idBuf \in Seq(1..MaxPushes) /\ DOMAIN idBuf = 1..Len(idBuf)
  BY DEF NewIds, IInv, LoopsAtRest, TypeOK, BatchTypeOK
<1>2. Logs(idBuf) = LeftIds
  <2>1. Logs(idBuf) \subseteq LeftIds
    BY <1>1, IdsKnown DEF Logs
  <2>2. LeftIds \subseteq Logs(idBuf)
    BY <1>1 DEF Logs, LeftIds
  <2> QED
    BY <2>1, <2>2
<1>3. LeftIds \subseteq 1..number /\ number \in Nat
  BY Places
<1>4. ASSUME NEW n \in LeftIds, NEW m \in 1..number, m < n, SameBy(m, n), m \notin LeftIds
      PROVE  notified[m] # <<>>
  <2>1. m \notin HeldIds \cup ChIds
    <3>1. ASSUME m \in HeldIds \cup ChIds PROVE n < m
      BY <1>4, <3>1 DEF Order, InOrder, Before, SameBy
    <3> QED
      BY <1>3, <1>4, <3>1
  <2>2. m \notin PushIds
    <3> SUFFICES ASSUME NEW p \in Producer, pushing[p] # NoEvent, pushing[p].seqNo = m
                 PROVE  FALSE
      BY DEF PushIds
    <3>1. n <= m
      BY <1>3, <1>4 DEF Order, Latest, SameBy
    <3> QED
      BY <1>3, <1>4, <3>1
  <2>3. m \notin Owed
    BY <1>1, <1>4, <2>1, <2>2 DEF Ledger, OnePlace
  <2> QED
    BY <1>4, <2>3 DEF Owed
<1> QED
  BY <1>2, <1>3, <1>4 DEF Closed

LEMMA OvertakesStep == IInv /\ Ledger /\ Order /\ Overtakes /\ [Next]_vars => Overtakes'
<1> SUFFICES ASSUME IInv, Ledger, Order, Overtakes, [Next]_vars PROVE Overtakes'
  OBVIOUS
<1> DEFINE Fine(S) == S \subseteq 1..number /\ Closed(S)
           FineNow(S) == /\ S \subseteq 1..number'
                         /\ \A n \in S, m \in 1..number' :
                              m < n /\ pushed'[m].by = pushed'[n].by =>
                                m \in S \/ m \in stored' \/ notified'[m] # <<>>
<1>1. Persists
  BY StepPersists
<1>2. Fine(stored) /\ \A b \in limbo : Fine(b)
  BY DEF Overtakes
<1>3. ASSUME stored \subseteq stored', NEW S, Fine(S) PROVE FineNow(S)
  BY <1>1, <1>3, ClosedStays
<1>4. ASSUME FineNow(stored'), \A b \in limbo' : FineNow(b) PROVE Overtakes'
  BY <1>4 DEF Overtakes, Closed, SameBy
<1>5. ASSUME FineNow(stored), NEW S, FineNow(S), stored' = stored \cup S
      PROVE  FineNow(stored')
  BY <1>5
<1>6. CASE UNCHANGED service
  <2>1. stored' = stored /\ limbo' = limbo
    BY <1>6 DEF service
  <2> HIDE DEF Fine, FineNow
  <2> QED
    BY <1>2, <1>3, <1>4, <2>1
<1>7. ASSUME NEW e \in Err, PutLogs(e) PROVE Overtakes'
  <2>1. /\ pc = "put"
        /\ stored' = stored \/ stored' = stored \cup Logs(idBuf)
        /\ limbo' \subseteq limbo \cup {Logs(idBuf)}
    BY <1>7 DEF PutLogs
  <2>2. Fine(Logs(idBuf))
    BY <2>1, BatchClosed
  <2> HIDE DEF Fine, FineNow
  <2>3. FineNow(stored) /\ FineNow(Logs(idBuf)) /\ \A b \in limbo : FineNow(b)
    BY <1>2, <1>3, <2>1, <2>2
  <2> QED
    BY <1>4, <1>5, <2>1, <2>3
<1>8. ASSUME NEW b \in limbo, LateStore(b) PROVE Overtakes'
  <2>1. limbo' = limbo \ {b} /\ stored' = stored \cup b
    BY <1>8 DEF LateStore
  <2> HIDE DEF Fine, FineNow
  <2>2. FineNow(stored) /\ \A c \in limbo : FineNow(c)
    BY <1>2, <1>3, <2>1
  <2> QED
    BY <1>4, <1>5, <2>1, <2>2
<1>9. (\E e \in Err : PutLogs(e)) \/ (\E b \in limbo : LateStore(b)) \/ UNCHANGED service
  BY DEF Next, Run, Send, vars, PushLog, PushReturns, Stop, StopReturns, RunStarts,
         SelectDone, SelectEvent, SelectTick, Age, RemoveStep, RemoveReturns,
         TimerFires, StopsRetrying, FinishStep, SendReturns
<1> QED
  BY <1>6, <1>7, <1>8, <1>9

-----------------------------------------------------------------------------
(* The logs that one goroutine pushes are listed, and reach the service,   *)
(* in that order: a log the service has is overtaken by none that was      *)
(* pushed before it, unless that one was reported.                         *)
THEOREM OrderKept == Spec => []ProducerOrder
<1> DEFINE Inv == IInv /\ Ledger /\ Order /\ Overtakes
<1>1. Init => Inv
  BY InitInv, LedgerInit, OrderInit
<1>2. Inv /\ [Next]_vars => Inv'
  BY StepInv, LedgerStep, OrderStep, OvertakesStep
<1>3. Inv => ProducerOrder
  <2> SUFFICES ASSUME Inv, NEW m \in 1..number, NEW n \in 1..number, m < n, SameBy(m, n)
               PROVE  /\ n \in stored => m \in stored \/ notified[m] # <<>>
                      /\ \A i, j \in DOMAIN idBuf : idBuf[i] = m /\ idBuf[j] = n => i < j
    BY DEF ProducerOrder, SameBy
  <2>1. n \in stored => m \in stored \/ notified[m] # <<>>
    BY DEF Overtakes, Closed
  <2>2. ASSUME NEW i \in DOMAIN idBuf, NEW j \in DOMAIN idBuf, idBuf[i] = m, idBuf[j] = n
        PROVE  i < j
    <3>1. i \in Int /\ j \in Int /\ m \in Int /\ n \in Int
      BY DEF IInv, TypeOK, BatchTypeOK
    <3>2. ~ j < i
      BY <2>2, <3>1 DEF Order, InSequence, Rising, SameBy
    <3> QED
      BY <2>2, <3>1, <3>2
  <2> QED
    BY <2>1, <2>2
<1> HIDE DEF Inv
<1>4. Spec => []Inv
  BY <1>1, <1>2, PTL DEF Spec
<1> QED
  BY <1>3, <1>4, PTL
=============================================================================
