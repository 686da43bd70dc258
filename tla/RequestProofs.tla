--------------------------- MODULE RequestProofs ---------------------------
(***************************************************************************)
(* Proofs about Request, for any number of callers, providers and retries: *)
(* the whole body goes out each time, retries are justified and bounded,   *)
(* Send returns the outcome of its last attempt, and an Expire is not lost *)
(* to a refresh that is under way.                                         *)
(***************************************************************************)
EXTENDS Request, TLAPS

Going(c) == pc[c] \in {"build", "sign", "get", "send"}

Justified(r) ==
  r.status \in {"none", "5xx"} \/ r.code \in {"Throttling", "ExpiredToken"}

(* The mutex keeps Expire out of a refresh.                                *)
CredInv ==
  /\ m # NoOne => ~owed
  /\ ExpireKept
  /\ ~forceRefresh => creds # 0

(* Before an attempt: no error, one attempt for each retry counted, each   *)
(* of them justified, and the body at its beginning or about to be.        *)
GoingInv(c) ==
  Going(c) =>
    /\ error[c] = Nil
    /\ Len(attempts[c]) = retryCount[c]
    /\ \A i \in 1..Len(attempts[c]) : Justified(attempts[c][i].reply)
    /\ Rewind(c) = 0

(* After a failed one: its error, and its share of the decision to retry.  *)
AfterInv(c) ==
  pc[c] = "after" =>
    /\ Len(attempts[c]) = retryCount[c] + 1
    /\ error[c] = LastReply(c).code
    /\ retryable[c] = IF LastReply(c).status = "none" THEN "true" ELSE "unset"
    /\ \A i \in 1..Len(attempts[c]) - 1 : Justified(attempts[c][i].reply)

DoneInv(c) ==
  pc[c] = "done" =>
    /\ Len(attempts[c]) <= MaxRetries(c) + 1
    /\ \A i \in 1..Len(attempts[c]) - 1 : Justified(attempts[c][i].reply)
    /\ IF attempts[c] = <<>> THEN error[c] \in {"MissingEndpoint", "NoCredentials"}
       ELSE error[c] = LastReply(c).code

(* A request is built and signed in its first round, or Send ends there.   *)
FirstRound(c) ==
  /\ ~built[c] => attempts[c] = <<>>
  /\ attempts[c] # <<>> => ~Signs(c)
  /\ pc[c] = "get" => Signs(c)
  /\ pc[c] = "send" => ~Signs(c)
  /\ pc[c] \in {"sign", "get", "send"} => built[c]

CallerInv(c) == GoingInv(c) /\ AfterInv(c) /\ DoneInv(c) /\ FirstRound(c)

IInv ==
  /\ TypeOK /\ CredInv /\ WholeBody
  /\ \A c \in Caller : CallerInv(c)

LEMMA MaxRetriesType == \A c \in Caller : MaxRetries(c) \in Nat
  BY RetryAssumption DEF MaxRetries

LEMMA InitInv == Init => IInv
<1> SUFFICES ASSUME Init PROVE IInv
  OBVIOUS
<1> USE DEF Init
<1>1. CredTypeOK /\ CredInv
  <2>1. CredTypeOK
    <3>1. fetches \in Nat /\ creds \in 0..fetches
      BY DEF CredInit
    <3>2. retrieved \in [Providers -> BOOLEAN]
      BY DEF CredInit
    <3>3. forceRefresh \in BOOLEAN /\ owed \in BOOLEAN
      BY DEF CredInit
    <3>4. curr \in Providers \cup {NoProvider}
      BY DEF CredInit
    <3> QED
      BY <3>1, <3>2, <3>3, <3>4 DEF CredTypeOK
  <2>2. CredInv
    BY DEF CredInit, CredInv, ExpireKept
  <2> QED
    BY <2>1, <2>2
<1>2. ReqTypeOK
  BY MaxRetriesType, BodyAssumption DEF ReqTypeOK, CredInit
<1>3. WholeBody
  BY DEF WholeBody
<1>4. \A c \in Caller : CallerInv(c)
  BY DEF CallerInv, GoingInv, AfterInv, DoneInv, FirstRound, Going, Rewind
<1> QED
  BY <1>1, <1>2, <1>3, <1>4 DEF IInv, TypeOK

-----------------------------------------------------------------------------
(* A step of one caller leaves what the invariant says of the others.      *)
LEMMA OthersInv ==
  ASSUME NEW c \in Caller, CallerInv(c),
         UNCHANGED <<pc[c], error[c], retryable[c], retryCount[c], built[c],
                     auth[c], body[c], attempts[c]>>
  PROVE  CallerInv(c)'
  BY DEF CallerInv, GoingInv, AfterInv, DoneInv, FirstRound, Going, Rewind,
         LastReply, Signs, MaxRetries

LEMMA AllInv ==
  ASSUME NEW c \in Caller, IInv, CallerInv(c)',
         \A d \in Caller \ {c} :
           UNCHANGED <<pc[d], error[d], retryable[d], retryCount[d], built[d],
                       auth[d], body[d], attempts[d]>>
  PROVE  \A d \in Caller : CallerInv(d)'
<1> SUFFICES ASSUME NEW d \in Caller, d # c PROVE CallerInv(d)'
  OBVIOUS
<1>1. CallerInv(d)
  BY DEF IInv
<1> QED
  BY <1>1, OthersInv

LEMMA BuildInv == ASSUME IInv, NEW c \in Caller, Build(c) PROVE IInv'
<1> USE DEF IInv, TypeOK
<1>1. UNCHANGED <<retryable, retryCount, auth, body, open, attempts, credVars>>
  BY DEF Build
<1>2. CredTypeOK' /\ CredInv'
  BY <1>1 DEF CredTypeOK, CredInv, ExpireKept, credVars
<1>3. ReqTypeOK'
  BY <1>1 DEF ReqTypeOK, Build, Goto, Fail, SendError, MaxRetries, credVars
<1>4. WholeBody'
  BY <1>1 DEF WholeBody
<1>5. CallerInv(c)
  OBVIOUS
<1>6. CallerInv(c)'
  <2>1. CASE built[c] \/ c \notin NoEndpoint
    <3>1. pc'[c] = "sign" /\ built'[c] /\ error'[c] = error[c] /\ pc[c] = "build"
      BY <2>1 DEF Build, Goto, ReqTypeOK
    <3>2. GoingInv(c)'
      BY <1>1, <1>5, <3>1 DEF CallerInv, GoingInv, Going, Rewind
    <3>3. AfterInv(c)' /\ DoneInv(c)' /\ FirstRound(c)'
      BY <1>1, <1>5, <3>1 DEF CallerInv, AfterInv, DoneInv, FirstRound, Signs
    <3> QED
      BY <3>2, <3>3 DEF CallerInv
  <2>2. CASE ~(built[c] \/ c \notin NoEndpoint)
    <3>1. pc'[c] = "done" /\ ~built'[c] /\ error'[c] = "MissingEndpoint"
      BY <2>2 DEF Build, Goto, Fail, ReqTypeOK
    <3>2. attempts'[c] = <<>>
      BY <1>1, <1>5, <2>2 DEF CallerInv, FirstRound
    <3>3. DoneInv(c)'
      BY <3>1, <3>2, MaxRetriesType DEF DoneInv, MaxRetries
    <3>4. GoingInv(c)' /\ AfterInv(c)' /\ FirstRound(c)'
      BY <3>1, <3>2 DEF GoingInv, Going, AfterInv, FirstRound
    <3> QED
      BY <3>3, <3>4 DEF CallerInv
  <2> QED
    BY <2>1, <2>2
<1>7. \A d \in Caller \ {c} :
        UNCHANGED <<pc[d], error[d], retryable[d], retryCount[d], built[d],
                    auth[d], body[d], attempts[d]>>
  BY <1>1 DEF Build, Goto, Fail, ReqTypeOK
<1> QED
  BY <1>2, <1>3, <1>4, <1>6, <1>7, AllInv

(* c goes from the signature to the attempt, or waits for the mutex: only  *)
(* pc and the header change.                                               *)
LEMMA SigningInv ==
  ASSUME IInv, NEW c \in Caller, pc[c] \in {"sign", "get"},
         NEW label \in {"send", "get"}, NEW value \in 0..fetches',
         pc' = [pc EXCEPT ![c] = label],
         auth' = [auth EXCEPT ![c] = value],
         ~Signs(c) => value = auth[c],
         label = "send" => c \in Anonymous \/ value # 0,
         label = "get" => Signs(c) /\ value = auth[c],
         UNCHANGED <<error, retryable, retryCount, built, body, open, attempts>>,
         CredTypeOK', CredInv', fetches \in Nat, fetches' \in {fetches, fetches + 1},
         m' \in Caller \cup {NoOne}
  PROVE  IInv'
<1> USE DEF IInv, TypeOK
<1>1. ReqTypeOK'
  <2>1. auth' \in [Caller -> 0..fetches']
    BY DEF ReqTypeOK
  <2>2. pc' \in [Caller -> {"build", "sign", "get", "send", "after", "done"}]
    BY DEF ReqTypeOK
  <2> QED
    BY <2>1, <2>2 DEF ReqTypeOK, MaxRetries
<1>2. WholeBody'
  BY DEF WholeBody
<1>3. CallerInv(c)'
  <2>1. pc'[c] = label /\ auth'[c] = value /\ CallerInv(c)
    BY DEF ReqTypeOK
  <2>2. GoingInv(c)' /\ AfterInv(c)' /\ DoneInv(c)'
    BY <2>1 DEF CallerInv, GoingInv, AfterInv, DoneInv, Going, Rewind
  <2>3. FirstRound(c)'
    BY <2>1 DEF CallerInv, FirstRound, Signs
  <2> QED
    BY <2>2, <2>3 DEF CallerInv
<1>4. \A d \in Caller \ {c} :
        UNCHANGED <<pc[d], error[d], retryable[d], retryCount[d], built[d],
                    auth[d], body[d], attempts[d]>>
  BY DEF ReqTypeOK
<1> QED
  BY <1>1, <1>2, <1>3, <1>4, AllInv

LEMMA SignSkipsInv == ASSUME IInv, NEW c \in Caller, SignSkips(c) PROVE IInv'
<1> USE DEF IInv, TypeOK
<1>1. /\ pc[c] = "sign" /\ ~Signs(c)
      /\ pc' = [pc EXCEPT ![c] = "send"]
      /\ UNCHANGED <<error, retryable, retryCount, built, auth, body, open,
                     attempts, credVars>>
  BY DEF SignSkips, Goto
<1>2. auth' = [auth EXCEPT ![c] = auth[c]] /\ auth[c] \in 0..fetches'
  BY <1>1 DEF ReqTypeOK, credVars
<1>3. c \in Anonymous \/ auth[c] # 0
  BY <1>1 DEF Signs
<1>4. CredTypeOK' /\ CredInv'
  BY <1>1 DEF CredTypeOK, CredInv, ExpireKept, credVars
<1>5. fetches \in Nat /\ fetches' = fetches /\ m' \in Caller \cup {NoOne}
  BY <1>1 DEF CredTypeOK, ReqTypeOK, credVars
<1> QED
  BY <1>1, <1>2, <1>3, <1>4, <1>5, SigningInv

LEMMA SignsCachedInv == ASSUME IInv, NEW c \in Caller, SignsCached(c) PROVE IInv'
<1> USE DEF IInv, TypeOK
<1>1. /\ pc[c] = "sign" /\ Signs(c)
      /\ pc' = [pc EXCEPT ![c] = "send"]
      /\ auth' = [auth EXCEPT ![c] = creds]
      /\ UNCHANGED <<error, retryable, retryCount, built, body, open, attempts, credVars>>
  BY DEF SignsCached, SignWith, Goto, GetCached
<1>2. creds \in 0..fetches' /\ creds # 0
  BY <1>1 DEF CredTypeOK, CredInv, SignsCached, GetCached, IsExpired, credVars
<1>3. CredTypeOK' /\ CredInv'
  BY <1>1 DEF CredTypeOK, CredInv, ExpireKept, credVars
<1>4. fetches \in Nat /\ fetches' = fetches /\ m' \in Caller \cup {NoOne}
  BY <1>1 DEF CredTypeOK, ReqTypeOK, credVars
<1> QED
  BY <1>1, <1>2, <1>3, <1>4, SigningInv

LEMMA SignWaitsInv == ASSUME IInv, NEW c \in Caller, SignWaits(c) PROVE IInv'
<1> USE DEF IInv, TypeOK
<1>1. /\ pc[c] = "sign" /\ Signs(c)
      /\ pc' = [pc EXCEPT ![c] = "get"]
      /\ m = NoOne /\ m' = c /\ owed' = FALSE
      /\ UNCHANGED <<error, retryable, retryCount, built, auth, body, open, attempts>>
      /\ UNCHANGED <<creds, forceRefresh, curr, retrieved, fetches>>
  BY DEF SignWaits, Goto, GetBegins
<1>2. auth' = [auth EXCEPT ![c] = auth[c]] /\ auth[c] \in 0..fetches'
  BY <1>1 DEF ReqTypeOK
<1>3. CredTypeOK' /\ CredInv'
  BY <1>1 DEF CredTypeOK, CredInv, ExpireKept
<1>4. fetches \in Nat /\ fetches' = fetches /\ m' \in Caller \cup {NoOne}
  BY <1>1 DEF CredTypeOK, ReqTypeOK
<1> QED
  BY <1>1, <1>2, <1>3, <1>4, SigningInv

LEMMA SignsFreshInv == ASSUME IInv, NEW c \in Caller, SignsFresh(c) PROVE IInv'
<1> USE DEF IInv, TypeOK
<1>1. /\ pc[c] = "get" /\ m = c
      /\ pc' = [pc EXCEPT ![c] = "send"]
      /\ auth' = [auth EXCEPT ![c] = fetches + 1]
      /\ fetches' = fetches + 1 /\ creds' = fetches + 1
      /\ forceRefresh' = FALSE /\ m' = NoOne /\ owed' = owed
      /\ UNCHANGED <<error, retryable, retryCount, built, body, open, attempts>>
  BY DEF SignsFresh, SignWith, Goto, GetFetches
<1>2. fetches \in Nat /\ fetches + 1 \in 0..fetches' /\ fetches + 1 # 0
  BY <1>1 DEF CredTypeOK
<1>3. CredTypeOK'
  <2>1. curr' \in Providers \cup {NoProvider} /\ retrieved' \in [Providers -> BOOLEAN]
    <3>1. PICK first \in DOMAIN Provider :
            /\ curr' = Provider[first]
            /\ retrieved' = [p \in Providers |->
                 p = Provider[first]
                   \/ (retrieved[p] /\ \A i \in 1..first : p # Provider[i])]
      BY DEF SignsFresh, GetFetches
    <3>2. retrieved' \in [Providers -> BOOLEAN]
      BY <3>1
    <3> QED
      BY <3>1, <3>2 DEF Providers
  <2>2. fetches' \in Nat /\ creds' \in 0..fetches'
    BY <1>1, <1>2
  <2>3. forceRefresh' \in BOOLEAN /\ owed' \in BOOLEAN
    BY <1>1 DEF CredTypeOK
  <2> QED
    BY <2>1, <2>2, <2>3 DEF CredTypeOK
<1>4. CredInv'
  BY <1>1, <1>2, CallerAssumption DEF CredInv, ExpireKept
<1>5. Signs(c)
  BY <1>1 DEF CallerInv, FirstRound
<1>6. m' \in Caller \cup {NoOne}
  BY <1>1
<1> QED
  BY <1>1, <1>2, <1>3, <1>4, <1>5, <1>6, SigningInv

LEMMA SignFailsInv == ASSUME IInv, NEW c \in Caller, SignFails(c) PROVE IInv'
<1> USE DEF IInv, TypeOK
<1>1. /\ pc[c] = "get" /\ m = c
      /\ pc' = [pc EXCEPT ![c] = "done"]
      /\ error' = [error EXCEPT ![c] = "NoCredentials"]
      /\ curr' = NoProvider /\ retrieved' = [p \in Providers |-> FALSE] /\ m' = NoOne
      /\ UNCHANGED <<retryable, retryCount, built, auth, body, open, attempts>>
      /\ UNCHANGED <<creds, forceRefresh, fetches, owed>>
  BY DEF SignFails, Goto, Fail, GetFails
<1>2. CredTypeOK'
  <2>1. retrieved' \in [Providers -> BOOLEAN]
    BY <1>1
  <2> QED
    BY <1>1, <2>1 DEF CredTypeOK
<1>3. CredInv'
  BY <1>1, CallerAssumption DEF CredInv, ExpireKept
<1>4. ReqTypeOK'
  BY <1>1 DEF ReqTypeOK, SendError, MaxRetries
<1>5. WholeBody'
  BY <1>1 DEF WholeBody
<1>6. CallerInv(c)'
  <2>1. CallerInv(c) /\ pc'[c] = "done" /\ error'[c] = "NoCredentials"
    BY <1>1 DEF ReqTypeOK
  <2>2. attempts'[c] = <<>>
    BY <1>1, <2>1 DEF CallerInv, FirstRound
  <2>3. DoneInv(c)'
    BY <2>1, <2>2, MaxRetriesType DEF DoneInv, MaxRetries
  <2>4. GoingInv(c)' /\ AfterInv(c)' /\ FirstRound(c)'
    BY <2>1, <2>2 DEF GoingInv, Going, AfterInv, FirstRound
  <2> QED
    BY <2>3, <2>4 DEF CallerInv
<1>7. \A d \in Caller \ {c} :
        UNCHANGED <<pc[d], error[d], retryable[d], retryCount[d], built[d],
                    auth[d], body[d], attempts[d]>>
  BY <1>1 DEF ReqTypeOK
<1> QED
  BY <1>2, <1>3, <1>4, <1>5, <1>6, <1>7, AllInv

-----------------------------------------------------------------------------
(* An attempt starts at the beginning of the body and is the last one.     *)
LEMMA SendInv ==
  ASSUME IInv, NEW c \in Caller, NEW r \in Reply, NEW to \in 0..BodyLen, Send(c, r, to)
  PROVE  IInv'
<1> USE DEF IInv, TypeOK
<1> DEFINE new == [auth |-> auth[c], from |-> Rewind(c), reply |-> r]
<1>1. /\ pc[c] = "send"
      /\ attempts' = [attempts EXCEPT ![c] = Append(@, new)]
      /\ body' = [body EXCEPT ![c] = to]
      /\ error' = [error EXCEPT ![c] = r.code]
      /\ retryable' = [retryable EXCEPT ![c] =
           IF r.status = "none" THEN "true" ELSE "unset"]
      /\ open' = [open EXCEPT ![c] =
           IF r.status = "none" \/ Closes(r) THEN @ ELSE @ + 1]
      /\ pc' = [pc EXCEPT ![c] = IF r.code = Nil THEN "done" ELSE "after"]
      /\ UNCHANGED <<retryCount, built, auth, credVars>>
  BY DEF Send, Goto, ErrorOf
<1>2. CallerInv(c) /\ Going(c)
  BY <1>1 DEF Going
<1>3. Rewind(c) = 0 /\ error[c] = Nil /\ Len(attempts[c]) = retryCount[c]
  BY <1>2 DEF CallerInv, GoingInv
<1>4. new \in Attempt
  BY <1>3, BodyAssumption DEF Attempt, ReqTypeOK, CredTypeOK
<1>5. attempts[c] \in Seq(Attempt)
  BY DEF ReqTypeOK
<1>6. attempts'[c] = Append(attempts[c], new)
  BY <1>1 DEF ReqTypeOK
<1> HIDE DEF new
<1>7. /\ attempts'[c] \in Seq(Attempt) /\ attempts'[c] # <<>>
      /\ Len(attempts'[c]) = Len(attempts[c]) + 1
      /\ attempts'[c][Len(attempts'[c])] = new
      /\ \A i \in 1..Len(attempts[c]) : attempts'[c][i] = attempts[c][i]
  BY <1>4, <1>5, <1>6
<1>8. new.from = 0 /\ new.reply = r
  BY <1>3 DEF new
<1>9. CredTypeOK' /\ CredInv'
  BY <1>1 DEF CredTypeOK, CredInv, ExpireKept, credVars
<1>10. ReqTypeOK'
  <2>1. attempts' \in [Caller -> Seq(Attempt)]
    BY <1>1, <1>6, <1>7 DEF ReqTypeOK
  <2>2. r.code \in SendError \cup {Nil}
    BY DEF Reply, SendError, ErrorCode
  <2>3. error' \in [Caller -> SendError \cup {Nil}]
    BY <1>1, <2>2 DEF ReqTypeOK
  <2>4. /\ pc' \in [Caller -> {"build", "sign", "get", "send", "after", "done"}]
        /\ retryable' \in [Caller -> {"unset", "true", "false"}]
    BY <1>1 DEF ReqTypeOK
  <2>5. body' \in [Caller -> 0..BodyLen]
    BY <1>1 DEF ReqTypeOK
  <2>6. open' \in [Caller -> Nat]
    BY <1>1 DEF ReqTypeOK
  <2>7. /\ retryCount' \in [Caller -> Nat] /\ built' \in [Caller -> BOOLEAN]
        /\ auth' \in [Caller -> 0..fetches'] /\ m' \in Caller \cup {NoOne}
    BY <1>1 DEF ReqTypeOK, credVars
  <2>8. \A d \in Caller : retryCount'[d] <= MaxRetries(d)'
    BY <1>1 DEF ReqTypeOK, MaxRetries
  <2> QED
    BY <2>1, <2>3, <2>4, <2>5, <2>6, <2>7, <2>8 DEF ReqTypeOK
<1>11. WholeBody'
  <2>1. \A i \in DOMAIN attempts'[c] : attempts'[c][i].from = 0
    <3> SUFFICES ASSUME NEW i \in DOMAIN attempts'[c] PROVE attempts'[c][i].from = 0
      OBVIOUS
    <3>1. i \in 1..Len(attempts[c]) \/ i = Len(attempts'[c])
      BY <1>5, <1>7
    <3>2. CASE i \in 1..Len(attempts[c])
      BY <1>5, <1>7, <3>2 DEF WholeBody
    <3>3. CASE i = Len(attempts'[c])
      BY <1>7, <1>8, <3>3
    <3> QED
      BY <3>1, <3>2, <3>3
  <2>2. \A d \in Caller \ {c} : attempts'[d] = attempts[d]
    BY <1>1 DEF ReqTypeOK
  <2> QED
    BY <2>1, <2>2 DEF WholeBody
<1>12. CallerInv(c)'
  <2>1. LastReply(c)' = r
    BY <1>7, <1>8 DEF LastReply
  <2>2. \A i \in 1..Len(attempts'[c]) - 1 : Justified(attempts'[c][i].reply)
    BY <1>2, <1>5, <1>7 DEF CallerInv, GoingInv
  <2>3. /\ error'[c] = r.code
        /\ retryable'[c] = IF r.status = "none" THEN "true" ELSE "unset"
        /\ pc'[c] = IF r.code = Nil THEN "done" ELSE "after"
        /\ retryCount'[c] = retryCount[c] /\ retryCount[c] \in 0..MaxRetries(c)
    BY <1>1 DEF ReqTypeOK
  <2>4. Len(attempts'[c]) = retryCount'[c] + 1
    BY <1>3, <1>7, <2>3
  <2>5. GoingInv(c)' /\ AfterInv(c)'
    BY <2>1, <2>2, <2>3, <2>4 DEF GoingInv, Going, AfterInv
  <2>6. DoneInv(c)'
    BY <1>7, <2>1, <2>2, <2>3, <2>4, MaxRetriesType DEF DoneInv, MaxRetries
  <2>7. ~Signs(c)' /\ pc'[c] # "get" /\ built'[c]
    <3>1. ~Signs(c) /\ built[c]
      BY <1>1, <1>2 DEF CallerInv, FirstRound
    <3> QED
      BY <1>1, <2>3, <3>1 DEF Signs
  <2>8. FirstRound(c)'
    BY <2>7 DEF FirstRound
  <2> QED
    BY <2>5, <2>6, <2>8 DEF CallerInv
<1>13. \A d \in Caller \ {c} :
        UNCHANGED <<pc[d], error[d], retryable[d], retryCount[d], built[d],
                    auth[d], body[d], attempts[d]>>
  BY <1>1 DEF ReqTypeOK
<1> QED
  BY <1>9, <1>10, <1>11, <1>12, <1>13, AllInv

-----------------------------------------------------------------------------
(* The error stays with the caller, who is done.                           *)
LEMMA GivesUpInv == ASSUME IInv, NEW c \in Caller, GivesUp(c) PROVE IInv'
<1> USE DEF IInv, TypeOK
<1> DEFINE verdict == IF MayRetry(c) THEN "true" ELSE "false"
<1>1. /\ pc[c] = "after"
      /\ retryable' = [retryable EXCEPT ![c] = verdict]
      /\ pc' = [pc EXCEPT ![c] = "done"]
      /\ UNCHANGED <<error, retryCount, built, auth, body, open, attempts, credVars>>
  BY DEF GivesUp, Goto
<1>2. verdict \in {"true", "false"}
  OBVIOUS
<1> HIDE DEF verdict
<1>3. CredTypeOK' /\ CredInv'
  BY <1>1 DEF CredTypeOK, CredInv, ExpireKept, credVars
<1>4. ReqTypeOK'
  BY <1>1, <1>2 DEF ReqTypeOK, MaxRetries, credVars
<1>5. WholeBody'
  BY <1>1 DEF WholeBody
<1>6. CallerInv(c)'
  <2>1. CallerInv(c) /\ pc'[c] = "done"
    BY <1>1 DEF ReqTypeOK
  <2>2. Len(attempts[c]) = retryCount[c] + 1 /\ attempts[c] \in Seq(Attempt)
    BY <1>1, <2>1 DEF CallerInv, AfterInv, ReqTypeOK
  <2>3. attempts[c] # <<>> /\ Len(attempts[c]) <= MaxRetries(c) + 1
    BY <2>2, MaxRetriesType DEF ReqTypeOK
  <2>4. DoneInv(c)'
    BY <1>1, <2>1, <2>3 DEF CallerInv, AfterInv, DoneInv, LastReply, MaxRetries
  <2>5. GoingInv(c)' /\ AfterInv(c)' /\ FirstRound(c)'
    BY <1>1, <2>1 DEF CallerInv, GoingInv, Going, AfterInv, FirstRound, Signs
  <2> QED
    BY <2>4, <2>5 DEF CallerInv
<1>7. \A d \in Caller \ {c} :
        UNCHANGED <<pc[d], error[d], retryable[d], retryCount[d], built[d],
                    auth[d], body[d], attempts[d]>>
  BY <1>1 DEF ReqTypeOK
<1> QED
  BY <1>3, <1>4, <1>5, <1>6, <1>7, AllInv

-----------------------------------------------------------------------------
(* The last answer allows a retry, and Rewind will see the flag.           *)
LEMMA RetriesInv == ASSUME IInv, NEW c \in Caller, Retries(c) PROVE IInv'
<1> USE DEF IInv, TypeOK
<1>1. /\ pc[c] = "after" /\ WillRetry(c)
      /\ retryable' = [retryable EXCEPT ![c] = "true"]
      /\ Expire \/ UNCHANGED credVars
      /\ retryCount' = [retryCount EXCEPT ![c] = @ + 1]
      /\ error' = [error EXCEPT ![c] = Nil]
      /\ pc' = [pc EXCEPT ![c] = "build"]
      /\ UNCHANGED <<built, auth, body, open, attempts>>
  BY DEF Retries, Goto
<1>2. CredTypeOK' /\ CredInv' /\ fetches' = fetches /\ m' = m
  <2>1. CASE Expire
    BY <2>1 DEF Expire, CredTypeOK, CredInv, ExpireKept
  <2>2. CASE UNCHANGED credVars
    BY <2>2 DEF CredTypeOK, CredInv, ExpireKept, credVars
  <2> QED
    BY <1>1, <2>1, <2>2
<1>3. retryCount[c] + 1 \in 0..MaxRetries(c)
  BY <1>1, MaxRetriesType DEF WillRetry, RetriesLeft, ReqTypeOK
<1>4. ReqTypeOK'
  <2>1. /\ retryCount' \in [Caller -> Nat]
        /\ \A d \in Caller : retryCount'[d] <= MaxRetries(d)
    BY <1>1, <1>3 DEF ReqTypeOK
  <2> QED
    BY <1>1, <1>2, <2>1 DEF ReqTypeOK, MaxRetries
<1>5. WholeBody'
  BY <1>1 DEF WholeBody
<1>6. CallerInv(c)'
  <2>1. /\ CallerInv(c) /\ pc'[c] = "build" /\ error'[c] = Nil
        /\ retryable'[c] = "true" /\ retryCount'[c] = retryCount[c] + 1
    BY <1>1 DEF ReqTypeOK
  <2>2. /\ Len(attempts[c]) = retryCount[c] + 1
        /\ error[c] = LastReply(c).code
        /\ retryable[c] = IF LastReply(c).status = "none" THEN "true" ELSE "unset"
        /\ \A i \in 1..Len(attempts[c]) - 1 : Justified(attempts[c][i].reply)
    BY <1>1, <2>1 DEF CallerInv, AfterInv
  <2>3. Justified(LastReply(c))
    <3>1. attempts[c][Len(attempts[c])] \in Attempt
      BY <2>2 DEF ReqTypeOK
    <3>2. LastReply(c) \in Reply
      BY <3>1 DEF LastReply, Attempt
    <3>3. LastReply(c).code = "RequestError" => LastReply(c).status = "none"
      BY <3>2, NilAssumption DEF Reply, ErrorCode, SendError
    <3>4. LastReply(c).status = "none" \/ ShouldRetry(c)
      BY <1>1, <2>2 DEF WillRetry, MayRetry
    <3> QED
      BY <2>2, <3>3, <3>4 DEF ShouldRetry, Justified
  <2>4. \A i \in 1..Len(attempts[c]) : Justified(attempts[c][i].reply)
    <3> SUFFICES ASSUME NEW i \in 1..Len(attempts[c])
                 PROVE  Justified(attempts[c][i].reply)
      OBVIOUS
    <3>1. Len(attempts[c]) \in Nat
      BY DEF ReqTypeOK
    <3>2. i \in 1..Len(attempts[c]) - 1 \/ i = Len(attempts[c])
      BY <3>1
    <3> QED
      BY <2>2, <2>3, <3>2 DEF LastReply
  <2>5. GoingInv(c)'
    BY <1>1, <2>1, <2>2, <2>4 DEF GoingInv, Rewind
  <2>6. AfterInv(c)' /\ DoneInv(c)' /\ FirstRound(c)'
    BY <1>1, <2>1 DEF CallerInv, AfterInv, DoneInv, FirstRound, Signs
  <2> QED
    BY <2>5, <2>6 DEF CallerInv
<1>7. \A d \in Caller \ {c} :
        UNCHANGED <<pc[d], error[d], retryable[d], retryCount[d], built[d],
                    auth[d], body[d], attempts[d]>>
  BY <1>1 DEF ReqTypeOK
<1> QED
  BY <1>2, <1>4, <1>5, <1>6, <1>7, AllInv

-----------------------------------------------------------------------------
LEMMA StutterInv == ASSUME IInv, UNCHANGED vars PROVE IInv'
<1> USE DEF IInv, TypeOK, vars, reqVars, credVars
<1>1. CredTypeOK' /\ CredInv'
  BY DEF CredTypeOK, CredInv, ExpireKept
<1>2. ReqTypeOK'
  BY DEF ReqTypeOK, MaxRetries
<1>3. WholeBody'
  BY DEF WholeBody
<1>4. \A c \in Caller : CallerInv(c)'
  BY OthersInv
<1> QED
  BY <1>1, <1>2, <1>3, <1>4

LEMMA StepInv == IInv /\ [Next]_vars => IInv'
<1> SUFFICES ASSUME IInv, [Next]_vars PROVE IInv'
  OBVIOUS
<1>1. CASE UNCHANGED vars
  BY <1>1, StutterInv
<1>2. ASSUME NEW c \in Caller, Step(c) PROVE IInv'
  <2>1. CASE Build(c)
    BY <2>1, BuildInv
  <2>2. CASE SignSkips(c) \/ SignsCached(c) \/ SignWaits(c)
    BY <2>2, SignSkipsInv, SignsCachedInv, SignWaitsInv
  <2>3. CASE SignsFresh(c) \/ SignFails(c)
    BY <2>3, SignsFreshInv, SignFailsInv
  <2>4. CASE \E r \in Reply, to \in 0..BodyLen : Send(c, r, to)
    BY <2>4, SendInv
  <2>5. CASE GivesUp(c) \/ Retries(c)
    BY <2>5, GivesUpInv, RetriesInv
  <2> QED
    BY <1>2, <2>1, <2>2, <2>3, <2>4, <2>5 DEF Step
<1> QED
  BY <1>1, <1>2 DEF Next

LEMMA Invariance == Spec => []IInv
<1>1. Init => IInv
  BY InitInv
<1>2. IInv /\ [Next]_vars => IInv'
  BY StepInv
<1> QED
  BY <1>1, <1>2, PTL DEF Spec

(* Types, and with them the bound on the retries of a request.             *)
THEOREM TypeCorrect == Spec => []TypeOK
<1>1. IInv => TypeOK
  BY DEF IInv
<1> QED
  BY <1>1, Invariance, PTL

(* Every attempt of every request transmits its body from the beginning.   *)
THEOREM BodyIsWhole == Spec => []WholeBody
<1>1. IInv => WholeBody
  BY DEF IInv
<1> QED
  BY <1>1, Invariance, PTL

LEMMA AttemptsBounded ==
  ASSUME IInv, NEW c \in Caller
  PROVE  /\ Len(attempts[c]) <= MaxRetries(c) + 1
         /\ \A i \in 1..Len(attempts[c]) - 1 : Justified(attempts[c][i].reply)
<1>1. CallerInv(c) /\ retryCount[c] \in 0..MaxRetries(c) /\ Len(attempts[c]) \in Nat
  BY DEF IInv, TypeOK, ReqTypeOK
<1>2. Going(c) \/ pc[c] \in {"after", "done"}
  BY DEF IInv, TypeOK, ReqTypeOK, Going
<1>3. CASE Going(c)
  BY <1>1, <1>3, MaxRetriesType DEF CallerInv, GoingInv
<1>4. CASE pc[c] \in {"after", "done"}
  BY <1>1, <1>4, MaxRetriesType DEF CallerInv, AfterInv, DoneInv
<1> QED
  BY <1>2, <1>3, <1>4

(* No request is sent again without reason or more often than configured,  *)
(* whichever answers come and however the callers interleave.              *)
THEOREM RetriesAreJustified == Spec => []RetriesJustified
<1>1. IInv => RetriesJustified
  BY AttemptsBounded DEF RetriesJustified, Justified
<1> QED
  BY <1>1, Invariance, PTL

(* Send returns what its last attempt came to, and no older error.         *)
THEOREM SendReturnsLastOutcome == Spec => []LastWord
<1>1. IInv => LastWord
  BY DEF IInv, CallerInv, DoneInv, LastWord
<1> QED
  BY <1>1, Invariance, PTL

(* An Expire is kept until a Retrieve begins after it.                     *)
THEOREM ExpireIsKept == Spec => []ExpireKept
<1>1. IInv => ExpireKept
  BY DEF IInv, CredInv
<1> QED
  BY <1>1, Invariance, PTL

-----------------------------------------------------------------------------
(* An answer leaves its body open only if the request ends with it.        *)
LEMMA ErrorBodiesStep ==
  TypeOK /\ ErrorBodiesClosed /\ [Next]_vars => ErrorBodiesClosed'
<1> SUFFICES ASSUME TypeOK, ErrorBodiesClosed, [Next]_vars PROVE ErrorBodiesClosed'
  OBVIOUS
<1> DEFINE Allowed(c) == IF pc[c] = "done" /\ error[c] = Nil THEN 1 ELSE 0
<1>1. \A c \in Caller : open[c] \in Nat /\ open[c] <= Allowed(c)
  BY DEF TypeOK, ReqTypeOK, ErrorBodiesClosed
<1>2. ASSUME NEW c \in Caller, Step(c)
      PROVE  \A d \in Caller \ {c} :
               open'[d] = open[d] /\ pc'[d] = pc[d] /\ error'[d] = error[d]
  BY <1>2 DEF TypeOK, ReqTypeOK, Step, Build, SignSkips, SignsCached, SignWaits,
       SignsFresh, SignFails, SignWith, Send, GivesUp, Retries, Goto, Fail
<1>3. ASSUME NEW c \in Caller, NEW r \in Reply, NEW to \in 0..BodyLen, Send(c, r, to)
      PROVE  open'[c] <= Allowed(c)'
  <2>1. r.code = Nil <=> ~(r.status = "none" \/ Closes(r))
    BY NilAssumption DEF Reply, ErrorCode, SendError, Closes
  <2>2. /\ error'[c] = r.code
        /\ open'[c] = IF r.code = Nil THEN open[c] + 1 ELSE open[c]
        /\ pc'[c] = (IF r.code = Nil THEN "done" ELSE "after") /\ pc[c] = "send"
    BY <1>3, <2>1 DEF Send, Goto, ErrorOf, TypeOK, ReqTypeOK
  <2> QED
    BY <1>1, <2>2
<1>4. ASSUME NEW c \in Caller, Step(c) PROVE open'[c] <= Allowed(c)'
  <2>1. CASE \E r \in Reply, to \in 0..BodyLen : Send(c, r, to)
    BY <2>1, <1>3
  <2>2. CASE ~\E r \in Reply, to \in 0..BodyLen : Send(c, r, to)
    <3>1. open'[c] = open[c] /\ pc[c] # "done"
      BY <1>4, <2>2 DEF Step, Build, SignSkips, SignsCached, SignWaits,
           SignsFresh, SignFails, SignWith, GivesUp, Retries
    <3> QED
      BY <1>1, <3>1
  <2> QED
    BY <2>1, <2>2
<1>5. CASE UNCHANGED vars
  BY <1>5 DEF vars, reqVars, ErrorBodiesClosed
<1>6. CASE Next
  <2>1. PICK c \in Caller : Step(c)
    BY <1>6 DEF Next
  <2> QED
    BY <2>1, <1>1, <1>2, <1>4 DEF ErrorBodiesClosed
<1> QED
  BY <1>5, <1>6

(* At most the body of the answer a request succeeds with is left open.    *)
THEOREM ErrorBodiesAreClosed == Spec => []ErrorBodiesClosed
<1>1. Init => ErrorBodiesClosed
  BY DEF Init, ErrorBodiesClosed
<1> QED
  BY <1>1, TypeCorrect, ErrorBodiesStep, PTL DEF Spec

-----------------------------------------------------------------------------
(* The mutex passes from nobody to the caller that enters Get, and back.   *)
LEMMA MutexStep == TypeOK /\ MutexReleased /\ [Next]_vars => MutexReleased'
<1> SUFFICES ASSUME TypeOK, MutexReleased, [Next]_vars PROVE MutexReleased'
  OBVIOUS
<1>1. /\ \A c \in Caller : m = c <=> pc[c] = "get"
      /\ NoOne \notin Caller
  BY CallerAssumption DEF MutexReleased
<1>2. CASE UNCHANGED vars
  BY <1>1, <1>2 DEF vars, reqVars, credVars, MutexReleased
<1>3. ASSUME NEW c \in Caller, Step(c) PROVE MutexReleased'
  <2>1. \A label : pc' = [pc EXCEPT ![c] = label] =>
          pc'[c] = label /\ \A d \in Caller \ {c} : pc'[d] = pc[d]
    BY DEF TypeOK, ReqTypeOK
  <2>2. ASSUME NEW label, pc' = [pc EXCEPT ![c] = label], label # "get",
               pc[c] # "get", m' = m
        PROVE  MutexReleased'
    BY <1>1, <2>1, <2>2 DEF MutexReleased
  <2>3. CASE Build(c)
    BY <2>2, <2>3 DEF Build, Goto, Fail, credVars
  <2>4. CASE SignSkips(c) \/ SignsCached(c)
    BY <2>2, <2>4 DEF SignSkips, SignsCached, SignWith, GetCached, Goto, credVars
  <2>5. CASE SignWaits(c)
    <3>1. m = NoOne /\ m' = c /\ pc' = [pc EXCEPT ![c] = "get"]
      BY <2>5 DEF SignWaits, GetBegins, Goto
    <3> QED
      BY <1>1, <2>1, <3>1 DEF MutexReleased
  <2>6. CASE SignsFresh(c) \/ SignFails(c)
    <3>1. /\ m = c /\ m' = NoOne
          /\ pc' = [pc EXCEPT ![c] = "send"] \/ pc' = [pc EXCEPT ![c] = "done"]
      BY <2>6 DEF SignsFresh, SignFails, SignWith, GetFetches, GetFails, Goto, Fail
    <3> QED
      BY <1>1, <2>1, <3>1 DEF MutexReleased
  <2>7. CASE \E r \in Reply, to \in 0..BodyLen : Send(c, r, to)
    <3>1. PICK r \in Reply, to \in 0..BodyLen : Send(c, r, to)
      BY <2>7
    <3>2. /\ pc[c] = "send" /\ m' = m
          /\ pc' = [pc EXCEPT ![c] = "done"] \/ pc' = [pc EXCEPT ![c] = "after"]
      BY <3>1 DEF Send, Goto, credVars
    <3> QED
      BY <2>2, <3>2
  <2>8. CASE GivesUp(c) \/ Retries(c)
    BY <2>2, <2>8 DEF GivesUp, Retries, Expire, Goto, credVars
  <2> QED
    BY <1>3, <2>3, <2>4, <2>5, <2>6, <2>7, <2>8 DEF Step
<1> QED
  BY <1>2, <1>3 DEF Next

(* credentials.go:136-152: whatever the providers do, Get gives the mutex  *)
(* back, and the callers ask the providers one at a time.                  *)
THEOREM MutexIsReleased == Spec => []MutexReleased
<1>1. Init => MutexReleased
  BY CallerAssumption DEF Init, CredInit, MutexReleased
<1> QED
  BY <1>1, TypeCorrect, MutexStep, PTL DEF Spec

-----------------------------------------------------------------------------
LEMMA StepsLeftType == TypeOK => \A c \in Caller : StepsLeft(c) \in Nat
<1> SUFFICES ASSUME TypeOK, NEW c \in Caller PROVE StepsLeft(c) \in Nat
  OBVIOUS
<1>1. retryCount[c] \in Nat /\ retryCount[c] <= MaxRetries(c) /\ MaxRetries(c) \in Nat
  BY MaxRetriesType DEF TypeOK, ReqTypeOK
<1>2. Phase(c) \in 0..5
  BY DEF Phase
<1> QED
  BY <1>1, <1>2 DEF StepsLeft

LEMMA ProgressStep ==
  ASSUME TypeOK, TypeOK', NEW c \in Caller, Step(c)
  PROVE  /\ StepsLeft(c)' \in 0..StepsLeft(c) - 1
         /\ \A d \in Caller \ {c} : StepsLeft(d)' = StepsLeft(d)
<1>1. /\ retryCount[c] \in Nat /\ MaxRetries(c) \in Nat
      /\ StepsLeft(c) \in Nat /\ StepsLeft(c)' \in Nat
  <2>1. retryCount[c] \in Nat /\ MaxRetries(c) \in Nat /\ StepsLeft(c) \in Nat
    BY MaxRetriesType, StepsLeftType DEF TypeOK, ReqTypeOK
  <2>2. retryCount'[c] \in Nat /\ retryCount'[c] <= MaxRetries(c)
    BY DEF TypeOK, ReqTypeOK, MaxRetries
  <2>3. Phase(c)' \in 0..5
    BY DEF Phase
  <2>4. StepsLeft(c)' = 6 * (MaxRetries(c) - retryCount'[c]) + Phase(c)'
    BY DEF StepsLeft, MaxRetries
  <2> QED
    BY <2>1, <2>2, <2>3, <2>4
<1>2. /\ \A d \in Caller \ {c} : pc'[d] = pc[d] /\ retryCount'[d] = retryCount[d]
      /\ \A label : pc' = [pc EXCEPT ![c] = label] => pc'[c] = label
  BY DEF TypeOK, ReqTypeOK, Step, Build, SignSkips, SignsCached, SignWaits,
     SignsFresh, SignFails, SignWith, Send, GivesUp, Retries, Goto, Fail
<1>3. \A d \in Caller \ {c} : StepsLeft(d)' = StepsLeft(d)
  BY <1>2 DEF StepsLeft, Phase, MaxRetries
<1>4. ASSUME Phase(c)' < Phase(c), retryCount'[c] = retryCount[c]
      PROVE  StepsLeft(c)' < StepsLeft(c)
  <2>1. Phase(c) \in 0..5 /\ Phase(c)' \in 0..5
    BY DEF Phase
  <2> QED
    BY <1>1, <1>4, <2>1 DEF StepsLeft, MaxRetries
<1>5. CASE Build(c)
  <2>1. /\ pc[c] = "build" /\ retryCount' = retryCount /\ pc'[c] \in {"sign", "done"}
    BY <1>2, <1>5 DEF Build, Goto, Fail
  <2> QED
    BY <1>1, <1>3, <1>4, <2>1 DEF Phase
<1>6. CASE SignSkips(c) \/ SignsCached(c) \/ SignWaits(c)
  <2>1. /\ pc[c] = "sign" /\ retryCount' = retryCount /\ pc'[c] \in {"get", "send"}
    BY <1>2, <1>6 DEF SignSkips, SignsCached, SignWaits, SignWith, Goto
  <2> QED
    BY <1>1, <1>3, <1>4, <2>1 DEF Phase
<1>7. CASE SignsFresh(c) \/ SignFails(c)
  <2>1. /\ pc[c] = "get" /\ retryCount' = retryCount /\ pc'[c] \in {"send", "done"}
    BY <1>2, <1>7 DEF SignsFresh, SignFails, SignWith, Goto, Fail
  <2> QED
    BY <1>1, <1>3, <1>4, <2>1 DEF Phase
<1>8. CASE \E r \in Reply, to \in 0..BodyLen : Send(c, r, to)
  <2>1. /\ pc[c] = "send" /\ retryCount' = retryCount /\ pc'[c] \in {"after", "done"}
    BY <1>2, <1>8 DEF Send, Goto
  <2> QED
    BY <1>1, <1>3, <1>4, <2>1 DEF Phase
<1>9. CASE GivesUp(c)
  <2>1. /\ pc[c] = "after" /\ retryCount' = retryCount /\ pc'[c] = "done"
    BY <1>2, <1>9 DEF GivesUp, Goto
  <2> QED
    BY <1>1, <1>3, <1>4, <2>1 DEF Phase
<1>10. CASE Retries(c)
  <2>1. /\ pc[c] = "after" /\ pc'[c] = "build" /\ retryCount'[c] = retryCount[c] + 1
    BY <1>2, <1>10 DEF Retries, Goto, TypeOK, ReqTypeOK
  <2>2. Phase(c) = 1 /\ Phase(c)' = 5
    BY <2>1 DEF Phase
  <2>3. StepsLeft(c)' < StepsLeft(c)
    BY <1>1, <2>1, <2>2 DEF StepsLeft, MaxRetries
  <2> QED
    BY <1>1, <1>3, <2>3
<1> QED
  BY <1>5, <1>6, <1>7, <1>8, <1>9, <1>10 DEF Step

(* Send, request.go:111-158, ends: it takes at most six steps a round, and *)
(* the rounds are as many as the retries.  What is left of SendReturns is  *)
(* the fairness.                                                           *)
THEOREM SendMakesProgress == Spec => SendProgresses
<1>1. TypeOK /\ TypeOK' /\ [Next]_vars =>
        [\E c \in Caller :
           /\ StepsLeft(c)' \in 0..StepsLeft(c) - 1
           /\ \A d \in Caller \ {c} : StepsLeft(d)' = StepsLeft(d)]_vars
  BY ProgressStep DEF Next
<1> QED
  BY <1>1, TypeCorrect, PTL DEF Spec, SendProgresses

-----------------------------------------------------------------------------
(* What requests do to the credentials they share.                         *)
LEMMA CredentialStep ==
  ASSUME Next PROVE CredNext(Caller) \/ UNCHANGED credVars
<1>1. PICK c \in Caller : Step(c)
  BY DEF Next
<1>2. CASE Build(c) \/ SignSkips(c) \/ GivesUp(c)
      \/ \E r \in Reply, to \in 0..BodyLen : Send(c, r, to)
  BY <1>2 DEF Build, SignSkips, GivesUp, Send
<1>3. CASE SignsCached(c)
  BY <1>3 DEF SignsCached, GetCached
<1>4. CASE SignWaits(c) \/ SignsFresh(c) \/ SignFails(c)
  BY <1>4 DEF SignWaits, SignsFresh, SignFails, CredNext
<1>5. CASE Retries(c)
  BY <1>5 DEF Retries, CredNext
<1> QED
  BY <1>1, <1>2, <1>3, <1>4, <1>5 DEF Step

(* Requests do nothing to their credentials but begin and end a Get and    *)
(* call Expire: the interface of Credentials that Providers implements     *)
(* (ProvidersProofs), so what is proved of requests holds over the chain   *)
(* of providers.                                                           *)
THEOREM CredentialsAreUsed == Spec => CredInit /\ [][CredNext(Caller)]_credVars
<1>1. Init => CredInit
  BY DEF Init
<1>2. [Next]_vars => [CredNext(Caller)]_credVars
  BY CredentialStep DEF vars
<1> QED
  BY <1>1, <1>2, PTL DEF Spec
=============================================================================
