------------------------------ MODULE Request ------------------------------
(***************************************************************************)
(* service/request.go: goroutines that each Send one request, with the     *)
(* handlers service.Initialize and klog.New install (handler_functions.go, *)
(* internal/signer/v2.go), over credentials they share.                    *)
(***************************************************************************)
EXTENDS Credentials, Integers

CONSTANTS
  Caller,             \* the goroutines, one request each
  NoEndpoint,         \* those of a service without an endpoint
  Anonymous,          \* those with AnonymousCredentials
  ConfigMaxRetries,   \* Config.MaxRetries of the service of each
  DefaultMaxRetries,  \* what Initialize sets
  BodyLen,            \* bound: the length of a body, in parts
  Nil                 \* no error

ASSUME CallerAssumption ==
  NoEndpoint \subseteq Caller /\ Anonymous \subseteq Caller /\ NoOne \notin Caller
ASSUME RetryAssumption ==
  ConfigMaxRetries \in [Caller -> Int] /\ DefaultMaxRetries \in Nat
ASSUME BodyAssumption == BodyLen \in Nat \ {0}

(* What HTTPClient.Do and the service answer.  "RequestError": no answer;  *)
(* otherwise a status and the code of the error in the body.  "Throttling" *)
(* stands for the codes in retryableCodes, "ExpiredToken" for those in     *)
(* credsExpiredCodes, "Unknown" for all others and for a body without one. *)
ErrorCode == {"ExpiredToken", "Throttling", "Unknown"}
Reply == [status : {"none"}, code : {"RequestError"}]
         \cup [status : {"2xx"}, code : {Nil}]
         \cup [status : {"4xx"}, code : ErrorCode]
         \cup [status : {"5xx"}, code : {"ExpiredToken", "Unknown"}]
SendError == ErrorCode \cup {"RequestError", "MissingEndpoint", "NoCredentials"}

ASSUME NilAssumption == Nil \notin SendError

VARIABLES
  pc,           \* per caller, where its Send is
  error,        \* Request.Error
  retryable,    \* Request.Retryable: "unset", "true" or "false"
  retryCount,
  built,
  auth,         \* the credentials in the Authorization header, 0 for none
  body,         \* how far Request.Body has been read
  open,         \* responses whose body is not closed
  attempts      \* history: per request, the attempts made

reqVars == <<pc, error, retryable, retryCount, built, auth, body, open, attempts>>
vars == <<reqVars, credVars>>

Attempt == [auth : Nat, from : 0..BodyLen, reply : Reply]

Init ==
  /\ CredInit
  /\ pc = [c \in Caller |-> "build"]
  /\ error = [c \in Caller |-> Nil]
  /\ retryable = [c \in Caller |-> "unset"]
  /\ retryCount = [c \in Caller |-> 0]
  /\ built = [c \in Caller |-> FALSE]
  /\ auth = [c \in Caller |-> 0]
  /\ body = [c \in Caller |-> 0]
  /\ open = [c \in Caller |-> 0]
  /\ attempts = [c \in Caller |-> <<>>]

Goto(c, label) == pc' = [pc EXCEPT ![c] = label]
Fail(c, e) == error' = [error EXCEPT ![c] = e] /\ Goto(c, "done")

MaxRetries(c) ==
  IF ConfigMaxRetries[c] < 0 THEN DefaultMaxRetries ELSE ConfigMaxRetries[c]

(* Build, the first thing in each round of Send: Validate and the Build    *)
(* handlers run in the first round only.                                   *)
Build(c) ==
  /\ pc[c] = "build"
  /\ IF built[c] \/ c \notin NoEndpoint
     THEN /\ built' = [built EXCEPT ![c] = TRUE]
          /\ Goto(c, "sign")
          /\ UNCHANGED error
     ELSE Fail(c, "MissingEndpoint") /\ UNCHANGED built
  /\ UNCHANGED <<retryable, retryCount, auth, body, open, attempts, credVars>>

(* Sign: v2.Sign leaves a request alone that has an Authorization header.  *)
Signs(c) == c \notin Anonymous /\ auth[c] = 0

SignSkips(c) ==
  /\ pc[c] = "sign"
  /\ ~Signs(c)
  /\ Goto(c, "send")
  /\ UNCHANGED <<error, retryable, retryCount, built, auth, body, open, attempts, credVars>>

SignWith(c, value) ==
  /\ auth' = [auth EXCEPT ![c] = value]
  /\ Goto(c, "send")
  /\ UNCHANGED <<error, retryable, retryCount, built, body, open, attempts>>

SignsCached(c) ==
  /\ pc[c] = "sign" /\ Signs(c)
  /\ GetCached
  /\ SignWith(c, creds)

SignWaits(c) ==
  /\ pc[c] = "sign" /\ Signs(c)
  /\ GetBegins(c)
  /\ Goto(c, "get")
  /\ UNCHANGED <<error, retryable, retryCount, built, auth, body, open, attempts>>

SignsFresh(c) ==
  /\ pc[c] = "get"
  /\ GetFetches(c)
  /\ SignWith(c, creds')

SignFails(c) ==
  /\ pc[c] = "get"
  /\ GetFails(c)
  /\ Fail(c, "NoCredentials")
  /\ UNCHANGED <<retryable, retryCount, built, auth, body, open, attempts>>

(* The rest of a round: the body is rewound for a retry, SendHandler hands *)
(* it to the transport, which reads it to some point (to its end, if the   *)
(* service takes the request), and ValidateResponse looks at the answer.   *)
RewindTooLate(c) == body[c]                 \* mutant: Retryable.Reset() first
Rewind(c) == IF retryable[c] = "true" THEN 0 ELSE body[c]

ErrorBelow500(r) ==                         \* mutant: up to 499 only
  IF r.status = "5xx" THEN Nil ELSE r.code
ErrorOf(r) == r.code

ClosesNone(r) == FALSE                      \* mutant: no defer Body.Close()
Closes(r) == r.status \in {"4xx", "5xx"}

Send(c, r, to) ==
  /\ pc[c] = "send"
  /\ to >= Rewind(c)
  /\ r.code = Nil => to = BodyLen
  /\ attempts' = [attempts EXCEPT ![c] =
       Append(@, [auth |-> auth[c], from |-> Rewind(c), reply |-> r])]
  /\ body' = [body EXCEPT ![c] = to]
  /\ error' = [error EXCEPT ![c] = ErrorOf(r)]
  /\ retryable' = [retryable EXCEPT ![c] =
       IF r.status = "none" THEN "true" ELSE "unset"]
  /\ open' = [open EXCEPT ![c] =
       IF r.status = "none" \/ Closes(r) THEN @ ELSE @ + 1]
  /\ Goto(c, IF ErrorOf(r) = Nil THEN "done" ELSE "after")
  /\ UNCHANGED <<retryCount, built, auth, credVars>>

(* AfterRetryHandler: may the request be sent again, and must the          *)
(* credentials be expired before that?                                     *)
LastReply(c) == attempts[c][Len(attempts[c])].reply

ShouldRetryAny(c) == TRUE                   \* mutant: any error is retried
ShouldRetry(c) ==
  LastReply(c).status = "5xx" \/ error[c] \in {"RequestError", "Throttling", "ExpiredToken"}

RetriesLeftOffByOne(c) == retryCount[c] <= MaxRetries(c) \* mutant: <=
RetriesLeft(c) == retryCount[c] < MaxRetries(c)

MayRetry(c) == retryable[c] = "true" \/ (retryable[c] = "unset" /\ ShouldRetry(c))

WillRetry(c) ==
  /\ error[c] # Nil
  /\ MayRetry(c)
  /\ RetriesLeft(c)

GivesUp(c) ==
  /\ pc[c] = "after"
  /\ ~WillRetry(c)
  /\ retryable' = [retryable EXCEPT ![c] =
       IF MayRetry(c) THEN "true" ELSE "false"]
  /\ Goto(c, "done")
  /\ UNCHANGED <<error, retryCount, built, auth, body, open, attempts, credVars>>

RetriesUncounted(c) ==                      \* mutant: no r.RetryCount++
  /\ pc[c] = "after"
  /\ WillRetry(c)
  /\ error' = [error EXCEPT ![c] = Nil]
  /\ retryable' = [retryable EXCEPT ![c] = "true"]
  /\ Goto(c, "build")
  /\ UNCHANGED <<retryCount, built, auth, body, open, attempts, credVars>>
Retries(c) ==
  /\ pc[c] = "after"
  /\ WillRetry(c)
  /\ retryable' = [retryable EXCEPT ![c] = "true"]
  /\ IF error[c] = "ExpiredToken" /\ c \notin Anonymous THEN Expire ELSE UNCHANGED credVars
  /\ retryCount' = [retryCount EXCEPT ![c] = @ + 1]
  /\ error' = [error EXCEPT ![c] = Nil]
  /\ Goto(c, "build")
  /\ UNCHANGED <<built, auth, body, open, attempts>>

-----------------------------------------------------------------------------
Step(c) ==
  \/ Build(c)
  \/ SignSkips(c) \/ SignsCached(c) \/ SignWaits(c) \/ SignsFresh(c) \/ SignFails(c)
  \/ \E r \in Reply, to \in 0..BodyLen : Send(c, r, to)
  \/ GivesUp(c) \/ Retries(c)

Next == \E c \in Caller : Step(c)

(* As long as a goroutine can go on, one does: Do and Retrieve return.     *)
(* Nothing is assumed of which one the mutex goes to.                      *)
Spec == Init /\ [][Next]_vars /\ WF_vars(Next)

-----------------------------------------------------------------------------
ReqTypeOK ==
  /\ pc \in [Caller -> {"build", "sign", "get", "send", "after", "done"}]
  /\ error \in [Caller -> SendError \cup {Nil}]
  /\ retryable \in [Caller -> {"unset", "true", "false"}]
  /\ retryCount \in [Caller -> Nat]
  /\ \A c \in Caller : retryCount[c] <= MaxRetries(c)
  /\ built \in [Caller -> BOOLEAN]
  /\ auth \in [Caller -> 0..fetches]
  /\ body \in [Caller -> 0..BodyLen]
  /\ open \in [Caller -> Nat]
  /\ attempts \in [Caller -> Seq(Attempt)]
  /\ m \in Caller \cup {NoOne}

(* The type of the state; retryCount stays within the limit.               *)
TypeOK == CredTypeOK /\ ReqTypeOK

(* Each attempt transmits the body from its beginning, however much of it  *)
(* the attempt before had read.                                            *)
WholeBody == \A c \in Caller : \A i \in DOMAIN attempts[c] : attempts[c][i].from = 0

(* A request is sent again only after an answer that allows it, and at     *)
(* most MaxRetries() times.                                                *)
RetriesJustified ==
  \A c \in Caller :
    /\ Len(attempts[c]) <= MaxRetries(c) + 1
    /\ \A i \in 1..Len(attempts[c]) - 1 :
         LET r == attempts[c][i].reply IN
         r.status \in {"none", "5xx"} \/ r.code \in {"Throttling", "ExpiredToken"}

(* Send returns the outcome of its last attempt: nil for a 2xx, and no     *)
(* error of an earlier attempt or of a handler is left or lost.            *)
LastWord ==
  \A c \in Caller : pc[c] = "done" =>
    IF attempts[c] = <<>> THEN error[c] \in {"MissingEndpoint", "NoCredentials"}
    ELSE error[c] = LastReply(c).code

(* The body of every answer that is an error is closed, retried or not: at *)
(* most the one of a successful request is left open.                      *)
ErrorBodiesClosed ==
  \A c \in Caller : open[c] <= (IF pc[c] = "done" /\ error[c] = Nil THEN 1 ELSE 0)

(* The mutex of the credentials is held by the one caller that is in Get   *)
(* and by nobody else: no error path of a provider leaves it locked, and   *)
(* no two callers ask the providers at a time.                             *)
MutexReleased == \A c \in Caller : m = c <=> pc[c] = "get"

(* What ends the loop of Send: each step of a caller brings it closer to   *)
(* its return by a measure that cannot fall for ever and that the steps of *)
(* the others, who share its credentials, leave alone.                     *)
Phase(c) ==
  CASE pc[c] = "build" -> 5 [] pc[c] = "sign" -> 4 [] pc[c] = "get" -> 3
    [] pc[c] = "send" -> 2 [] pc[c] = "after" -> 1 [] OTHER -> 0
StepsLeft(c) == 6 * (MaxRetries(c) - retryCount[c]) + Phase(c)
SendProgresses ==
  [][\E c \in Caller :
       /\ StepsLeft(c)' \in 0..StepsLeft(c) - 1
       /\ \A d \in Caller \ {c} : StepsLeft(d)' = StepsLeft(d)]_vars

(* Send returns, whatever the service answers.                             *)
SendReturns == <>(\A c \in Caller : pc[c] = "done")

-----------------------------------------------------------------------------
(* What the comments say, where the code differs.                          *)

(* service.go:151-153: expired tokens require refreshing of credentials,   *)
(* and resigning before the request can be retried.  The signer finds the  *)
(* header of the first attempt and leaves it.                              *)
RetryResigned ==
  \A c \in Caller : \A i \in 1..Len(attempts[c]) - 1 :
    attempts[c][i].reply.code = "ExpiredToken" /\ c \notin Anonymous
      => attempts[c][i + 1].auth > attempts[c][i].auth

(* handler_functions.go:178-180: when the expired token exception occurs,  *)
(* the credentials are expired so that the next request refreshes them.    *)
(* This is done only for a request that will be retried.                   *)
ExpiredTokenRefreshes ==
  \A c \in Caller : pc[c] = "done" /\ error[c] = "ExpiredToken" /\ c \notin Anonymous
    => forceRefresh \/ m # NoOne \/ creds > auth[c]
=============================================================================
