---------------------------- MODULE LogDelivery ----------------------------
(***************************************************************************)
(* What the asynchronous client promises its caller, whatever queues,      *)
(* batches and retries are behind it: each log that is pushed is owed a    *)
(* verdict, it gets at most one, and a log is confirmed only when the      *)
(* service has it.  A log that was refused may still turn up there.        *)
(***************************************************************************)
CONSTANT Id                 \* the sequence numbers of the pushed logs

VARIABLES owed, confirmed, refused, stored

promise == <<owed, confirmed, refused, stored>>

Init == owed = {} /\ confirmed = {} /\ refused = {} /\ stored = {}

Push(n) ==
  /\ n \in Id \ (owed \cup confirmed \cup refused)
  /\ owed' = owed \cup {n}
  /\ UNCHANGED <<confirmed, refused, stored>>

Store(S) ==
  /\ S \subseteq owed \cup refused
  /\ stored' = stored \cup S
  /\ UNCHANGED <<owed, confirmed, refused>>

Confirm(n) ==
  /\ n \in owed \cap stored
  /\ owed' = owed \ {n}
  /\ confirmed' = confirmed \cup {n}
  /\ UNCHANGED <<refused, stored>>

Refuse(n) ==
  /\ n \in owed
  /\ owed' = owed \ {n}
  /\ refused' = refused \cup {n}
  /\ UNCHANGED <<confirmed, stored>>

Next ==
  \/ \E n \in Id : Push(n) \/ Confirm(n) \/ Refuse(n)
  \/ \E S \in SUBSET (owed \cup refused) : Store(S)

Spec == Init /\ [][Next]_promise
=============================================================================
