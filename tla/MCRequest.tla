----------------------------- MODULE MCRequest -----------------------------
(* Constants of the runs of Request: the default chain of config.go.       *)
EXTENDS Request

MCProvider == <<"env", "shared">>
MCRetries == [c \in Caller |-> IF c = "c1" THEN 2 ELSE 0]
MCNoRetries == [c \in Caller |-> 0]
MCDefaultRetries == [c \in Caller |-> -1]       \* DefaultConfig
=============================================================================
