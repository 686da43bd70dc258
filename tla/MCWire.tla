------------------------------- MODULE MCWire -------------------------------
(* Constants of the run of Wire: three services with different settings.    *)
EXTENDS Wire

MCProvider == <<"env", "shared">>

(* A Config literal as the README has it: only these two fields are set.   *)
Literal == [DefaultConfig EXCEPT !.Credentials = "keys", !.DisableSSL = FALSE,
              !.Endpoint = [host |-> "klog", scheme |-> Nil], !.HTTPClient = Nil,
              !.Logger = Nil, !.MaxRetries = 0, !.CompressMethod = Nil]

MCGiven == [c \in Caller |->
  CASE c = "c1" -> [Literal EXCEPT !.MaxRetries = 2]
    [] c = "c2" -> [Literal EXCEPT !.CompressMethod = "other", !.Debug = TRUE,
                      !.DisableComputeChecksums = TRUE,
                      !.Endpoint = [host |-> "klog", scheme |-> "https"]]
    [] c = "c3" -> Nil]

MCNoEndpoint == {c \in Caller : Settings[c].Endpoint = NoHost}
MCAnonymous == {c \in Caller : Settings[c].Credentials = "Anonymous"}
MCMaxRetries == [c \in Caller |-> Settings[c].MaxRetries]
=============================================================================
