---------------------------- MODULE ClientConfig ----------------------------
(***************************************************************************)
(* service/config.go and what Service.Initialize (service.go) makes of a   *)
(* Config: klog.New merges the caller's Config into DefaultConfig, settles *)
(* the endpoint and chooses the handlers.                                  *)
(***************************************************************************)
EXTENDS Integers

CONSTANT Nil      \* nil, and the empty string

DefaultRetries == -1

(* An endpoint is a host with or without a scheme.                         *)
Endpoint == [host : {Nil, "klog"}, scheme : {Nil, "http", "https"}]
NoHost == [host |-> Nil, scheme |-> Nil]

Config ==
  [Credentials : {Nil, "DefaultChain", "Anonymous", "keys"}, Endpoint : Endpoint,
   DisableSSL : BOOLEAN, HTTPClient : {Nil, "DefaultClient", "own"},
   Logger : {Nil, "EmptyLogger", "own"}, Debug : BOOLEAN,
   MaxRetries : Int, DisableComputeChecksums : BOOLEAN,
   CompressMethod : {Nil, "lz4", "other"}]

DefaultConfig ==
  [Credentials |-> "DefaultChain", Endpoint |-> NoHost, DisableSSL |-> TRUE,
   HTTPClient |-> "DefaultClient", Logger |-> "EmptyLogger", Debug |-> FALSE,
   MaxRetries |-> DefaultRetries, DisableComputeChecksums |-> FALSE,
   CompressMethod |-> "lz4"]

(* A field of the new Config, unless it has the value that stands for      *)
(* "not set".                                                              *)
Unless(new, unset, old) == IF new # unset THEN new ELSE old

MergeKeeping(c, newcfg) ==                  \* mutant: MaxRetries 0 is not set
  IF newcfg = Nil THEN c
  ELSE [f \in DOMAIN c |->
     CASE f = "Debug" -> newcfg[f]
       [] f = "MaxRetries" -> Unless(newcfg[f], 0, c[f])
       [] f \in {"DisableSSL", "DisableComputeChecksums"} -> newcfg[f] \/ c[f]
       [] f = "Endpoint" -> Unless(newcfg[f], NoHost, c[f])
       [] OTHER -> Unless(newcfg[f], Nil, c[f])]
(* A boolean can be set but not cleared, except Debug, which is the new    *)
(* one either way; MaxRetries is set unless it is -1, hence also by 0.     *)
Merge(c, newcfg) ==
  IF newcfg = Nil THEN c
  ELSE [f \in DOMAIN c |->
     CASE f = "Debug" -> newcfg[f]
       [] f = "MaxRetries" -> Unless(newcfg[f], DefaultRetries, c[f])
       [] f \in {"DisableSSL", "DisableComputeChecksums"} -> newcfg[f] \/ c[f]
       [] f = "Endpoint" -> Unless(newcfg[f], NoHost, c[f])
       [] OTHER -> Unless(newcfg[f], Nil, c[f])]

(* buildEndpoint: an endpoint without a scheme gets one from DisableSSL.   *)
ServiceEndpoint(cfg) ==
  IF cfg.Endpoint = NoHost \/ cfg.Endpoint.scheme # Nil THEN cfg.Endpoint
  ELSE [cfg.Endpoint EXCEPT !.scheme = IF cfg.DisableSSL THEN "http" ELSE "https"]

(* Which of the optional Build handlers Initialize installs.               *)
Compresses(cfg) == cfg.CompressMethod = "lz4"
Checksums(cfg) == ~cfg.DisableComputeChecksums
=============================================================================
