---------------------------- MODULE Credentials ----------------------------
(***************************************************************************)
(* The cached credentials of credentials/credentials.go over a chain of    *)
(* providers (chain_provider.go), each of which looks for keys in the      *)
(* environment or in a file (env_provider.go,                              *)
(* shared_credentials_provider.go).  A value is told apart by the call of  *)
(* Retrieve it came from.  Every method holds the mutex m; Get is split    *)
(* where it calls the provider, so that m matters.                         *)
(***************************************************************************)
EXTENDS Naturals, Sequences

CONSTANTS
  Provider,       \* ChainProvider.Providers, a sequence of distinct providers
  NoProvider,     \* ChainProvider.curr is nil
  NoOne           \* the mutex is free

VARIABLES
  creds,          \* Credentials.creds: the Retrieve it is from, 0 for none
  forceRefresh,
  curr,           \* ChainProvider.curr
  retrieved,      \* the field of each provider
  m,              \* the goroutine that holds the mutex
  fetches,        \* history: the calls of Retrieve that gave a value
  owed            \* history: no Retrieve has begun since the last Expire

credVars == <<creds, forceRefresh, curr, retrieved, m, fetches, owed>>

Providers == {Provider[i] : i \in DOMAIN Provider}

ASSUME ProviderAssumption ==
  Provider \in Seq(Providers) /\ NoProvider \notin Providers

CredInit ==
  /\ creds = 0 /\ forceRefresh = TRUE
  /\ curr = NoProvider /\ retrieved = [p \in Providers |-> FALSE]
  /\ m = NoOne
  /\ fetches = 0 /\ owed = FALSE

ChainIsExpired == IF curr = NoProvider THEN TRUE ELSE ~retrieved[curr]
IsExpired == forceRefresh \/ ChainIsExpired

(* Get, when the cached value will do.                                     *)
GetCached ==
  /\ m = NoOne
  /\ ~IsExpired
  /\ UNCHANGED credVars

(* Get by u, when it must ask the provider: it locks m,                    *)
GetBegins(u) ==
  /\ m = NoOne
  /\ IsExpired
  /\ m' = u
  /\ owed' = FALSE
  /\ UNCHANGED <<creds, forceRefresh, curr, retrieved, fetches>>

(* and the chain takes the first provider that finds keys where it looks,  *)
GetFetches(u) ==
  /\ m = u
  /\ \E first \in DOMAIN Provider :
       /\ curr' = Provider[first]
       /\ retrieved' = [p \in Providers |->
            p = Provider[first] \/ (retrieved[p] /\ \A i \in 1..first : p # Provider[i])]
  /\ fetches' = fetches + 1
  /\ creds' = fetches + 1
  /\ forceRefresh' = FALSE
  /\ m' = NoOne
  /\ UNCHANGED owed

(* or none does, and Get fails; the old value stays but is expired.        *)
GetFailsLocked(u) ==                        \* mutant: no defer Unlock
  /\ m = u
  /\ curr' = NoProvider
  /\ retrieved' = [p \in Providers |-> FALSE]
  /\ UNCHANGED <<creds, forceRefresh, m, fetches, owed>>
GetFails(u) ==
  /\ m = u
  /\ curr' = NoProvider
  /\ retrieved' = [p \in Providers |-> FALSE]
  /\ m' = NoOne
  /\ UNCHANGED <<creds, forceRefresh, fetches, owed>>

ExpireUnlocked ==                           \* mutant: no Lock
  /\ forceRefresh' = TRUE
  /\ owed' = TRUE
  /\ UNCHANGED <<creds, curr, retrieved, m, fetches>>
Expire ==
  /\ m = NoOne
  /\ forceRefresh' = TRUE
  /\ owed' = TRUE
  /\ UNCHANGED <<creds, curr, retrieved, m, fetches>>

CredNext(User) ==
  \/ Expire
  \/ \E u \in User : GetBegins(u) \/ GetFetches(u) \/ GetFails(u)

CredTypeOK ==
  /\ fetches \in Nat /\ creds \in 0..fetches
  /\ forceRefresh \in BOOLEAN /\ owed \in BOOLEAN
  /\ curr \in Providers \cup {NoProvider}
  /\ retrieved \in [Providers -> BOOLEAN]

(* Once a request has expired the credentials, no Get hands out a value    *)
(* that a Retrieve before that gave: the flag cannot be lost to a refresh  *)
(* that is under way.                                                      *)
ExpireKept == m = NoOne /\ owed => forceRefresh
=============================================================================
