-------------------------- MODULE ProvidersProofs --------------------------
(***************************************************************************)
(* Proofs about Providers: the parser, the values that Get caches, and     *)
(* that the walk along the chain is one step of Credentials.               *)
(***************************************************************************)
EXTENDS Providers, TLAPS

(* TypeOK by the part of the state it is about.                            *)
LockOK ==
  /\ fetches \in Nat /\ creds \in 0..fetches
  /\ forceRefresh \in BOOLEAN /\ owed \in BOOLEAN
  /\ curr \in Providers \cup {NoProvider}
  /\ retrieved \in [Providers -> BOOLEAN]
  /\ m \in User \cup {NoOne}
  /\ stage \in {"idle", "ask", "parse"} \cup Providers
  /\ m = NoOne <=> stage = "idle"
  /\ asking \in 1..Len(Provider) + 1

StageOK ==
  /\ stage \in Providers => asking <= Len(Provider) /\ stage = Provider[asking]
  /\ stage = "parse" =>
       asking <= Len(Provider) /\ Provider[asking] = "shared" /\ filename # Empty /\ profile # Empty

OutsideOK ==
  /\ env \in [Var -> STRING]
  /\ env["HOME"] \in Home \cup {Empty} /\ env["USERPROFILE"] \in Home \cup {Empty}
  /\ env["AWS_PROFILE"] \in Section
  /\ disk \in [Home -> Text \cup {Missing}]
  /\ static \in Static
  /\ changes \in Nat

SharedOK == filename \in Home \cup {Empty} /\ profile \in Section

ReadingOK == id \in STRING /\ secret \in STRING /\ reads \in 1..5

ParsingOK ==
  /\ text \in Seq(Line) /\ line \in 1..Len(text) + 1
  /\ section \in Section /\ file \in [Section -> [Key -> STRING \cup {Absent}]]

HistoryOK ==
  /\ values \in Seq(Value) /\ Len(values) = fetches
  /\ start.retrieved \in [Providers -> BOOLEAN]
  /\ start.filename \in Home \cup {Empty} /\ start.profile \in Section
  /\ calm \in BOOLEAN

LEMMA TypeParts ==
  TypeOK <=> LockOK /\ StageOK /\ OutsideOK /\ SharedOK /\ ReadingOK /\ ParsingOK /\ HistoryOK
BY DEF TypeOK, CredTypeOK, LockOK, StageOK, OutsideOK, SharedOK, ReadingOK, ParsingOK, HistoryOK

-----------------------------------------------------------------------------
LEMMA Names ==
  /\ Providers \subseteq {"env", "shared", "static"}
  /\ Len(Provider) \in Nat
  /\ \A i \in 1..Len(Provider) : Provider[i] \in Providers
  /\ DOMAIN Provider = 1..Len(Provider)
BY ProvidersAssumption, ProviderAssumption DEF Providers

LEMMA EnvTypes ==
  ASSUME NEW v \in Var, NEW x \in EnvValues[v]
  PROVE  /\ x \in STRING
         /\ v \in {"HOME", "USERPROFILE"} => x \in Home \cup {Empty}
         /\ v = "AWS_PROFILE" => x \in Section
<1>1. EnvValues[v] \subseteq STRING
  BY EnvAssumption
<1>2. Empty \in Section
  BY FileAssumption
<1> QED BY <1>1, <1>2, EnvAssumption

LEMMA SeqAppend ==
  ASSUME NEW S, NEW s \in Seq(S), NEW e \in S
  PROVE  /\ Append(s, e) \in Seq(S)
         /\ Len(Append(s, e)) = Len(s) + 1
         /\ \A i \in 1..Len(s) : Append(s, e)[i] = s[i]
         /\ Append(s, e)[Len(s) + 1] = e
OBVIOUS

LEMMA LineType ==
  ASSUME ParsingOK, line <= Len(text)
  PROVE  /\ text[line].name \in Section /\ text[line].key \in Key
         /\ text[line].value \in STRING
<1>1. text[line] \in Line
  BY DEF ParsingOK
<1> QED BY <1>1 DEF Line

(* The actions that give a value, and those that end in an error.          *)
LEMMA GivesLock ==
  ASSUME LockOK, NEW value, Gives(value), asking <= Len(Provider)
  PROVE  LockOK'
<1>1. Provider[asking] \in Providers
  BY Names DEF LockOK
<1>2. fetches' \in Nat /\ creds' \in 0..fetches'
  BY DEF LockOK, Gives
<1>5. forceRefresh' \in BOOLEAN /\ owed' \in BOOLEAN
  BY Zenon DEF LockOK, Gives
<1>3. curr' \in Providers /\ retrieved' \in [Providers -> BOOLEAN]
  BY <1>1 DEF LockOK, Gives
<1>4. m' = NoOne /\ stage' = "idle" /\ asking' \in 1..Len(Provider) + 1
  BY DEF LockOK, Gives
<1> QED BY <1>2, <1>3, <1>4, <1>5 DEF LockOK

LEMMA ErrsLock ==
  ASSUME LockOK, Errs, asking <= Len(Provider), stage # "idle"
  PROVE  LockOK'
<1>1. asking' \in 1..Len(Provider) + 1 /\ stage' = "ask"
  BY Names DEF LockOK, Errs
<1> QED BY <1>1, Names DEF LockOK, Errs, cached

-----------------------------------------------------------------------------
LEMMA LockStep ==
  ASSUME LockOK, StageOK, [Next]_vars
  PROVE  LockOK'
<1> USE Names
<1>1. ASSUME NEW u \in User, GetStarts(u)
      PROVE  LockOK'
  <2>1. m' = u /\ u # NoOne /\ stage' = "ask" /\ asking' = 1 /\ owed' = FALSE
    BY <1>1, UserAssumption DEF GetStarts, GetBegins
  <2>2. UNCHANGED <<creds, forceRefresh, curr, retrieved, fetches>>
    BY <1>1 DEF GetStarts, GetBegins
  <2>3. fetches' \in Nat /\ creds' \in 0..fetches' /\ asking' \in 1..Len(Provider) + 1
    BY <2>1, <2>2 DEF LockOK
  <2>4. forceRefresh' \in BOOLEAN /\ owed' \in BOOLEAN
    BY Zenon, <2>1, <2>2 DEF LockOK
  <2> QED BY <2>1, <2>2, <2>3, <2>4 DEF LockOK
<1>2. CASE Asks
  <2>1. UNCHANGED <<creds, forceRefresh, curr, m, fetches, owed, asking>>
    BY <1>2 DEF Asks, cached
  <2>2. stage' \in Providers /\ stage' # "idle" /\ stage # "idle"
    BY <1>2 DEF Asks, LockOK
  <2>3. retrieved' \in [Providers -> BOOLEAN]
    BY <1>2 DEF Asks, LockOK
  <2> QED BY <2>1, <2>2, <2>3 DEF LockOK
<1>3. CASE EnvReads
  BY <1>3 DEF EnvReads, cached, chain, LockOK
<1>4. CASE EnvReturns
  <2>1. asking <= Len(Provider) /\ stage # "idle"
    BY <1>4 DEF EnvReturns, StageOK, LockOK
  <2>2. Errs \/ \E value : Gives(value)
    BY <1>4 DEF EnvReturns
  <2> QED BY <2>1, <2>2, ErrsLock, GivesLock
<1>5. CASE StaticReturns
  <2>1. asking <= Len(Provider) /\ stage # "idle"
    BY <1>5 DEF StaticReturns, StageOK, LockOK
  <2>2. Errs \/ \E value : Gives(value)
    BY <1>5 DEF StaticReturns
  <2> QED BY <2>1, <2>2, ErrsLock, GivesLock
<1>6. CASE SharedFinds
  BY <1>6 DEF SharedFinds, cached, chain, LockOK
<1>7. CASE SharedHasNoHome
  <2>1. asking <= Len(Provider) /\ stage # "idle" /\ Errs
    BY <1>7 DEF SharedHasNoHome, StageOK, LockOK
  <2> QED BY <2>1, ErrsLock
<1>8. CASE SharedOpens
  <2>1. asking <= Len(Provider) /\ stage # "idle"
    BY <1>8 DEF SharedOpens, StageOK, LockOK
  <2>2. Errs \/ (stage' = "parse" /\ UNCHANGED <<cached, retrieved, asking>>)
    BY <1>8 DEF SharedOpens
  <2>3. CASE Errs
    BY <2>1, <2>3, ErrsLock
  <2>4. CASE stage' = "parse" /\ UNCHANGED <<cached, retrieved, asking>>
    BY <2>1, <2>4 DEF LockOK, cached
  <2> QED BY <2>2, <2>3, <2>4
<1>9. CASE ParseLine
  BY <1>9 DEF ParseLine, cached, chain, LockOK
<1>10. CASE ParseErrs
  <2>1. asking <= Len(Provider) /\ stage # "idle" /\ Errs
    BY <1>10 DEF ParseErrs, StageOK, LockOK
  <2> QED BY <2>1, ErrsLock
<1>11. CASE SharedReturns
  <2>1. asking <= Len(Provider) /\ stage # "idle"
    BY <1>11 DEF SharedReturns, StageOK, LockOK
  <2>2. Errs \/ \E value : Gives(value)
    BY <1>11 DEF SharedReturns
  <2> QED BY <2>1, <2>2, ErrsLock, GivesLock
<1>12. CASE GetErrs
  BY <1>12 DEF GetErrs, LockOK
<1>13. CASE Expires
  BY <1>13 DEF Expires, Expire, LockOK
<1>14. ASSUME NEW v \in Var, NEW x \in EnvValues[v], Setenv(v, x)
       PROVE  LockOK'
  BY <1>14 DEF Setenv, credVars, LockOK
<1>15. ASSUME NEW h \in Home, NEW t \in Text \cup {Missing}, Replace(h, t)
       PROVE  LockOK'
  BY <1>15 DEF Replace, credVars, LockOK
<1>16. CASE UNCHANGED vars
  BY <1>16 DEF vars, credVars, LockOK
<1> QED
  BY <1>1, <1>2, <1>3, <1>4, <1>5, <1>6, <1>7, <1>8, <1>9, <1>10, <1>11, <1>12, <1>13,
     <1>14, <1>15, <1>16
     DEF Next, Retrieve, EnvRetrieve, SharedRetrieve

(* An action that ends Retrieve or a provider's part in it.                *)
LEMMA Between ==
  ASSUME stage' \in {"idle", "ask"}
  PROVE  StageOK'
BY Names DEF StageOK

LEMMA StageStep ==
  ASSUME LockOK, StageOK, SharedOK, [Next]_vars
  PROVE  StageOK'
<1> USE Names
<1>1. CASE Asks
  <2>1. stage' = Provider[asking] /\ asking' = asking /\ asking <= Len(Provider)
    BY <1>1 DEF Asks, cached
  <2>2. stage' # "parse"
    BY <2>1 DEF LockOK
  <2> QED BY <2>1, <2>2 DEF StageOK
<1>2. CASE SharedFinds
  <2>1. stage = "shared" /\ UNCHANGED <<stage, asking>>
    BY <1>2 DEF SharedFinds, chain
  <2> QED BY <2>1 DEF StageOK
<1>3. CASE SharedOpens
  <2>1. Errs \/ (stage' = "parse" /\ UNCHANGED asking)
    BY <1>3 DEF SharedOpens
  <2>2. CASE Errs
    BY <2>2, Between DEF Errs
  <2>3. CASE stage' = "parse" /\ UNCHANGED asking
    <3>1. stage = "shared" /\ filename' # Empty
      BY <1>3 DEF SharedOpens
    <3>2. stage \in Providers
      BY <3>1 DEF LockOK
    <3>3. asking <= Len(Provider) /\ Provider[asking] = "shared"
      BY <3>1, <3>2 DEF StageOK
    <3>4. profile' # Empty
      BY <1>3, EmptyAssumption DEF SharedOpens, StoresProfile, ProfileFrom
    <3> QED BY <2>3, <3>1, <3>3, <3>4 DEF StageOK
  <2> QED BY <2>1, <2>2, <2>3
<1>4. CASE UNCHANGED <<stage, asking, filename, profile>>
  BY <1>4 DEF StageOK
<1>5. CASE stage' \in {"idle", "ask"}
  BY <1>5, Between
<1>6. ASSUME NEW u \in User, GetStarts(u)
      PROVE  StageOK'
  BY <1>6, Between DEF GetStarts
<1>7. CASE EnvReturns \/ StaticReturns \/ SharedReturns
  BY <1>5, <1>7 DEF EnvReturns, StaticReturns, SharedReturns, Gives, Errs
<1>8. CASE SharedHasNoHome \/ ParseErrs \/ GetErrs
  BY <1>5, <1>8 DEF SharedHasNoHome, ParseErrs, GetErrs, Errs
<1>9. CASE EnvReads \/ ParseLine \/ Expires
  BY <1>4, <1>9 DEF EnvReads, ParseLine, Expires, chain
<1>10. ASSUME NEW v \in Var, NEW x \in EnvValues[v], Setenv(v, x)
       PROVE  StageOK'
  BY <1>4, <1>10 DEF Setenv
<1>11. ASSUME NEW h \in Home, NEW t \in Text \cup {Missing}, Replace(h, t)
       PROVE  StageOK'
  BY <1>4, <1>11 DEF Replace
<1>12. CASE UNCHANGED vars
  BY <1>4, <1>12 DEF vars
<1> QED
  BY <1>1, <1>2, <1>3, <1>6, <1>7, <1>8, <1>9, <1>10, <1>11, <1>12
     DEF Next, Retrieve, EnvRetrieve, SharedRetrieve

(* Who changes what: each lemma names the actions that touch a group.      *)
LEMMA OutsideStep ==
  ASSUME OutsideOK, [Next]_vars
  PROVE  OutsideOK'
<1>1. CASE UNCHANGED outside
  BY <1>1 DEF outside, OutsideOK
<1>2. ASSUME NEW v \in Var, NEW x \in EnvValues[v], Setenv(v, x)
      PROVE  OutsideOK'
  <2>1. env' = [env EXCEPT ![v] = x] /\ UNCHANGED <<disk, static>>
    BY <1>2 DEF Setenv
  <2>2. changes' \in Nat
    <3>1. changes' = changes + 1
      BY <1>2 DEF Setenv, Changes
    <3>2. changes \in Nat
      BY DEF OutsideOK
    <3> QED BY <3>1, <3>2
  <2>3. env' \in [Var -> STRING]
    BY <2>1, EnvTypes DEF OutsideOK
  <2>4. \A w \in Var : env'[w] = IF w = v THEN x ELSE env[w]
    BY <2>1 DEF OutsideOK
  <2>5. {"HOME", "USERPROFILE", "AWS_PROFILE"} \subseteq Var
    BY DEF Var
  <2> QED BY <2>1, <2>2, <2>3, <2>4, <2>5, EnvTypes DEF OutsideOK
<1>3. ASSUME NEW h \in Home, NEW t \in Text \cup {Missing}, Replace(h, t)
      PROVE  OutsideOK'
  <2>1. changes' \in Nat /\ UNCHANGED <<env, static>>
    <3>1. changes' = changes + 1 /\ UNCHANGED <<env, static>>
      BY <1>3 DEF Replace, Changes
    <3>2. changes \in Nat
      BY DEF OutsideOK
    <3> QED BY <3>1, <3>2
  <2>2. disk' \in [Home -> Text \cup {Missing}]
    BY <1>3 DEF Replace, OutsideOK
  <2> QED BY <2>1, <2>2 DEF OutsideOK
<1>4. ASSUME NEW u \in User, GetStarts(u)
      PROVE  UNCHANGED outside
  BY <1>4 DEF GetStarts
<1>5. CASE Asks \/ EnvReads \/ EnvReturns \/ StaticReturns \/ SharedFinds \/ SharedHasNoHome
  BY <1>1, <1>5 DEF Asks, EnvReads, EnvReturns, StaticReturns, SharedFinds, SharedHasNoHome
<1>6. CASE SharedOpens \/ ParseLine \/ ParseErrs \/ SharedReturns \/ GetErrs \/ Expires
  BY <1>1, <1>6 DEF SharedOpens, ParseLine, ParseErrs, SharedReturns, GetErrs, Expires
<1>7. CASE UNCHANGED vars
  BY <1>1, <1>7 DEF vars
<1> QED
  BY <1>1, <1>2, <1>3, <1>4, <1>5, <1>6, <1>7
     DEF Next, Retrieve, EnvRetrieve, SharedRetrieve

LEMMA SharedStep ==
  ASSUME OutsideOK, SharedOK, [Next]_vars
  PROVE  SharedOK'
<1>1. CASE UNCHANGED <<filename, profile>>
  BY <1>1 DEF SharedOK
<1>2. CASE SharedFinds
  <2>1. filename' = HomeDir(env) /\ UNCHANGED profile
    BY <1>2 DEF SharedFinds
  <2> QED BY <2>1 DEF HomeDir, OutsideOK, SharedOK
<1>3. CASE SharedOpens
  <2>1. profile' = ProfileFrom(profile, env) /\ UNCHANGED filename
    BY <1>3 DEF SharedOpens, StoresProfile
  <2> QED BY <2>1, FileAssumption DEF ProfileFrom, OutsideOK, SharedOK
<1>4. ASSUME NEW u \in User, GetStarts(u)
      PROVE  UNCHANGED <<filename, profile>>
  BY <1>4 DEF GetStarts
<1>5. CASE Asks \/ EnvReads \/ EnvReturns \/ StaticReturns \/ SharedHasNoHome
  BY <1>1, <1>5 DEF Asks, EnvReads, EnvReturns, StaticReturns, SharedHasNoHome
<1>6. CASE ParseLine \/ ParseErrs \/ SharedReturns \/ GetErrs \/ Expires
  BY <1>1, <1>6 DEF ParseLine, ParseErrs, SharedReturns, GetErrs, Expires
<1>7. ASSUME NEW v \in Var, NEW x \in EnvValues[v], Setenv(v, x)
      PROVE  UNCHANGED <<filename, profile>>
  BY <1>7 DEF Setenv
<1>8. ASSUME NEW h \in Home, NEW t \in Text \cup {Missing}, Replace(h, t)
      PROVE  UNCHANGED <<filename, profile>>
  BY <1>8 DEF Replace
<1>9. CASE UNCHANGED vars
  BY <1>1, <1>9 DEF vars
<1> QED
  BY <1>1, <1>2, <1>3, <1>4, <1>5, <1>6, <1>7, <1>8, <1>9
     DEF Next, Retrieve, EnvRetrieve, SharedRetrieve

LEMMA ReadingStep ==
  ASSUME OutsideOK, ReadingOK, [Next]_vars
  PROVE  ReadingOK'
<1>1. CASE UNCHANGED reading
  BY <1>1 DEF reading, ReadingOK
<1>2. CASE EnvReads
  <2>1. reads' \in 1..5
    <3>1. reads' = reads + 1 /\ reads <= 4
      BY <1>2 DEF EnvReads
    <3> QED BY <3>1 DEF ReadingOK
  <2>2. reads <= 2 => IdVars[reads] \in Var
    BY DEF ReadingOK, IdVars, Var
  <2>3. ~(reads <= 2) /\ reads <= 4 => SecretVars[reads - 2] \in Var
    <3>1. ~(reads <= 2) /\ reads <= 4 => reads - 2 \in {1, 2}
      BY DEF ReadingOK
    <3>2. \A i \in {1, 2} : SecretVars[i] \in Var
      BY DEF SecretVars, Var
    <3> QED BY <3>1, <3>2
  <2>4. id' \in STRING
    BY <1>2, <2>2 DEF EnvReads, ReadingOK, OutsideOK
  <2>5. secret' \in STRING
    BY <1>2, <2>3 DEF EnvReads, ReadingOK, OutsideOK
  <2> QED BY <2>1, <2>4, <2>5 DEF ReadingOK
<1>3. CASE EnvReturns
  <2>1. id' = Empty /\ secret' = Empty /\ reads' = 1
    BY <1>3 DEF EnvReturns
  <2>2. reads' \in 1..5
    BY <2>1
  <2>3. id' \in STRING /\ secret' \in STRING
    BY <2>1, EmptyAssumption
  <2> QED BY <2>2, <2>3 DEF ReadingOK
<1>4. ASSUME NEW u \in User, GetStarts(u)
      PROVE  UNCHANGED reading
  BY <1>4 DEF GetStarts
<1>5. CASE Asks \/ StaticReturns \/ SharedFinds \/ SharedHasNoHome \/ SharedOpens
  BY <1>1, <1>5 DEF Asks, StaticReturns, SharedFinds, SharedHasNoHome, SharedOpens
<1>6. CASE ParseLine \/ ParseErrs \/ SharedReturns \/ GetErrs \/ Expires
  BY <1>1, <1>6 DEF ParseLine, ParseErrs, SharedReturns, GetErrs, Expires
<1>7. ASSUME NEW v \in Var, NEW x \in EnvValues[v], Setenv(v, x)
      PROVE  UNCHANGED reading
  BY <1>7 DEF Setenv
<1>8. ASSUME NEW h \in Home, NEW t \in Text \cup {Missing}, Replace(h, t)
      PROVE  UNCHANGED reading
  BY <1>8 DEF Replace
<1>9. CASE UNCHANGED vars
  BY <1>1, <1>9 DEF vars
<1> QED
  BY <1>1, <1>2, <1>3, <1>4, <1>5, <1>6, <1>7, <1>8, <1>9
     DEF Next, Retrieve, EnvRetrieve, SharedRetrieve

LEMMA FreshParser ==
  ASSUME Done
  PROVE  ParsingOK'
<1>1. EmptyFile \in [Section -> [Key -> STRING \cup {Absent}]]
  BY DEF EmptyFile
<1>2. text' = <<>> /\ line' = 1 /\ section' = Empty /\ file' = EmptyFile
  BY DEF Done
<1>3. text' \in Seq(Line)
  BY <1>2
<1>5. line' \in 1..Len(text') + 1
  BY <1>2
<1>4. Empty \in Section
  BY FileAssumption
<1> QED BY <1>1, <1>2, <1>3, <1>4, <1>5 DEF ParsingOK

LEMMA ParsingStep ==
  ASSUME ParsingOK, OutsideOK, SharedOK, [Next]_vars
  PROVE  ParsingOK'
<1>1. CASE UNCHANGED parsing
  BY <1>1 DEF parsing, ParsingOK
<1>2. CASE SharedOpens
  <2>1. CASE disk[filename] = Missing
    BY <1>1, <1>2, <2>1 DEF SharedOpens
  <2>2. CASE disk[filename] # Missing
    <3>1. text' = disk[filename] /\ line' = 1 /\ section' = Empty /\ file' = EmptyFile /\ filename # Empty
      BY <1>2, <2>2 DEF SharedOpens
    <3>2. text' \in Seq(Line)
      BY <2>2, <3>1, FileAssumption DEF OutsideOK, SharedOK
    <3>3. EmptyFile \in [Section -> [Key -> STRING \cup {Absent}]]
      BY DEF EmptyFile
    <3>4. line' \in 1..Len(text') + 1
      BY <3>1, <3>2
    <3>5. section' \in Section
      BY <3>1, FileAssumption
    <3> QED BY <3>1, <3>2, <3>3, <3>4, <3>5 DEF ParsingOK
  <2> QED BY <2>1, <2>2
<1>3. CASE ParseLine
  <2>1. line' = line + 1 /\ line <= Len(text) /\ UNCHANGED text
    BY <1>3 DEF ParseLine
  <2>2. line' \in 1..Len(text') + 1 /\ text' \in Seq(Line)
    BY <2>1 DEF ParsingOK
  <2>3. section' \in Section
    BY <1>3, <2>1, LineType DEF ParseLine, ParsingOK
  <2>4. file' \in [Section -> [Key -> STRING \cup {Absent}]]
    <3>1. UNCHANGED file \/ file' = [file EXCEPT ![section][text[line].key] = text[line].value]
      BY <1>3 DEF ParseLine
    <3>2. CASE UNCHANGED file
      BY <3>2 DEF ParsingOK
    <3>3. CASE file' = [file EXCEPT ![section][text[line].key] = text[line].value]
      BY <2>1, <3>3, LineType DEF ParsingOK
    <3> QED BY <3>1, <3>2, <3>3
  <2> QED BY <2>2, <2>3, <2>4 DEF ParsingOK
<1>4. CASE ParseErrs \/ SharedReturns
  BY <1>4, FreshParser DEF ParseErrs, SharedReturns
<1>5. ASSUME NEW u \in User, GetStarts(u)
      PROVE  UNCHANGED parsing
  BY <1>5 DEF GetStarts
<1>6. CASE Asks \/ EnvReads \/ EnvReturns \/ StaticReturns \/ SharedFinds
  BY <1>1, <1>6 DEF Asks, EnvReads, EnvReturns, StaticReturns, SharedFinds
<1>7. CASE SharedHasNoHome \/ GetErrs \/ Expires
  BY <1>1, <1>7 DEF SharedHasNoHome, GetErrs, Expires
<1>8. ASSUME NEW v \in Var, NEW x \in EnvValues[v], Setenv(v, x)
      PROVE  UNCHANGED parsing
  BY <1>8 DEF Setenv
<1>9. ASSUME NEW h \in Home, NEW t \in Text \cup {Missing}, Replace(h, t)
      PROVE  UNCHANGED parsing
  BY <1>9 DEF Replace
<1>10. CASE UNCHANGED vars
  BY <1>1, <1>10 DEF vars
<1> QED
  BY <1>1, <1>2, <1>3, <1>4, <1>5, <1>6, <1>7, <1>8, <1>9, <1>10
     DEF Next, Retrieve, EnvRetrieve, SharedRetrieve

(* Every value that is cached comes from where it says.                    *)
LEMMA GivesHistory ==
  ASSUME LockOK, HistoryOK, NEW value \in Value, Gives(value), UNCHANGED <<start, calm>>
  PROVE  HistoryOK'
<1>1. values' = Append(values, value) /\ fetches' = fetches + 1
  BY DEF Gives
<1>2. values' \in Seq(Value) /\ Len(values') = fetches'
  BY <1>1, SeqAppend DEF HistoryOK
<1> QED BY <1>2 DEF HistoryOK

LEMMA ErrsHistory ==
  ASSUME HistoryOK, Errs, UNCHANGED <<start, calm>>
  PROVE  HistoryOK'
BY DEF Errs, cached, HistoryOK

LEMMA EnvGivesValue ==
  ASSUME LockOK, StageOK, ReadingOK, stage = "env"
  PROVE  [id |-> id, secret |-> secret, from |-> "env",
          file |-> Empty, profile |-> Empty] \in Value
<1>1. "env" \in Providers
  BY DEF LockOK
<1>2. Empty \in Section
  BY FileAssumption
<1> QED BY <1>1, <1>2 DEF Value, ReadingOK

LEMMA StaticGivesValue ==
  ASSUME LockOK, OutsideOK, stage = "static"
  PROVE  [id |-> static.id, secret |-> static.secret, from |-> "static",
          file |-> Empty, profile |-> Empty] \in Value
<1>1. "static" \in Providers
  BY DEF LockOK
<1>2. Empty \in Section
  BY FileAssumption
<1>3. static.id \in STRING /\ static.secret \in STRING
  BY StaticAssumption DEF OutsideOK
<1> QED BY <1>1, <1>2, <1>3 DEF Value

LEMMA SharedGivesValue ==
  ASSUME LockOK, StageOK, SharedOK, ParsingOK, stage = "parse",
         file[profile]["access_key"] # Absent, file[profile]["secret_key"] # Absent
  PROVE  [id |-> file[profile]["access_key"], secret |-> file[profile]["secret_key"],
          from |-> "shared", file |-> filename, profile |-> profile] \in Value
<1>1. "shared" \in Providers
  BY Names DEF LockOK, StageOK
<1>2. {"access_key", "secret_key"} \subseteq Key
  BY FileAssumption
<1>3. file[profile] \in [Key -> STRING \cup {Absent}]
  BY DEF ParsingOK, SharedOK
<1> QED BY <1>1, <1>2, <1>3 DEF Value, SharedOK

LEMMA HistoryStep ==
  ASSUME TypeOK, [Next]_vars
  PROVE  HistoryOK'
<1> USE TypeParts
<1>1. CASE UNCHANGED <<values, fetches, start, calm>>
  BY <1>1 DEF HistoryOK
<1>2. ASSUME NEW u \in User, GetStarts(u)
      PROVE  HistoryOK'
  <2>1. start' = [retrieved |-> retrieved, filename |-> filename, profile |-> profile]
        /\ calm' = TRUE /\ UNCHANGED <<values, fetches>>
    BY <1>2 DEF GetStarts, GetBegins
  <2> QED BY <2>1 DEF HistoryOK, LockOK, SharedOK
<1>3. CASE EnvReturns
  <2>1. stage = "env" /\ UNCHANGED <<start, calm>>
    BY <1>3 DEF EnvReturns
  <2>2. Errs \/ Gives([id |-> id, secret |-> secret, from |-> "env",
                       file |-> Empty, profile |-> Empty])
    BY <1>3 DEF EnvReturns
  <2> QED BY <2>1, <2>2, EnvGivesValue, GivesHistory, ErrsHistory
<1>4. CASE StaticReturns
  <2>1. stage = "static" /\ UNCHANGED <<start, calm>>
    BY <1>4 DEF StaticReturns
  <2>2. Errs \/ Gives([id |-> static.id, secret |-> static.secret, from |-> "static",
                       file |-> Empty, profile |-> Empty])
    BY <1>4 DEF StaticReturns
  <2> QED BY <2>1, <2>2, StaticGivesValue, GivesHistory, ErrsHistory
<1>5. CASE SharedReturns
  <2>1. stage = "parse" /\ UNCHANGED <<start, calm>>
    BY <1>5 DEF SharedReturns
  <2>2. \/ Errs
        \/ /\ file[profile]["access_key"] # Absent
           /\ file[profile]["secret_key"] # Absent
           /\ Gives([id |-> file[profile]["access_key"],
                     secret |-> file[profile]["secret_key"],
                     from |-> "shared", file |-> filename, profile |-> profile])
    BY <1>5 DEF SharedReturns
  <2> QED BY <2>1, <2>2, SharedGivesValue, GivesHistory, ErrsHistory
<1>6. CASE SharedHasNoHome \/ ParseErrs
  BY <1>6, ErrsHistory DEF SharedHasNoHome, ParseErrs
<1>7. CASE SharedOpens
  <2>1. Errs \/ UNCHANGED <<cached, values>>
    BY <1>7 DEF SharedOpens
  <2>2. UNCHANGED <<start, calm>>
    BY <1>7 DEF SharedOpens
  <2> QED BY <1>1, <2>1, <2>2, ErrsHistory DEF cached
<1>8. CASE Asks \/ EnvReads \/ SharedFinds \/ ParseLine
  BY <1>1, <1>8 DEF Asks, EnvReads, SharedFinds, ParseLine, history, cached
<1>9. CASE GetErrs \/ Expires
  BY <1>1, <1>9 DEF GetErrs, Expires, Expire, history
<1>10. ASSUME NEW v \in Var, NEW x \in EnvValues[v], Setenv(v, x)
       PROVE  HistoryOK'
  <2>1. calm' = FALSE /\ UNCHANGED <<values, fetches, start>>
    BY <1>10 DEF Setenv, Changes, credVars
  <2> QED BY <2>1 DEF HistoryOK
<1>11. ASSUME NEW h \in Home, NEW t \in Text \cup {Missing}, Replace(h, t)
       PROVE  HistoryOK'
  <2>1. calm' = FALSE /\ UNCHANGED <<values, fetches, start>>
    BY <1>11 DEF Replace, Changes, credVars
  <2> QED BY <2>1 DEF HistoryOK
<1>12. CASE UNCHANGED vars
  BY <1>1, <1>12 DEF vars, credVars, history
<1> QED
  BY <1>1, <1>2, <1>3, <1>4, <1>5, <1>6, <1>7, <1>8, <1>9, <1>10, <1>11, <1>12
     DEF Next, Retrieve, EnvRetrieve, SharedRetrieve

LEMMA TypeInit == Init => TypeOK
<1> SUFFICES ASSUME Init
             PROVE  TypeOK
  OBVIOUS
<1> USE EmptyAssumption, Names
<1>1. LockOK
  <2>1. fetches \in Nat /\ creds \in 0..fetches /\ asking \in 1..Len(Provider) + 1
    BY DEF Init, CredInit
  <2>2. /\ forceRefresh \in BOOLEAN /\ owed \in BOOLEAN /\ curr = NoProvider
        /\ retrieved \in [Providers -> BOOLEAN] /\ m = NoOne /\ stage = "idle"
    BY DEF Init, CredInit
  <2> QED BY <2>1, <2>2 DEF LockOK
<1>2. StageOK
  BY DEF Init, StageOK
<1>3. OutsideOK
  <2>1. \A v \in Var : env[v] \in EnvValues[v]
    BY DEF Init
  <2>2. env \in [Var -> STRING]
    <3>1. env \in [Var -> UNION {EnvValues[v] : v \in Var}]
      BY DEF Init
    <3> QED BY <2>1, <3>1, EnvTypes
  <2>3. {"HOME", "USERPROFILE", "AWS_PROFILE"} \subseteq Var
    BY DEF Var
  <2>4. /\ env["HOME"] \in Home \cup {Empty} /\ env["USERPROFILE"] \in Home \cup {Empty}
        /\ env["AWS_PROFILE"] \in Section
    BY <2>1, <2>3, EnvTypes
  <2>5. changes \in Nat
    BY DEF Init
  <2>6. disk \in [Home -> Text \cup {Missing}] /\ static \in Static
    BY DEF Init
  <2> QED BY <2>2, <2>4, <2>5, <2>6 DEF OutsideOK
<1>4. SharedOK
  BY FileAssumption DEF Init, SharedOK
<1>5. ReadingOK
  <2>1. reads \in 1..5
    BY DEF Init
  <2>2. id \in STRING /\ secret \in STRING
    BY DEF Init
  <2> QED BY <2>1, <2>2 DEF ReadingOK
<1>6. ParsingOK
  <2>1. text = <<>> /\ line = 1 /\ section = Empty /\ file = EmptyFile
    BY DEF Init
  <2>2. text \in Seq(Line) /\ line \in 1..Len(text) + 1
    BY <2>1
  <2>3. section \in Section
    BY <2>1, FileAssumption
  <2>4. file \in [Section -> [Key -> STRING \cup {Absent}]]
    BY <2>1 DEF EmptyFile
  <2> QED BY <2>2, <2>3, <2>4 DEF ParsingOK
<1>7. HistoryOK
  <2>1. values = <<>> /\ fetches = 0 /\ calm = TRUE
        /\ start = [retrieved |-> retrieved, filename |-> Empty, profile |-> Empty]
    BY DEF Init, CredInit
  <2>2. Empty \in Section
    BY FileAssumption
  <2> QED BY <1>1, <2>1, <2>2 DEF HistoryOK, LockOK
<1> QED BY <1>1, <1>2, <1>3, <1>4, <1>5, <1>6, <1>7, TypeParts

LEMMA TypeStep == TypeOK /\ [Next]_vars => TypeOK'
<1> SUFFICES ASSUME TypeOK, [Next]_vars
             PROVE  TypeOK'
  OBVIOUS
<1>1. LockOK' /\ StageOK'
  BY TypeParts, LockStep, StageStep
<1>2. OutsideOK' /\ SharedOK' /\ ReadingOK' /\ ParsingOK'
  BY TypeParts, OutsideStep, SharedStep, ReadingStep, ParsingStep
<1>3. HistoryOK'
  BY HistoryStep
<1>4. TypeOK' <=> (LockOK /\ StageOK /\ OutsideOK /\ SharedOK /\ ReadingOK
                   /\ ParsingOK /\ HistoryOK)'
  BY TypeParts, PTL
<1> QED BY <1>1, <1>2, <1>3, <1>4

(* The state of Retrieve, the cache and what was ever returned have their  *)
(* types: in particular the mutex is held exactly while a Get is under     *)
(* way, a provider that answers is the one that was asked, and a file is   *)
(* never parsed without the name and the profile it is parsed for.         *)
THEOREM TypeCorrect == Spec => []TypeOK
<1>1. Init => TypeOK
  BY TypeInit
<1>2. TypeOK /\ [Next]_vars => TypeOK'
  BY TypeStep
<1> QED BY <1>1, <1>2, PTL DEF Spec

-----------------------------------------------------------------------------
(* The last line that fits is the new one, or it is the one it was.        *)
LEMMA MaxLast ==
  ASSUME NEW n \in Nat, NEW S \in SUBSET (1..n), n \in S
  PROVE  Max(S) = n
<1>1. n \in S /\ \A y \in S : n >= y
  OBVIOUS
<1>2. ASSUME NEW x \in S, \A y \in S : x >= y
      PROVE  x = n
  BY <1>2
<1> QED BY <1>1, <1>2 DEF Max

LEMMA SectionNext ==
  ASSUME NEW t \in Seq(Line), NEW n \in 1..Len(t)
  PROVE  SectionAt(t, n) =
           IF t[n].shape = "header" THEN t[n].name ELSE SectionAt(t, n - 1)
<1> DEFINE above(k) == {i \in 1..k : t[i].shape = "header"}
<1>1. CASE t[n].shape = "header"
  <2>1. n \in above(n) /\ above(n) \in SUBSET (1..n) /\ n \in Nat
    BY <1>1
  <2>2. Max(above(n)) = n /\ above(n) # {}
    BY <2>1, MaxLast
  <2> QED BY <1>1, <2>2 DEF SectionAt
<1>2. CASE t[n].shape # "header"
  <2>1. above(n) = above(n - 1)
    BY <1>2
  <2> QED BY <1>2, <2>1 DEF SectionAt
<1> QED BY <1>1, <1>2

LEMMA ValueNext ==
  ASSUME NEW t \in Seq(Line), NEW n \in 1..Len(t), NEW s, NEW k
  PROVE  ValueAt(t, n, s, k) =
           IF t[n].shape \in {"assign", "both"} /\ t[n].key = k /\ SectionAt(t, n) = s
           THEN t[n].value ELSE ValueAt(t, n - 1, s, k)
<1> DEFINE fits(i) ==
             t[i].shape \in {"assign", "both"} /\ t[i].key = k /\ SectionAt(t, i) = s
           given(j) == {i \in 1..j : fits(i)}
<1>1. \A j : ValueAt(t, j, s, k) = IF given(j) = {} THEN Absent ELSE t[Max(given(j))].value
  BY DEF ValueAt
<1> HIDE DEF fits
<1>2. CASE fits(n)
  <2>1. n \in given(n) /\ given(n) \in SUBSET (1..n) /\ n \in Nat
    BY <1>2
  <2>2. Max(given(n)) = n /\ given(n) # {}
    BY <2>1, MaxLast
  <2> QED BY <1>1, <1>2, <2>2 DEF fits
<1>3. CASE ~fits(n)
  <2>1. given(n) = given(n - 1)
    BY <1>3
  <2> QED BY <1>1, <1>3, <2>1 DEF fits
<1> QED BY <1>2, <1>3

LEMMA NothingYet ==
  ASSUME NEW t, NEW s, NEW k
  PROVE  SectionAt(t, 0) = Empty /\ ValueAt(t, 0, s, k) = Absent
BY DEF SectionAt, ValueAt

LEMMA ParserInit == Init => ParserRight
BY DEF Init, ParserRight

LEMMA ParserStep ==
  ASSUME TypeOK, ParserRight, [Next]_vars
  PROVE  ParserRight'
<1> USE TypeParts
<1>1. CASE stage' # "parse"
  BY <1>1 DEF ParserRight
<1>2. CASE UNCHANGED <<stage, parsing>>
  BY <1>2 DEF ParserRight, parsing
<1>3. CASE SharedOpens
  <2>1. CASE disk[filename] = Missing
    BY <1>1, <1>3, <2>1 DEF SharedOpens, Errs
  <2>2. CASE disk[filename] # Missing
    <3>1. line' = 1 /\ section' = Empty /\ file' = EmptyFile
      BY <1>3, <2>2 DEF SharedOpens
    <3>2. line' - 1 = 0
      BY <3>1
    <3>3. \A s \in Section, k \in Key : file'[s][k] = Absent
      BY <3>1 DEF EmptyFile
    <3> QED BY <3>1, <3>2, <3>3, NothingYet DEF ParserRight
  <2> QED BY <2>1, <2>2
<1>4. CASE ParseLine
  <2>1. /\ stage = "parse" /\ line <= Len(text) /\ line' = line + 1
        /\ UNCHANGED <<stage, text>>
    BY <1>4 DEF ParseLine, chain
  <2>2. line' - 1 = line /\ text \in Seq(Line) /\ line \in 1..Len(text)
    BY <2>1 DEF ParsingOK
  <2>3. section = SectionAt(text, line - 1)
    BY <2>1 DEF ParserRight
  <2>4. \A s \in Section, k \in Key : file[s][k] = ValueAt(text, line - 1, s, k)
    BY <2>1 DEF ParserRight
  <2>5. CASE Skips(text[line]) /\ UNCHANGED <<section, file>>
    <3>1. text[line].shape \in {"blank", "comment"}
      BY <2>5 DEF Skips
    <3>2. section' = SectionAt(text, line)
      BY <2>2, <2>3, <2>5, <3>1, SectionNext
    <3>3. \A s \in Section, k \in Key : file'[s][k] = ValueAt(text, line, s, k)
      BY <2>2, <2>4, <2>5, <3>1, ValueNext
    <3> QED BY <2>1, <2>2, <3>2, <3>3 DEF ParserRight
  <2>6. CASE Heads(text[line]) /\ section' = text[line].name /\ UNCHANGED file
    <3>1. text[line].shape = "header"
      BY <2>6 DEF Heads, Assigns
    <3>2. section' = SectionAt(text, line)
      BY <2>2, <2>6, <3>1, SectionNext
    <3>3. \A s \in Section, k \in Key : file'[s][k] = ValueAt(text, line, s, k)
      BY <2>2, <2>4, <2>6, <3>1, ValueNext
    <3> QED BY <2>1, <2>2, <3>2, <3>3 DEF ParserRight
  <2>7. CASE /\ Assigns(text[line]) /\ UNCHANGED section
             /\ file' = [file EXCEPT ![section][text[line].key] = text[line].value]
    <3>1. text[line].shape \in {"assign", "both"}
      BY <2>7 DEF Assigns
    <3>2. section' = SectionAt(text, line) /\ SectionAt(text, line) = section
      BY <2>2, <2>3, <2>7, <3>1, SectionNext
    <3>3. ASSUME NEW s \in Section, NEW k \in Key
          PROVE  file'[s][k] = ValueAt(text, line, s, k)
      <4>1. file'[s][k] = IF s = section /\ k = text[line].key
                          THEN text[line].value ELSE file[s][k]
        BY <2>1, <2>7, LineType DEF ParsingOK
      <4>2. ValueAt(text, line, s, k) =
              IF text[line].key = k /\ section = s
              THEN text[line].value ELSE ValueAt(text, line - 1, s, k)
        BY <2>2, <3>1, <3>2, ValueNext
      <4> QED BY <2>4, <4>1, <4>2
    <3> QED BY <2>1, <2>2, <3>2, <3>3 DEF ParserRight
  <2> QED BY <1>4, <2>5, <2>6, <2>7 DEF ParseLine
<1>5. ASSUME NEW u \in User, GetStarts(u)
      PROVE  ParserRight'
  BY <1>1, <1>5 DEF GetStarts
<1>6. CASE Asks
  <2>1. stage' = Provider[asking] /\ asking \in 1..Len(Provider)
    BY <1>6 DEF Asks, LockOK
  <2> QED BY <1>1, <2>1, Names
<1>7. CASE EnvReturns \/ StaticReturns \/ SharedReturns
  BY <1>1, <1>7 DEF EnvReturns, StaticReturns, SharedReturns, Gives, Errs
<1>8. CASE SharedHasNoHome \/ ParseErrs \/ GetErrs
  BY <1>1, <1>8 DEF SharedHasNoHome, ParseErrs, GetErrs, Errs
<1>9. CASE EnvReads \/ SharedFinds \/ Expires
  BY <1>2, <1>9 DEF EnvReads, SharedFinds, Expires, chain
<1>10. ASSUME NEW v \in Var, NEW x \in EnvValues[v], Setenv(v, x)
       PROVE  ParserRight'
  BY <1>2, <1>10 DEF Setenv
<1>11. ASSUME NEW h \in Home, NEW t \in Text \cup {Missing}, Replace(h, t)
       PROVE  ParserRight'
  BY <1>2, <1>11 DEF Replace
<1>12. CASE UNCHANGED vars
  BY <1>2, <1>12 DEF vars
<1> QED
  BY <1>3, <1>4, <1>5, <1>6, <1>7, <1>8, <1>9, <1>10, <1>11, <1>12
     DEF Next, Retrieve, EnvRetrieve, SharedRetrieve

(* For a file of any length, what parseFile has gathered at any line is    *)
(* what the lines before it say.                                           *)
THEOREM ParserIsRight == Spec => []ParserRight
<1>1. TypeOK /\ ParserRight /\ [Next]_vars => ParserRight'
  BY ParserStep
<1> QED BY <1>1, TypeCorrect, ParserInit, PTL DEF Spec

-----------------------------------------------------------------------------
(* Nothing but an answer of a provider adds a value.                       *)
EnvValue == [id |-> id, secret |-> secret, from |-> "env", file |-> Empty, profile |-> Empty]
StaticValue == [id |-> static.id, secret |-> static.secret, from |-> "static",
                file |-> Empty, profile |-> Empty]
SharedValue == [id |-> file[profile]["access_key"], secret |-> file[profile]["secret_key"],
                from |-> "shared", file |-> filename, profile |-> profile]

Answered ==
  \/ stage = "env" /\ EnvHasPair /\ values' = Append(values, EnvValue)
  \/ /\ stage = "static" /\ static.id # Empty /\ static.secret # Empty
     /\ values' = Append(values, StaticValue)
  \/ stage = "parse" /\ values' = Append(values, SharedValue)

LEMMA ValuesStep ==
  ASSUME [Next]_vars
  PROVE  UNCHANGED values \/ (Answered /\ UNCHANGED <<filename, profile>>)
<1>1. CASE EnvReturns
  BY <1>1 DEF EnvReturns, Gives, Errs, Answered, EnvValue
<1>2. CASE StaticReturns
  BY <1>2 DEF StaticReturns, Gives, Errs, Answered, StaticValue
<1>3. CASE SharedReturns
  BY <1>3 DEF SharedReturns, Gives, Errs, Answered, SharedValue
<1>4. ASSUME NEW u \in User, GetStarts(u)
      PROVE  UNCHANGED values
  BY <1>4 DEF GetStarts
<1>5. CASE Asks \/ EnvReads \/ SharedFinds \/ SharedHasNoHome \/ SharedOpens
  BY <1>5 DEF Asks, EnvReads, SharedFinds, SharedHasNoHome, SharedOpens, Errs, history
<1>6. CASE ParseLine \/ ParseErrs \/ GetErrs \/ Expires
  BY <1>6 DEF ParseLine, ParseErrs, GetErrs, Expires, Errs, history
<1>7. ASSUME NEW v \in Var, NEW x \in EnvValues[v], Setenv(v, x)
      PROVE  UNCHANGED values
  BY <1>7 DEF Setenv
<1>8. ASSUME NEW h \in Home, NEW t \in Text \cup {Missing}, Replace(h, t)
      PROVE  UNCHANGED values
  BY <1>8 DEF Replace
<1>9. CASE UNCHANGED vars
  BY <1>9 DEF vars, history
<1> QED
  BY <1>1, <1>2, <1>3, <1>4, <1>5, <1>6, <1>7, <1>8, <1>9
     DEF Next, Retrieve, EnvRetrieve, SharedRetrieve

(* The file and the profile, once derived, are kept.                       *)
LEMMA ProfileKept ==
  ASSUME [Next]_vars
  PROVE  /\ filename # Empty => filename' = filename
         /\ profile # Empty => profile' = profile
<1>1. CASE SharedFinds
  BY <1>1 DEF SharedFinds
<1>2. CASE SharedOpens
  BY <1>2 DEF SharedOpens, StoresProfile, ProfileFrom
<1>3. ASSUME NEW u \in User, GetStarts(u)
      PROVE  UNCHANGED <<filename, profile>>
  BY <1>3 DEF GetStarts
<1>4. CASE Asks \/ EnvReads \/ EnvReturns \/ StaticReturns \/ SharedHasNoHome
  BY <1>4 DEF Asks, EnvReads, EnvReturns, StaticReturns, SharedHasNoHome
<1>5. CASE ParseLine \/ ParseErrs \/ SharedReturns \/ GetErrs \/ Expires
  BY <1>5 DEF ParseLine, ParseErrs, SharedReturns, GetErrs, Expires
<1>6. ASSUME NEW v \in Var, NEW x \in EnvValues[v], Setenv(v, x)
      PROVE  UNCHANGED <<filename, profile>>
  BY <1>6 DEF Setenv
<1>7. ASSUME NEW h \in Home, NEW t \in Text \cup {Missing}, Replace(h, t)
      PROVE  UNCHANGED <<filename, profile>>
  BY <1>7 DEF Replace
<1>8. CASE UNCHANGED vars
  BY <1>8 DEF vars
<1> QED
  BY <1>1, <1>2, <1>3, <1>4, <1>5, <1>6, <1>7, <1>8
     DEF Next, Retrieve, EnvRetrieve, SharedRetrieve

(* A value of the shared provider is of the profile the provider has.      *)
OfProfile(v) ==
  v.from = "shared" =>
    v.file = filename /\ v.profile = profile /\ filename # Empty /\ profile # Empty
ValuesInv == \A i \in DOMAIN values : OfProfile(values[i])

LEMMA ValuesInvStep ==
  ASSUME TypeOK, ValuesInv, [Next]_vars
  PROVE  ValuesInv'
<1> USE TypeParts
<1>1. values \in Seq(Value) /\ Len(values) \in Nat /\ DOMAIN values = 1..Len(values)
  BY DEF HistoryOK
<1>2. ASSUME NEW v, OfProfile(v)
      PROVE  OfProfile(v)'
  BY <1>2, ProfileKept DEF OfProfile
<1>3. ASSUME NEW v \in Value, values' = Append(values, v), OfProfile(v)'
      PROVE  ValuesInv'
  <2>1. /\ Len(values') = Len(values) + 1 /\ values'[Len(values) + 1] = v
        /\ \A i \in 1..Len(values) : values'[i] = values[i]
        /\ DOMAIN values' = 1..Len(values')
    BY <1>1, <1>3, SeqAppend
  <2>2. ASSUME NEW i \in DOMAIN values', NEW x, x = values'[i]
        PROVE  OfProfile(x)'
    <3>1. CASE i \in 1..Len(values)
      <4>1. x = values[i] /\ i \in DOMAIN values
        BY <1>1, <2>1, <2>2, <3>1
      <4>2. OfProfile(x)
        BY <4>1 DEF ValuesInv
      <4> QED BY <1>2, <4>2
    <3>2. CASE i = Len(values) + 1
      BY <1>3, <2>1, <2>2, <3>2
    <3> QED BY <1>1, <2>1, <3>1, <3>2
  <2> QED BY <2>2 DEF ValuesInv, OfProfile
<1>4. CASE UNCHANGED values
  BY <1>2, <1>4 DEF ValuesInv, OfProfile
<1>5. CASE stage = "env" /\ EnvHasPair /\ values' = Append(values, EnvValue)
  <2>1. EnvValue \in Value
    BY <1>5, EnvGivesValue DEF EnvValue
  <2>2. PICK v \in Value : v = EnvValue
    BY <2>1
  <2>3. OfProfile(v)'
    BY <2>2 DEF OfProfile, EnvValue
  <2> QED BY <1>3, <1>5, <2>2, <2>3
<1>6. CASE /\ stage = "static" /\ static.id # Empty /\ static.secret # Empty
           /\ values' = Append(values, StaticValue)
  <2>1. StaticValue \in Value
    BY <1>6, StaticGivesValue DEF StaticValue
  <2>2. PICK v \in Value : v = StaticValue
    BY <2>1
  <2>3. OfProfile(v)'
    BY <2>2 DEF OfProfile, StaticValue
  <2> QED BY <1>3, <1>6, <2>2, <2>3
<1>7. CASE /\ stage = "parse" /\ values' = Append(values, SharedValue)
           /\ UNCHANGED <<filename, profile>>
  <2>1. values' \in Seq(Value) /\ Len(values') = Len(values) + 1
    <3>1. Len(values') = Len(values) + 1
      BY <1>1, <1>7
    <3> QED BY <3>1, HistoryStep DEF HistoryOK
  <2>2. values'[Len(values) + 1] = SharedValue
    BY <1>1, <1>7
  <2>3. SharedValue \in Value
    BY <1>1, <2>1, <2>2
  <2>4. PICK v \in Value : v = SharedValue
    BY <2>3
  <2>5. OfProfile(v)'
    BY <1>7, <2>4 DEF OfProfile, SharedValue, StageOK
  <2> QED BY <1>3, <1>7, <2>4, <2>5
<1> QED BY <1>4, <1>5, <1>6, <1>7, ValuesStep DEF Answered

LEMMA ValuesAreRight == Spec => []ValuesInv
<1>1. Init => ValuesInv
  BY DEF Init, ValuesInv
<1>2. TypeOK /\ ValuesInv /\ [Next]_vars => ValuesInv'
  BY ValuesInvStep
<1> QED BY <1>1, <1>2, TypeCorrect, PTL DEF Spec

(* However the environment changes, the shared provider does not turn to   *)
(* another file or profile: what it has derived from it is kept.           *)
THEOREM SharedNeverSwitches == Spec => []OneProfile
<1>1. ValuesInv => OneProfile
  BY DEF ValuesInv, OfProfile, OneProfile
<1> QED BY <1>1, ValuesAreRight, PTL

-----------------------------------------------------------------------------
(* While a Get walks along the chain, the providers it has asked are not   *)
(* retrieved, and the others are as they were.                             *)
Asked(p) ==
  \E i \in 1..Len(Provider) :
    Provider[i] = p /\ (i < asking \/ (i = asking /\ stage # "ask"))
WalkInv ==
  m # NoOne => \A p \in Providers : retrieved[p] <=> start.retrieved[p] /\ ~Asked(p)

(* What a step of Retrieve leaves alone unless it ends it.                 *)
LEMMA WalkOn ==
  ASSUME WalkInv, m # NoOne, UNCHANGED <<m, retrieved, start>>,
         \A p \in Providers : Asked(p)' <=> Asked(p)
  PROVE  WalkInv'
BY DEF WalkInv

LEMMA SameAsked ==
  ASSUME UNCHANGED asking, stage' = "ask" <=> stage = "ask"
  PROVE  \A p \in Providers : Asked(p)' <=> Asked(p)
BY DEF Asked

LEMMA ErrsAsked ==
  ASSUME LockOK, Errs, stage # "ask"
  PROVE  \A p \in Providers : Asked(p)' <=> Asked(p)
<1>1. stage' = "ask" /\ asking' = asking + 1 /\ asking \in Nat
  BY DEF Errs, LockOK
<1>2. \A i \in 1..Len(Provider) : i < asking' <=> (i < asking \/ i = asking)
  BY <1>1, Names
<1> QED BY <1>1, <1>2 DEF Asked

LEMMA WalkStep ==
  ASSUME TypeOK, WalkInv, [Next]_vars
  PROVE  WalkInv'
<1> USE TypeParts, Names
<1>1. CASE m' = NoOne
  BY <1>1 DEF WalkInv
<1>2. CASE UNCHANGED <<m, retrieved, start, asking, stage>>
  BY <1>2 DEF WalkInv, Asked
<1>3. ASSUME NEW u \in User, GetStarts(u)
      PROVE  WalkInv'
  <2>1. asking' = 1 /\ stage' = "ask" /\ retrieved' = retrieved /\ start'.retrieved = retrieved
    BY <1>3 DEF GetStarts, GetBegins
  <2>2. \A p \in Providers : ~Asked(p)'
    BY <2>1 DEF Asked
  <2> QED BY <2>1, <2>2 DEF WalkInv
<1>4. CASE Asks
  <2>1. /\ asking \in 1..Len(Provider) /\ UNCHANGED <<asking, start, m>> /\ m # NoOne
        /\ stage = "ask" /\ stage' = Provider[asking] /\ stage' # "ask"
    BY <1>4 DEF Asks, LockOK, cached, history
  <2>2. retrieved' = [retrieved EXCEPT ![Provider[asking]] = FALSE]
    BY <1>4 DEF Asks
  <2>3. ASSUME NEW p \in Providers
        PROVE  retrieved'[p] <=> start'.retrieved[p] /\ ~Asked(p)'
    <3>1. retrieved'[p] <=> retrieved[p] /\ p # Provider[asking]
      BY <2>1, <2>2 DEF LockOK
    <3>2. Asked(p)' <=> Asked(p) \/ p = Provider[asking]
      BY <2>1 DEF Asked
    <3>3. retrieved[p] <=> start.retrieved[p] /\ ~Asked(p)
      BY <2>1 DEF WalkInv
    <3> QED BY <2>1, <3>1, <3>2, <3>3
  <2> QED BY <2>3 DEF WalkInv
<1>5. ASSUME Errs, stage \in Providers \cup {"parse"}, UNCHANGED start
      PROVE  WalkInv'
  <2>1. stage # "ask" /\ m # NoOne /\ UNCHANGED <<m, retrieved>>
    BY <1>5 DEF LockOK, Errs, cached
  <2> QED BY <1>5, <2>1, ErrsAsked, WalkOn
<1>6. ASSUME stage' = "parse", stage = "shared", UNCHANGED <<m, retrieved, start, asking>>
      PROVE  WalkInv'
  <2>1. m # NoOne
    BY <1>6 DEF LockOK
  <2> QED BY <1>6, <2>1, SameAsked, WalkOn
<1>7. CASE EnvReturns \/ StaticReturns \/ SharedReturns
  <2>1. stage \in Providers \cup {"parse"} /\ UNCHANGED start
    BY <1>7 DEF EnvReturns, StaticReturns, SharedReturns, LockOK
  <2>2. Errs \/ m' = NoOne
    BY <1>7 DEF EnvReturns, StaticReturns, SharedReturns, Gives
  <2> QED BY <1>1, <1>5, <2>1, <2>2
<1>8. CASE SharedHasNoHome \/ ParseErrs
  <2>1. stage \in Providers \cup {"parse"} /\ UNCHANGED start /\ Errs
    BY <1>8 DEF SharedHasNoHome, ParseErrs, LockOK
  <2> QED BY <1>5, <2>1
<1>9. CASE SharedOpens
  <2>1. stage = "shared" /\ UNCHANGED start
    BY <1>9 DEF SharedOpens
  <2>2. stage \in Providers \cup {"parse"}
    BY <2>1 DEF LockOK
  <2>3. Errs \/ (stage' = "parse" /\ UNCHANGED <<cached, retrieved, asking>>)
    BY <1>9 DEF SharedOpens
  <2>4. UNCHANGED cached => UNCHANGED m
    BY DEF cached
  <2> QED BY <1>5, <1>6, <2>1, <2>2, <2>3, <2>4
<1>10. CASE GetErrs
  BY <1>1, <1>10 DEF GetErrs
<1>11. CASE EnvReads \/ SharedFinds \/ ParseLine
  BY <1>2, <1>11 DEF EnvReads, SharedFinds, ParseLine, cached, chain, history
<1>12. CASE Expires
  BY <1>2, <1>12 DEF Expires, Expire, history
<1>13. ASSUME NEW v \in Var, NEW x \in EnvValues[v], Setenv(v, x)
       PROVE  WalkInv'
  BY <1>2, <1>13 DEF Setenv, credVars
<1>14. ASSUME NEW h \in Home, NEW t \in Text \cup {Missing}, Replace(h, t)
       PROVE  WalkInv'
  BY <1>2, <1>14 DEF Replace, credVars
<1>15. CASE UNCHANGED vars
  BY <1>2, <1>15 DEF vars, credVars, history
<1> QED
  BY <1>3, <1>4, <1>7, <1>8, <1>9, <1>10, <1>11, <1>12, <1>13, <1>14, <1>15
     DEF Next, Retrieve, EnvRetrieve, SharedRetrieve

LEMMA SameProviders == Cred!Providers = Providers
BY DEF Cred!Providers, Providers

(* A Get that is given a value has refreshed as Credentials says.          *)
LEMMA GivesFetches ==
  ASSUME TypeOK, WalkInv, NEW value, Gives(value), stage \in Providers \cup {"parse"}
  PROVE  Cred!GetFetches(m)
<1> USE TypeParts, Names
<1>1. asking \in 1..Len(Provider) /\ stage # "ask" /\ m # NoOne
  BY DEF LockOK, StageOK
<1>2. PICK first \in DOMAIN Provider : first = asking
  BY <1>1
<1>3. \A p \in Providers : Asked(p) <=> \E i \in 1..first : p = Provider[i]
  BY <1>1, <1>2 DEF Asked
<1>4. retrieved' = [p \in Providers |->
        p = Provider[first] \/ (start.retrieved[p] /\ \A i \in 1..first : p # Provider[i])]
  <2>1. retrieved' = [retrieved EXCEPT ![Provider[first]] = TRUE]
    BY <1>2 DEF Gives
  <2>2. retrieved' \in [Providers -> BOOLEAN]
    BY <1>1, <2>1 DEF LockOK
  <2>3. ASSUME NEW p \in Providers
        PROVE  retrieved'[p] = (p = Provider[first]
                 \/ (start.retrieved[p] /\ \A i \in 1..first : p # Provider[i]))
    <3>1. retrieved[p] <=> start.retrieved[p] /\ ~Asked(p)
      BY <1>1 DEF WalkInv
    <3>2. retrieved'[p] <=> p = Provider[first] \/ retrieved[p]
      BY <2>1 DEF LockOK
    <3>3. retrieved'[p] \in BOOLEAN
      BY <2>2
    <3> QED BY <1>3, <3>1, <3>2, <3>3
  <2> QED BY <2>2, <2>3
<1>5. /\ curr' = Provider[first] /\ fetches' = fetches + 1 /\ creds' = fetches + 1
      /\ forceRefresh' = FALSE /\ m' = NoOne /\ UNCHANGED owed
  BY <1>2 DEF Gives
<1>6. Cred!GetFetches(m) <=>
        /\ m = m
        /\ \E i \in DOMAIN Provider :
             /\ curr' = Provider[i]
             /\ (IF m = NoOne THEN retrieved ELSE start.retrieved)' = [p \in Providers |->
                  p = Provider[i] \/ ((IF m = NoOne THEN retrieved ELSE start.retrieved)[p]
                                      /\ \A j \in 1..i : p # Provider[j])]
        /\ fetches' = fetches + 1 /\ creds' = fetches + 1 /\ forceRefresh' = FALSE
        /\ m' = NoOne /\ UNCHANGED owed
  BY SameProviders DEF Cred!GetFetches
<1> QED BY <1>1, <1>2, <1>4, <1>5, <1>6

LEMMA ErrsFails ==
  ASSUME TypeOK, WalkInv, GetErrs
  PROVE  Cred!GetFails(m)
<1> USE TypeParts, Names
<1>1. asking = Len(Provider) + 1 /\ m # NoOne
  BY DEF GetErrs, LockOK
<1>2. \A p \in Providers : Asked(p)
  <2>1. ASSUME NEW p \in Providers
        PROVE  \E i \in 1..Len(Provider) : Provider[i] = p
    BY DEF Providers
  <2> QED BY <1>1, <2>1 DEF Asked
<1>3. retrieved = [p \in Providers |-> FALSE]
  <2>1. \A p \in Providers : retrieved[p] = FALSE
    BY <1>1, <1>2 DEF WalkInv, LockOK
  <2> QED BY <2>1 DEF LockOK
<1>4. curr' = NoProvider /\ m' = NoOne /\ UNCHANGED <<creds, forceRefresh, retrieved, fetches, owed>>
  BY DEF GetErrs
<1> QED BY <1>1, <1>3, <1>4, SameProviders DEF Cred!GetFails

LEMMA CredStep ==
  ASSUME TypeOK, WalkInv, [Next]_vars
  PROVE  [Cred!CredNext(User)]_(Cred!credVars)
<1> USE TypeParts
<1>1. m # NoOne => m \in User
  BY DEF LockOK
<1>2. CASE UNCHANGED <<creds, forceRefresh, curr, m, fetches, owed>>
           /\ IF m = NoOne THEN UNCHANGED retrieved ELSE UNCHANGED start
  BY <1>2 DEF Cred!credVars
<1>3. ASSUME NEW u \in User, GetStarts(u)
      PROVE  Cred!CredNext(User)
  <2>1. /\ m = NoOne /\ IsExpired /\ m' = u /\ u # NoOne /\ owed' = FALSE
        /\ start'.retrieved = retrieved
        /\ UNCHANGED <<creds, forceRefresh, curr, retrieved, fetches>>
    BY <1>3, UserAssumption DEF GetStarts, GetBegins
  <2>2. Cred!GetBegins(u)
    BY <2>1 DEF Cred!GetBegins, Cred!IsExpired, Cred!ChainIsExpired, IsExpired, ChainIsExpired
  <2> QED BY <2>2 DEF Cred!CredNext
<1>4. ASSUME NEW value, Gives(value), stage \in Providers \cup {"parse"}
      PROVE  Cred!CredNext(User)
  <2>1. m \in User
    BY <1>1, <1>4, Names DEF LockOK
  <2> QED BY <1>4, <2>1, GivesFetches DEF Cred!CredNext
<1>5. CASE GetErrs
  <2>1. m \in User
    BY <1>1, <1>5 DEF LockOK, GetErrs
  <2> QED BY <1>5, <2>1, ErrsFails DEF Cred!CredNext
<1>6. ASSUME Errs, stage \in Providers \cup {"parse"}, UNCHANGED start
      PROVE  UNCHANGED Cred!credVars
  <2>1. m # NoOne
    BY <1>6, Names DEF LockOK
  <2> QED BY <1>2, <1>6, <2>1 DEF Errs, cached, Cred!credVars
<1>7. CASE EnvReturns \/ StaticReturns \/ SharedReturns
  <2>1. stage \in Providers \cup {"parse"} /\ UNCHANGED start
    BY <1>7 DEF EnvReturns, StaticReturns, SharedReturns, LockOK
  <2>2. Errs \/ \E value : Gives(value)
    BY <1>7 DEF EnvReturns, StaticReturns, SharedReturns
  <2> QED BY <1>4, <1>6, <2>1, <2>2
<1>8. CASE SharedHasNoHome \/ ParseErrs
  <2>1. stage \in Providers \cup {"parse"} /\ UNCHANGED start /\ Errs
    BY <1>8 DEF SharedHasNoHome, ParseErrs, LockOK
  <2> QED BY <1>6, <2>1
<1>9. CASE SharedOpens
  <2>1. stage = "shared" /\ UNCHANGED start
    BY <1>9 DEF SharedOpens
  <2>2. stage \in Providers \cup {"parse"} /\ m # NoOne
    BY <2>1 DEF LockOK
  <2>3. Errs \/ UNCHANGED cached
    BY <1>9 DEF SharedOpens
  <2> QED BY <1>2, <1>6, <2>1, <2>2, <2>3 DEF cached
<1>10. CASE Asks \/ EnvReads \/ SharedFinds \/ ParseLine
  <2>1. stage # "idle" /\ UNCHANGED <<cached, start>>
    BY <1>10 DEF Asks, EnvReads, SharedFinds, ParseLine, history
  <2>2. m # NoOne
    BY <2>1 DEF LockOK
  <2> QED BY <1>2, <2>1, <2>2 DEF cached
<1>11. CASE Expires
  <2>1. m = NoOne /\ m' = NoOne /\ Expire
    BY <1>11 DEF Expires, Expire
  <2>2. Cred!Expire
    BY <2>1 DEF Expire, Cred!Expire
  <2> QED BY <2>2 DEF Cred!CredNext
<1>12. ASSUME NEW v \in Var, NEW x \in EnvValues[v], Setenv(v, x)
       PROVE  UNCHANGED Cred!credVars
  BY <1>12 DEF Setenv, credVars, Cred!credVars
<1>13. ASSUME NEW h \in Home, NEW t \in Text \cup {Missing}, Replace(h, t)
       PROVE  UNCHANGED Cred!credVars
  BY <1>13 DEF Replace, credVars, Cred!credVars
<1>14. CASE UNCHANGED vars
  BY <1>14 DEF vars, credVars, history, Cred!credVars
<1> QED
  BY <1>3, <1>5, <1>7, <1>8, <1>9, <1>10, <1>11, <1>12, <1>13, <1>14
     DEF Next, Retrieve, EnvRetrieve, SharedRetrieve

LEMMA WalkIsRight == Spec => []WalkInv
<1>1. Init => WalkInv
  BY DEF Init, CredInit, WalkInv
<1>2. TypeOK /\ WalkInv /\ [Next]_vars => WalkInv'
  BY WalkStep
<1> QED BY <1>1, <1>2, TypeCorrect, PTL DEF Spec

(* Retrieve, with its reads of the environment and of a file, is one step  *)
(* of the cache that Credentials models: a refresh, or a Get that fails.   *)
THEOREM CredentialsImplemented == Spec => CredSafety
<1>1. Init => Cred!CredInit
  BY SameProviders DEF Init, CredInit, Cred!CredInit
<1>2. TypeOK /\ WalkInv /\ [Next]_vars => [Cred!CredNext(User)]_(Cred!credVars)
  BY CredStep
<1> QED BY <1>1, <1>2, TypeCorrect, WalkIsRight, PTL DEF Spec, CredSafety

-----------------------------------------------------------------------------
(* Undisturbed, a Get has passed only providers with nothing to offer, and *)
(* what it has read so far is what there is.                               *)
ReadSoFar ==
  /\ id = IF reads = 1 THEN Empty ELSE IF reads = 2 THEN env[IdVars[1]] ELSE FirstSet(IdVars)
  /\ secret = IF reads <= 3 THEN Empty
              ELSE IF reads = 4 THEN env[SecretVars[1]] ELSE FirstSet(SecretVars)

SameAccount ==
  /\ FileFrom(filename, env) = FileFrom(start.filename, env)
  /\ ProfileFrom(profile, env) = ProfileFrom(start.profile, env)

Parsed ==
  text = disk[filename] /\ text # Missing /\ \A i \in 1..line - 1 : text[i].shape # "bad"

Passed == \A i \in 1..asking - 1 : Offer(Provider[i]) = Absent

FetchInv ==
  /\ stage # "env" => id = Empty /\ secret = Empty /\ reads = 1
  /\ calm /\ m # NoOne =>
       /\ Passed /\ SameAccount
       /\ stage = "env" => ReadSoFar
       /\ stage = "parse" => Parsed

LEMMA FirstOfTwo ==
  ASSUME NEW a, NEW b
  PROVE  FirstSet(<<a, b>>) = IF env[a] # Empty THEN env[a] ELSE env[b]
<1> DEFINE given == {i \in {1, 2} : env[<<a, b>>[i]] # Empty}
<1>1. FirstSet(<<a, b>>) = IF given = {} THEN Empty ELSE env[<<a, b>>[Min(given)]]
  <2>1. DOMAIN <<a, b>> = {1, 2}
    OBVIOUS
  <2> QED BY <2>1 DEF FirstSet
<1>2. CASE env[a] # Empty
  <2>1. 1 \in given /\ \A y \in given : 1 <= y
    BY <1>2
  <2>2. \A x \in given : (\A y \in given : x <= y) => x = 1
    BY <2>1
  <2>3. Min(given) = 1 /\ given # {}
    BY <2>1, <2>2 DEF Min
  <2> QED BY <1>1, <1>2, <2>3
<1>3. CASE env[a] = Empty /\ env[b] # Empty
  <2>1. given = {2}
    BY <1>3
  <2>2. Min(given) = 2 /\ given # {}
    BY <2>1 DEF Min
  <2> QED BY <1>1, <1>3, <2>2
<1>4. CASE env[a] = Empty /\ env[b] = Empty
  <2>1. given = {}
    BY <1>4
  <2> QED BY <1>1, <1>4, <2>1
<1> QED BY <1>2, <1>3, <1>4

LEMMA OfferKept ==
  ASSUME UNCHANGED <<env, disk, static, start>>, NEW p
  PROVE  Offer(p)' = Offer(p)
<1>1. \A names : FirstSet(names)' = FirstSet(names)
  BY DEF FirstSet
<1> QED BY <1>1 DEF Offer

(* A provider that errs, undisturbed, had nothing to offer.                *)
LEMMA NotKept ==
  ASSUME NEW t, NEW p,
         \/ t = Missing
         \/ \E i \in DOMAIN t : t[i].shape = "bad"
         \/ \E k \in {"access_key", "secret_key"} : ValueAt(t, Len(t), p, k) = Absent
  PROVE  InFile(t, p) = Absent
BY DEF InFile

LEMMA PairAbsent ==
  ASSUME NEW i \in STRING, NEW s \in STRING
  PROVE  /\ i = Empty \/ s = Empty => Pair(i, s) = Absent
         /\ i # Empty /\ s # Empty => Pair(i, s) = <<i, s>> /\ Pair(i, s) # Absent
<1>1. <<i, s>> \in STRING \X STRING
  OBVIOUS
<1>2. <<i, s>> # Absent
  BY <1>1, FileAssumption
<1> QED BY <1>2 DEF Pair

LEMMA EnvRead ==
  ASSUME ReadSoFar, reads \in 1..5, reads > 4
  PROVE  Offer("env") = Pair(id, secret)
<1>1. id = FirstSet(IdVars) /\ secret = FirstSet(SecretVars)
  BY DEF ReadSoFar
<1> QED BY <1>1 DEF Offer

LEMMA SharedOffer ==
  Offer("shared") =
    IF FileFrom(start.filename, env) = Empty THEN Absent
    ELSE InFile(disk[FileFrom(start.filename, env)], ProfileFrom(start.profile, env))
BY DEF Offer

LEMMA OpenOffer ==
  ASSUME StageOK, SameAccount, stage = "parse", Parsed
  PROVE  Offer("shared") = InFile(text, profile)
<1>1. filename # Empty /\ profile # Empty
  BY DEF StageOK
<1>2. FileFrom(start.filename, env) = filename /\ ProfileFrom(start.profile, env) = profile
  BY <1>1 DEF SameAccount, FileFrom, ProfileFrom
<1> QED BY <1>1, <1>2, SharedOffer DEF Parsed

LEMMA ReadToTheEnd ==
  ASSUME TypeOK, ParserRight, stage = "parse", line > Len(text), Parsed, SameAccount
  PROVE  /\ \A k \in {"access_key", "secret_key"} :
              file[profile][k] = ValueAt(text, Len(text), profile, k)
         /\ \A i \in DOMAIN text : text[i].shape # "bad"
         /\ text # Missing
<1>1. line - 1 = Len(text) /\ text \in Seq(Line)
  BY TypeParts DEF ParsingOK
<1>2. profile \in Section /\ {"access_key", "secret_key"} \subseteq Key
  BY TypeParts, FileAssumption DEF SharedOK
<1>3. \A k \in {"access_key", "secret_key"} :
        file[profile][k] = ValueAt(text, Len(text), profile, k)
  BY <1>1, <1>2 DEF ParserRight
<1>4. DOMAIN text = 1..Len(text)
  BY <1>1
<1> QED BY <1>1, <1>3, <1>4 DEF Parsed

(* A step of an undisturbed Retrieve that stays with the provider.         *)
LEMMA PassedKept ==
  ASSUME Passed, UNCHANGED <<env, disk, static, start, asking>>
  PROVE  Passed'
<1>1. \A p : Offer(p)' = Offer(p)
  BY OfferKept
<1> QED BY <1>1 DEF Passed

LEMMA AccountKept ==
  ASSUME SameAccount, UNCHANGED <<env, start, filename, profile>>
  PROVE  SameAccount'
BY DEF SameAccount

LEMMA Reset ==
  ASSUME id' = Empty, secret' = Empty, reads' = 1, ~calm' \/ m' = NoOne
  PROVE  FetchInv'
BY DEF FetchInv

LEMMA ErrsFetch ==
  ASSUME LockOK, FetchInv, Errs, m # NoOne,
         UNCHANGED <<env, disk, static, start, calm>>,
         id' = Empty, secret' = Empty, reads' = 1,
         calm => SameAccount' /\ Offer(Provider[asking]) = Absent
  PROVE  FetchInv'
<1>1. asking' = asking + 1 /\ asking \in Nat /\ stage' = "ask"
  BY DEF Errs, LockOK
<1>2. \A p : Offer(p)' = Offer(p)
  BY OfferKept
<1>3. CASE calm
  <2>1. Passed
    BY <1>3 DEF FetchInv
  <2>2. \A i \in 1..asking : Offer(Provider[i]) = Absent
    <3>1. \A i \in 1..asking : i \in 1..asking - 1 \/ i = asking
      BY <1>1
    <3> QED BY <1>3, <2>1, <3>1 DEF Passed
  <2>3. asking' - 1 = asking
    BY <1>1
  <2>4. Passed'
    BY <1>2, <2>2, <2>3 DEF Passed
  <2> QED BY <1>1, <1>3, <2>4 DEF FetchInv
<1>4. CASE ~calm
  BY <1>4, Reset
<1> QED BY <1>3, <1>4

(* Each way to err, with the reason.                                       *)
LEMMA NoneToOffer ==
  ASSUME TypeOK, ParserRight, FetchInv, calm
  PROVE  /\ EnvReturns /\ ~EnvHasPair => Offer("env") = Absent
         /\ stage = "static" /\ ~(static.id # Empty /\ static.secret # Empty)
              => Offer("static") = Absent
         /\ SharedHasNoHome => Offer("shared") = Absent
         /\ SharedOpens /\ disk[filename] = Missing => Offer("shared") = Absent
         /\ ParseErrs => Offer("shared") = Absent
         /\ stage = "parse" /\ line > Len(text)
            /\ ~(file[profile]["access_key"] # Absent /\ file[profile]["secret_key"] # Absent)
              => Offer("shared") = Absent
<1> USE TypeParts, Names
<1>1. stage # "idle" => Passed /\ SameAccount /\ (stage = "env" => ReadSoFar)
                        /\ (stage = "parse" => Parsed)
  BY DEF FetchInv, LockOK
<1>2. ASSUME EnvReturns, ~EnvHasPair
      PROVE  Offer("env") = Absent
  <2>1. stage = "env" /\ reads > 4 /\ reads \in 1..5 /\ id \in STRING /\ secret \in STRING
    BY <1>2 DEF EnvReturns, ReadingOK
  <2>2. Offer("env") = Pair(id, secret)
    BY <1>1, <2>1, EnvRead
  <2>3. id = Empty \/ secret = Empty
    BY <1>2 DEF EnvHasPair
  <2> QED BY <2>1, <2>2, <2>3, PairAbsent
<1>3. ASSUME ~(static.id # Empty /\ static.secret # Empty)
      PROVE  Offer("static") = Absent
  <2>1. Offer("static") = Pair(static.id, static.secret)
    BY DEF Offer
  <2>2. static.id \in STRING /\ static.secret \in STRING
    BY StaticAssumption DEF OutsideOK
  <2> QED BY <1>3, <2>1, <2>2, PairAbsent
<1>4. ASSUME SharedHasNoHome
      PROVE  Offer("shared") = Absent
  <2>1. filename = Empty /\ HomeDir(env) = Empty /\ stage = "shared"
    BY <1>4 DEF SharedHasNoHome
  <2>2. FileFrom(start.filename, env) = Empty
    BY <1>1, <2>1 DEF SameAccount, FileFrom
  <2> QED BY <2>2, SharedOffer
<1>5. ASSUME SharedOpens, disk[filename] = Missing
      PROVE  Offer("shared") = Absent
  <2>1. filename # Empty /\ stage = "shared"
    BY <1>5 DEF SharedOpens
  <2>2. FileFrom(start.filename, env) = filename
    BY <1>1, <2>1 DEF SameAccount, FileFrom
  <2> QED BY <1>5, <2>2, SharedOffer, NotKept
<1>6. ASSUME ParseErrs
      PROVE  Offer("shared") = Absent
  <2>1. stage = "parse" /\ line <= Len(text) /\ text[line].shape = "bad"
    BY <1>6 DEF ParseErrs
  <2>2. line \in DOMAIN text
    BY <2>1 DEF ParsingOK
  <2>3. InFile(text, profile) = Absent
    BY <2>1, <2>2, NotKept
  <2> QED BY <1>1, <2>1, <2>3, OpenOffer
<1>7. ASSUME stage = "parse", line > Len(text),
             ~(file[profile]["access_key"] # Absent /\ file[profile]["secret_key"] # Absent)
      PROVE  Offer("shared") = Absent
  <2>1. \E k \in {"access_key", "secret_key"} : ValueAt(text, Len(text), profile, k) = Absent
    BY <1>1, <1>7, ReadToTheEnd
  <2>2. InFile(text, profile) = Absent
    BY <2>1, NotKept
  <2> QED BY <1>1, <1>7, <2>2, OpenOffer
<1> QED BY <1>2, <1>3, <1>4, <1>5, <1>6, <1>7

LEMMA FetchStep ==
  ASSUME TypeOK, ParserRight, FetchInv, [Next]_vars
  PROVE  FetchInv'
<1> USE TypeParts, Names
<1>1. CASE UNCHANGED <<stage, id, secret, reads>> /\ (~calm' \/ m' = NoOne)
  BY <1>1 DEF FetchInv
<1>2. ASSUME NEW u \in User, GetStarts(u)
      PROVE  FetchInv'
  <2>1. /\ m = NoOne /\ asking' = 1 /\ stage' = "ask"
        /\ start' = [retrieved |-> retrieved, filename |-> filename, profile |-> profile]
        /\ UNCHANGED <<id, secret, reads, filename, profile>>
    BY <1>2 DEF GetStarts, GetBegins, reading
  <2>2. id = Empty /\ secret = Empty /\ reads = 1
    BY <2>1 DEF FetchInv, LockOK
  <2>3. SameAccount'
    BY <2>1 DEF SameAccount
  <2>4. Passed'
    BY <2>1 DEF Passed
  <2> QED BY <2>1, <2>2, <2>3, <2>4 DEF FetchInv
<1>3. CASE Asks
  <2>1. /\ stage = "ask" /\ asking \in 1..Len(Provider) /\ stage' = Provider[asking]
        /\ UNCHANGED <<asking, m, calm, env, disk, static, start, filename, profile>>
        /\ UNCHANGED <<id, secret, reads>>
    BY <1>3 DEF Asks, LockOK, cached, outside, history, reading
  <2>2. id = Empty /\ secret = Empty /\ reads = 1
    BY <2>1 DEF FetchInv
  <2>3. stage' # "parse"
    BY <2>1
  <2>4. calm /\ m # NoOne => Passed' /\ SameAccount'
    BY <2>1, PassedKept, AccountKept DEF FetchInv
  <2>5. ReadSoFar'
    BY <2>1, <2>2 DEF ReadSoFar
  <2> QED BY <2>1, <2>2, <2>3, <2>4, <2>5 DEF FetchInv
<1>4. CASE EnvReads
  <2>1. /\ stage = "env" /\ reads' = reads + 1 /\ reads \in 1..4
        /\ UNCHANGED <<asking, stage, m, calm, env, disk, static, start, filename, profile>>
    BY <1>4 DEF EnvReads, ReadingOK, cached, chain, outside, history
  <2>2. calm /\ m # NoOne => Passed' /\ SameAccount' /\ ReadSoFar
    BY <2>1, PassedKept, AccountKept DEF FetchInv
  <2>3. ReadSoFar => ReadSoFar'
    <3>1. FirstSet(IdVars) = IF env[IdVars[1]] # Empty THEN env[IdVars[1]] ELSE env[IdVars[2]]
      BY FirstOfTwo DEF IdVars
    <3>2. FirstSet(SecretVars) =
            IF env[SecretVars[1]] # Empty THEN env[SecretVars[1]] ELSE env[SecretVars[2]]
      BY FirstOfTwo DEF SecretVars
    <3>3. FirstSet(IdVars)' = FirstSet(IdVars) /\ FirstSet(SecretVars)' = FirstSet(SecretVars)
      BY <2>1 DEF FirstSet
    <3>4. CASE reads = 1
      BY <1>4, <2>1, <3>4 DEF ReadSoFar, EnvReads
    <3>5. CASE reads = 2
      BY <1>4, <2>1, <3>1, <3>3, <3>5 DEF ReadSoFar, EnvReads
    <3>6. CASE reads = 3
      BY <1>4, <2>1, <3>3, <3>6 DEF ReadSoFar, EnvReads
    <3>7. CASE reads = 4
      BY <1>4, <2>1, <3>2, <3>3, <3>7 DEF ReadSoFar, EnvReads
    <3> QED BY <2>1, <3>4, <3>5, <3>6, <3>7
  <2> QED BY <2>1, <2>2, <2>3 DEF FetchInv
<1>5. CASE EnvReturns
  <2>1. /\ id' = Empty /\ secret' = Empty /\ reads' = 1 /\ stage = "env"
        /\ UNCHANGED <<env, disk, static, start, calm, filename, profile>>
    BY <1>5 DEF EnvReturns, outside
  <2>2. m # NoOne /\ Provider[asking] = "env"
    BY <2>1 DEF LockOK, StageOK
  <2>3. (EnvHasPair /\ m' = NoOne) \/ (~EnvHasPair /\ Errs)
    BY <1>5 DEF EnvReturns, Gives
  <2>4. CASE ~EnvHasPair /\ Errs
    BY <1>5, <2>1, <2>2, <2>4, NoneToOffer, AccountKept, ErrsFetch DEF FetchInv
  <2> QED BY <2>1, <2>3, <2>4, Reset
<1>6. CASE StaticReturns
  <2>1. /\ stage = "static" /\ UNCHANGED <<id, secret, reads>>
        /\ UNCHANGED <<env, disk, static, start, calm, filename, profile>>
    BY <1>6 DEF StaticReturns, outside, reading
  <2>2. m # NoOne /\ Provider[asking] = "static"
    BY <2>1 DEF LockOK, StageOK
  <2>3. id' = Empty /\ secret' = Empty /\ reads' = 1
    BY <2>1 DEF FetchInv
  <2>4. m' = NoOne \/ (~(static.id # Empty /\ static.secret # Empty) /\ Errs)
    BY <1>6 DEF StaticReturns, Gives
  <2>5. CASE ~(static.id # Empty /\ static.secret # Empty) /\ Errs
    BY <2>1, <2>2, <2>3, <2>5, NoneToOffer, AccountKept, ErrsFetch DEF FetchInv
  <2> QED BY <2>3, <2>4, <2>5, Reset
<1>7. CASE SharedFinds
  <2>1. /\ stage = "shared" /\ filename = Empty /\ filename' = HomeDir(env)
        /\ UNCHANGED <<asking, stage, m, calm, env, disk, static, start, profile>>
        /\ UNCHANGED <<id, secret, reads>>
    BY <1>7 DEF SharedFinds, cached, chain, outside, history, reading
  <2>2. SameAccount => SameAccount'
    BY <2>1 DEF SameAccount, FileFrom
  <2>3. calm /\ m # NoOne => Passed' /\ SameAccount'
    BY <2>1, <2>2, PassedKept DEF FetchInv
  <2> QED BY <2>1, <2>3 DEF FetchInv
<1>8. CASE SharedHasNoHome
  <2>1. /\ stage = "shared" /\ UNCHANGED <<id, secret, reads>> /\ Errs
        /\ UNCHANGED <<env, disk, static, start, calm, filename, profile>>
    BY <1>8 DEF SharedHasNoHome, outside, reading
  <2>2. m # NoOne /\ Provider[asking] = "shared"
    BY <2>1 DEF LockOK, StageOK
  <2>3. id' = Empty /\ secret' = Empty /\ reads' = 1
    BY <2>1 DEF FetchInv
  <2> QED BY <1>8, <2>1, <2>2, <2>3, NoneToOffer, AccountKept, ErrsFetch DEF FetchInv
<1>9. CASE SharedOpens
  <2>1. /\ stage = "shared" /\ filename # Empty /\ UNCHANGED <<id, secret, reads>>
        /\ UNCHANGED <<env, disk, static, start, calm, filename>>
        /\ profile' = ProfileFrom(profile, env)
    BY <1>9 DEF SharedOpens, StoresProfile, outside, reading
  <2>2. m # NoOne /\ Provider[asking] = "shared"
    BY <2>1 DEF LockOK, StageOK
  <2>3. id' = Empty /\ secret' = Empty /\ reads' = 1
    BY <2>1 DEF FetchInv
  <2>4. calm => SameAccount'
    <3>1. ProfileFrom(profile', env) = ProfileFrom(profile, env)
      BY <2>1 DEF ProfileFrom
    <3>2. FileFrom(filename', env) = FileFrom(filename, env)
      BY <2>1
    <3> QED BY <2>1, <2>2, <3>1, <3>2 DEF FetchInv, SameAccount
  <2>5. CASE disk[filename] = Missing
    <3>1. Errs
      BY <1>9, <2>5 DEF SharedOpens
    <3> QED BY <1>9, <2>1, <2>2, <2>3, <2>4, <2>5, <3>1, NoneToOffer, ErrsFetch
  <2>6. CASE disk[filename] # Missing
    <3>1. /\ text' = disk[filename] /\ line' = 1 /\ stage' = "parse"
          /\ UNCHANGED <<asking, m>>
      BY <1>9, <2>6 DEF SharedOpens, cached
    <3>2. line' - 1 = 0
      BY <3>1
    <3>3. Parsed'
      BY <2>1, <2>6, <3>1, <3>2 DEF Parsed
    <3>4. calm => Passed'
      BY <2>1, <2>2, <3>1, PassedKept DEF FetchInv
    <3> QED BY <2>1, <2>3, <2>4, <3>1, <3>3, <3>4 DEF FetchInv
  <2> QED BY <2>5, <2>6
<1>10. CASE ParseLine
  <2>1. /\ stage = "parse" /\ line <= Len(text) /\ line' = line + 1
        /\ UNCHANGED <<asking, stage, m, calm, env, disk, static, start, filename, profile>>
        /\ UNCHANGED <<id, secret, reads, text>>
    BY <1>10 DEF ParseLine, cached, chain, outside, history, reading
  <2>2. calm /\ m # NoOne => Passed' /\ SameAccount' /\ Parsed
    BY <2>1, PassedKept, AccountKept DEF FetchInv
  <2>3. Parsed => Parsed'
    <3>1. text[line].shape # "bad"
      BY <1>10 DEF ParseLine, Skips, Assigns, Heads
    <3>2. line' - 1 = line /\ \A i \in 1..line : i = line \/ i \in 1..line - 1
      BY <2>1 DEF ParsingOK
    <3> QED BY <2>1, <3>1, <3>2 DEF Parsed
  <2> QED BY <2>1, <2>2, <2>3 DEF FetchInv
<1>11. CASE ParseErrs
  <2>1. /\ stage = "parse" /\ UNCHANGED <<id, secret, reads>> /\ Errs
        /\ UNCHANGED <<env, disk, static, start, calm, filename, profile>>
    BY <1>11 DEF ParseErrs, outside, reading
  <2>2. m # NoOne /\ Provider[asking] = "shared"
    BY <2>1 DEF LockOK, StageOK
  <2>3. id' = Empty /\ secret' = Empty /\ reads' = 1
    BY <2>1 DEF FetchInv
  <2> QED BY <1>11, <2>1, <2>2, <2>3, NoneToOffer, AccountKept, ErrsFetch DEF FetchInv
<1>12. CASE SharedReturns
  <2>1. /\ stage = "parse" /\ line > Len(text) /\ UNCHANGED <<id, secret, reads>>
        /\ UNCHANGED <<env, disk, static, start, calm, filename, profile>>
    BY <1>12 DEF SharedReturns, outside, reading
  <2>2. m # NoOne /\ Provider[asking] = "shared"
    BY <2>1 DEF LockOK, StageOK
  <2>3. id' = Empty /\ secret' = Empty /\ reads' = 1
    BY <2>1 DEF FetchInv
  <2>4. \/ m' = NoOne
        \/ ~(file[profile]["access_key"] # Absent /\ file[profile]["secret_key"] # Absent) /\ Errs
    BY <1>12 DEF SharedReturns, Gives
  <2>5. CASE /\ ~(file[profile]["access_key"] # Absent /\ file[profile]["secret_key"] # Absent)
             /\ Errs
    BY <2>1, <2>2, <2>3, <2>5, NoneToOffer, AccountKept, ErrsFetch DEF FetchInv
  <2> QED BY <2>3, <2>4, <2>5, Reset
<1>13. CASE GetErrs
  <2>1. stage = "ask" /\ m' = NoOne /\ UNCHANGED <<id, secret, reads>>
    BY <1>13 DEF GetErrs, reading
  <2>2. id' = Empty /\ secret' = Empty /\ reads' = 1
    BY <2>1 DEF FetchInv
  <2> QED BY <2>1, <2>2, Reset
<1>14. CASE Expires
  <2>1. m' = NoOne /\ UNCHANGED <<stage, id, secret, reads>>
    BY <1>14 DEF Expires, Expire, reading
  <2> QED BY <1>1, <2>1
<1>15. ASSUME NEW v \in Var, NEW x \in EnvValues[v], Setenv(v, x)
       PROVE  FetchInv'
  <2>1. ~calm' /\ UNCHANGED <<stage, id, secret, reads>>
    BY <1>15 DEF Setenv, Changes, reading
  <2> QED BY <1>1, <2>1
<1>16. ASSUME NEW h \in Home, NEW t \in Text \cup {Missing}, Replace(h, t)
       PROVE  FetchInv'
  <2>1. ~calm' /\ UNCHANGED <<stage, id, secret, reads>>
    BY <1>16 DEF Replace, Changes, reading
  <2> QED BY <1>1, <2>1
<1>17. CASE UNCHANGED vars
  <2>1. UNCHANGED <<asking, stage, m, calm, env, disk, static, start, filename, profile>>
    BY <1>17 DEF vars, credVars, chain, outside, history
  <2>2. UNCHANGED <<id, secret, reads, text, line>>
    BY <1>17 DEF vars, reading, parsing
  <2>3. calm /\ m # NoOne => Passed' /\ SameAccount'
    BY <2>1, PassedKept, AccountKept DEF FetchInv
  <2>4. ReadSoFar => ReadSoFar'
    BY <2>1, <2>2 DEF ReadSoFar, FirstSet
  <2>5. Parsed => Parsed'
    BY <2>1, <2>2 DEF Parsed
  <2> QED BY <2>1, <2>2, <2>3, <2>4, <2>5 DEF FetchInv
<1> QED
  BY <1>2, <1>3, <1>4, <1>5, <1>6, <1>7, <1>8, <1>9, <1>10, <1>11, <1>12, <1>13,
     <1>14, <1>15, <1>16, <1>17
     DEF Next, Retrieve, EnvRetrieve, SharedRetrieve

(* The provider that answers has something, and those before it had not.   *)
LEMMA FirstAble ==
  ASSUME Passed, asking \in 1..Len(Provider), Offer(Provider[asking]) # Absent
  PROVE  Able # {} /\ Min(Able) = asking
<1> USE Names
<1>1. asking \in Able
  BY DEF Able
<1>2. \A i \in Able : asking <= i
  <2>1. \A i \in 1..Len(Provider) : i \in 1..asking - 1 \/ asking <= i
    OBVIOUS
  <2> QED BY <2>1 DEF Able, Passed
<1>3. \A x \in Able : (\A y \in Able : x <= y) => x = asking
  <2>1. ASSUME NEW x \in Able, \A y \in Able : x <= y
        PROVE  x = asking
    <3>1. x <= asking /\ asking <= x /\ x \in 1..Len(Provider)
      BY <1>1, <1>2, <2>1 DEF Able
    <3> QED BY <3>1
  <2> QED BY <2>1
<1> QED BY <1>1, <1>2, <1>3 DEF Min

LEMMA AnswerRight ==
  ASSUME TypeOK, Passed, asking \in 1..Len(Provider), NEW value \in Value,
         values' = Append(values, value), value.from = Provider[asking],
         Offer(Provider[asking]) = <<value.id, value.secret>>,
         Offer(Provider[asking]) # Absent
  PROVE  IF Able = {} THEN values' = values ELSE GivesOffer(Min(Able))
<1>1. values \in Seq(Value)
  BY TypeParts DEF HistoryOK
<1>2. Len(values') = Len(values) + 1 /\ values'[Len(values) + 1] = value
  BY <1>1, SeqAppend
<1>3. values'[Len(values')] = value
  BY <1>2
<1> QED BY <1>2, <1>3, FirstAble DEF GivesOffer

LEMMA FetchEnds ==
  ASSUME TypeOK, ParserRight, FetchInv, [Next]_vars, m # NoOne, m' = NoOne, calm
  PROVE  IF Able = {} THEN values' = values ELSE GivesOffer(Min(Able))
<1> USE TypeParts, Names
<1>1. Passed /\ SameAccount /\ (stage = "env" => ReadSoFar) /\ (stage = "parse" => Parsed)
  BY DEF FetchInv
<1>2. m # m' /\ stage # "idle"
  BY DEF LockOK
<1>3. CASE EnvReturns
  <2>1. stage = "env" /\ asking \in 1..Len(Provider) /\ Provider[asking] = "env"
    BY <1>3 DEF EnvReturns, LockOK, StageOK
  <2>2. EnvHasPair /\ values' = Append(values, EnvValue) /\ reads > 4
    BY <1>2, <1>3 DEF EnvReturns, Gives, Errs, cached, EnvValue
  <2>3. PICK v \in Value : v = EnvValue
    BY <2>1, EnvGivesValue DEF EnvValue
  <2>4. v.from = "env" /\ v.id = id /\ v.secret = secret
    BY <2>3 DEF EnvValue
  <2>5. Offer("env") = <<id, secret>> /\ Offer("env") # Absent
    BY <1>1, <2>1, <2>2, EnvRead, PairAbsent DEF ReadingOK, EnvHasPair
  <2> QED BY <1>1, <2>1, <2>2, <2>3, <2>4, <2>5, AnswerRight
<1>4. CASE StaticReturns
  <2>1. stage = "static" /\ asking \in 1..Len(Provider) /\ Provider[asking] = "static"
    BY <1>4 DEF StaticReturns, LockOK, StageOK
  <2>2. static.id # Empty /\ static.secret # Empty /\ values' = Append(values, StaticValue)
    BY <1>2, <1>4 DEF StaticReturns, Gives, Errs, cached, StaticValue
  <2>3. PICK v \in Value : v = StaticValue
    BY <2>1, StaticGivesValue DEF StaticValue
  <2>4. v.from = "static" /\ v.id = static.id /\ v.secret = static.secret
    BY <2>3 DEF StaticValue
  <2>5. Offer("static") = Pair(static.id, static.secret)
    BY DEF Offer
  <2>6. static.id \in STRING /\ static.secret \in STRING
    BY StaticAssumption DEF OutsideOK
  <2>7. Offer("static") = <<static.id, static.secret>> /\ Offer("static") # Absent
    BY <2>2, <2>5, <2>6, PairAbsent
  <2> QED BY <1>1, <2>1, <2>2, <2>3, <2>4, <2>7, AnswerRight
<1>5. CASE SharedReturns
  <2>1. /\ stage = "parse" /\ asking \in 1..Len(Provider) /\ Provider[asking] = "shared"
        /\ line > Len(text)
    BY <1>5 DEF SharedReturns, LockOK, StageOK
  <2>2. /\ file[profile]["access_key"] # Absent /\ file[profile]["secret_key"] # Absent
        /\ values' = Append(values, SharedValue)
    BY <1>2, <1>5 DEF SharedReturns, Gives, Errs, cached, SharedValue
  <2>3. PICK v \in Value : v = SharedValue
    BY <2>1, <2>2, SharedGivesValue DEF SharedValue
  <2>4. /\ v.from = "shared" /\ v.id = file[profile]["access_key"]
        /\ v.secret = file[profile]["secret_key"]
    BY <2>3 DEF SharedValue
  <2>5. /\ \A k \in {"access_key", "secret_key"} :
             file[profile][k] = ValueAt(text, Len(text), profile, k)
        /\ \A i \in DOMAIN text : text[i].shape # "bad"
        /\ text # Missing
    BY <1>1, <2>1, ReadToTheEnd
  <2>6. InFile(text, profile) = <<file[profile]["access_key"], file[profile]["secret_key"]>>
    BY <2>2, <2>5 DEF InFile
  <2>7. Offer("shared") = <<v.id, v.secret>>
    BY <1>1, <2>1, <2>4, <2>6, OpenOffer
  <2>8. Offer("shared") # Absent
    <3>1. <<v.id, v.secret>> \in STRING \X STRING
      BY DEF Value
    <3> QED BY <2>7, <3>1, FileAssumption
  <2> QED BY <1>1, <2>1, <2>2, <2>3, <2>4, <2>7, <2>8, AnswerRight
<1>6. CASE GetErrs
  <2>1. asking = Len(Provider) + 1 /\ values' = values
    BY <1>6 DEF GetErrs, LockOK, history
  <2>2. \A i \in DOMAIN Provider : i \in 1..asking - 1
    BY <2>1
  <2>3. Able = {}
    BY <1>1, <2>2 DEF Able, Passed
  <2> QED BY <2>1, <2>3
<1>7. ASSUME NEW u \in User, GetStarts(u)
      PROVE  FALSE
  BY <1>7 DEF GetStarts, GetBegins
<1>8. CASE Asks \/ EnvReads \/ SharedFinds \/ ParseLine
  BY <1>2, <1>8 DEF Asks, EnvReads, SharedFinds, ParseLine, cached
<1>9. CASE SharedHasNoHome \/ ParseErrs \/ SharedOpens
  BY <1>2, <1>9 DEF SharedHasNoHome, ParseErrs, SharedOpens, Errs, cached
<1>10. CASE Expires
  BY <1>2, <1>10 DEF Expires, Expire
<1>11. ASSUME NEW v \in Var, NEW x \in EnvValues[v], Setenv(v, x)
       PROVE  FALSE
  BY <1>2, <1>11 DEF Setenv, credVars
<1>12. ASSUME NEW h \in Home, NEW t \in Text \cup {Missing}, Replace(h, t)
       PROVE  FALSE
  BY <1>2, <1>12 DEF Replace, credVars
<1>13. CASE UNCHANGED vars
  BY <1>2, <1>13 DEF vars, credVars
<1> QED
  BY <1>3, <1>4, <1>5, <1>6, <1>7, <1>8, <1>9, <1>10, <1>11, <1>12, <1>13
     DEF Next, Retrieve, EnvRetrieve, SharedRetrieve

LEMMA FetchInvHolds == Spec => []FetchInv
<1>1. Init => FetchInv
  BY DEF Init, CredInit, FetchInv
<1>2. TypeOK /\ ParserRight /\ FetchInv /\ [Next]_vars => FetchInv'
  BY FetchStep
<1> QED BY <1>1, <1>2, TypeCorrect, ParserIsRight, PTL DEF Spec

(* For any chain, environment and files: a Get during which nothing        *)
(* changes returns what the first provider that has anything offers, and   *)
(* fails only if none has, whatever was tried and cached before.           *)
THEOREM FetchesTheFirst == Spec => FetchRight
<1> DEFINE Ends == m # NoOne /\ m' = NoOne /\ calm =>
             IF Able = {} THEN values' = values ELSE GivesOffer(Min(Able))
<1>1. TypeOK /\ ParserRight /\ FetchInv /\ [Next]_vars => [Ends]_vars
  BY FetchEnds
<1>2. Spec => [][Ends]_vars
  BY <1>1, TypeCorrect, ParserIsRight, FetchInvHolds, PTL DEF Spec
<1> QED BY <1>2 DEF FetchRight
=============================================================================
