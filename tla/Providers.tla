----------------------------- MODULE Providers -----------------------------
(***************************************************************************)
(* Where Credentials gets its values from: credentials/chain_provider.go   *)
(* over env_provider.go, shared_credentials_provider.go, which reads a     *)
(* file with ini.go, and static_provider.go.  Get runs Retrieve step by    *)
(* step under the mutex, while the program changes its environment and     *)
(* somebody replaces the files.                                            *)
(***************************************************************************)
EXTENDS Credentials, Integers, FiniteSetsExt

CONSTANTS
  User,             \* goroutines that call Get and Expire
  EnvValues,        \* what an environment variable may be set to
  Home,             \* directories that may have a file .aws/credentials
  Section, Key,     \* names of sections and of keys, in files
  Text,             \* what such a file may contain: sequences of lines
  Static,           \* the Value of a StaticProvider, as it may be configured
  MaxFetches,       \* bound: Retrieve gives a value at most this many times
  MaxChanges,       \* bound: changes of the environment and of the files
  Empty,            \* the empty string: a variable not set, no name, no key
  Missing, Absent   \* no such file; no such key, or no value at all

IdVars == <<"AWS_ACCESS_KEY_ID", "AWS_ACCESS_KEY">>
SecretVars == <<"AWS_SECRET_ACCESS_KEY", "AWS_SECRET_KEY">>
Var == {"AWS_ACCESS_KEY_ID", "AWS_ACCESS_KEY", "AWS_SECRET_ACCESS_KEY",
        "AWS_SECRET_KEY", "HOME", "USERPROFILE", "AWS_PROFILE"}

(* A trimmed line, by what the parser asks of it: "both" is [a=b], which   *)
(* each of the two expressions matches, "bad" is one that neither does.    *)
Line == [shape : {"blank", "comment", "assign", "header", "both", "bad"},
         name : Section, key : Key, value : STRING]

ASSUME ProvidersAssumption == Providers \subseteq {"env", "shared", "static"}
ASSUME UserAssumption == NoOne \notin User
ASSUME EmptyAssumption == Empty \in STRING \ {"default"}
ASSUME StaticAssumption == Static \subseteq [id : STRING, secret : STRING]
ASSUME EnvAssumption ==
  /\ EnvValues \in [Var -> SUBSET STRING]
  /\ EnvValues["HOME"] \cup EnvValues["USERPROFILE"] \subseteq Home \cup {Empty}
  /\ EnvValues["AWS_PROFILE"] \subseteq Section \cup {Empty}
ASSUME FileAssumption ==
  /\ Home \subseteq STRING \ {Empty}
  /\ {Empty, "default"} \subseteq Section /\ {"access_key", "secret_key"} \subseteq Key
  /\ Text \subseteq Seq(Line)
  /\ Missing \notin Text /\ Absent \notin STRING \cup (STRING \X STRING)

VARIABLES
  env, disk,            \* the environment of the process, and the files
  static,               \* StaticProvider.Value
  filename, profile,    \* fields of the SharedCredentialsProvider
  stage, asking,        \* where Retrieve is, and at which provider
  id, secret, reads,    \* EnvProvider.Retrieve: its variables, and its next read
  text, line,           \* parseFile: what it reads, and its next line
  section, file,        \*   its variable section, and the File it fills
  values,               \* history: the values Retrieve gave
  start,                \* history: the providers when this Get began,
  calm,                 \*   and nothing has changed since
  changes               \* the changes there have been

outside == <<env, disk, static, changes>>
chain == <<retrieved, stage, asking>>
reading == <<id, secret, reads>>
parsing == <<text, line, section, file>>
history == <<values, start, calm>>
vars == <<credVars, outside, filename, profile, stage, asking, reading, parsing, history>>
cached == <<creds, forceRefresh, curr, m, fetches, owed>>

EmptyFile == [s \in Section |-> [k \in Key |-> Absent]]

Init ==
  /\ CredInit
  /\ env \in {e \in [Var -> UNION {EnvValues[v] : v \in Var}] :
                \A v \in Var : e[v] \in EnvValues[v]}
  /\ disk \in [Home -> Text \cup {Missing}]
  /\ static \in Static
  /\ filename = Empty /\ profile = Empty
  /\ stage = "idle" /\ asking = 1
  /\ id = Empty /\ secret = Empty /\ reads = 1
  /\ text = <<>> /\ line = 1 /\ section = Empty /\ file = EmptyFile
  /\ values = <<>> /\ calm = TRUE /\ changes = 0
  /\ start = [retrieved |-> retrieved, filename |-> Empty, profile |-> Empty]

-----------------------------------------------------------------------------
(* Meanwhile: os.Setenv, a new file, Expire.                               *)
Changes ==
  /\ changes < MaxChanges
  /\ changes' = changes + 1
  /\ calm' = FALSE

Setenv(v, x) ==
  /\ Changes
  /\ env[v] # x
  /\ env' = [env EXCEPT ![v] = x]
  /\ UNCHANGED <<credVars, disk, static, filename, profile, stage, asking, reading,
                 parsing, values, start>>

Replace(h, t) ==
  /\ Changes
  /\ disk[h] # t
  /\ disk' = [disk EXCEPT ![h] = t]
  /\ UNCHANGED <<credVars, env, static, filename, profile, stage, asking, reading,
                 parsing, values, start>>

Expires ==
  /\ Expire
  /\ UNCHANGED <<outside, filename, profile, stage, asking, reading, parsing, history>>

-----------------------------------------------------------------------------
(* Get, when the cached value has expired: lock, and ask the chain.        *)
GetStarts(u) ==
  /\ fetches < MaxFetches
  /\ GetBegins(u)
  /\ stage' = "ask" /\ asking' = 1
  /\ start' = [retrieved |-> retrieved, filename |-> filename, profile |-> profile]
  /\ calm' = TRUE
  /\ UNCHANGED <<outside, filename, profile, reading, parsing, values>>

(* Each Retrieve begins with p.retrieved = false.  (StaticProvider has no  *)
(* such field: it counts as retrieved whenever it is curr.)                *)
Asks ==
  /\ stage = "ask" /\ asking <= Len(Provider)
  /\ retrieved' = [retrieved EXCEPT ![Provider[asking]] = FALSE]
  /\ stage' = Provider[asking]
  /\ UNCHANGED <<cached, asking, outside, filename, profile, reading, parsing, history>>

(* It ends with a value, which Get caches,                                 *)
Gives(value) ==
  /\ retrieved' = [retrieved EXCEPT ![Provider[asking]] = TRUE]
  /\ curr' = Provider[asking]
  /\ values' = Append(values, value)
  /\ fetches' = fetches + 1 /\ creds' = fetches + 1
  /\ forceRefresh' = FALSE
  /\ m' = NoOne /\ stage' = "idle"
  /\ UNCHANGED <<owed, asking>>

(* or with an error, and the chain asks the next provider.                 *)
Errs ==
  /\ stage' = "ask" /\ asking' = asking + 1
  /\ UNCHANGED <<cached, retrieved, values>>

GetErrsOnly ==                              \* mutant: curr is not set to nil
  /\ stage = "ask" /\ asking > Len(Provider)
  /\ m' = NoOne /\ stage' = "idle"
  /\ UNCHANGED <<creds, forceRefresh, curr, retrieved, fetches, owed, asking>>
  /\ UNCHANGED <<outside, filename, profile, reading, parsing, history>>
GetErrs ==
  /\ stage = "ask" /\ asking > Len(Provider)
  /\ curr' = NoProvider
  /\ m' = NoOne /\ stage' = "idle"
  /\ UNCHANGED <<creds, forceRefresh, retrieved, fetches, owed, asking>>
  /\ UNCHANGED <<outside, filename, profile, reading, parsing, history>>

(* EnvProvider: of each two variables the first that is set.               *)
EnvReads ==
  /\ stage = "env" /\ reads <= 4
  /\ reads' = reads + 1
  /\ IF reads <= 2
     THEN /\ id' = IF id = Empty THEN env[IdVars[reads]] ELSE id
          /\ UNCHANGED secret
     ELSE /\ secret' = IF secret = Empty THEN env[SecretVars[reads - 2]] ELSE secret
          /\ UNCHANGED id
  /\ UNCHANGED <<cached, chain, outside, filename, profile, parsing, history>>

EnvHasId == id # Empty                      \* mutant: the secret is not looked at
EnvHasPair == id # Empty /\ secret # Empty

EnvReturns ==
  /\ stage = "env" /\ reads > 4
  /\ IF EnvHasPair
     THEN Gives([id |-> id, secret |-> secret,
                 from |-> "env", file |-> Empty, profile |-> Empty])
     ELSE Errs
  /\ id' = Empty /\ secret' = Empty /\ reads' = 1
  /\ UNCHANGED <<outside, filename, profile, parsing, start, calm>>

StaticReturns ==
  /\ stage = "static"
  /\ IF static.id # Empty /\ static.secret # Empty
     THEN Gives([id |-> static.id, secret |-> static.secret,
                 from |-> "static", file |-> Empty, profile |-> Empty])
     ELSE Errs
  /\ UNCHANGED <<outside, filename, profile, reading, parsing, start, calm>>

-----------------------------------------------------------------------------
(* SharedCredentialsProvider: the file and the profile it has once derived *)
(* from the environment are kept; then LoadFile opens the file.            *)
HomeDir(e) == IF e["HOME"] # Empty THEN e["HOME"] ELSE e["USERPROFILE"]
FileFrom(known, e) == IF known # Empty THEN known ELSE HomeDir(e)
NoDefault(known, e) ==                      \* mutant: AWS_PROFILE or nothing
  IF known # Empty THEN known ELSE e["AWS_PROFILE"]
ProfileFrom(known, e) ==
  IF known # Empty THEN known
  ELSE IF e["AWS_PROFILE"] # Empty THEN e["AWS_PROFILE"] ELSE "default"

SharedFinds ==
  /\ stage = "shared" /\ filename = Empty /\ HomeDir(env) # Empty
  /\ filename' = HomeDir(env)
  /\ UNCHANGED <<cached, chain, outside, profile, reading, parsing, history>>

SharedHasNoHome ==
  /\ stage = "shared" /\ filename = Empty /\ HomeDir(env) = Empty
  /\ Errs
  /\ UNCHANGED <<outside, filename, profile, reading, parsing, start, calm>>

StoresAnew(p) == profile' = ProfileFrom(Empty, env)  \* mutant: looked up each time
StoresProfile(p) == profile' = p

SharedOpens ==
  /\ stage = "shared" /\ filename # Empty
  /\ StoresProfile(ProfileFrom(profile, env))
  /\ IF disk[filename] = Missing
     THEN Errs /\ UNCHANGED parsing
     ELSE /\ text' = disk[filename] /\ line' = 1
          /\ section' = Empty /\ file' = EmptyFile
          /\ stage' = "parse"
          /\ UNCHANGED <<cached, retrieved, asking, values>>
  /\ UNCHANGED <<outside, filename, reading, start, calm>>

(* parseFile, a line at a time; an assignment is looked for first.         *)
Skips(l) == l.shape \in {"blank", "comment"}
Assigns(l) == l.shape \in {"assign", "both"}
HeadsFirst(l) == l.shape \in {"header", "both"}  \* mutant: sections come first
Heads(l) == l.shape \in {"header", "both"} /\ ~Assigns(l)

ParseLine ==
  /\ stage = "parse" /\ line <= Len(text)
  /\ LET l == text[line] IN
     \/ Skips(l) /\ UNCHANGED <<section, file>>
     \/ Assigns(l) /\ file' = [file EXCEPT ![section][l.key] = l.value] /\ UNCHANGED section
     \/ Heads(l) /\ section' = l.name /\ UNCHANGED file
  /\ line' = line + 1
  /\ UNCHANGED <<cached, chain, outside, filename, profile, reading, text, history>>

Done == text' = <<>> /\ line' = 1 /\ section' = Empty /\ file' = EmptyFile

ParseErrs ==
  /\ stage = "parse" /\ line <= Len(text)
  /\ text[line].shape = "bad"
  /\ Errs
  /\ Done
  /\ UNCHANGED <<outside, filename, profile, reading, start, calm>>

(* loadProfile: the two keys must be there, but may be empty.              *)
SharedReturns ==
  /\ stage = "parse" /\ line > Len(text)
  /\ LET found == file[profile] IN
     IF found["access_key"] # Absent /\ found["secret_key"] # Absent
     THEN Gives([id |-> found["access_key"], secret |-> found["secret_key"],
                 from |-> "shared", file |-> filename, profile |-> profile])
     ELSE Errs
  /\ Done
  /\ UNCHANGED <<outside, filename, profile, reading, start, calm>>

-----------------------------------------------------------------------------
EnvRetrieve == EnvReads \/ EnvReturns
SharedRetrieve == SharedFinds \/ SharedHasNoHome \/ SharedOpens
                  \/ ParseLine \/ ParseErrs \/ SharedReturns
Retrieve == Asks \/ EnvRetrieve \/ StaticReturns \/ SharedRetrieve \/ GetErrs

Next ==
  \/ \E u \in User : GetStarts(u)
  \/ Retrieve
  \/ Expires
  \/ \E v \in Var : \E x \in EnvValues[v] : Setenv(v, x)
  \/ \E h \in Home : \E t \in Text \cup {Missing} : Replace(h, t)

(* Nothing in Retrieve blocks: a goroutine that has the mutex goes on.     *)
Spec == Init /\ [][Next]_vars /\ WF_vars(Retrieve)

-----------------------------------------------------------------------------
Value == [id : STRING, secret : STRING, from : Providers,
          file : Home \cup {Empty}, profile : Section]

TypeOK ==
  /\ CredTypeOK
  /\ m \in User \cup {NoOne}
  /\ env \in [Var -> STRING]
  /\ env["HOME"] \in Home \cup {Empty} /\ env["USERPROFILE"] \in Home \cup {Empty}
  /\ env["AWS_PROFILE"] \in Section
  /\ disk \in [Home -> Text \cup {Missing}]
  /\ static \in Static
  /\ filename \in Home \cup {Empty} /\ profile \in Section
  /\ stage \in {"idle", "ask", "parse"} \cup Providers
  /\ m = NoOne <=> stage = "idle"
  /\ asking \in 1..Len(Provider) + 1
  /\ stage \in Providers => asking <= Len(Provider) /\ stage = Provider[asking]
  /\ stage = "parse" =>
       asking <= Len(Provider) /\ Provider[asking] = "shared" /\ filename # Empty /\ profile # Empty
  /\ id \in STRING /\ secret \in STRING /\ reads \in 1..5
  /\ text \in Seq(Line) /\ line \in 1..Len(text) + 1
  /\ section \in Section /\ file \in [Section -> [Key -> STRING \cup {Absent}]]
  /\ values \in Seq(Value) /\ Len(values) = fetches
  /\ start.retrieved \in [Providers -> BOOLEAN]
  /\ start.filename \in Home \cup {Empty} /\ start.profile \in Section
  /\ calm \in BOOLEAN /\ changes \in Nat

(* What the first n lines of an INI file say: the last header before names *)
(* the section, and the last assignment to a key in a section counts.      *)
SectionAt(t, n) ==
  LET above == {i \in 1..n : t[i].shape = "header"} IN
  IF above = {} THEN Empty ELSE t[Max(above)].name
ValueAt(t, n, s, k) ==
  LET given == {i \in 1..n : /\ t[i].shape \in {"assign", "both"}
                             /\ t[i].key = k /\ SectionAt(t, i) = s} IN
  IF given = {} THEN Absent ELSE t[Max(given)].value

(* parseFile carries the section from header to assignment: at every line  *)
(* its File holds just what the lines before say, a section that is opened *)
(* again and a key assigned again included, and [a=b] opens no section.    *)
ParserRight ==
  stage = "parse" =>
    /\ section = SectionAt(text, line - 1)
    /\ \A s \in Section, k \in Key : file[s][k] = ValueAt(text, line - 1, s, k)

(* What each provider has to offer as things stand, Absent if nothing.     *)
FirstSet(names) ==
  LET given == {i \in DOMAIN names : env[names[i]] # Empty} IN
  IF given = {} THEN Empty ELSE env[names[Min(given)]]
InFile(t, p) ==
  IF \/ t = Missing
     \/ \E i \in DOMAIN t : t[i].shape = "bad"
     \/ \E k \in {"access_key", "secret_key"} : ValueAt(t, Len(t), p, k) = Absent
  THEN Absent
  ELSE <<ValueAt(t, Len(t), p, "access_key"), ValueAt(t, Len(t), p, "secret_key")>>
Pair(i, s) == IF i = Empty \/ s = Empty THEN Absent ELSE <<i, s>>
Offer(p) ==
  CASE p = "env" -> Pair(FirstSet(IdVars), FirstSet(SecretVars))
    [] p = "static" -> Pair(static.id, static.secret)
    [] p = "shared" ->
         LET f == FileFrom(start.filename, env) IN
         IF f = Empty THEN Absent ELSE InFile(disk[f], ProfileFrom(start.profile, env))

Able == {i \in DOMAIN Provider : Offer(Provider[i]) # Absent}

GivesOffer(i) ==
  /\ Len(values') = Len(values) + 1
  /\ LET v == values'[Len(values')] IN
     v.from = Provider[i] /\ <<v.id, v.secret>> = Offer(Provider[i])

(* A Get that nothing has disturbed returns what the first provider of the *)
(* chain that has anything offers, and fails only if none has: nothing is  *)
(* left over from an earlier Get, a broken file or a half-set environment. *)
FetchRight ==
  [][m # NoOne /\ m' = NoOne /\ calm =>
       IF Able = {} THEN values' = values ELSE GivesOffer(Min(Able))]_vars

(* Whatever changes in between, all values of the shared provider are of   *)
(* one profile in the file of one name, the first it derived: a Get never  *)
(* turns to another file or profile.  (What the file says may be replaced.)*)
OneProfile ==
  \A i, j \in DOMAIN values :
    values[i].from = "shared" /\ values[j].from = "shared" =>
      values[i].file = values[j].file /\ values[i].profile = values[j].profile

(* Seen from outside the mutex, the walk along the chain is the one step   *)
(* that Credentials takes it for, and every Get comes back.                *)
Cred == INSTANCE Credentials
          WITH retrieved <- IF m = NoOne THEN retrieved ELSE start.retrieved
CredSafety == Cred!CredInit /\ [][Cred!CredNext(User)]_(Cred!credVars)
GetReturns == \A u \in User : m = u ~> m # u
ImplementsCredentials == CredSafety /\ GetReturns
=============================================================================
