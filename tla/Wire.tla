-------------------------------- MODULE Wire --------------------------------
(***************************************************************************)
(* What a Request puts on the wire: the requests of module Request, each   *)
(* of a service that klog.New made from the caller's Config, with the body *)
(* and the headers its Build and Sign handlers leave in HTTPRequest        *)
(* (service.go, handler_functions.go, internal/signer/v2.go).  Every       *)
(* action is one of Request together with what it does to the headers.     *)
(***************************************************************************)
EXTENDS Request

CONSTANT Given        \* the Config each caller's service was made with

INSTANCE ClientConfig

Settings == [c \in Caller |-> Merge(DefaultConfig, Given[c])]

ASSUME GivenAssumption == Given \in [Caller -> Config \cup {Nil}]
ASSUME SettingsAssumption ==
  /\ NoEndpoint = {c \in Caller : Settings[c].Endpoint = NoHost}
  /\ Anonymous = {c \in Caller : Settings[c].Credentials = "Anonymous"}
  /\ ConfigMaxRetries = [c \in Caller |-> Settings[c].MaxRetries]

(* A length is that of the part of a content that has not been read.       *)
Content == {"data", "lz4"}
Length == [of : Content, left : 0..BodyLen]
Signature == [md5 : Content \cup {Nil}, type : {Nil, "protobuf"},
              compress : {Nil, "lz4"}]
HTTPRequest ==
  [Body : Content, ContentType : {Nil, "protobuf"}, ContentMD5 : Content \cup {Nil},
   CompressType : {Nil, "lz4"}, ContentLength : Length \cup {Nil},
   Authorization : Signature \cup {Nil}]
Transmission ==
  [request : HTTPRequest, body : Content \cup {"NoBody"}, scheme : {"http", "https"}]

ASSUME UnsetAssumption ==
  Nil \notin Content \cup Length \cup Signature
            \cup {"protobuf", "other", "Anonymous", "http", "https"}

VARIABLES
  http,       \* Request.HTTPRequest and what its Body holds
  sent        \* history: what each attempt transmitted

wireVars == <<vars, http, sent>>

(* NewRequest: the body is the marshalled group, and there is no header.   *)
WireInit ==
  /\ Init
  /\ http = [c \in Caller |->
       [Body |-> "data", ContentType |-> Nil, ContentMD5 |-> Nil,
        CompressType |-> Nil, ContentLength |-> Nil, Authorization |-> Nil]]
  /\ sent = [c \in Caller |-> <<>>]

-----------------------------------------------------------------------------
(* The Build handlers, in the order Initialize installs them.              *)
CommonHeader(h) == [h EXCEPT !.ContentType = "protobuf"]
CompressLz4(c, h) ==
  IF Compresses(Settings[c])
  THEN [h EXCEPT !.Body = "lz4", !.CompressType = "lz4"] ELSE h
ContentMD5(c, h) ==
  IF Checksums(Settings[c]) THEN [h EXCEPT !.ContentMD5 = h.Body] ELSE h

RunBuildReordered(c, h) ==                  \* mutant: the checksum comes first
  CompressLz4(c, ContentMD5(c, CommonHeader(h)))
RunBuild(c, h) == ContentMD5(c, CompressLz4(c, CommonHeader(h)))

(* The first Sign handler: a length that is set is kept, since on a retry  *)
(* the body has been read and is rewound only after the Sign handlers.     *)
BuildContentLengthAnew(c, h) ==             \* mutant: no look at the header
  [h EXCEPT !.ContentLength = [of |-> h.Body, left |-> BodyLen - body[c]]]
BuildContentLength(c, h) ==
  IF h.ContentLength # Nil THEN h
  ELSE [h EXCEPT !.ContentLength = [of |-> h.Body, left |-> BodyLen - body[c]]]

(* The second, v2.Sign: what the string to sign is made of.                *)
StringToSignNoMD5(h) ==                     \* mutant: Header["Content-MD5"]
  [md5 |-> Nil, type |-> h.ContentType, compress |-> h.CompressType]
StringToSign(h) ==
  [md5 |-> h.ContentMD5, type |-> h.ContentType, compress |-> h.CompressType]
Sign(h) == [h EXCEPT !.Authorization = StringToSign(h)]

(* SendHandler: a request of length 0 has no body.                         *)
Transmit(c) ==
  [request |-> http[c],
   body |-> IF http[c].ContentLength.left <= 0 THEN "NoBody" ELSE http[c].Body,
   scheme |-> ServiceEndpoint(Settings[c]).scheme]

-----------------------------------------------------------------------------
Becomes(c, h) == http' = [http EXCEPT ![c] = h] /\ UNCHANGED sent
Keeps == UNCHANGED <<http, sent>>

WireStep(c) ==
  \/ Build(c) /\ Becomes(c, IF built[c] \/ c \in NoEndpoint THEN http[c]
                            ELSE RunBuild(c, http[c]))
  \/ SignSkips(c) /\ Becomes(c, BuildContentLength(c, http[c]))
  \/ SignsCached(c) /\ Becomes(c, Sign(BuildContentLength(c, http[c])))
  \/ SignWaits(c) /\ Becomes(c, BuildContentLength(c, http[c]))
  \/ SignsFresh(c) /\ Becomes(c, Sign(http[c]))
  \/ SignFails(c) /\ Keeps
  \/ /\ \E r \in Reply, to \in 0..BodyLen : Send(c, r, to)
     /\ sent' = [sent EXCEPT ![c] = Append(@, Transmit(c))]
     /\ UNCHANGED http
  \/ (GivesUp(c) \/ Retries(c)) /\ Keeps

WireNext == \E c \in Caller : WireStep(c)
WireSpec == WireInit /\ [][WireNext]_wireVars /\ WF_wireVars(WireNext)

-----------------------------------------------------------------------------
(* The type of the state, with that of Request.                            *)
WireTypeOK ==
  /\ TypeOK
  /\ http \in [Caller -> HTTPRequest]
  /\ sent \in [Caller -> Seq(Transmission)]

(* Each attempt, also a retry, announces the length and the checksum of    *)
(* the body it transmits, and a compression exactly if it is compressed:   *)
(* the Build handlers run in the right order, and a retry that has not     *)
(* rewound its body yet does not measure it again.                         *)
FramedAsSent ==
  \A c \in Caller : \A i \in DOMAIN sent[c] :
    LET t == sent[c][i] IN
    /\ t.body = t.request.Body
    /\ t.request.ContentLength = [of |-> t.body, left |-> BodyLen]
    /\ t.request.ContentMD5 \in {Nil, t.body}
    /\ t.request.CompressType = "lz4" <=> t.body = "lz4"

(* Each attempt that must be signed is, and the signature covers the       *)
(* checksum and the headers that go out with it, also on a retry.          *)
SignedAsSent ==
  \A c \in Caller : \A i \in DOMAIN sent[c] :
    LET h == sent[c][i].request IN
    IF c \in Anonymous THEN h.Authorization = Nil
    ELSE h.Authorization =
           [md5 |-> h.ContentMD5, type |-> h.ContentType, compress |-> h.CompressType]

(* The wire shows the Config the service was made with, through Merge,     *)
(* Initialize and the handlers: compression unless another method is       *)
(* named, a checksum unless it is disabled, plain HTTP unless the endpoint *)
(* names a scheme, and no more retries than were asked for, be it 0.       *)
ConfigHonoured ==
  \A c \in Caller : Given[c] # Nil => \A i \in DOMAIN sent[c] :
    LET t == sent[c][i] IN
    /\ t.body = "lz4" <=> Given[c].CompressMethod \in {Nil, "lz4"}
    /\ t.request.ContentMD5 = Nil <=> Given[c].DisableComputeChecksums
    /\ t.scheme = "https" <=> Given[c].Endpoint.scheme = "https"
    /\ Given[c].MaxRetries >= 0 => i <= Given[c].MaxRetries + 1
    /\ t.request.Authorization = Nil <=> Given[c].Credentials = "Anonymous"
=============================================================================
