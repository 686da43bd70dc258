----------------------------- MODULE WireProofs -----------------------------
(***************************************************************************)
(* Proofs about Wire: every attempt of every request, retries included,    *)
(* goes out with the length, the checksum and the signature of what it     *)
(* carries, whatever the Config.  Each step of Wire is one of Request, so  *)
(* that the invariant of RequestProofs holds here as well.                 *)
(***************************************************************************)
EXTENDS Wire, RequestProofs

ContentOf(c) == IF Compresses(Settings[c]) THEN "lz4" ELSE "data"
ChecksumOf(c) == IF Checksums(Settings[c]) THEN ContentOf(c) ELSE Nil
FullLength(c) == [of |-> ContentOf(c), left |-> BodyLen]

(* Until it is built, a request has its data and no header; afterwards the *)
(* headers that belong to its body.                                        *)
Plain(h) ==
  /\ h.Body = "data" /\ h.ContentType = Nil /\ h.ContentMD5 = Nil
  /\ h.CompressType = Nil /\ h.ContentLength = Nil /\ h.Authorization = Nil

Framed(c, h) ==
  /\ h.Body = ContentOf(c) /\ h.ContentType = "protobuf"
  /\ h.ContentMD5 = ChecksumOf(c)
  /\ h.CompressType = IF Compresses(Settings[c]) THEN "lz4" ELSE Nil

(* The length is measured before anything of the body has been read.       *)
Measured(c) ==
  /\ http[c].ContentLength \in {Nil, FullLength(c)}
  /\ http[c].ContentLength = Nil => body[c] = 0
  /\ pc[c] \in {"get", "send"} => http[c].ContentLength # Nil

(* There is a signature exactly if there are credentials it was made with. *)
SignedOnce(c) ==
  /\ http[c].Authorization # Nil => http[c].Authorization = StringToSign(http[c])
  /\ http[c].Authorization = Nil <=> auth[c] = 0
  /\ c \in Anonymous => auth[c] = 0

WellSent(c, t) ==
  /\ t.body = ContentOf(c) /\ t.scheme = ServiceEndpoint(Settings[c]).scheme
  /\ Framed(c, t.request)
  /\ t.request.ContentLength = FullLength(c)
  /\ t.request.Authorization =
       IF c \in Anonymous THEN Nil ELSE StringToSign(t.request)

HeadersInv(c) ==
  /\ IF built[c] THEN Framed(c, http[c]) /\ c \notin NoEndpoint ELSE Plain(http[c])
  /\ Measured(c) /\ SignedOnce(c)

SentInv(c) ==
  /\ Len(sent[c]) = Len(attempts[c])
  /\ \A i \in DOMAIN sent[c] : WellSent(c, sent[c][i])

HeaderTypeOK ==
  /\ http \in [Caller -> HTTPRequest]
  /\ sent \in [Caller -> Seq(Transmission)]

WInv == IInv /\ HeaderTypeOK /\ \A c \in Caller : HeadersInv(c) /\ SentInv(c)

-----------------------------------------------------------------------------
(* What Merge makes of any Config is a Config, but its fields are set.     *)
LEMMA SettingsType ==
  ASSUME NEW c \in Caller
  PROVE  /\ Settings[c].CompressMethod \in {"lz4", "other"}
         /\ Settings[c].DisableComputeChecksums \in BOOLEAN
         /\ Settings[c].DisableSSL \in BOOLEAN
         /\ Settings[c].Endpoint \in Endpoint
<1> DEFINE s == Settings[c]
           g == Given[c]
<1>1. s = Merge(DefaultConfig, g) /\ g \in Config \cup {Nil}
  BY GivenAssumption DEF Settings
<1>2. CASE g = Nil
  BY <1>1, <1>2 DEF Merge, DefaultConfig, Endpoint, NoHost
<1>3. CASE g # Nil
  <2>1. g \in Config /\ s = [f \in DOMAIN DefaultConfig |->
     CASE f = "Debug" -> g[f]
       [] f = "MaxRetries" -> Unless(g[f], DefaultRetries, DefaultConfig[f])
       [] f \in {"DisableSSL", "DisableComputeChecksums"} -> g[f] \/ DefaultConfig[f]
       [] f = "Endpoint" -> Unless(g[f], NoHost, DefaultConfig[f])
       [] OTHER -> Unless(g[f], Nil, DefaultConfig[f])]
    BY <1>1, <1>3 DEF Merge
  <2>2. s.CompressMethod = Unless(g.CompressMethod, Nil, "lz4")
    BY <2>1 DEF DefaultConfig
  <2>3. s.DisableComputeChecksums = (g.DisableComputeChecksums \/ FALSE)
    BY <2>1 DEF DefaultConfig
  <2>4. s.DisableSSL = (g.DisableSSL \/ TRUE)
    BY <2>1 DEF DefaultConfig
  <2>5. s.Endpoint = Unless(g.Endpoint, NoHost, NoHost)
    BY <2>1 DEF DefaultConfig
  <2>6. /\ g.CompressMethod \in {Nil, "lz4", "other"} /\ g.Endpoint \in Endpoint
        /\ g.DisableComputeChecksums \in BOOLEAN
    BY <2>1 DEF Config
  <2> QED
    BY <2>2, <2>3, <2>4, <2>5, <2>6 DEF Unless, Endpoint, NoHost
<1> QED
  BY <1>2, <1>3

LEMMA RunBuildFrames ==
  ASSUME NEW c \in Caller, NEW h \in HTTPRequest, Plain(h)
  PROVE  /\ RunBuild(c, h) \in HTTPRequest /\ Framed(c, RunBuild(c, h))
         /\ RunBuild(c, h).ContentLength = Nil /\ RunBuild(c, h).Authorization = Nil
<1> DEFINE h1 == CommonHeader(h)
           h2 == CompressLz4(c, h1)
           h3 == ContentMD5(c, h2)
<1>1. /\ h1 \in HTTPRequest /\ h1.Body = "data" /\ h1.ContentType = "protobuf"
      /\ h1.ContentMD5 = Nil /\ h1.CompressType = Nil
      /\ h1.ContentLength = Nil /\ h1.Authorization = Nil
  BY DEF CommonHeader, Plain, HTTPRequest
<1> HIDE DEF h1
<1>2. /\ h2 \in HTTPRequest /\ h2.Body = ContentOf(c) /\ h2.ContentType = "protobuf"
      /\ h2.CompressType = IF Compresses(Settings[c]) THEN "lz4" ELSE Nil
      /\ h2.ContentMD5 = Nil /\ h2.ContentLength = Nil /\ h2.Authorization = Nil
  BY <1>1 DEF CompressLz4, ContentOf, HTTPRequest, Content
<1> HIDE DEF h2
<1>3. /\ h3 \in HTTPRequest /\ Framed(c, h3)
      /\ h3.ContentLength = Nil /\ h3.Authorization = Nil
  BY <1>2 DEF ContentMD5, ChecksumOf, Framed, HTTPRequest
<1> QED
  BY <1>3 DEF RunBuild, h1, h2

LEMMA LengthType == ASSUME NEW c \in Caller PROVE FullLength(c) \in Length
  BY BodyAssumption DEF FullLength, ContentOf, Length, Content

(* The length that is set first is the whole one, and then stays.          *)
LEMMA LengthIsSet ==
  ASSUME NEW c \in Caller, http[c] \in HTTPRequest, Framed(c, http[c]),
         http[c].ContentLength \in {Nil, FullLength(c)},
         http[c].ContentLength = Nil => body[c] = 0
  PROVE  BuildContentLength(c, http[c]) =
           [http[c] EXCEPT !.ContentLength = FullLength(c)]
<1>1. CASE http[c].ContentLength # Nil
  BY <1>1 DEF BuildContentLength, HTTPRequest
<1>2. CASE http[c].ContentLength = Nil
  BY <1>2, BodyAssumption DEF BuildContentLength, FullLength, Framed
<1> QED
  BY <1>1, <1>2

LEMMA LengthStays ==
  ASSUME NEW c \in Caller, NEW h \in HTTPRequest, Framed(c, h), NEW g,
         g = [h EXCEPT !.ContentLength = FullLength(c)]
  PROVE  /\ g \in HTTPRequest /\ Framed(c, g) /\ g.ContentLength = FullLength(c)
         /\ g.Authorization = h.Authorization /\ StringToSign(g) = StringToSign(h)
<1>1. FullLength(c) \in Length
  BY LengthType
<1> QED
  BY <1>1 DEF HTTPRequest, Framed, StringToSign

LEMMA SignatureCovers ==
  ASSUME NEW c \in Caller, NEW h \in HTTPRequest, Framed(c, h)
  PROVE  /\ Sign(h) \in HTTPRequest /\ Framed(c, Sign(h))
         /\ Sign(h).ContentLength = h.ContentLength
         /\ Sign(h).Authorization = StringToSign(Sign(h)) /\ Sign(h).Authorization # Nil
<1>1. StringToSign(h) \in Signature
  BY DEF StringToSign, HTTPRequest, Signature
<1>2. Sign(h) = [h EXCEPT !.Authorization = StringToSign(h)]
  BY DEF Sign
<1>3. Sign(h) \in HTTPRequest /\ Framed(c, Sign(h)) /\ Sign(h).ContentLength = h.ContentLength
  BY <1>1, <1>2 DEF HTTPRequest, Framed
<1>4. Sign(h).Authorization = StringToSign(h) /\ StringToSign(Sign(h)) = StringToSign(h)
  BY <1>2 DEF HTTPRequest, StringToSign
<1> QED
  BY <1>1, <1>3, <1>4, UnsetAssumption

LEMMA SchemeType ==
  ASSUME NEW c \in Caller, c \notin NoEndpoint
  PROVE  ServiceEndpoint(Settings[c]).scheme \in {"http", "https"}
<1> DEFINE e == Settings[c].Endpoint
<1>1. e \in Endpoint /\ Settings[c].DisableSSL \in BOOLEAN
  BY SettingsType
<1>2. e # NoHost
  BY SettingsAssumption
<1>3. CASE e.scheme # Nil
  BY <1>1, <1>2, <1>3 DEF ServiceEndpoint, Endpoint
<1>4. CASE e.scheme = Nil
  <2>1. [e EXCEPT !.scheme = "http"].scheme = "http"
        /\ [e EXCEPT !.scheme = "https"].scheme = "https"
    BY <1>1 DEF Endpoint
  <2> QED
    BY <1>1, <1>2, <1>4, <2>1 DEF ServiceEndpoint
<1> QED
  BY <1>3, <1>4

LEMMA WireInitInv == WireInit => WInv
<1> SUFFICES ASSUME WireInit PROVE WInv
  OBVIOUS
<1>1. IInv
  BY InitInv DEF WireInit
<1>2. \A c \in Caller : http[c] \in HTTPRequest /\ Plain(http[c])
  BY DEF WireInit, HTTPRequest, Content, Plain
<1>3. HeaderTypeOK
  BY <1>2 DEF WireInit, HeaderTypeOK
<1>4. ASSUME NEW c \in Caller PROVE HeadersInv(c) /\ SentInv(c)
  <2>1. /\ pc[c] = "build" /\ ~built[c] /\ auth[c] = 0 /\ body[c] = 0
        /\ attempts[c] = <<>> /\ sent[c] = <<>>
    BY DEF WireInit, Init
  <2> QED
    BY <1>2, <2>1 DEF HeadersInv, Measured, SignedOnce, SentInv, Plain
<1> QED
  BY <1>1, <1>3, <1>4 DEF WInv

-----------------------------------------------------------------------------
(* One step of Wire for caller c: what Request says of it is in its proofs.*)
LEMMA BuildHeaders ==
  ASSUME WInv, NEW c \in Caller, Build(c),
         Becomes(c, IF built[c] \/ c \in NoEndpoint THEN http[c]
                    ELSE RunBuild(c, http[c]))
  PROVE  HeaderTypeOK' /\ HeadersInv(c)' /\ SentInv(c)'
<1> DEFINE h == IF built[c] \/ c \in NoEndpoint THEN http[c] ELSE RunBuild(c, http[c])
<1>1. /\ HeaderTypeOK /\ HeadersInv(c) /\ SentInv(c) /\ ReqTypeOK
      /\ http[c] \in HTTPRequest
  BY DEF WInv, IInv, TypeOK, HeaderTypeOK
<1>2. CASE built[c]
  <2>1. h = http[c]
    BY <1>2
  <2>2. http' = http /\ sent' = sent
    BY <1>1, <2>1 DEF Becomes, HeaderTypeOK
  <2>3. UNCHANGED <<built[c], auth, body, attempts>> /\ pc'[c] = "sign"
    BY <1>1, <1>2 DEF Build, Goto, ReqTypeOK
  <2> QED
    BY <1>1, <2>2, <2>3 DEF HeaderTypeOK, HeadersInv, SentInv, Measured, SignedOnce
<1>3. CASE ~built[c] /\ c \in NoEndpoint
  <2>1. h = http[c]
    BY <1>3
  <2>2. http' = http /\ sent' = sent
    BY <1>1, <2>1 DEF Becomes, HeaderTypeOK
  <2>3. UNCHANGED <<built, auth, body, attempts>> /\ pc'[c] = "done"
    BY <1>1, <1>3 DEF Build, Fail, Goto, ReqTypeOK
  <2> QED
    BY <1>1, <2>2, <2>3 DEF HeaderTypeOK, HeadersInv, SentInv, Measured, SignedOnce
<1>4. CASE ~built[c] /\ c \notin NoEndpoint
  <2>1. Plain(http[c])
    BY <1>1, <1>4 DEF HeadersInv
  <2>2. h = RunBuild(c, http[c])
    BY <1>4
  <2>3. /\ h \in HTTPRequest /\ Framed(c, h)
        /\ h.ContentLength = Nil /\ h.Authorization = Nil
    BY <1>1, <2>1, <2>2, RunBuildFrames
  <2> HIDE DEF h
  <2>4. http' = [http EXCEPT ![c] = h] /\ sent' = sent
    BY DEF Becomes, h
  <2>5. http'[c] = h /\ HeaderTypeOK'
    BY <1>1, <2>3, <2>4 DEF HeaderTypeOK
  <2>6. UNCHANGED <<auth, body, attempts>> /\ pc'[c] = "sign" /\ built'[c]
    BY <1>1, <1>4 DEF Build, Goto, ReqTypeOK
  <2>7. http[c].ContentLength = Nil /\ http[c].Authorization = Nil
    BY <2>1 DEF Plain
  <2> QED
    BY <1>1, <1>4, <2>3, <2>4, <2>5, <2>6, <2>7
    DEF HeadersInv, SentInv, Measured, SignedOnce
<1> QED
  BY <1>2, <1>3, <1>4

(* A Sign handler runs on a built request; the length is the whole one.    *)
LEMMA SignHeaders ==
  ASSUME WInv, NEW c \in Caller, pc[c] = "sign",
         pc'[c] \in {"get", "send"}, UNCHANGED <<built, body, attempts, sent>>,
         \/ /\ http' = [http EXCEPT ![c] = BuildContentLength(c, http[c])]
            /\ auth' = auth
         \/ /\ http' = [http EXCEPT ![c] = Sign(BuildContentLength(c, http[c]))]
            /\ Signs(c) /\ auth'[c] # 0
  PROVE  HeaderTypeOK' /\ HeadersInv(c)' /\ SentInv(c)'
<1> DEFINE g == BuildContentLength(c, http[c])
<1>1. /\ HeaderTypeOK /\ HeadersInv(c) /\ SentInv(c) /\ http[c] \in HTTPRequest
  BY DEF WInv, HeaderTypeOK
<1>2. built[c] /\ Framed(c, http[c]) /\ c \notin NoEndpoint
  BY <1>1 DEF WInv, IInv, CallerInv, FirstRound, HeadersInv
<1>3. g = [http[c] EXCEPT !.ContentLength = FullLength(c)]
  BY <1>1, <1>2, LengthIsSet DEF HeadersInv, Measured
<1>4. /\ g \in HTTPRequest /\ Framed(c, g) /\ g.ContentLength = FullLength(c)
      /\ g.Authorization = http[c].Authorization /\ StringToSign(g) = StringToSign(http[c])
  BY <1>1, <1>2, <1>3, LengthStays
<1> HIDE DEF g
<1>5. FullLength(c) # Nil
  BY LengthType, UnsetAssumption
<1>6. CASE http' = [http EXCEPT ![c] = g] /\ auth' = auth
  <2>1. http'[c] = g /\ HeaderTypeOK'
    BY <1>1, <1>4, <1>6 DEF HeaderTypeOK
  <2> QED
    BY <1>1, <1>2, <1>4, <1>5, <1>6, <2>1 DEF HeadersInv, SentInv, Measured, SignedOnce
<1>7. CASE http' = [http EXCEPT ![c] = Sign(g)] /\ Signs(c) /\ auth'[c] # 0
  <2>1. /\ Sign(g) \in HTTPRequest /\ Framed(c, Sign(g))
        /\ Sign(g).ContentLength = g.ContentLength
        /\ Sign(g).Authorization = StringToSign(Sign(g)) /\ Sign(g).Authorization # Nil
    BY <1>4, SignatureCovers
  <2>2. http'[c] = Sign(g) /\ HeaderTypeOK'
    BY <1>1, <1>7, <2>1 DEF HeaderTypeOK
  <2> QED
    BY <1>1, <1>2, <1>4, <1>5, <1>7, <2>1, <2>2
    DEF HeadersInv, SentInv, Measured, SignedOnce, Signs
<1> QED
  BY <1>6, <1>7 DEF g

LEMMA FreshHeaders ==
  ASSUME WInv, NEW c \in Caller, SignsFresh(c), Becomes(c, Sign(http[c]))
  PROVE  HeaderTypeOK' /\ HeadersInv(c)' /\ SentInv(c)'
<1>1. /\ HeaderTypeOK /\ HeadersInv(c) /\ SentInv(c) /\ http[c] \in HTTPRequest
      /\ ReqTypeOK /\ fetches \in Nat
  BY DEF WInv, HeaderTypeOK, IInv, TypeOK, CredTypeOK
<1>2. pc[c] = "get" /\ built[c] /\ Framed(c, http[c]) /\ c \notin NoEndpoint /\ Signs(c)
  BY <1>1 DEF WInv, IInv, CallerInv, FirstRound, HeadersInv, SignsFresh
<1>3. /\ Sign(http[c]) \in HTTPRequest /\ Framed(c, Sign(http[c]))
      /\ Sign(http[c]).ContentLength = http[c].ContentLength
      /\ Sign(http[c]).Authorization = StringToSign(Sign(http[c]))
      /\ Sign(http[c]).Authorization # Nil
  BY <1>1, <1>2, SignatureCovers
<1>4. http' = [http EXCEPT ![c] = Sign(http[c])] /\ sent' = sent
  BY DEF Becomes
<1>5. http'[c] = Sign(http[c]) /\ HeaderTypeOK'
  BY <1>1, <1>3, <1>4 DEF HeaderTypeOK
<1>6. /\ UNCHANGED <<built, body, attempts>> /\ pc'[c] = "send"
      /\ auth'[c] = fetches + 1
  BY <1>1 DEF SignsFresh, SignWith, Goto, GetFetches, ReqTypeOK
<1>7. auth'[c] # 0
  BY <1>1, <1>6
<1> QED
  BY <1>1, <1>2, <1>3, <1>4, <1>5, <1>6, <1>7
  DEF HeadersInv, SentInv, Measured, SignedOnce, Signs

LEMMA SendHeaders ==
  ASSUME WInv, NEW c \in Caller, NEW r \in Reply, NEW to \in 0..BodyLen, Send(c, r, to),
         sent' = [sent EXCEPT ![c] = Append(@, Transmit(c))], UNCHANGED http
  PROVE  HeaderTypeOK' /\ HeadersInv(c)' /\ SentInv(c)'
<1> DEFINE t == Transmit(c)
<1>1. /\ HeaderTypeOK /\ HeadersInv(c) /\ SentInv(c) /\ ReqTypeOK
      /\ http[c] \in HTTPRequest /\ sent[c] \in Seq(Transmission)
      /\ attempts[c] \in Seq(Attempt)
  BY DEF WInv, HeaderTypeOK, IInv, TypeOK, ReqTypeOK
<1>2. /\ pc[c] = "send" /\ built[c] /\ Framed(c, http[c]) /\ c \notin NoEndpoint
      /\ ~Signs(c)
  BY <1>1 DEF WInv, IInv, CallerInv, FirstRound, HeadersInv, Send
<1>3. /\ http[c].ContentLength = FullLength(c) /\ http[c].ContentLength # Nil
      /\ ~(http[c].ContentLength.left <= 0)
  BY <1>1, <1>2, BodyAssumption DEF HeadersInv, Measured, FullLength
<1>4. http[c].Authorization =
        IF c \in Anonymous THEN Nil ELSE StringToSign(http[c])
  BY <1>1, <1>2 DEF HeadersInv, SignedOnce, Signs
<1>5. t.request = http[c] /\ t.body = http[c].Body
      /\ t.scheme = ServiceEndpoint(Settings[c]).scheme
  BY <1>3 DEF Transmit
<1>6. t \in Transmission
  <2>1. t = [request |-> http[c], body |-> http[c].Body,
             scheme |-> ServiceEndpoint(Settings[c]).scheme]
    BY <1>3 DEF Transmit
  <2>2. http[c].Body \in Content
    BY <1>1 DEF HTTPRequest
  <2> QED
    BY <1>1, <1>2, <2>1, <2>2, SchemeType DEF Transmission
<1>7. WellSent(c, t)
  BY <1>2, <1>3, <1>4, <1>5 DEF WellSent, Framed
<1> HIDE DEF t
<1>8. sent' = [sent EXCEPT ![c] = Append(sent[c], t)] /\ sent'[c] = Append(sent[c], t)
  BY <1>1 DEF HeaderTypeOK, t
<1>9. HeaderTypeOK'
  BY <1>1, <1>6, <1>8 DEF HeaderTypeOK
<1>10. \E a : attempts'[c] = Append(attempts[c], a)
  BY <1>1 DEF Send, ReqTypeOK
<1>11. SentInv(c)'
  <2>1. Len(sent'[c]) = Len(attempts'[c])
    BY <1>1, <1>8, <1>10 DEF SentInv
  <2>2. \A i \in DOMAIN sent'[c] : WellSent(c, sent'[c][i])
    BY <1>1, <1>6, <1>7, <1>8 DEF SentInv
  <2> QED
    BY <2>1, <2>2 DEF SentInv, WellSent, Framed
<1>12. UNCHANGED <<built, auth>> /\ pc'[c] \in {"done", "after"}
  BY <1>1 DEF Send, Goto, ReqTypeOK
<1>13. HeadersInv(c)'
  BY <1>1, <1>2, <1>3, <1>12 DEF HeadersInv, Measured, SignedOnce
<1> QED
  BY <1>9, <1>11, <1>13

LEMMA OtherHeaders ==
  ASSUME WInv, NEW d \in Caller,
         UNCHANGED <<pc[d], built[d], auth[d], body[d], attempts[d], http[d], sent[d]>>
  PROVE  HeadersInv(d)' /\ SentInv(d)'
<1>1. HeadersInv(d) /\ SentInv(d)
  BY DEF WInv
<1> QED
  BY <1>1 DEF HeadersInv, SentInv, Measured, SignedOnce

LEMMA CallerHeaders ==
  ASSUME WInv, NEW c \in Caller, WireStep(c)
  PROVE  HeaderTypeOK' /\ HeadersInv(c)' /\ SentInv(c)'
<1>1. ReqTypeOK /\ HeaderTypeOK /\ HeadersInv(c) /\ SentInv(c) /\ CredInv
  BY DEF WInv, IInv, TypeOK
<1>2. CASE Build(c) /\ Becomes(c, IF built[c] \/ c \in NoEndpoint THEN http[c]
                                 ELSE RunBuild(c, http[c]))
  BY <1>2, BuildHeaders
<1>3. CASE SignSkips(c) /\ Becomes(c, BuildContentLength(c, http[c]))
  <2>1. pc[c] = "sign" /\ pc'[c] = "send" /\ UNCHANGED <<built, body, attempts, auth>>
    BY <1>1, <1>3 DEF SignSkips, Goto, ReqTypeOK
  <2> QED
    BY <1>3, <2>1, SignHeaders DEF Becomes
<1>4. CASE SignsCached(c) /\ Becomes(c, Sign(BuildContentLength(c, http[c])))
  <2>1. /\ pc[c] = "sign" /\ pc'[c] = "send" /\ UNCHANGED <<built, body, attempts>>
        /\ Signs(c) /\ auth'[c] = creds
    BY <1>1, <1>4 DEF SignsCached, SignWith, Goto, ReqTypeOK
  <2>2. creds # 0
    BY <1>1, <1>4 DEF SignsCached, GetCached, IsExpired, CredInv
  <2> QED
    BY <1>4, <2>1, <2>2, SignHeaders DEF Becomes
<1>5. CASE SignWaits(c) /\ Becomes(c, BuildContentLength(c, http[c]))
  <2>1. pc[c] = "sign" /\ pc'[c] = "get" /\ UNCHANGED <<built, body, attempts, auth>>
    BY <1>1, <1>5 DEF SignWaits, Goto, ReqTypeOK
  <2> QED
    BY <1>5, <2>1, SignHeaders DEF Becomes
<1>6. CASE SignsFresh(c) /\ Becomes(c, Sign(http[c]))
  BY <1>6, FreshHeaders
<1>7. CASE SignFails(c) /\ Keeps
  <2>1. pc'[c] = "done" /\ UNCHANGED <<built, auth, body, attempts, http, sent>>
    BY <1>1, <1>7 DEF SignFails, Fail, Goto, Keeps, ReqTypeOK
  <2> QED
    BY <1>1, <2>1 DEF HeaderTypeOK, HeadersInv, SentInv, Measured, SignedOnce
<1>8. CASE /\ \E r \in Reply, to \in 0..BodyLen : Send(c, r, to)
           /\ sent' = [sent EXCEPT ![c] = Append(@, Transmit(c))]
           /\ UNCHANGED http
  BY <1>8, SendHeaders
<1>9. CASE (GivesUp(c) \/ Retries(c)) /\ Keeps
  <2>1. /\ pc'[c] \in {"done", "build"}
        /\ UNCHANGED <<built, auth, body, attempts, http, sent>>
    BY <1>1, <1>9 DEF GivesUp, Retries, Goto, Keeps, ReqTypeOK
  <2> QED
    BY <1>1, <2>1 DEF HeaderTypeOK, HeadersInv, SentInv, Measured, SignedOnce
<1> QED
  BY <1>2, <1>3, <1>4, <1>5, <1>6, <1>7, <1>8, <1>9 DEF WireStep

(* Nothing of another caller changes.                                      *)
LEMMA CallersApart ==
  ASSUME WInv, NEW c \in Caller, WireStep(c), NEW d \in Caller, d # c
  PROVE  UNCHANGED <<pc[d], built[d], auth[d], body[d], attempts[d], http[d], sent[d]>>
<1>1. ReqTypeOK /\ HeaderTypeOK
  BY DEF WInv, IInv, TypeOK
<1>2. Step(c)
  BY DEF WireStep, Step
<1>3. UNCHANGED <<pc[d], built[d], auth[d], body[d], attempts[d]>>
  <2>1. \A l : Goto(c, l) => UNCHANGED pc[d]
    BY <1>1 DEF ReqTypeOK, Goto
  <2>2. /\ DOMAIN built = Caller /\ DOMAIN auth = Caller /\ DOMAIN body = Caller
        /\ DOMAIN attempts = Caller
    BY <1>1 DEF ReqTypeOK
  <2>3. UNCHANGED pc[d]
    BY <1>2, <2>1 DEF Step, Build, SignSkips, SignsCached, SignWaits, SignsFresh,
         SignFails, SignWith, Send, GivesUp, Retries, Fail
  <2>4. UNCHANGED built[d]
    BY <1>2, <2>2 DEF Step, Build, SignSkips, SignsCached, SignWaits, SignsFresh,
         SignFails, SignWith, Send, GivesUp, Retries
  <2>5. UNCHANGED auth[d]
    BY <1>2, <2>2 DEF Step, Build, SignSkips, SignsCached, SignWaits, SignsFresh,
         SignFails, SignWith, Send, GivesUp, Retries
  <2>6. UNCHANGED <<body[d], attempts[d]>>
    BY <1>2, <2>2 DEF Step, Build, SignSkips, SignsCached, SignWaits, SignsFresh,
         SignFails, SignWith, Send, GivesUp, Retries
  <2> QED
    BY <2>3, <2>4, <2>5, <2>6
<1>4. UNCHANGED <<http[d], sent[d]>>
  BY <1>1 DEF HeaderTypeOK, WireStep, Becomes, Keeps
<1> QED
  BY <1>3, <1>4

LEMMA WireStepInv == WInv /\ [WireNext]_wireVars => WInv'
<1> SUFFICES ASSUME WInv, [WireNext]_wireVars PROVE WInv'
  OBVIOUS
<1>1. CASE UNCHANGED wireVars
  <2>1. UNCHANGED vars /\ http' = http /\ sent' = sent
    BY <1>1 DEF wireVars
  <2>2. IInv'
    BY <2>1, StutterInv DEF WInv
  <2>3. UNCHANGED <<pc, built, auth, body, attempts>>
    BY <2>1 DEF vars, reqVars
  <2>4. \A d \in Caller : HeadersInv(d)' /\ SentInv(d)'
    BY <2>1, <2>3, OtherHeaders
  <2>5. HeaderTypeOK'
    BY <2>1 DEF WInv, HeaderTypeOK
  <2> QED
    BY <2>2, <2>4, <2>5 DEF WInv
<1>2. ASSUME NEW c \in Caller, WireStep(c) PROVE WInv'
  <2>1. Next
    BY <1>2 DEF WireStep, Step, Next
  <2>2. IInv'
    BY <2>1, StepInv DEF WInv
  <2>3. HeaderTypeOK' /\ HeadersInv(c)' /\ SentInv(c)'
    BY <1>2, CallerHeaders
  <2>4. \A d \in Caller : d # c => HeadersInv(d)' /\ SentInv(d)'
    BY <1>2, CallersApart, OtherHeaders
  <2> QED
    BY <2>2, <2>3, <2>4 DEF WInv
<1> QED
  BY <1>1, <1>2 DEF WireNext

LEMMA WireInvariance == WireSpec => []WInv
<1> QED
  BY WireInitInv, WireStepInv, PTL DEF WireSpec

-----------------------------------------------------------------------------
(* Types, and with them the bound on the retries of a request.             *)
THEOREM WireTypeCorrect == WireSpec => []WireTypeOK
<1>1. WInv => WireTypeOK
  BY DEF WInv, IInv, HeaderTypeOK, WireTypeOK
<1> QED
  BY <1>1, WireInvariance, PTL

(* The length, the checksum and the compression header of every attempt    *)
(* are those of the body it transmits, however often it is repeated.       *)
THEOREM EveryAttemptIsFramed == WireSpec => []FramedAsSent
<1>1. WInv => FramedAsSent
  <2> SUFFICES ASSUME WInv, NEW c \in Caller, NEW i \in DOMAIN sent[c]
               PROVE  LET t == sent[c][i] IN
                      /\ t.body = t.request.Body
                      /\ t.request.ContentLength = [of |-> t.body, left |-> BodyLen]
                      /\ t.request.ContentMD5 \in {Nil, t.body}
                      /\ t.request.CompressType = "lz4" <=> t.body = "lz4"
    BY DEF FramedAsSent
  <2>1. WellSent(c, sent[c][i])
    BY DEF WInv, SentInv
  <2> QED
    BY <2>1, UnsetAssumption
    DEF WellSent, Framed, ContentOf, ChecksumOf, FullLength, Content
<1> QED
  BY <1>1, WireInvariance, PTL

(* Every attempt of a caller that has credentials is signed, over the      *)
(* headers it goes out with.                                               *)
THEOREM EveryAttemptIsSigned == WireSpec => []SignedAsSent
<1>1. WInv => SignedAsSent
  BY DEF WInv, SentInv, WellSent, StringToSign, SignedAsSent
<1> QED
  BY <1>1, WireInvariance, PTL

(* What Merge keeps of a Config that is given, as far as the wire shows it.*)
LEMMA GivenSettings ==
  ASSUME NEW c \in Caller, Given[c] # Nil
  PROVE  /\ Settings[c].Credentials = "Anonymous" <=> Given[c].Credentials = "Anonymous"
         /\ Settings[c].CompressMethod = "lz4" <=> Given[c].CompressMethod \in {Nil, "lz4"}
         /\ Settings[c].DisableComputeChecksums = Given[c].DisableComputeChecksums
         /\ Settings[c].DisableSSL = TRUE
         /\ Settings[c].Endpoint = Given[c].Endpoint /\ Given[c].Endpoint \in Endpoint
         /\ Settings[c].MaxRetries = Given[c].MaxRetries /\ Given[c].MaxRetries \in Int
<1> DEFINE s == Settings[c]
           g == Given[c]
<1>1. g \in Config /\ s = Merge(DefaultConfig, g)
  BY GivenAssumption DEF Settings
<1>2. s = [f \in DOMAIN DefaultConfig |->
     CASE f = "Debug" -> g[f]
       [] f = "MaxRetries" -> Unless(g[f], DefaultRetries, DefaultConfig[f])
       [] f \in {"DisableSSL", "DisableComputeChecksums"} -> g[f] \/ DefaultConfig[f]
       [] f = "Endpoint" -> Unless(g[f], NoHost, DefaultConfig[f])
       [] OTHER -> Unless(g[f], Nil, DefaultConfig[f])]
  BY <1>1 DEF Merge
<1>3. s.Credentials = Unless(g.Credentials, Nil, "DefaultChain")
  BY <1>2 DEF DefaultConfig
<1>4. s.CompressMethod = Unless(g.CompressMethod, Nil, "lz4")
  BY <1>2 DEF DefaultConfig
<1>5. s.DisableComputeChecksums = (g.DisableComputeChecksums \/ FALSE)
  BY <1>2 DEF DefaultConfig
<1>6. s.DisableSSL = (g.DisableSSL \/ TRUE)
  BY <1>2 DEF DefaultConfig
<1>7. s.Endpoint = Unless(g.Endpoint, NoHost, NoHost)
  BY <1>2 DEF DefaultConfig
<1>8. s.MaxRetries = Unless(g.MaxRetries, DefaultRetries, DefaultRetries)
  BY <1>2 DEF DefaultConfig
<1>9. /\ g.CompressMethod \in {Nil, "lz4", "other"} /\ g.Endpoint \in Endpoint
      /\ g.DisableComputeChecksums \in BOOLEAN /\ g.MaxRetries \in Int
  BY <1>1 DEF Config
<1>10. s.DisableComputeChecksums = g.DisableComputeChecksums
  BY <1>5, <1>9
<1> QED
  BY <1>3, <1>4, <1>6, <1>7, <1>8, <1>9, <1>10, UnsetAssumption DEF Unless, Content

LEMMA GivenScheme ==
  ASSUME NEW c \in Caller, Given[c] # Nil
  PROVE  ServiceEndpoint(Settings[c]).scheme = "https" <=> Given[c].Endpoint.scheme = "https"
<1> DEFINE e == Given[c].Endpoint
<1>1. Settings[c].Endpoint = e /\ e \in Endpoint /\ Settings[c].DisableSSL = TRUE
  BY GivenSettings
<1>2. CASE e = NoHost \/ e.scheme # Nil
  BY <1>1, <1>2 DEF ServiceEndpoint
<1>3. CASE e # NoHost /\ e.scheme = Nil
  <2>1. ServiceEndpoint(Settings[c]) = [e EXCEPT !.scheme = "http"]
    BY <1>1, <1>3 DEF ServiceEndpoint
  <2>2. [e EXCEPT !.scheme = "http"].scheme = "http"
    BY <1>1 DEF Endpoint
  <2> QED
    BY <1>3, <2>1, <2>2, UnsetAssumption
<1> QED
  BY <1>2, <1>3

(* Every attempt goes out as the Config that the service was made with     *)
(* asks for, and no request is attempted more often than it allows.        *)
THEOREM ConfigIsHonoured == WireSpec => []ConfigHonoured
<1>1. WInv => ConfigHonoured
  <2> SUFFICES ASSUME WInv, NEW c \in Caller, Given[c] # Nil, NEW i \in DOMAIN sent[c]
               PROVE  LET t == sent[c][i] IN
                      /\ t.body = "lz4" <=> Given[c].CompressMethod \in {Nil, "lz4"}
                      /\ t.request.ContentMD5 = Nil <=> Given[c].DisableComputeChecksums
                      /\ t.scheme = "https" <=> Given[c].Endpoint.scheme = "https"
                      /\ Given[c].MaxRetries >= 0 => i <= Given[c].MaxRetries + 1
                      /\ t.request.Authorization = Nil
                           <=> Given[c].Credentials = "Anonymous"
    BY DEF ConfigHonoured
  <2> DEFINE t == sent[c][i]
  <2>1. /\ WellSent(c, t) /\ IInv /\ t \in Transmission
        /\ Len(sent[c]) = Len(attempts[c]) /\ i \in 1..Len(sent[c])
    BY DEF WInv, SentInv, HeaderTypeOK
  <2>2. t.body = ContentOf(c) /\ t.request.ContentMD5 = ChecksumOf(c)
    BY <2>1 DEF WellSent, Framed
  <2>3. t.body = "lz4" <=> Given[c].CompressMethod \in {Nil, "lz4"}
    BY <2>2, GivenSettings DEF ContentOf, Compresses
  <2>4. t.request.ContentMD5 = Nil <=> Given[c].DisableComputeChecksums
    BY <2>2, GivenSettings, UnsetAssumption, SettingsType
    DEF ContentOf, ChecksumOf, Checksums, Content
  <2>5. t.scheme = "https" <=> Given[c].Endpoint.scheme = "https"
    BY <2>1, GivenScheme DEF WellSent
  <2>6. ASSUME Given[c].MaxRetries >= 0 PROVE i <= Given[c].MaxRetries + 1
    <3>1. MaxRetries(c) = Given[c].MaxRetries
      <4>1. ConfigMaxRetries[c] = Settings[c].MaxRetries
        BY SettingsAssumption
      <4>2. Settings[c].MaxRetries = Given[c].MaxRetries /\ Given[c].MaxRetries \in Int
        BY GivenSettings
      <4>3. ~(ConfigMaxRetries[c] < 0)
        BY <2>6, <4>1, <4>2
      <4> QED
        BY <4>1, <4>2, <4>3 DEF MaxRetries
    <3>2. Len(attempts[c]) <= MaxRetries(c) + 1
      BY <2>1, AttemptsBounded
    <3> QED
      <4>1. Given[c].MaxRetries \in Int
        BY GivenSettings
      <4>2. i <= Len(attempts[c]) /\ i \in Nat /\ Len(attempts[c]) \in Nat
        BY <2>1 DEF IInv, TypeOK, ReqTypeOK
      <4> QED
        BY <3>1, <3>2, <4>1, <4>2
  <2>7. t.request.Authorization = Nil <=> Given[c].Credentials = "Anonymous"
    <3>1. StringToSign(t.request) # Nil
      BY <2>1, UnsetAssumption DEF StringToSign, Transmission, HTTPRequest, Signature
    <3>2. c \in Anonymous <=> Given[c].Credentials = "Anonymous"
      BY GivenSettings, SettingsAssumption
    <3> QED
      BY <2>1, <3>1, <3>2 DEF WellSent
  <2> QED
    BY <2>3, <2>4, <2>5, <2>6, <2>7
<1> QED
  BY <1>1, WireInvariance, PTL

-----------------------------------------------------------------------------
(* Wire is Request with the headers added: each of its steps is a step of  *)
(* Request.                                                                *)
LEMMA WireRefinesRequest == WireSpec => Init /\ [][Next]_vars
<1>1. WireInit => Init
  BY DEF WireInit
<1>2. [WireNext]_wireVars => [Next]_vars
  BY DEF WireNext, WireStep, Next, Step, wireVars
<1> QED
  BY <1>1, <1>2, PTL DEF WireSpec

(* What RequestProofs says of Request holds of what goes over the wire:    *)
(* whole bodies, justified retries, the last outcome, closed bodies, no    *)
(* Expire lost and the mutex given back.                                   *)
THEOREM RequestKeptOnWire ==
  WireSpec => [](/\ WholeBody /\ RetriesJustified /\ LastWord
                 /\ ErrorBodiesClosed /\ ExpireKept /\ MutexReleased)
<1>1. WInv => WholeBody /\ RetriesJustified /\ LastWord /\ ExpireKept /\ TypeOK
  BY AttemptsBounded
  DEF WInv, IInv, CredInv, CallerInv, DoneInv, RetriesJustified, Justified, LastWord
<1>2. Init => ErrorBodiesClosed /\ MutexReleased
  BY CallerAssumption DEF Init, CredInit, ErrorBodiesClosed, MutexReleased
<1>3. TypeOK /\ ErrorBodiesClosed /\ MutexReleased /\ [Next]_vars
        => ErrorBodiesClosed' /\ MutexReleased'
  BY ErrorBodiesStep, MutexStep
<1> QED
  BY <1>1, <1>2, <1>3, WireInvariance, WireRefinesRequest, PTL

(* And so does the measure that ends Send.                                 *)
THEOREM SendProgressesOnWire == WireSpec => SendProgresses
<1>1. TypeOK /\ TypeOK' /\ [Next]_vars =>
        [\E c \in Caller :
           /\ StepsLeft(c)' \in 0..StepsLeft(c) - 1
           /\ \A d \in Caller \ {c} : StepsLeft(d)' = StepsLeft(d)]_vars
  BY ProgressStep DEF Next
<1>2. WInv => TypeOK
  BY DEF WInv, IInv
<1> QED
  BY <1>1, <1>2, WireInvariance, WireRefinesRequest, PTL DEF SendProgresses
=============================================================================
