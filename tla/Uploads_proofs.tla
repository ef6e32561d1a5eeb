--------------------------- MODULE Uploads_proofs ---------------------------
(* Of the requests that verify a certificate, for any credentials and        *)
(* documents: what is logged, what is cleaned up, that an official document  *)
(* is never mistaken, nor a copy accused, nor any document of a field it     *)
(* still has where its manifest says.                                        *)
EXTENDS Uploads, Analyses_proofs

USE UploadsAssumption, NoRowAssumption

\* A request has these fields, of these types.
IsRequest(r) ==
    r \in [pc : {r.pc}, method : {r.method}, claim : {r.claim}, file : {r.file},
           row : {r.row}, round : {r.round}, by : {r.by}, result : {r.result},
           analysis : {r.analysis}, logged : {r.logged}, answer : {r.answer}, known : {r.known}]
Typed(r) ==
    /\ r.method \in Methods \cup {"file"} /\ r.claim \in Claims \cup {NoCred}
    /\ r.file \in Files \cup {NoFile}
    /\ r.row \in PossibleViews \cup {NoRow}
    /\ r.round \in 0..2
    /\ r.result \in Answers /\ r.logged \in Answers /\ r.answer \in Answers

\* How far it has come: nothing is answered before it ends, what is logged is the result,
\* and there are two rounds of identification.
Progress(r) ==
    /\ r.pc \notin {"cleanup", "done"} => r.answer = "none"
    /\ r.pc = "audit" => r.logged = r.result
    /\ r.pc \in {"validate", "signature", "lookup"} => r.round = 0 /\ r.known = {}
    /\ r.pc \in {"identify", "rank"} => r.round \in {0, 1} /\ r.method = "file"
    /\ r.pc \in {"validate", "signature", "cleanup"} => r.method \in WithFile
    /\ r.pc = "idle" => r.method = "file" /\ r.known = {}

\* A request about an official document found its credential at once, and what it says of
\* it can only be what verifyKnownHash said.
Recognised(r) ==
    \A c \in r.known :
       (r.method = "file" /\ r.file = Genuine[c]) =>
           /\ r.row # NoRow /\ r.row.of = c
           /\ r.pc \in {"verify", "log", "audit", "cleanup", "done"}
           /\ r.result \notin {"UNKNOWN", "TAMPERED"}
           /\ r.answer \notin {"UNKNOWN", "TAMPERED"}

Logged(r) ==
    r.answer \in {"INVALID_FILE", "KNOWN", "UNKNOWN", "TAMPERED"} => r.logged = r.answer

Good(r) == IsRequest(r) /\ Typed(r) /\ Progress(r) /\ Recognised(r) /\ Logged(r)

\* The request has a file in certificates-temp.
HoldsFile(r) == r.method \in WithFile /\ r.pc \notin {"idle", "done"}

RowsOK == /\ DOMAIN credentials = Creds
          /\ \A c \in Creds : credentials[c] \in {NoRow} \cup Columns(c)
          /\ issuing \subseteq Registered
          /\ edited \in BOOLEAN

IInv == /\ RowsOK
        /\ Good(request) /\ request.known \subseteq Registered
        /\ uploads \in Nat /\ faults \in 0..MaxFaults
        /\ uploads = faults + (IF HoldsFile(request) THEN 1 ELSE 0)

-----------------------------------------------------------------------------
(* The rows.                                                               *)

\* A row is joined with the values as issued or as edited.
LEMMA ValuesAreVersions == ASSUME NEW c \in Creds PROVE Values(c) \in VersionsOf(c)
  BY DEF Values, VersionsOf

\* What is stored with a row is among the columns a row may have.
LEMMA ManifestsAreColumns ==
  ASSUME NEW c \in Creds PROVE \A v \in {Issued[c], Values(c)} : ManifestOf[c, v] \in Columns(c)
<1>1. \A v \in VersionsOf(c) : ManifestOf[c, v] \in Columns(c)
  BY DEF Columns
<1>2. Issued[c] \in VersionsOf(c) /\ Values(c) \in VersionsOf(c)
  BY ValuesAreVersions DEF VersionsOf
<1> QED
  BY <1>1, <1>2

\* A row that is joined is a possible view, with its credential's name and hash.
LEMMA ViewIsPossible ==
  ASSUME RowsOK, NEW c \in Registered
  PROVE  /\ View(c) \in PossibleViews /\ View(c) # NoRow
         /\ View(c).of = c /\ View(c).hash = Genuine[c]
<1>1. c \in Creds /\ credentials[c] \in Columns(c)
  BY DEF Registered, RowsOK
<1>2. View(c) \in PossibleViews
  BY <1>1, ValuesAreVersions DEF View, PossibleViews
<1>3. View(c).of = c /\ View(c).hash = Genuine[c]
  BY DEF View, Joining
<1> QED
  BY <1>2, <1>3

\* The world changes rows, and none is ever deleted.
LEMMA WorldKeeps == ASSUME IInv, World PROVE IInv'
<1>1. ASSUME NEW c \in Creds, NEW row \in Columns(c), credentials' = [credentials EXCEPT ![c] = row],
             issuing' \subseteq issuing \cup {c}, UNCHANGED <<edited, request, uploads, faults>>
      PROVE  IInv'
  <2>1. row # NoRow
    BY NoRowAssumption
  <2>2. Registered \cup {c} \subseteq Registered'
    BY <1>1, <2>1 DEF IInv, RowsOK, Registered
  <2>3. RowsOK'
    BY <1>1, <2>2 DEF IInv, RowsOK
  <2> QED
    BY <1>1, <2>2, <2>3 DEF IInv
<1>2. ASSUME UNCHANGED <<credentials, request, uploads, faults>>, issuing' \subseteq issuing, edited' \in BOOLEAN
      PROVE  IInv'
  BY <1>2 DEF IInv, RowsOK, Registered
<1>3. ASSUME NEW c \in Creds, Register(c) PROVE IInv'
  <2>1. Bare \in Columns(c)
    BY DEF Columns
  <2> QED
    BY <1>1, <1>3, <2>1 DEF Register
<1>4. ASSUME NEW c \in Creds, StoreManifest(c) PROVE IInv'
  <2>1. \A v \in {Issued[c], Values(c)} : ManifestOf[c, v] \in Columns(c)
    BY ManifestsAreColumns
  <2>2. CASE credentials' = credentials
    BY <1>2, <1>4, <2>2 DEF StoreManifest, IInv, RowsOK
  <2>3. CASE \E v \in {Issued[c], Values(c)} : credentials' = [credentials EXCEPT ![c] = ManifestOf[c, v]]
    BY <1>1, <1>4, <2>1, <2>3 DEF StoreManifest
  <2> QED
    BY <1>4, <2>2, <2>3 DEF StoreManifest
<1>5. ASSUME NEW c \in Creds, Backfill(c) PROVE IInv'
  <2>1. \A v \in {Issued[c], Values(c)} : ManifestOf[c, v] \in Columns(c)
    BY ManifestsAreColumns
  <2> QED
    BY <1>1, <1>5, <2>1 DEF Backfill
<1>6. ASSUME EditStudent PROVE IInv'
  BY <1>2, <1>6 DEF EditStudent
<1> QED
  BY <1>3, <1>4, <1>5, <1>6 DEF World

-----------------------------------------------------------------------------
(* The steps of a request.                                                 *)

\* A step that changes nothing but the request keeps the invariant if the request is still
\* good and holds its file as before.
LEMMA PutKeeps ==
  ASSUME IInv, NEW r, Put(r), Good(r), r.known \subseteq Registered, HoldsFile(r) <=> HoldsFile(request)
  PROVE  IInv'
<1>1. Registered' = Registered /\ RowsOK'
  BY DEF Put, IInv, RowsOK, Registered
<1>2. request' = r /\ uploads' = uploads /\ faults' = faults
  BY DEF Put
<1> QED
  BY <1>1, <1>2 DEF IInv

\* The other fields of a request, which most steps leave alone.
SameQuestion(r, q) == /\ r.method = q.method /\ r.claim = q.claim /\ r.file = q.file
                      /\ r.known = q.known

\* A request that has not begun is as it should be, and holds no file.
LEMMA IdleIsGood == Good(Idle) /\ Idle.known = {} /\ ~HoldsFile(Idle)
<1>1. IsRequest(Idle)
  BY DEF IsRequest, Idle
<1>2. Typed(Idle)
  BY DEF Typed, Idle, Answers
<1> QED
  BY <1>1, <1>2 DEF Good, Progress, Recognised, Logged, Idle, HoldsFile

\* So is one that begins without a file,
LEMMA AskIsGood ==
  ASSUME NEW method \in Methods \ WithFile, NEW claim \in Claims
  PROVE  LET r == [Idle EXCEPT !.pc = "lookup", !.method = method, !.claim = claim]
         IN Good(r) /\ r.known = {} /\ ~HoldsFile(r)
<1> DEFINE r == [Idle EXCEPT !.pc = "lookup", !.method = method, !.claim = claim]
<1>1. IsRequest(r)
  BY DEF IsRequest, Idle
<1>2. Typed(r)
  BY DEF Typed, Idle, Answers
<1> QED
  BY <1>1, <1>2 DEF Good, Progress, Recognised, Logged, Idle, HoldsFile

\* and one that begins with one.
LEMMA UploadIsGood ==
  ASSUME NEW method \in Methods \cap WithFile, NEW claim \in Claims \cup {NoCred}, NEW file \in Files
  PROVE  LET r == [Idle EXCEPT !.pc = "validate", !.method = method, !.claim = claim, !.file = file]
         IN Good(r) /\ r.known = {} /\ HoldsFile(r)
<1> DEFINE r == [Idle EXCEPT !.pc = "validate", !.method = method, !.claim = claim, !.file = file]
<1>1. IsRequest(r)
  BY DEF IsRequest, Idle
<1>2. Typed(r)
  BY DEF Typed, Idle, Answers
<1> QED
  BY <1>1, <1>2 DEF Good, Progress, Recognised, Logged, Idle, HoldsFile

\* The steps of a handler keep the invariant, one by one.
LEMMA ValidateKeeps == ASSUME IInv, Validate PROVE IInv'
<1>1. request.known \subseteq Registered /\ Good(request) /\ request.pc = "validate"
  BY DEF IInv, Validate, At
<1>2. ASSUME Put([request EXCEPT !.pc = "signature"]) PROVE IInv'
  <2> DEFINE r == [request EXCEPT !.pc = "signature"]
  <2>1. /\ IsRequest(r) /\ SameQuestion(r, request) /\ r.pc = "signature" /\ r.result = request.result
        /\ r.answer = request.answer /\ r.logged = request.logged /\ r.row = request.row /\ r.round = request.round
    BY <1>1 DEF Good, IsRequest, SameQuestion
  <2> HIDE DEF r
  <2>2. Good(r) /\ (HoldsFile(r) <=> HoldsFile(request))
    BY <1>1, <2>1 DEF Good, SameQuestion, Typed, Progress, Recognised, Logged, HoldsFile
  <2> QED
    BY <1>1, <1>2, <2>1, <2>2, PutKeeps DEF SameQuestion, r
<1>3. ASSUME Put([request EXCEPT !.pc = "cleanup", !.answer = "BAD_REQUEST"]) PROVE IInv'
  <2> DEFINE r == [request EXCEPT !.pc = "cleanup", !.answer = "BAD_REQUEST"]
  <2>1. /\ IsRequest(r) /\ SameQuestion(r, request) /\ r.pc = "cleanup" /\ r.answer = "BAD_REQUEST"
        /\ r.result = request.result /\ r.logged = request.logged /\ r.row = request.row /\ r.round = request.round
    BY <1>1 DEF Good, IsRequest, SameQuestion
  <2> HIDE DEF r
  <2>2. Good(r) /\ (HoldsFile(r) <=> HoldsFile(request))
    BY <1>1, <2>1 DEF Good, SameQuestion, Typed, Progress, Recognised, Logged, HoldsFile, Answers
  <2> QED
    BY <1>1, <1>3, <2>1, <2>2, PutKeeps DEF SameQuestion, r
<1> QED
  BY <1>2, <1>3 DEF Validate

LEMMA SignatureKeeps == ASSUME IInv, Signature PROVE IInv'
<1>1. request.known \subseteq Registered /\ Good(request) /\ request.pc = "signature"
  BY DEF IInv, Signature, At
<1>2. ASSUME Put([request EXCEPT !.pc = "log", !.result = "INVALID_FILE"]) PROVE IInv'
  <2> DEFINE r == [request EXCEPT !.pc = "log", !.result = "INVALID_FILE"]
  <2>1. /\ IsRequest(r) /\ SameQuestion(r, request)
        /\ r.pc = "log" /\ r.result = "INVALID_FILE"
        /\ r.answer = request.answer /\ r.logged = request.logged /\ r.row = request.row /\ r.round = request.round
    BY <1>1 DEF Good, IsRequest, SameQuestion
  <2> HIDE DEF r
  <2>2. Good(r) /\ (HoldsFile(r) <=> HoldsFile(request))
    BY <1>1, <2>1 DEF Good, SameQuestion, Typed, Progress, Recognised, Logged, HoldsFile, Answers
  <2> QED
    BY <1>1, <1>2, <2>1, <2>2, PutKeeps DEF SameQuestion, r
<1>3. ASSUME Put([request EXCEPT !.pc = "lookup"]) PROVE IInv'
  <2> DEFINE r == [request EXCEPT !.pc = "lookup"]
  <2>1. /\ IsRequest(r) /\ SameQuestion(r, request)
        /\ r.pc = "lookup"
        /\ r.result = request.result /\ r.answer = request.answer /\ r.logged = request.logged /\ r.row = request.row /\ r.round = request.round
    BY <1>1 DEF Good, IsRequest, SameQuestion
  <2> HIDE DEF r
  <2>2. Good(r) /\ (HoldsFile(r) <=> HoldsFile(request))
    BY <1>1, <2>1 DEF Good, SameQuestion, Typed, Progress, Recognised, Logged, HoldsFile
  <2> QED
    BY <1>1, <1>3, <2>1, <2>2, PutKeeps DEF SameQuestion, r
<1> QED
  BY <1>2, <1>3 DEF Signature

LEMMA OfficialStateKeeps == ASSUME IInv, OfficialState PROVE IInv'
<1>1. request.known \subseteq Registered /\ Good(request) /\ request.pc = "official"
  BY DEF IInv, OfficialState, At
<1>2. ASSUME Put([request EXCEPT !.pc = "analyse"]) PROVE IInv'
  <2> DEFINE r == [request EXCEPT !.pc = "analyse"]
  <2>1. /\ IsRequest(r) /\ SameQuestion(r, request)
        /\ r.pc = "analyse"
        /\ r.result = request.result /\ r.answer = request.answer /\ r.logged = request.logged /\ r.row = request.row /\ r.round = request.round
    BY <1>1 DEF Good, IsRequest, SameQuestion
  <2> HIDE DEF r
  <2>2. Good(r) /\ (HoldsFile(r) <=> HoldsFile(request))
    BY <1>1, <2>1 DEF Good, SameQuestion, Typed, Progress, Recognised, Logged, HoldsFile
  <2> QED
    BY <1>1, <1>2, <2>1, <2>2, PutKeeps DEF SameQuestion, r
<1> QED
  BY <1>2 DEF OfficialState

LEMMA LogVerificationKeeps == ASSUME IInv, LogVerification PROVE IInv'
<1>1. request.known \subseteq Registered /\ Good(request) /\ request.pc = "log"
  BY DEF IInv, LogVerification, At
<1>2. ASSUME Put([request EXCEPT !.pc = "audit", !.logged = request.result]) PROVE IInv'
  <2> DEFINE r == [request EXCEPT !.pc = "audit", !.logged = request.result]
  <2>1. /\ IsRequest(r) /\ SameQuestion(r, request)
        /\ r.pc = "audit" /\ r.logged = request.result
        /\ r.result = request.result /\ r.answer = request.answer /\ r.row = request.row /\ r.round = request.round
    BY <1>1 DEF Good, IsRequest, SameQuestion
  <2> HIDE DEF r
  <2>2. Good(r) /\ (HoldsFile(r) <=> HoldsFile(request))
    BY <1>1, <2>1 DEF Good, SameQuestion, Typed, Progress, Recognised, Logged, HoldsFile
  <2> QED
    BY <1>1, <1>2, <2>1, <2>2, PutKeeps DEF SameQuestion, r
<1> QED
  BY <1>2 DEF LogVerification

LEMMA AnalyseKeeps == ASSUME IInv, Analyse PROVE IInv'
<1>1. request.known \subseteq Registered /\ Good(request) /\ request.pc = "analyse"
  BY DEF IInv, Analyse, At
<1>2. PICK a : Put([request EXCEPT !.pc = "log", !.result = "TAMPERED", !.analysis = a])
  BY DEF Analyse
<1> DEFINE r == [request EXCEPT !.pc = "log", !.result = "TAMPERED", !.analysis = a]
<1>3. /\ IsRequest(r) /\ SameQuestion(r, request) /\ r.pc = "log" /\ r.result = "TAMPERED"
      /\ r.answer = request.answer /\ r.logged = request.logged /\ r.row = request.row /\ r.round = request.round
  BY <1>1 DEF Good, IsRequest, SameQuestion
<1> HIDE DEF r
<1>4. Good(r) /\ (HoldsFile(r) <=> HoldsFile(request))
  BY <1>1, <1>3 DEF Good, SameQuestion, Typed, Progress, Recognised, Logged, HoldsFile, Answers
<1> QED
  BY <1>1, <1>2, <1>3, <1>4, PutKeeps DEF SameQuestion, r

LEMMA VerifyKeeps == ASSUME IInv, Verify PROVE IInv'
<1>1. request.known \subseteq Registered /\ Good(request) /\ request.pc = "verify"
  BY DEF IInv, Verify, At
<1> DEFINE result == IF request.row = NoRow THEN "UNKNOWN" ELSE "KNOWN"
           r == [request EXCEPT !.pc = "log", !.result = result]
<1>2. Put(r)
  BY DEF Verify
<1>3. /\ IsRequest(r) /\ SameQuestion(r, request) /\ r.pc = "log" /\ r.result = result
      /\ r.answer = request.answer /\ r.logged = request.logged /\ r.row = request.row /\ r.round = request.round
  BY <1>1 DEF Good, IsRequest, SameQuestion
<1> HIDE DEF r
<1>4. Good(r) /\ (HoldsFile(r) <=> HoldsFile(request))
  BY <1>1, <1>3 DEF Good, SameQuestion, Typed, Progress, Recognised, Logged, HoldsFile, Answers
<1> QED
  BY <1>1, <1>2, <1>3, <1>4, PutKeeps DEF SameQuestion

\* Both ends of a request: the answer is its logged result, or that it is unavailable.
LEMMA FinishKeeps ==
  ASSUME IInv, NEW answer, Put(Finish(answer)),
         \/ request.pc = "audit" /\ answer = request.result
         \/ /\ request.pc \in {"signature", "lookup", "official", "verify", "log", "audit"}
            /\ answer = "UNAVAILABLE"
  PROVE  IInv'
<1>1. request.known \subseteq Registered /\ Good(request)
  BY DEF IInv
<1> DEFINE pc == IF request.method \in WithFile THEN "cleanup" ELSE "done"
           r == [request EXCEPT !.pc = pc, !.answer = answer]
<1>2. Put(r)
  BY DEF Finish
<1>3. /\ IsRequest(r) /\ SameQuestion(r, request) /\ r.pc = pc /\ r.answer = answer
      /\ r.result = request.result /\ r.logged = request.logged /\ r.row = request.row /\ r.round = request.round
  BY <1>1 DEF Good, IsRequest, SameQuestion
<1> HIDE DEF r
<1>4. Typed(r) /\ Progress(r) /\ (HoldsFile(r) <=> HoldsFile(request))
  BY <1>1, <1>3 DEF Good, SameQuestion, Typed, Progress, HoldsFile, Answers
<1>5. Recognised(r) /\ Logged(r)
  BY <1>1, <1>3 DEF Good, SameQuestion, Progress, Recognised, Logged
<1> QED
  BY <1>1, <1>2, <1>3, <1>4, <1>5, PutKeeps DEF SameQuestion, Good

\* A handler that ends by answering, or by failing, keeps it.
LEMMA LogAuditKeeps == ASSUME IInv, LogAudit PROVE IInv'
  BY FinishKeeps DEF LogAudit, At

LEMMA FailKeeps == ASSUME IInv, Fail PROVE IInv'
  BY FinishKeeps DEF Fail

\* What a lookup finds is the credential with that hash, and official hashes differ.
LEMMA LookupKeeps == ASSUME IInv, Lookup PROVE IInv'
<1>1. request.known \subseteq Registered /\ Good(request) /\ request.pc = "lookup" /\ RowsOK
  BY DEF IInv, Lookup, At
<1> DEFINE row == IF Wanted = {} THEN NoRow ELSE View(CHOOSE c \in Wanted : TRUE)
           result == IF AfterLookup(row) = "log" THEN "UNKNOWN" ELSE "none"
           r == [request EXCEPT !.pc = AfterLookup(row), !.row = row, !.known = Registered, !.result = result]
<1>2. Put(r)
  BY DEF Lookup
<1>3. /\ IsRequest(r) /\ r.method = request.method /\ r.claim = request.claim /\ r.file = request.file
      /\ r.known = Registered /\ r.pc = AfterLookup(row) /\ r.result = result /\ r.row = row
      /\ r.answer = request.answer /\ r.logged = request.logged /\ r.round = request.round
  BY <1>1 DEF Good, IsRequest
<1> HIDE DEF r
<1>4. Wanted \subseteq Registered
  BY DEF Wanted
<1>5. row \in PossibleViews \cup {NoRow}
  BY <1>1, <1>4, ViewIsPossible
<1>6. /\ AfterLookup(row) \in {"identify", "log", "official", "verify"}
      /\ AfterLookup(row) = "identify" => request.method = "file"
      /\ AfterLookup(row) = "log" => request.method # "file"
  BY DEF AfterLookup, WithFile
<1>7. ASSUME NEW c \in Registered, request.method = "file", request.file = Genuine[c]
      PROVE  row # NoRow /\ row.of = c /\ AfterLookup(row) = "verify"
  <2>1. Wanted = {c}
    BY <1>7 DEF Wanted, Registered
  <2>2. row = View(c)
    BY <2>1
  <2>3. row # NoRow /\ row.of = c /\ row.hash = request.file
    BY <1>1, <1>7, <2>2, ViewIsPossible
  <2> QED
    BY <1>7, <2>3 DEF AfterLookup
<1> HIDE DEF row
<1>8. Typed(r) /\ Progress(r) /\ Logged(r) /\ (HoldsFile(r) <=> HoldsFile(request))
  BY <1>1, <1>3, <1>5, <1>6 DEF Good, Typed, Progress, Logged, HoldsFile, Answers
<1>9. Recognised(r)
  BY <1>1, <1>3, <1>7 DEF Good, Recognised, Progress
<1> QED
  BY <1>2, <1>3, <1>8, <1>9, PutKeeps DEF Good

\* What is identified is one of the rows that were asked.
LEMMA FoundAreRows ==
  ASSUME NEW text, NEW rows
  PROVE  /\ \A h \in ByIdentifier(text, rows) : h.row \in rows
         /\ \A read \in ByStudentNumber(text, rows) : \A h \in Ranked(text, read) : h.row \in rows
<1>1. ASSUME NEW h \in ByIdentifier(text, rows) PROVE h.row \in rows
  <2> DEFINE uuids == Identifiers(text, <<Uuids>>)
             Hits(u) == {Found("CREDENTIAL_ID", r) : r \in {q \in rows : q.id = u}}
             Tokens(u) == {Found("PUBLIC_TOKEN", r) : r \in {q \in rows : q.token = u}}
             known == Earliest({i \in DOMAIN uuids : Hits(uuids[i]) \cup Tokens(uuids[i]) # {}})
  <2>1. \A u : \A g \in Hits(u) \cup Tokens(u) : g.row \in rows
    BY DEF Found
  <2>2. ByIdentifier(text, rows) =
          UNION {IF Hits(uuids[i]) # {} THEN Hits(uuids[i]) ELSE Tokens(uuids[i]) : i \in known}
    BY DEF ByIdentifier
  <2> HIDE DEF known, uuids, Hits, Tokens
  <2>3. \E u : h \in Hits(u) \cup Tokens(u)
    BY <1>1, <2>2
  <2> QED
    BY <2>1, <2>3
<1>2. ASSUME NEW read \in ByStudentNumber(text, rows), NEW h \in Ranked(text, read) PROVE h.row \in rows
  <2>1. h.row \in read
    BY <1>2 DEF Ranked, Found
  <2>2. read \in SUBSET rows
    BY <1>2 DEF ByStudentNumber
  <2> QED
    BY <2>1, <2>2
<1> QED
  BY <1>1, <1>2

\* Whatever identified a credential, or did not, keeps it.
LEMMA IdentifiedKeeps ==
  ASSUME IInv, request.pc \in {"identify", "rank"}, NEW found, \A h \in found : h.row \in Views,
         Put(Identified(found))
  PROVE  IInv'
<1>1. request.known \subseteq Registered /\ Good(request) /\ RowsOK
  BY DEF IInv
<1>2. \A c \in request.known : request.file # Genuine[c]
  BY <1>1 DEF Good, Recognised, Progress
<1> DEFINE used == {h \in found : h.row.hash # request.file}
<1>3. CASE used # {}
  <2> DEFINE h == CHOOSE x \in used : TRUE
             r == [request EXCEPT !.pc = "official", !.row = h.row, !.by = h.method]
  <2>1. Put(r)
    BY <1>3 DEF Identified
  <2>2. h.row \in PossibleViews
    BY <1>1, <1>3, ViewIsPossible DEF Views
  <2>3. /\ IsRequest(r) /\ SameQuestion(r, request) /\ r.pc = "official" /\ r.row = h.row
        /\ r.result = request.result /\ r.answer = request.answer /\ r.logged = request.logged
        /\ r.round = request.round
    BY <1>1 DEF Good, IsRequest, SameQuestion
  <2> HIDE DEF r, h
  <2>4. Good(r) /\ (HoldsFile(r) <=> HoldsFile(request))
    BY <1>1, <1>2, <2>2, <2>3 DEF Good, SameQuestion, Typed, Progress, Recognised, Logged, HoldsFile
  <2> QED
    BY <1>1, <2>1, <2>3, <2>4, PutKeeps DEF SameQuestion
<1>4. CASE used = {}
  <2> DEFINE pc == IF request.round = 0 THEN "identify" ELSE "verify"
             r == [request EXCEPT !.pc = pc, !.round = request.round + 1]
  <2>1. Put(r)
    BY <1>4 DEF Identified
  <2>2. /\ IsRequest(r) /\ SameQuestion(r, request) /\ r.pc = pc /\ r.round = request.round + 1
        /\ r.result = request.result /\ r.answer = request.answer /\ r.logged = request.logged
        /\ r.row = request.row
    BY <1>1 DEF Good, IsRequest, SameQuestion
  <2> HIDE DEF r
  <2>3. Good(r) /\ (HoldsFile(r) <=> HoldsFile(request))
    BY <1>1, <1>2, <2>2 DEF Good, SameQuestion, Typed, Progress, Recognised, Logged, HoldsFile
  <2> QED
    BY <1>1, <2>1, <2>2, <2>3, PutKeeps DEF SameQuestion
<1> QED
  BY <1>3, <1>4

LEMMA IdentifyByIdKeeps == ASSUME IInv, IdentifyById PROVE IInv'
<1>1. request.known \subseteq Registered /\ Good(request) /\ request.pc = "identify"
  BY DEF IInv, IdentifyById, At
<1>2. ASSUME Put([request EXCEPT !.pc = "rank"]) PROVE IInv'
  <2> DEFINE r == [request EXCEPT !.pc = "rank"]
  <2>1. /\ IsRequest(r) /\ SameQuestion(r, request) /\ r.pc = "rank" /\ r.result = request.result
        /\ r.answer = request.answer /\ r.logged = request.logged /\ r.row = request.row /\ r.round = request.round
    BY <1>1 DEF Good, IsRequest, SameQuestion
  <2> HIDE DEF r
  <2>2. Good(r) /\ (HoldsFile(r) <=> HoldsFile(request))
    BY <1>1, <2>1 DEF Good, SameQuestion, Typed, Progress, Recognised, Logged, HoldsFile
  <2> QED
    BY <1>1, <1>2, <2>1, <2>2, PutKeeps DEF SameQuestion, r
<1>3. ASSUME Put(Identified(ByIdentifier(Text, Views))) PROVE IInv'
  BY <1>1, <1>3, FoundAreRows, IdentifiedKeeps
<1> QED
  BY <1>2, <1>3 DEF IdentifyById

LEMMA IdentifyByNumberKeeps == ASSUME IInv, IdentifyByNumber PROVE IInv'
<1>1. PICK read \in ByStudentNumber(Text, Views) : Put(Identified(Ranked(Text, read)))
  BY DEF IdentifyByNumber
<1> DEFINE found == Ranked(Text, read)
<1>2. Put(Identified(found)) /\ \A h \in found : h.row \in Views
  BY <1>1, FoundAreRows
<1> HIDE DEF found
<1> QED
  BY <1>2, IdentifiedKeeps DEF IdentifyByNumber, At

LEMMA NotIdentifiedKeeps == ASSUME IInv, NotIdentified PROVE IInv'
  BY IdentifiedKeeps DEF NotIdentified

-----------------------------------------------------------------------------
(* The steps that touch certificates-temp, begin a request or end one.     *)

\* Beginning and ending a request, and a crash, count the files.
LEMMA UploadKeeps == ASSUME IInv, Upload PROVE IInv'
<1>1. PICK method \in Methods \cap WithFile, claim \in Claims \cup {NoCred}, file \in Files :
        request' = [Idle EXCEPT !.pc = "validate", !.method = method, !.claim = claim, !.file = file]
  BY DEF Upload
<1>2. Good(request') /\ request'.known = {} /\ HoldsFile(request')
  BY <1>1, UploadIsGood
<1>3. ~HoldsFile(request) /\ Registered' = Registered /\ RowsOK'
  BY DEF IInv, Upload, At, HoldsFile, RowsOK, Registered
<1>4. uploads' = uploads + 1 /\ faults' = faults
  BY DEF Upload
<1> QED
  BY <1>2, <1>3, <1>4 DEF IInv

LEMMA AskKeeps == ASSUME IInv, Ask PROVE IInv'
<1>1. PICK method \in Methods \ WithFile, claim \in Claims :
        Put([Idle EXCEPT !.pc = "lookup", !.method = method, !.claim = claim])
  BY DEF Ask
<1>2. ~HoldsFile(request)
  BY DEF Ask, At, HoldsFile
<1> QED
  BY <1>1, <1>2, AskIsGood, PutKeeps

LEMMA LeaveKeeps == ASSUME IInv, Leave PROVE IInv'
<1>1. ~HoldsFile(request) /\ Put(Idle)
  BY DEF Leave, At, HoldsFile
<1> QED
  BY <1>1, IdleIsGood, PutKeeps

LEMMA CrashKeeps == ASSUME IInv, Crash PROVE IInv'
<1>1. HoldsFile(request) /\ request' = Idle /\ faults' = faults + 1 /\ uploads' = uploads /\ faults < MaxFaults
  BY DEF Crash, HoldsFile
<1>2. Registered' = Registered /\ RowsOK'
  BY DEF IInv, Crash, RowsOK, Registered
<1> QED
  BY <1>1, <1>2, IdleIsGood DEF IInv

LEMMA CleanupKeeps == ASSUME IInv, Cleanup PROVE IInv'
<1>1. request.known \subseteq Registered /\ Good(request) /\ request.pc = "cleanup"
  BY DEF IInv, Cleanup, At
<1> DEFINE r == [request EXCEPT !.pc = "done"]
<1>2. /\ IsRequest(r) /\ SameQuestion(r, request) /\ r.pc = "done" /\ r.result = request.result
      /\ r.answer = request.answer /\ r.logged = request.logged /\ r.row = request.row /\ r.round = request.round
  BY <1>1 DEF Good, IsRequest, SameQuestion
<1>3. request' = r /\ Registered' = Registered /\ RowsOK'
  BY DEF Cleanup, IInv, RowsOK, Registered
<1> HIDE DEF r
<1>4. Good(r) /\ ~HoldsFile(r)
  BY <1>1, <1>2 DEF Good, SameQuestion, Typed, Progress, Recognised, Logged, HoldsFile
<1>5. HoldsFile(request)
  BY <1>1 DEF Good, Progress, HoldsFile
<1>6. \/ uploads' = uploads - 1 /\ faults' = faults
      \/ faults < MaxFaults /\ faults' = faults + 1 /\ uploads' = uploads
  BY DEF Cleanup
<1> QED
  BY <1>1, <1>2, <1>3, <1>4, <1>5, <1>6 DEF IInv, SameQuestion

-----------------------------------------------------------------------------
\* The invariant holds initially, and every step keeps it.
LEMMA InitIsGood == Init => IInv
<1> SUFFICES ASSUME Init PROVE IInv
  OBVIOUS
<1>1. RowsOK
  <2>1. \A c \in Creds : credentials[c] \in {NoRow, Bare, Damaged(c)}
    BY DEF Init
  <2> QED
    BY <2>1 DEF Init, RowsOK, Columns
<1>2. request = Idle /\ uploads = 0 /\ faults = 0
  BY DEF Init
<1> QED
  BY <1>1, <1>2, IdleIsGood DEF IInv

LEMMA Inductive == IInv /\ [Next]_vars => IInv'
<1> SUFFICES ASSUME IInv, [Next]_vars PROVE IInv'
  OBVIOUS
<1>1. CASE World
  BY <1>1, WorldKeeps
<1>2. CASE Handler
  BY <1>2, UploadKeeps, ValidateKeeps, AskKeeps, SignatureKeeps, LookupKeeps, IdentifyByIdKeeps,
     IdentifyByNumberKeeps, NotIdentifiedKeeps, OfficialStateKeeps, AnalyseKeeps, VerifyKeeps,
     LogVerificationKeeps, LogAuditKeeps, FailKeeps, CleanupKeeps, CrashKeeps, LeaveKeeps
     DEF Handler
<1>3. CASE UNCHANGED vars
  BY <1>3 DEF vars, IInv, RowsOK, Registered
<1> QED
  BY <1>1, <1>2, <1>3 DEF Next

\* The rows, the request and the files are as the inductive invariant says, whatever requests
\* come and whatever happens to the rows beside them.
THEOREM IInvHolds == Spec => []IInv
  BY InitIsGood, Inductive, PTL DEF Spec

\* Rows have the columns of their credential and are never deleted under a request, and a
\* request has a question, a row, a round and an answer of the kinds that exist.
THEOREM TypeCorrect == Spec => []TypeOK
<1>1. IInv => TypeOK
  BY DEF IInv, RowsOK, Good, Typed, TypeOK
<1> QED
  BY <1>1, IInvHolds, PTL

\* Whoever uploads the official document of a credential that is registered when the handler
\* looks is told about that credential, and never that it is unknown or tampered with,
\* whatever the analyses would have said.
THEOREM GenuineIsAlwaysRecognised == Spec => []GenuineIsRecognised
<1>1. IInv => GenuineIsRecognised
  BY DEF IInv, Good, Recognised, GenuineIsRecognised
<1> QED
  BY <1>1, IInvHolds, PTL

\* Every outcome that is answered was written to the verification log first.
THEOREM AnswersAreAlwaysLogged == Spec => []AnswersAreLogged
<1>1. IInv => AnswersAreLogged
  BY DEF IInv, Good, Logged, AnswersAreLogged
<1> QED
  BY <1>1, IInvHolds, PTL

\* Files stay in certificates-temp only by crashes and failing unlinks, one each.
THEOREM LeftFilesAreAlwaysFaults == Spec => []LeftFilesAreFaults
<1>1. IInv => LeftFilesAreFaults
  BY DEF IInv, HoldsFile, LeftFilesAreFaults
<1> QED
  BY <1>1, IInvHolds, PTL
-----------------------------------------------------------------------------
(* What an analysis is of.  A request keeps the analysis it was given for    *)
(* its row and its file, and none if it was not called tampered with.        *)

\* A table is the function it is made from, in every module.
LEMMA TableIs == ASSUME NEW f PROVE Table(f) = f /\ M!Table(f) = f /\ A!Table(f) = f
  BY DEF Table, M!Table, A!Table

\* The services name the same fields.
LEMMA SameFields == M!FieldNames = FieldNames /\ A!FieldNames = FieldNames /\ T!FieldNames = FieldNames
  BY DEF FieldNames, Fields, M!FieldNames, M!Fields, A!FieldNames, A!Fields, T!FieldNames, T!Fields

\* What the manifest of a version of a credential says of a field.
LEMMA ManifestIs ==
  ASSUME NEW c \in Creds, NEW v \in VersionsOf(c)
  PROVE  <<c, v>> \in Versions /\ ManifestOf[c, v] = Manifest(c, v) /\ ManifestOf[<<c, v>>] = Manifest(c, v)
<1>1. <<c, v>> \in Versions
  BY DEF Versions
<1>2. ManifestOf = [cv \in Versions |-> Manifest(cv[1], cv[2])]
  BY TableIs DEF ManifestOf
<1> QED
  BY <1>1, <1>2

\* A row joined with its student is of one version.
LEMMA PossibleIs ==
  ASSUME NEW row \in PossibleViews
  PROVE  \E c \in Creds : \E w \in VersionsOf(c), col \in Columns(c) :
            /\ row.of = c /\ row.hash = Genuine[c] /\ row.values = w
            /\ row.manifest = col.manifest /\ row.version = col.version
            /\ row.source = col.source /\ row.fields = col.fields
<1>1. PICK c \in Creds : \E col \in Columns(c), w \in VersionsOf(c) : row = Joining(c, col, w)
  BY DEF PossibleViews
<1>2. PICK col \in Columns(c), w \in VersionsOf(c) : row = Joining(c, col, w)
  BY <1>1
<1> QED
  BY <1>2 DEF Joining

\* A row that may be read is of a credential, with one of its versions of the values.
LEMMA PossibleVersion ==
  ASSUME NEW row \in PossibleViews
  PROVE  row.of \in Creds /\ row.values \in VersionsOf(row.of) /\ <<row.of, row.values>> \in Versions
<1>1. row.of \in Creds /\ row.values \in VersionsOf(row.of)
  BY PossibleIs
<1> QED
  BY <1>1, ManifestIs

\* A damaged row has the wrong version.
LEMMA DamagedIs ==
  ASSUME NEW c \in Creds PROVE Damaged(c).version = 2
<1>1. ManifestOf[c, Issued[c]] = Manifest(c, Issued[c])
  BY ManifestIs DEF VersionsOf
<1>2. Damaged(c) = [Manifest(c, Issued[c]) EXCEPT !.version = 2]
  BY <1>1 DEF Damaged
<1> QED
  BY <1>2 DEF Manifest

\* A valid manifest is one of the credential's own document.
LEMMA ValidIsOwn ==
  ASSUME NEW row \in PossibleViews, ManifestState(row) = "valid"
  PROVE  row.of \in Creds /\ \E v \in VersionsOf(row.of) : row.fields = ManifestOf[<<row.of, v>>].fields
<1>1. PICK c \in Creds : \E col \in Columns(c) :
            row.of = c /\ row.manifest = col.manifest /\ row.version = col.version /\ row.fields = col.fields
  BY PossibleIs
<1>2. PICK col \in Columns(c) :
            row.of = c /\ row.manifest = col.manifest /\ row.version = col.version /\ row.fields = col.fields
  BY <1>1
<1>3. col.manifest # "none" /\ col.version = 1
  BY <1>2 DEF ManifestState
<1>4. col # Bare
  BY <1>3 DEF Bare
<1>5. col # Damaged(c)
  BY <1>3, DamagedIs
<1>6. PICK v \in VersionsOf(c) : col = ManifestOf[c, v]
  BY <1>4, <1>5 DEF Columns
<1>7. col = ManifestOf[<<c, v>>]
  BY <1>6, ManifestIs
<1> QED
  BY <1>2, <1>7

\* What a manifest says of a document, field by field,
LEMMA VerifyIs ==
  ASSUME NEW fields, NEW file, NEW f \in FieldNames
  PROVE  M!VerifySemanticManifest(fields, Rendered(file).pages)[f] = M!FieldVerdict(ManifestPages(file), f, fields[f])
<1>1. M!VerifySemanticManifest(fields, Rendered(file).pages) =
        [g \in FieldNames |-> M!FieldVerdict(ManifestPages(file), g, fields[g])]
  BY TableIs, SameFields DEF M!VerifySemanticManifest, ManifestPages
<1> QED
  BY <1>1

\* what is said by the manifest of a version,
LEMMA VerifiedIs ==
  ASSUME NEW fields, NEW file \in Documents, NEW f \in FieldNames,
         \E version \in Versions : fields = ManifestOf[version].fields
  PROVE  VerifiedBy[fields, file][f] = M!FieldVerdict(ManifestPages(file), f, fields[f])
<1>1. VerifiedBy = [a \in {ManifestOf[w].fields : w \in Versions} \X Documents |->
                      M!VerifySemanticManifest(a[1], Rendered(a[2]).pages)]
  BY TableIs DEF VerifiedBy
<1>2. <<fields, file>> \in {ManifestOf[w].fields : w \in Versions} \X Documents
  OBVIOUS
<1>3. VerifiedBy[fields, file] = M!VerifySemanticManifest(fields, Rendered(file).pages)
  BY <1>1, <1>2
<1>4. M!VerifySemanticManifest(fields, Rendered(file).pages)[f] = M!FieldVerdict(ManifestPages(file), f, fields[f])
  BY ONLY f \in FieldNames, VerifyIs
<1> QED
  BY ONLY <1>3, <1>4

\* and by its lines.
LEMMA ComparedIs ==
  ASSUME NEW version \in Versions, NEW file \in Documents, NEW baseline \in BOOLEAN
  PROVE  /\ version[1] \in Creds
         /\ ComparedBy[version, file, baseline] =
              Compared(version[2], LinesOf[Genuine[version[1]]], LinesOf[file], baseline)
<1>1. version[1] \in Creds
  BY DEF Versions
<1>2. ComparedBy = [a \in Versions \X Documents \X BOOLEAN |->
                      Compared(a[1][2], LinesOf[Genuine[a[1][1]]], LinesOf[a[2]], a[3])]
  BY TableIs DEF ComparedBy
<1>3. <<version, file, baseline>> \in Versions \X Documents \X BOOLEAN
  OBVIOUS
<1>4. ComparedBy[version, file, baseline] = ComparedBy[<<version, file, baseline>>]
  OBVIOUS
<1> QED
  BY <1>1, <1>2, <1>3, <1>4

\* The lines of a document are those of its pages.
LEMMA LinesIs == ASSUME NEW file \in Documents PROVE LinesOf[file] = ExtractPdfText(Rendered(file).pages)
  BY TableIs DEF LinesOf

\* What an analysis says of a field: what the valid manifest says, or what the lines say if
\* there is no manifest, or nothing.
ByNothing(analysis, f) ==
    analysis.source \in {"none", "PERSISTED_MANIFEST_INVALID"} /\ analysis.fields[f] = "NOT_AVAILABLE"
ByManifest(analysis, row, file, f) ==
    /\ analysis.source = "PERSISTED_MANIFEST" /\ file \in Documents /\ row.of \in Creds
    /\ \E v \in VersionsOf(row.of) :
          /\ row.fields = ManifestOf[<<row.of, v>>].fields
          /\ analysis.fields[f] = M!FieldVerdict(ManifestPages(file), f, ManifestOf[<<row.of, v>>].fields[f])
ByLines(analysis, row, file, baseline, f) ==
    /\ analysis.source = (IF baseline THEN "LEGACY_BASELINE" ELSE "LEGACY_NO_BASELINE")
    /\ file \in Documents /\ row.of \in Creds /\ row.values \in VersionsOf(row.of)
    /\ analysis.fields[f] =
         T!AnalyseSemanticChanges(row.values, LinesOf[file],
                                  IF baseline THEN LinesOf[Genuine[row.of]] ELSE <<>>)[f]

\* What analyseTamperedPdf says of a field comes from nothing, from the row's manifest or from
\* the comparison of lines.
LEMMA AnalysisIs ==
  ASSUME NEW row \in PossibleViews, NEW file \in Documents \cup {Unreadable},
         NEW baseline \in BOOLEAN, NEW fetched \in BOOLEAN, NEW f \in FieldNames,
         NEW analysis, analysis = AnalysisOf(row, file, baseline, fetched)
  PROVE  \/ ByNothing(analysis, f)
         \/ ByManifest(analysis, row, file, f)
         \/ ByLines(analysis, row, file, baseline, f)
<1> DEFINE verified == VerifiedBy[row.fields, file]
           compared == ComparedBy[<<row.of, row.values>>, file, baseline]
           structure == StructureVerdict(StructureBy[row.of, file], fetched, file # Unreadable)
<1>1. analysis = AnalyseTamperedPdf(row, verified, compared, structure, file # Unreadable)
  BY DEF AnalysisOf
<1>2. file # Unreadable => file \in Documents
  OBVIOUS
<1>3. ManifestState(row) \in {"absent", "valid", "invalid"}
  BY DEF ManifestState
<1>4. Silent("NOT_AVAILABLE")[f] = "NOT_AVAILABLE"
  BY TableIs DEF Silent
<1> HIDE DEF verified, compared, structure
<1>5. CASE ManifestState(row) = "invalid"
  BY <1>1, <1>4, <1>5 DEF AnalyseTamperedPdf, ByNothing
<1>6. CASE file = Unreadable /\ ManifestState(row) # "invalid"
  BY <1>1, <1>4, <1>6 DEF AnalyseTamperedPdf, NoAnalysis, ByNothing
<1>7. CASE file # Unreadable /\ ManifestState(row) = "valid"
  <2>1. analysis.source = "PERSISTED_MANIFEST" /\ analysis.fields = verified
    BY <1>1, <1>7 DEF AnalyseTamperedPdf
  <2>2. PICK v \in VersionsOf(row.of) : row.fields = ManifestOf[<<row.of, v>>].fields
    BY <1>7, ValidIsOwn
  <2>3. row.of \in Creds /\ <<row.of, v>> \in Versions
    BY <1>7, ValidIsOwn, ManifestIs
  <2>4. verified[f] = M!FieldVerdict(ManifestPages(file), f, row.fields[f])
    <3>1. file \in Documents /\ \E version \in Versions : row.fields = ManifestOf[version].fields
      BY <1>2, <1>7, <2>2, <2>3
    <3>2. VerifiedBy[row.fields, file][f] = M!FieldVerdict(ManifestPages(file), f, row.fields[f])
      BY ONLY f \in FieldNames, <3>1, VerifiedIs
    <3> QED
      BY ONLY <3>2 DEF verified
  <2> QED
    BY <1>2, <1>7, <2>1, <2>2, <2>3, <2>4 DEF ByManifest
<1>8. CASE file # Unreadable /\ ManifestState(row) = "absent"
  <2>1. analysis.source = compared.source /\ analysis.fields = compared.fields
    BY <1>1, <1>8 DEF AnalyseTamperedPdf
  <2>2. row.of \in Creds /\ row.values \in VersionsOf(row.of) /\ <<row.of, row.values>> \in Versions
    BY PossibleVersion
  <2>3. compared = Compared(row.values, LinesOf[Genuine[row.of]], LinesOf[file], baseline)
    <3> DEFINE version == <<row.of, row.values>>
    <3>1. version \in Versions /\ version[1] = row.of /\ version[2] = row.values
      BY <2>2
    <3>2. compared = ComparedBy[version, file, baseline]
      BY DEF compared
    <3> HIDE DEF version
    <3>3. file \in Documents
      BY <1>2, <1>8
    <3>4. ComparedBy[version, file, baseline] =
            Compared(version[2], LinesOf[Genuine[version[1]]], LinesOf[file], baseline)
      BY <3>1, <3>3, ComparedIs
    <3> QED
      BY <3>1, <3>2, <3>4
  <2> QED
    BY <1>2, <1>8, <2>1, <2>2, <2>3 DEF Compared, ByLines
<1> QED
  BY <1>2, <1>3, <1>5, <1>6, <1>7, <1>8

-----------------------------------------------------------------------------
(* What is said of a document, whoever asks and when.                        *)

\* Nothing is said to be altered if there is nothing to tell it by.
LEMMA NothingToGoBy ==
  ASSUME NEW row \in PossibleViews, NEW file \in Documents \cup {Unreadable},
         NEW baseline \in BOOLEAN, NEW fetched \in BOOLEAN, NEW f \in FieldNames,
         NEW analysis, analysis = AnalysisOf(row, file, baseline, fetched),
         analysis.source \notin {"PERSISTED_MANIFEST", "LEGACY_BASELINE"}
  PROVE  analysis.fields[f] # "ALTERED"
<1>1. ByNothing(analysis, f) \/ ByLines(analysis, row, file, baseline, f)
  <2>1. ~ByManifest(analysis, row, file, f)
    BY DEF ByManifest
  <2> QED
    BY <2>1, AnalysisIs
<1>2. CASE ByNothing(analysis, f)
  BY <1>2 DEF ByNothing
<1>3. CASE ByLines(analysis, row, file, baseline, f)
  <2>1. ~baseline
    BY <1>3 DEF ByLines
  <2>2. analysis.fields[f] = T!AnalyseSemanticChanges(row.values, LinesOf[file], <<>>)[f]
    BY <1>3, <2>1 DEF ByLines
  <2>3. f \in T!FieldNames
    BY SameFields
  <2> QED
    BY ONLY <2>2, <2>3, NoBaselineAccusesNothing
<1> QED
  BY <1>1, <1>2, <1>3

\* What the manifest of an official document says of a field, and that the document has it there.
LEMMA StoredIs ==
  ASSUME PositionsAreFound, NEW c \in Creds, NEW v \in VersionsOf(c), NEW f \in FieldNames
  PROVE  LET layout == ManifestPages(Genuine[c])
             values == [g \in FieldNames |-> Official(g, v)]
             stored == ManifestOf[<<c, v>>].fields[f]
         IN /\ stored = M!BuildFieldManifest(layout, f, values)
            /\ \A p \in DOMAIN layout : M!StandApart(layout[p])
            /\ stored.anchor.type = "POSITION" => M!Covers(layout, stored.anchor)
            /\ stored.status # "ALTERED"
            /\ <<c, v>> \in Versions
<1> DEFINE layout == ManifestPages(Genuine[c])
           values == [g \in FieldNames |-> Official(g, v)]
           stored == ManifestOf[<<c, v>>].fields[f]
           version == <<c, v>>
<1>1. /\ ManifestOf[version] = Manifest(c, v) /\ version \in Versions
      /\ version[1] = c /\ version[2] = v
  BY ManifestIs
<1>2. Manifest(c, v).fields = [g \in FieldNames |-> M!BuildFieldManifest(layout, g, values)]
  BY TableIs, SameFields DEF Manifest, M!BuildSemanticManifest, ManifestPages
<1>3. stored = M!BuildFieldManifest(layout, f, values)
  BY <1>1, <1>2
<1>4. /\ \A p \in DOMAIN layout : M!StandApart(layout[p])
      /\ stored.anchor.type = "POSITION" => M!Covers(layout, stored.anchor)
  BY <1>1 DEF PositionsAreFound
<1>5. M!BuildFieldManifest(layout, f, values).status # "ALTERED"
  BY DEF M!BuildFieldManifest
<1> HIDE DEF stored, layout, values
<1>6. stored.status # "ALTERED"
  BY <1>3, <1>5
<1> QED
  BY <1>1, <1>3, <1>4, <1>6 DEF stored, layout, values

\* By its manifest an official document, and so a copy, is unchanged.
LEMMA ManifestOnItself ==
  ASSUME PositionsAreFound, NEW c \in Creds, NEW v \in VersionsOf(c), NEW f \in FieldNames
  PROVE  M!FieldVerdict(ManifestPages(Genuine[c]), f, ManifestOf[<<c, v>>].fields[f]) # "ALTERED"
<1> DEFINE layout == ManifestPages(Genuine[c])
           values == [g \in FieldNames |-> Official(g, v)]
           stored == ManifestOf[<<c, v>>].fields[f]
<1>1. /\ stored = M!BuildFieldManifest(layout, f, values)
      /\ \A p \in DOMAIN layout : M!StandApart(layout[p])
      /\ stored.anchor.type = "POSITION" => M!Covers(layout, stored.anchor)
      /\ stored.status # "ALTERED"
  BY StoredIs
<1> HIDE DEF layout, values, stored
<1>2. M!FieldVerdict(layout, f, stored) \in {"UNCHANGED", "NOT_ASSESSABLE", stored.status}
  BY <1>1, ManifestFindsItsDocumentUnchanged
<1> QED
  BY <1>1, <1>2 DEF layout, stored

\* A copy has the pages of the official document, and so its lines.
LEMMA CopyHasItsPages ==
  ASSUME NEW file \in Copies, NEW c \in Creds, file.of = c
  PROVE  /\ file \in Documents
         /\ ManifestPages(file) = ManifestPages(Genuine[c])
         /\ LinesOf[file] = LinesOf[Genuine[c]]
<1>1. file \in Documents /\ Genuine[c] \in Documents /\ Rendered(file).pages = Rendered(Genuine[c]).pages
  BY DEF Copies
<1> QED
  BY <1>1, LinesIs DEF ManifestPages

\* A copy is not said to have an altered field, by whichever way it is judged.
LEMMA CopyIsAlike ==
  ASSUME PositionsAreFound, NEW row \in PossibleViews, NEW file \in Copies, file.of = row.of,
         NEW baseline \in BOOLEAN, NEW fetched \in BOOLEAN, NEW f \in FieldNames,
         NEW analysis, analysis = AnalysisOf(row, file, baseline, fetched)
  PROVE  analysis.fields[f] # "ALTERED"
<1> DEFINE values == row.values
           lines == LinesOf[Genuine[row.of]]
<1>1. /\ row.of \in Creds /\ file \in Documents
      /\ ManifestPages(file) = ManifestPages(Genuine[row.of])
      /\ LinesOf[file] = lines
  BY PossibleVersion, CopyHasItsPages
<1>2. ByNothing(analysis, f) \/ ByManifest(analysis, row, file, f) \/ ByLines(analysis, row, file, baseline, f)
  BY <1>1, AnalysisIs
<1>3. \A v \in VersionsOf(row.of) :
        M!FieldVerdict(ManifestPages(file), f, ManifestOf[<<row.of, v>>].fields[f]) # "ALTERED"
  BY <1>1, ManifestOnItself
<1>4. T!AnalyseSemanticChanges(values, LinesOf[file], IF baseline THEN lines ELSE <<>>)[f] # "ALTERED"
  <2> HIDE DEF lines, values
  <2>1. f \in T!FieldNames
    BY SameFields
  <2>2. T!AnalyseSemanticChanges(values, lines, lines)[f] # "ALTERED"
    BY ONLY <2>1, SameLinesAreNotAccused
  <2>3. T!AnalyseSemanticChanges(values, lines, <<>>)[f] # "ALTERED"
    BY ONLY <2>1, NoBaselineAccusesNothing
  <2> QED
    BY ONLY <1>1, <2>2, <2>3
<1> QED
  BY <1>2, <1>3, <1>4 DEF ByNothing, ByManifest, ByLines

-----------------------------------------------------------------------------
(* The requests again: what a request says of its file is the analysis of    *)
(* that file against its row, and it has a row by identification only for a  *)
(* document.                                                                 *)

Judged(r) ==
    /\ r.result = "TAMPERED" =>
         /\ r.row \in PossibleViews /\ r.file \in Documents \cup {Unreadable}
         /\ \E baseline, fetched \in BOOLEAN : r.analysis = AnalysisOf(r.row, r.file, baseline, fetched)
    /\ r.result # "TAMPERED" => r.analysis = NoAnalysis
    /\ r.pc \in {"idle", "validate", "signature", "lookup", "identify", "rank", "official", "analyse", "verify"}
         => r.result = "none"
    /\ r.pc \in {"official", "analyse"} => r.method \in WithFile /\ r.row # NoRow
    /\ r.method \in WithFile /\ r.pc # "idle" => r.file \in Files
    /\ r.method \in WithFile /\ r.pc \in {"lookup", "identify", "rank", "official", "analyse"} => r.file # NotPdf
    /\ r.pc = "rank" => r.file \in Documents

\* A step that only ends a request, or moves it on.
SameBody(r, q) ==
    /\ r.method = q.method /\ r.file = q.file /\ r.row = q.row /\ r.by = q.by
    /\ r.analysis = q.analysis /\ r.known = q.known

\* A request that ends, or has not begun, or begins, says nothing of its file that was not
\* said before.
LEMMA EndIsJudged ==
  ASSUME NEW q, NEW r, Judged(q), q.pc # "idle", SameBody(r, q), r.pc \in {"log", "audit", "cleanup", "done"},
         r.result = q.result \/ (q.result = "none" /\ r.result # "TAMPERED")
  PROVE  Judged(r)
  BY DEF Judged, SameBody

LEMMA IdleIsJudged == Judged(Idle)
  BY DEF Judged, Idle, WithFile

LEMMA AskIsJudged ==
  ASSUME NEW method \in Methods \ WithFile, NEW claim \in Claims
  PROVE  LET r == [Idle EXCEPT !.pc = "lookup", !.method = method, !.claim = claim]
         IN Judged(r)
  BY DEF Judged, Idle

LEMMA UploadIsJudged ==
  ASSUME NEW method \in Methods \cap WithFile, NEW claim \in Claims \cup {NoCred}, NEW file \in Files
  PROVE  LET r == [Idle EXCEPT !.pc = "validate", !.method = method, !.claim = claim, !.file = file]
         IN Judged(r)
  BY DEF Judged, Idle

\* What every step but an identification does.
StaysJudged == Judged(request')

\* Every step of a handler that says something of a file says what its analysis says.
LEMMA BeginsJudged == ASSUME Upload \/ Ask \/ Crash \/ Leave PROVE StaysJudged
<1>1. CASE Upload
  <2>1. PICK method \in Methods \cap WithFile, claim \in Claims \cup {NoCred}, file \in Files :
          request' = [Idle EXCEPT !.pc = "validate", !.method = method, !.claim = claim, !.file = file]
    BY <1>1 DEF Upload
  <2> QED
    BY <2>1, UploadIsJudged DEF StaysJudged
<1>2. CASE Ask
  <2>1. PICK method \in Methods \ WithFile, claim \in Claims :
          request' = [Idle EXCEPT !.pc = "lookup", !.method = method, !.claim = claim]
    BY <1>2 DEF Ask, Put
  <2> QED
    BY <2>1, AskIsJudged DEF StaysJudged
<1>3. CASE Crash \/ Leave
  BY <1>3, IdleIsJudged DEF Crash, Leave, Put, StaysJudged
<1> QED
  BY <1>1, <1>2, <1>3

LEMMA ValidateJudged == ASSUME IInv, Judged(request), Validate PROVE StaysJudged
<1>1. IsRequest(request) /\ request.pc = "validate"
  BY DEF IInv, Good, Validate, At
<1>2. ASSUME request' = [request EXCEPT !.pc = "signature"] PROVE StaysJudged
  <2>1. SameBody(request', request) /\ request'.pc = "signature" /\ request'.result = request.result
    BY <1>1, <1>2 DEF IsRequest, SameBody
  <2> QED
    BY <1>1, <2>1 DEF StaysJudged, SameBody, Judged
<1>3. ASSUME request' = [request EXCEPT !.pc = "cleanup", !.answer = "BAD_REQUEST"] PROVE StaysJudged
  <2>1. SameBody(request', request) /\ request'.pc = "cleanup" /\ request'.result = request.result
    BY <1>1, <1>3 DEF IsRequest, SameBody
  <2> QED
    BY <1>1, <2>1, EndIsJudged DEF StaysJudged
<1> QED
  BY <1>2, <1>3 DEF Validate, Put

LEMMA SignatureJudged == ASSUME IInv, Judged(request), Signature PROVE StaysJudged
<1>1. IsRequest(request) /\ request.pc = "signature" /\ request.result = "none"
  BY DEF IInv, Good, Signature, At, Judged
<1>2. ASSUME request' = [request EXCEPT !.pc = "log", !.result = "INVALID_FILE"] PROVE StaysJudged
  <2>1. SameBody(request', request) /\ request'.pc = "log" /\ request'.result = "INVALID_FILE"
    BY <1>1, <1>2 DEF IsRequest, SameBody
  <2> QED
    BY <1>1, <2>1, EndIsJudged DEF StaysJudged
<1>3. ASSUME request' = [request EXCEPT !.pc = "lookup"], request.file # NotPdf PROVE StaysJudged
  <2>1. SameBody(request', request) /\ request'.pc = "lookup" /\ request'.result = request.result
    BY <1>1, <1>3 DEF IsRequest, SameBody
  <2> QED
    BY <1>1, <1>3, <2>1 DEF StaysJudged, SameBody, Judged
<1> QED
  BY <1>2, <1>3 DEF Signature, Put

LEMMA LookupJudged == ASSUME IInv, Judged(request), Lookup PROVE StaysJudged
<1>1. IsRequest(request) /\ request.pc = "lookup" /\ request.result = "none"
  BY DEF IInv, Good, Lookup, At, Judged
<1>2. PICK row : request' = [request EXCEPT !.pc = AfterLookup(row), !.row = row, !.known = Registered,
                               !.result = IF AfterLookup(row) = "log" THEN "UNKNOWN" ELSE "none"]
  BY DEF Lookup, Put
<1>3. /\ request'.pc = AfterLookup(row) /\ request'.row = row
      /\ request'.result = (IF AfterLookup(row) = "log" THEN "UNKNOWN" ELSE "none")
      /\ request'.method = request.method /\ request'.file = request.file /\ request'.analysis = request.analysis
  BY <1>1, <1>2 DEF IsRequest
<1>4. /\ AfterLookup(row) \in {"identify", "log", "official", "verify"}
      /\ AfterLookup(row) = "official" => row # NoRow /\ request.method \in WithFile
  BY DEF AfterLookup
<1> QED
  BY <1>1, <1>3, <1>4 DEF StaysJudged, Judged

LEMMA OfficialStateJudged == ASSUME IInv, Judged(request), OfficialState PROVE StaysJudged
<1>1. /\ IsRequest(request) /\ request.pc = "official" /\ request' = [request EXCEPT !.pc = "analyse"]
  BY DEF IInv, Good, OfficialState, At, Put
<1>2. SameBody(request', request) /\ request'.pc = "analyse" /\ request'.result = request.result
  BY <1>1 DEF IsRequest, SameBody
<1> QED
  BY <1>1, <1>2 DEF StaysJudged, SameBody, Judged

LEMMA AnalyseJudged == ASSUME IInv, Judged(request), Analyse PROVE StaysJudged
<1>1. IsRequest(request) /\ Typed(request) /\ request.pc = "analyse"
  BY DEF IInv, Good, Analyse, At
<1>2. PICK baseline \in BOOLEAN, fetched \in BOOLEAN :
        request' = [request EXCEPT !.pc = "log", !.result = "TAMPERED",
                                   !.analysis = AnalysisOf(request.row, request.file, baseline, fetched)]
  BY DEF Analyse, Put
<1>3. /\ request'.pc = "log" /\ request'.result = "TAMPERED"
      /\ request'.analysis = AnalysisOf(request.row, request.file, baseline, fetched)
      /\ request'.method = request.method /\ request'.file = request.file /\ request'.row = request.row
      /\ request'.by = request.by /\ request'.known = request.known
  BY <1>1, <1>2 DEF IsRequest
<1>4. request.row \in PossibleViews /\ request.file \in Documents \cup {Unreadable}
  BY <1>1 DEF Typed, Judged, Files
<1> QED
  BY <1>1, <1>3, <1>4 DEF StaysJudged, Judged

LEMMA EndJudged ==
  ASSUME IInv, Judged(request), Verify \/ LogVerification \/ LogAudit \/ Fail \/ Cleanup
  PROVE  StaysJudged
<1>1. IsRequest(request)
  BY DEF IInv, Good
<1>2. CASE Verify
  <2>1. PICK result \in {"UNKNOWN", "KNOWN"} : request' = [request EXCEPT !.pc = "log", !.result = result]
    BY <1>2 DEF Verify, Put
  <2>2. SameBody(request', request) /\ request'.pc = "log" /\ request'.result # "TAMPERED"
    BY <1>1, <2>1 DEF IsRequest, SameBody
  <2>3. request.pc = "verify" /\ request.result = "none"
    BY <1>2 DEF Verify, At, Judged
  <2> QED
    BY <2>2, <2>3, EndIsJudged DEF StaysJudged
<1>3. CASE LogVerification
  <2>1. request.pc = "log" /\ request' = [request EXCEPT !.pc = "audit", !.logged = request.result]
    BY <1>3 DEF LogVerification, At, Put
  <2>2. SameBody(request', request) /\ request'.pc = "audit" /\ request'.result = request.result
    BY <1>1, <2>1 DEF IsRequest, SameBody
  <2> QED
    BY <2>1, <2>2, EndIsJudged DEF StaysJudged
<1>4. CASE LogAudit \/ Fail
  <2>1. request.pc # "idle" /\ \E answer : request' = Finish(answer)
    BY <1>4 DEF LogAudit, Fail, At, Put
  <2>2. SameBody(request', request) /\ request'.pc \in {"cleanup", "done"} /\ request'.result = request.result
    BY <1>1, <2>1 DEF IsRequest, SameBody, Finish
  <2> QED
    BY <2>1, <2>2, EndIsJudged DEF StaysJudged
<1>5. CASE Cleanup
  <2>1. request.pc = "cleanup" /\ request' = [request EXCEPT !.pc = "done"]
    BY <1>5 DEF Cleanup, At
  <2>2. SameBody(request', request) /\ request'.pc = "done" /\ request'.result = request.result
    BY <1>1, <2>1 DEF IsRequest, SameBody
  <2> QED
    BY <2>1, <2>2, EndIsJudged DEF StaysJudged
<1> QED
  BY <1>2, <1>3, <1>4, <1>5

\* An identification gives the request one of the rows that were found, or none.
LEMMA IdentifiedJudged ==
  ASSUME IInv, Judged(request), request.pc \in {"identify", "rank"}, NEW found,
         \A h \in found : h.row \in Views, found # {} => request.file \in Documents,
         request' = Identified(found)
  PROVE  Judged(request')
<1>1. /\ IsRequest(request) /\ RowsOK /\ request.method = "file" /\ request.result = "none"
      /\ request.method \in WithFile
  BY DEF IInv, Good, Progress, Judged, WithFile
<1> DEFINE used == {h \in found : h.row.hash # request.file}
<1>2. CASE used # {}
  <2> DEFINE h == CHOOSE x \in used : TRUE
  <2>1. h \in found /\ request' = [request EXCEPT !.pc = "official", !.row = h.row, !.by = h.method]
    BY <1>2 DEF Identified
  <2>2. h.row # NoRow
    BY <1>1, <2>1, ViewIsPossible DEF Views
  <2> HIDE DEF h
  <2>3. /\ request'.pc = "official" /\ request'.row = h.row /\ request'.file = request.file
        /\ request'.method = request.method /\ request'.known = request.known
        /\ request'.result = request.result /\ request'.analysis = request.analysis
    BY <1>1, <2>1 DEF IsRequest
  <2> QED
    BY <1>1, <2>1, <2>2, <2>3 DEF Judged
<1>3. CASE used = {}
  <2> DEFINE pc == IF request.round = 0 THEN "identify" ELSE "verify"
  <2>1. request' = [request EXCEPT !.pc = pc, !.round = request.round + 1]
    BY <1>3 DEF Identified
  <2>2. SameBody(request', request) /\ request'.pc = pc /\ request'.result = request.result
    BY <1>1, <2>1 DEF IsRequest, SameBody
  <2> QED
    BY <1>1, <2>2 DEF SameBody, Judged
<1> QED
  BY <1>2, <1>3

JInv == IInv /\ Judged(request)

\* It holds initially, and every step keeps it.
LEMMA InitIsJudged == Init => Judged(request)
  BY IdleIsJudged DEF Init

LEMMA IdentificationJudged ==
  ASSUME IInv, Judged(request), IdentifyById \/ IdentifyByNumber \/ NotIdentified
  PROVE  Judged(request')
<1>1. IsRequest(request)
  BY DEF IInv, Good
<1>2. CASE IdentifyById
  <2>1. request.pc = "identify" /\ request.file \in Documents
    BY <1>2 DEF IdentifyById, At
  <2>2. ASSUME request' = Identified(ByIdentifier(Text, Views)) PROVE Judged(request')
    <3>1. \A h \in ByIdentifier(Text, Views) : h.row \in Views
      BY FoundAreRows
    <3> QED
      BY <2>1, <2>2, <3>1, IdentifiedJudged
  <2>3. ASSUME request' = [request EXCEPT !.pc = "rank"] PROVE Judged(request')
    <3>1. SameBody(request', request) /\ request'.pc = "rank" /\ request'.result = request.result
      BY <1>1, <2>3 DEF IsRequest, SameBody
    <3> QED
      BY <2>1, <3>1 DEF SameBody, Judged
  <2> QED
    BY <1>2, <2>2, <2>3 DEF IdentifyById, Put
<1>3. CASE IdentifyByNumber
  <2>1. request.pc = "rank"
    BY <1>3 DEF IdentifyByNumber, At
  <2>2. PICK read \in ByStudentNumber(Text, Views) : request' = Identified(Ranked(Text, read))
    BY <1>3 DEF IdentifyByNumber, Put
  <2> DEFINE found == Ranked(Text, read)
  <2>4. request' = Identified(found) /\ \A h \in found : h.row \in Views
    BY <2>2, FoundAreRows
  <2>3. request.file \in Documents
    BY <2>1 DEF Judged
  <2> HIDE DEF found
  <2> QED
    BY <2>1, <2>3, <2>4, IdentifiedJudged
<1>4. CASE NotIdentified
  BY <1>4, IdentifiedJudged DEF NotIdentified, Put
<1> QED
  BY <1>2, <1>3, <1>4

\* Every step of a handler is one of these.
LEMMA HandlerJudged == ASSUME IInv, Judged(request), Handler PROVE StaysJudged
  BY IdentificationJudged, BeginsJudged, ValidateJudged, SignatureJudged, LookupJudged, OfficialStateJudged, AnalyseJudged, EndJudged
     DEF Handler, StaysJudged

LEMMA JudgedInductive == JInv /\ [Next]_vars => JInv'
<1> SUFFICES ASSUME JInv, [Next]_vars PROVE JInv'
  OBVIOUS
<1>1. IInv'
  BY Inductive DEF JInv
<1>2. CASE World \/ UNCHANGED vars
  <2>1. request' = request
    BY <1>2 DEF World, Register, StoreManifest, Backfill, EditStudent, vars
  <2> QED
    BY <1>1, <2>1 DEF JInv
<1>3. CASE Handler
  <2>1. Judged(request')
    BY <1>3, HandlerJudged DEF JInv, StaysJudged
  <2> QED
    BY <1>1, <2>1 DEF JInv
<1> QED
  BY <1>2, <1>3 DEF Next

LEMMA JInvHolds == Spec => []JInv
<1>1. Init => JInv
  BY InitIsGood, InitIsJudged DEF JInv
<1> QED
  BY <1>1, JudgedInductive, PTL DEF Spec

\* What a request says of its file is an analysis of it, or nothing.
LEMMA SaysItsAnalysis ==
  ASSUME JInv
  PROVE  \/ request.result # "TAMPERED" /\ request.analysis = NoAnalysis
         \/ /\ request.result = "TAMPERED" /\ request.row \in PossibleViews
            /\ request.file \in Documents \cup {Unreadable}
            /\ \E baseline, fetched \in BOOLEAN :
                  request.analysis = AnalysisOf(request.row, request.file, baseline, fetched)
  BY DEF JInv, Judged

\* Without a baseline, by an invalid manifest or from an unreadable file no field is ever said
\* to be altered, whatever the file shows.
THEOREM NothingIsEverInvented == Spec => []NothingIsInvented
<1>1. ASSUME JInv PROVE NothingIsInvented
  <2> SUFFICES ASSUME request.analysis.source \notin {"PERSISTED_MANIFEST", "LEGACY_BASELINE"},
                      NEW f \in FieldNames
               PROVE  request.analysis.fields[f] # "ALTERED"
    BY DEF NothingIsInvented, Accused
  <2>1. CASE request.analysis = NoAnalysis
    BY <2>1, TableIs DEF NoAnalysis, Silent
  <2>2. CASE request.analysis # NoAnalysis
    BY <1>1, <2>2, SaysItsAnalysis, NothingToGoBy
  <2> QED
    BY <2>1, <2>2
<1> QED
  BY <1>1, JInvHolds, PTL

\* A copy of an official document is never said to have an altered field, if on official
\* documents the rows stand apart and values are found again where they stand.
THEOREM CopiesAreNeverAccused ==
  ASSUME PositionsAreFound PROVE Spec => []CopyIsNotAccused
<1>1. ASSUME JInv PROVE CopyIsNotAccused
  <2> SUFFICES ASSUME OwnFile, request.file \in Copies, NEW f \in FieldNames
               PROVE  request.analysis.fields[f] # "ALTERED"
    BY DEF CopyIsNotAccused, Accused
  <2>1. request.row \in PossibleViews /\ request.file.of = request.row.of
    BY <1>1, SaysItsAnalysis DEF OwnFile
  <2>2. PICK baseline \in BOOLEAN, fetched \in BOOLEAN :
          request.analysis = AnalysisOf(request.row, request.file, baseline, fetched)
    BY <1>1, SaysItsAnalysis DEF OwnFile
  <2> QED
    BY <2>1, <2>2, CopyIsAlike
<1> QED
  BY <1>1, JInvHolds, PTL

\* Values on one row are found again where they stand: only a value set on two rows, the first
\* of them short, is passed over.
THEOREM OneRowIsFound == ASSUME OnOneRow PROVE PositionsAreFound
<1> SUFFICES ASSUME NEW c \in Creds, NEW v \in VersionsOf(c), NEW f \in FieldNames
             PROVE  LET file == Genuine[c]
                        placed == ManifestOf[<<c, v>>].fields[f].anchor
                        anchor == AnchorOf(c, v, f)
                    IN /\ \A p \in DOMAIN ManifestPages(file) : M!StandApart(ManifestPages(file)[p])
                       /\ \A p \in DOMAIN AnchoredPages(file) : A!StandApart(AnchoredPages(file)[p])
                       /\ placed.type = "POSITION" => M!Covers(ManifestPages(file), placed)
                       /\ anchor.type = "COORDINATE" => A!Covers(AnchoredPages(file), anchor)
  <2>1. \A version \in Versions : \E c \in Creds : \E v \in VersionsOf(c) :
           version = <<c, v>> /\ version[1] = c /\ version[2] = v
    BY DEF Versions
  <2>2. \E f \in FieldNames : TRUE
    BY DEF FieldNames, Fields
  <2> QED
    BY <2>1, <2>2 DEF PositionsAreFound
<1> DEFINE manifest == ManifestPages(Genuine[c])
           anchored == AnchoredPages(Genuine[c])
           values == [g \in FieldNames |-> Official(g, v)]
           placed == ManifestOf[<<c, v>>].fields[f].anchor
           anchor == AnchorOf(c, v, f)
           version == <<c, v>>
<1>1. /\ version \in Versions /\ version[1] = c /\ version[2] = v
      /\ ManifestOf[version] = Manifest(c, v)
  BY ManifestIs
<1>2. /\ \A p \in DOMAIN manifest : M!StandApart(manifest[p]) /\ M!Wide(manifest[p])
      /\ \A p \in DOMAIN anchored : A!StandApart(anchored[p]) /\ A!Wide(anchored[p])
      /\ placed.type = "POSITION" => placed.span = 1
      /\ anchor.type = "COORDINATE" => anchor.span = 1
  <2>1. ManifestPages(Genuine[version[1]]) = manifest /\ AnchoredPages(Genuine[version[1]]) = anchored
    BY <1>1
  <2>2. ManifestOf[version].fields[f].anchor = placed /\ AnchorOf(version[1], version[2], f) = anchor
    BY <1>1
  <2> HIDE DEF manifest, anchored, placed, anchor, version
  <2> QED
    BY <1>1, <2>1, <2>2 DEF OnOneRow
<1>3. placed = M!BuildFieldManifest(manifest, f, values).anchor
  <2>1. Manifest(c, v).fields = [g \in FieldNames |-> M!BuildFieldManifest(manifest, g, values)]
    BY TableIs, SameFields DEF Manifest, M!BuildSemanticManifest, ManifestPages
  <2> QED
    BY <1>1, <2>1
<1>4. anchor = A!FindAnchor(anchored, f, A!AnchoredCandidates(f, v), v)
  BY DEF AnchorOf
<1> HIDE DEF manifest, anchored, values, placed, anchor
<1>5. \A p \in DOMAIN anchored : M!StandApart(anchored[p]) /\ M!Wide(anchored[p])
  BY <1>2, SharedRows
<1>6. placed.type = "POSITION" => M!Covers(manifest, placed)
  BY <1>2, <1>3, PositionIsAPlace, PlaceIsCovered
<1>7. anchor.type = "COORDINATE" => A!Covers(anchored, anchor)
  BY <1>2, <1>4, <1>5, CoordinateIsAPlace, PlaceIsCovered, SharedRows
<1> QED
  BY <1>2, <1>6, <1>7 DEF manifest, anchored, placed, anchor

\* A copy is not accused, unless its official document sets such a value on two rows.
COROLLARY OneRowCopiesAreNeverAccused == ASSUME OnOneRow PROVE Spec => []CopyIsNotAccused
BY OneRowIsFound, CopiesAreNeverAccused

\* By its manifest no document is accused of a field that it still has as the official one,
\* by whomever it was printed, with whatever else on it, and whenever the student was edited.
THEOREM IntactIsNeverAccused ==
  ASSUME PositionsAreFound PROVE Spec => []IntactIsNotAccused
<1>1. ASSUME JInv PROVE IntactIsNotAccused
  <2> SUFFICES ASSUME OwnFile, request.analysis.source = "PERSISTED_MANIFEST", NEW f \in FieldNames,
                      M!Intact(ManifestPages(Genuine[request.row.of]), ManifestPages(request.file),
                               request.row.fields[f].anchor)
               PROVE  request.analysis.fields[f] # "ALTERED"
    BY DEF IntactIsNotAccused, Accused
  <2>1. request.row \in PossibleViews /\ request.file \in Documents
    BY <1>1, SaysItsAnalysis DEF OwnFile
  <2>2. PICK baseline \in BOOLEAN, fetched \in BOOLEAN :
          request.analysis = AnalysisOf(request.row, request.file, baseline, fetched)
    BY <1>1, SaysItsAnalysis DEF OwnFile
  <2>3. ByManifest(request.analysis, request.row, request.file, f)
    <3>1. ~ByNothing(request.analysis, f) /\ ~ByLines(request.analysis, request.row, request.file, baseline, f)
      BY DEF ByNothing, ByLines
    <3> QED
      BY <2>1, <2>2, <3>1, AnalysisIs
  <2> DEFINE c == request.row.of
  <2>4. PICK v \in VersionsOf(c) :
          /\ request.row.fields = ManifestOf[<<c, v>>].fields
          /\ request.analysis.fields[f] =
               M!FieldVerdict(ManifestPages(request.file), f, ManifestOf[<<c, v>>].fields[f])
    BY <2>3 DEF ByManifest
  <2> DEFINE official == ManifestPages(Genuine[c])
             submitted == ManifestPages(request.file)
             values == [g \in FieldNames |-> Official(g, v)]
             stored == ManifestOf[<<c, v>>].fields[f]
  <2>5. /\ stored = M!BuildFieldManifest(official, f, values)
        /\ \A p \in DOMAIN official : M!StandApart(official[p])
    <3>1. c \in Creds
      BY <2>3 DEF ByManifest
    <3> QED
      BY <3>1, StoredIs
  <2>6. /\ request.analysis.fields[f] = M!FieldVerdict(submitted, f, stored)
        /\ M!Intact(official, submitted, stored.anchor)
    BY <2>4
  <2> HIDE DEF official, submitted, values, stored
  <2> QED
    BY <2>5, <2>6, IntactFieldIsNotAccused
<1> QED
  BY <1>1, JInvHolds, PTL
=============================================================================
