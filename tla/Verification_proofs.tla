-------------------------- MODULE Verification_proofs --------------------------
(***************************************************************************)
(* What a VERIFIED answer says, for any number of credentials,             *)
(* publications and verifications.  The publication under way beside them  *)
(* keeps the invariant proved in StatusListPublisher_proofs.               *)
(***************************************************************************)
EXTENDS Verification, TLAPS

Lists == INSTANCE StatusListPublisher_proofs

USE PublicationAssumption

(* Publication and Lists are two instances of one module: a definition of    *)
(* one is the same definition of the other.                                  *)
LEMMA SameTrust ==
  ASSUME NEW c \in Creds
  PROVE  /\ Publication!Trust!Accept(c) <=> Lists!Trust!Accept(c)
         /\ Publication!Trust!RecordRevocation(c) <=> Lists!Trust!RecordRevocation(c)
         /\ Publication!Trust!Supersede(c) <=> Lists!Trust!Supersede(c)
         /\ Publication!Trust!Begin(c) <=> Lists!Trust!Begin(c)
         /\ Publication!Trust!Reject(c) <=> Lists!Trust!Reject(c)
         /\ Publication!Trust!Anchor(c) <=> Lists!Trust!Anchor(c)
         /\ Publication!Trust!Withdraw(c) <=> Lists!Trust!Withdraw(c)
  BY DEF Publication!Trust!To, Lists!Trust!To,
         Publication!Trust!Accept, Lists!Trust!Accept,
         Publication!Trust!RecordRevocation, Lists!Trust!RecordRevocation,
         Publication!Trust!Supersede, Lists!Trust!Supersede,
         Publication!Trust!Begin, Lists!Trust!Begin,
         Publication!Trust!Reject, Lists!Trust!Reject,
         Publication!Trust!Anchor, Lists!Trust!Anchor,
         Publication!Trust!Withdraw, Lists!Trust!Withdraw

LEMMA SameNext == Publication!Next => Lists!Next
<1>1. ASSUME NEW p \in Publishers, NEW c \in Creds, Publication!Lifecycle(p, c)
      PROVE  Lists!Lifecycle(p, c)
  BY <1>1, SameTrust
     DEF Publication!Lifecycle, Lists!Lifecycle,
         Publication!PublishOnIssuance, Lists!PublishOnIssuance,
         Publication!PublishOnRevocation, Lists!PublishOnRevocation,
         Publication!PublishOnSupersession, Lists!PublishOnSupersession,
         Publication!Call, Lists!Call, Publication!Idle, Lists!Idle
<1>2. ASSUME NEW c \in Creds, Publication!Unpublished(c) PROVE Lists!Unpublished(c)
  BY <1>2, SameTrust DEF Publication!Unpublished, Lists!Unpublished
<1>3. ASSUME NEW p \in Publishers, Publication!Publish(p) PROVE Lists!Publish(p)
  BY <1>3
     DEF Publication!Publish, Lists!Publish, Publication!Stamp, Lists!Stamp,
         Publication!ReadLatest, Lists!ReadLatest, Publication!Latest, Lists!Latest,
         Publication!Revoking, Lists!Revoking, Publication!AnchorList, Lists!AnchorList,
         Publication!CommitmentOf, Lists!CommitmentOf,
         Publication!InsertList, Lists!InsertList, Publication!End, Lists!End,
         Publication!Idle, Lists!Idle, Publication!trustVars, Lists!trustVars
<1>4. Publication!Tick \/ Publication!Crash => Lists!Tick \/ Lists!Crash
  BY DEF Publication!Tick, Lists!Tick, Publication!Crash, Lists!Crash,
         Publication!Idle, Lists!Idle, Publication!trustVars, Lists!trustVars
<1> QED
  BY <1>1, <1>2, <1>3, <1>4 DEF Publication!Next, Lists!Next

LEMMA SameInit == Publication!Init => Lists!Init
  BY DEF Publication!Init, Lists!Init, Publication!Trust!Init, Lists!Trust!Init,
         Publication!Idle, Lists!Idle

LEMMA SameType == Lists!TypeOK <=> Publication!TypeOK
  BY DEF Lists!TypeOK, Publication!TypeOK, Lists!StatusList, Publication!StatusList,
         Lists!Commitment, Publication!Commitment, Lists!Publisher, Publication!Publisher,
         Lists!Trust!Records, Publication!Trust!Records,
         Lists!Trust!Proofs, Publication!Trust!Proofs

-------------------------------------------------------------------------------
\* What the credentials do, whoever publishes.
LEMMA SystemMoves == Publication!Next => [Trust!Next]_(Trust!vars)
<1> USE DEF Trust!Next, Trust!vars
<1>1. ASSUME NEW c \in Creds,
             \/ Publication!Trust!Accept(c) \/ Publication!Trust!RecordRevocation(c)
             \/ Publication!Trust!Supersede(c) \/ Publication!Trust!Begin(c)
             \/ Publication!Trust!Reject(c) \/ Publication!Trust!Anchor(c)
             \/ Publication!Trust!Withdraw(c)
      PROVE  Trust!Next
  BY <1>1
     DEF Publication!Trust!To, Trust!To, Publication!Trust!Accept, Trust!Accept,
         Publication!Trust!RecordRevocation, Trust!RecordRevocation,
         Publication!Trust!Supersede, Trust!Supersede,
         Publication!Trust!Begin, Trust!Begin, Publication!Trust!Reject, Trust!Reject,
         Publication!Trust!Anchor, Trust!Anchor, Publication!Trust!Withdraw, Trust!Withdraw
<1>2. ASSUME NEW p \in Publishers, NEW c \in Creds, Publication!Lifecycle(p, c)
      PROVE  Trust!Next
  BY <1>1, <1>2
     DEF Publication!Lifecycle, Publication!PublishOnIssuance,
         Publication!PublishOnRevocation, Publication!PublishOnSupersession
<1>3. ASSUME NEW c \in Creds, Publication!Unpublished(c) PROVE Trust!Next
  BY <1>1, <1>3 DEF Publication!Unpublished
<1>4. ASSUME NEW p \in Publishers, Publication!Publish(p) PROVE UNCHANGED <<record, proof>>
  BY <1>4 DEF Publication!Publish, Publication!Stamp, Publication!ReadLatest,
              Publication!AnchorList, Publication!InsertList, Publication!trustVars
<1>5. Publication!Tick \/ Publication!Crash => UNCHANGED <<record, proof>>
  BY DEF Publication!Tick, Publication!Crash, Publication!trustVars
<1> QED
  BY <1>2, <1>3, <1>4, <1>5 DEF Publication!Next

\* A record was accepted over a proof, and revoked after its proof.
TrustOK ==
  \A c \in Creds : /\ record[c] \in {"valid", "superseded", "revoked"} => proof[c] # "absent"
                   /\ record[c] = "revoked" => proof[c] = "revoked"

\* An end is never taken back, neither of a record nor of a proof.
Keeps ==
  \A c \in Creds : /\ record[c] \in Publication!Ended => record'[c] = record[c]
                   /\ proof[c] = "revoked" => proof'[c] = "revoked"

TrustTypes == /\ record \in [Creds -> Trust!Records]
              /\ proof \in [Creds -> Trust!Proofs]

LEMMA TrustKeeps ==
  ASSUME TrustTypes, TrustOK, [Trust!Next]_(Trust!vars)
  PROVE  Keeps /\ TrustOK'
<1> USE DEF TrustTypes, TrustOK, Keeps, Publication!Ended, Trust!Records, Trust!Proofs
<1>1. CASE UNCHANGED Trust!vars
  BY <1>1 DEF Trust!vars
<1>2. ASSUME NEW c \in Creds,
             Trust!Accept(c) \/ Trust!Begin(c) \/ Trust!Reject(c) \/ Trust!Supersede(c)
             \/ Trust!RecordRevocation(c)
      PROVE  Keeps /\ TrustOK'
  BY <1>2 DEF Trust!Accept, Trust!Begin, Trust!Reject, Trust!Supersede,
              Trust!RecordRevocation, Trust!To
<1>3. ASSUME NEW c \in Creds, Trust!Anchor(c) \/ Trust!Withdraw(c)
      PROVE  Keeps /\ TrustOK'
  BY <1>3 DEF Trust!Anchor, Trust!Withdraw
<1> QED
  BY <1>1, <1>2, <1>3 DEF Trust!Next

-------------------------------------------------------------------------------
(* Neither property is inductive: an answer is given from reads made at four *)
(* times.  The invariant says what each read still implies later.            *)

Reading == {"call", "chain", "accreditation", "status", "answered"}

\* Request r, with what was true when it came: what it has read of an end is
\* still so, and an end older than the request is seen by one of its reads.
VerifierOK(r, a) ==
  /\ r.step \in Reading => r.cred \in Creds
  /\ r.step \in Reading =>
       /\ r.row \in Publication!Ended => record[r.cred] \in Publication!Ended
       /\ r.row = "revoked" => proof[r.cred] = "revoked"
       /\ r.row = "valid" => a.proof # "absent"
       /\ a.proof = "revoked" => proof[r.cred] = "revoked"
       /\ r.cred \in a.told => r.row \in Publication!Ended \/ a.proof = "revoked"
  /\ r.step \in {"accreditation", "status", "answered"} =>
       /\ r.proof = "revoked" => proof[r.cred] = "revoked"
       /\ r.row = "valid" /\ a.proof = "revoked" => r.proof = "revoked"
  /\ r.answer = "VERIFIED" =>
       r.step = "answered" /\ r.row = "valid" /\ r.proof = "issued"
  /\ r.answer = "REVOKED" =>
       /\ r.step = "answered"
       /\ \/ proof[r.cred] = "revoked"
          \/ r.row = "valid" /\ record[r.cred] = "superseded"

\* What somebody was told REVOKED or SUPERSEDED has ended.
ToldOK == \A c \in told : record[c] \in Publication!Ended \/ proof[c] = "revoked"

IInv == /\ TypeOK
        /\ Lists!IInv
        /\ TrustOK
        /\ ToldOK
        /\ \A v \in Verifiers : VerifierOK(verifiers[v], asked[v])

LEMMA InvInit == Init => IInv
<1> SUFFICES ASSUME Init PROVE IInv
  OBVIOUS
<1>1. Lists!IInv
  BY SameInit, Lists!InvInit DEF Init
<1>2. Publication!TypeOK
  BY <1>1, SameType DEF Lists!IInv
<1>3. TypeOK
  BY <1>2 DEF Init, TypeOK, Idle, NotAsked, Verifier, Answers, Trust!Records, Trust!Proofs
<1>4. TrustOK /\ ToldOK
  BY DEF Init, TrustOK, ToldOK, Publication!Init, Publication!Trust!Init
<1>5. \A v \in Verifiers : VerifierOK(verifiers[v], asked[v])
  BY DEF Init, VerifierOK, Idle, Reading
<1> QED
  BY <1>1, <1>3, <1>4, <1>5 DEF IInv

\* What everybody else does leaves a request in order.
LEMMA OthersKeep ==
  ASSUME IInv, Keeps, NEW v \in Verifiers,
         verifiers'[v] = verifiers[v], asked'[v] = asked[v]
  PROVE  VerifierOK(verifiers[v], asked[v])'
  BY DEF IInv, VerifierOK, Keeps, Reading, Publication!Ended

LEMMA TypesOfTrust == IInv => TrustTypes
  BY DEF IInv, TypeOK, Publication!TypeOK, TrustTypes, Publication!Trust!Records,
         Publication!Trust!Proofs, Trust!Records, Trust!Proofs

LEMMA SystemPreserves == ASSUME IInv, System PROVE IInv'
<1>1. Lists!IInv'
  BY SameNext, Lists!InvStep DEF IInv, System
<1>2. TypeOK'
  <2>1. (Lists!TypeOK <=> Publication!TypeOK)'
    BY SameType, PTL
  <2>2. Publication!TypeOK'
    BY <1>1, <2>1 DEF Lists!IInv
  <2> QED
    BY <2>2 DEF IInv, TypeOK, System, factVars
<1>3. Keeps /\ TrustOK'
  BY SystemMoves, TrustKeeps, TypesOfTrust DEF IInv, System
<1>4. ToldOK'
  BY <1>3 DEF IInv, TypeOK, ToldOK, Keeps, System
<1>5. \A v \in Verifiers : VerifierOK(verifiers[v], asked[v])'
  BY <1>3, OthersKeep DEF System
<1> QED
  BY <1>1, <1>2, <1>3, <1>4, <1>5 DEF IInv

AskedTypes == [proof : Trust!Proofs, told : SUBSET Creds]

\* One request moves to record q, with what was true when it came in b.
LEMMA RequestMoves ==
  ASSUME IInv, UNCHANGED <<systemVars, factVars>>,
         NEW v \in Verifiers, NEW q \in Verifier, NEW b \in AskedTypes,
         verifiers' = [verifiers EXCEPT ![v] = q], asked' = [asked EXCEPT ![v] = b],
         VerifierOK(q, b), told' \subseteq Creds, ToldOK'
  PROVE  IInv'
<1>1. Lists!IInv'
  BY Lists!InvStep DEF IInv, systemVars, Lists!vars
<1>2. Publication!TypeOK'
  <2>1. (Lists!TypeOK <=> Publication!TypeOK)'
    BY SameType, PTL
  <2> QED
    BY <1>1, <2>1 DEF Lists!IInv
<1>3. TypeOK'
  BY <1>2 DEF IInv, TypeOK, factVars, AskedTypes
<1>4. TrustOK'
  BY DEF IInv, TrustOK, systemVars
<1>5. VerifierOK(q, b)'
  BY DEF VerifierOK, systemVars
<1>6. Keeps
  BY DEF Keeps, systemVars
<1>7. \A w \in Verifiers : VerifierOK(verifiers[w], asked[w])'
  <2> SUFFICES ASSUME NEW w \in Verifiers PROVE VerifierOK(verifiers[w], asked[w])'
    OBVIOUS
  <2>1. CASE w = v
    <3>1. verifiers'[w] = q /\ asked'[w] = b
      BY <2>1 DEF IInv, TypeOK
    <3> QED
      BY <1>5, <3>1
  <2>2. CASE w # v
    BY <1>6, <2>2, OthersKeep DEF IInv, TypeOK
  <2> QED
    BY <2>1, <2>2
<1> QED
  BY <1>1, <1>3, <1>4, <1>7 DEF IInv

\* A request that only moves on, and tells nobody anything.
LEMMA QuietMove ==
  ASSUME IInv, UNCHANGED <<systemVars, factVars, told, asked>>,
         NEW v \in Verifiers, NEW q \in Verifier,
         verifiers' = [verifiers EXCEPT ![v] = q], VerifierOK(q, asked[v])
  PROVE  IInv'
<1>1. asked[v] \in AskedTypes /\ asked' = [asked EXCEPT ![v] = asked[v]]
  BY DEF IInv, TypeOK, AskedTypes
<1>2. told' \subseteq Creds /\ ToldOK'
  BY DEF IInv, TypeOK, ToldOK, systemVars
<1> QED
  BY <1>1, <1>2, RequestMoves

LEMMA IdleType == Idle \in Verifier
  BY DEF Idle, Verifier, Answers, Trust!Records, Trust!Proofs

LEMMA BoundType ==
  ASSUME NEW r \in Verifier, NEW c \in Creds, NEW row \in Trust!Records, NEW S
  PROVE  [r EXCEPT !.step = "call", !.cred = c, !.row = row, !.bound = c \in S] \in Verifier
<1>1. ASSUME NEW x \in BOOLEAN
      PROVE  [r EXCEPT !.step = "call", !.cred = c, !.row = row, !.bound = x] \in Verifier
  BY DEF Verifier
<1>2. (c \in S) \in BOOLEAN
  OBVIOUS
<1> QED
  BY <1>1, <1>2, Zenon

LEMMA LookPreserves == ASSUME IInv, NEW v \in Verifiers, NEW c \in Creds, Look(v, c) PROVE IInv'
<1> DEFINE q == [Idle EXCEPT !.step = "call", !.cred = c, !.row = record[c],
                             !.bound = c \in bound]
           b == [proof |-> proof[c], told |-> told]
<1>1. record[c] \in Trust!Records /\ proof[c] \in Trust!Proofs
  BY TypesOfTrust DEF TrustTypes
<1>2. q \in Verifier /\ b \in AskedTypes
  <2>1. q \in Verifier
    BY <1>1, IdleType, BoundType, Zenon
  <2>2. b \in AskedTypes
    BY <1>1 DEF AskedTypes, IInv, TypeOK
  <2> QED
    BY <2>1, <2>2
<1>3. verifiers' = [verifiers EXCEPT ![v] = q] /\ asked' = [asked EXCEPT ![v] = b]
  BY DEF Look, IInv, TypeOK
<1>4. VerifierOK(q, b)
  BY <1>1 DEF VerifierOK, Idle, IInv, TrustOK, ToldOK, Reading, Publication!Ended, Trust!Records
<1>5. /\ told' \subseteq Creds /\ ToldOK'
      /\ UNCHANGED <<systemVars, factVars>>
  BY DEF Look, IInv, TypeOK, ToldOK, systemVars
<1> HIDE DEF q, b
<1> QED
  BY <1>2, <1>3, <1>4, <1>5, RequestMoves

LEMMA StampPreserves == ASSUME IInv, NEW v \in Verifiers, Stamp(v) PROVE IInv'
<1> DEFINE q == [verifiers[v] EXCEPT !.step = "chain", !.at = now]
<1>1. verifiers[v] \in Verifier /\ now \in 0..MaxTime /\ verifiers[v].step = "call"
  BY DEF Stamp, IInv, TypeOK, Publication!TypeOK
<1>2. q \in Verifier
  BY <1>1 DEF Verifier
<1>3. verifiers' = [verifiers EXCEPT ![v] = q]
  BY DEF Stamp, IInv, TypeOK
<1>4. VerifierOK(verifiers[v], asked[v])
  BY DEF IInv
<1>5. VerifierOK(q, asked[v])
  BY <1>1, <1>4 DEF VerifierOK, Verifier, Reading
<1> HIDE DEF q
<1> QED
  BY <1>2, <1>3, <1>5, QuietMove DEF Stamp

LEMMA ReadChainPreserves == ASSUME IInv, NEW v \in Verifiers, ReadChain(v) PROVE IInv'
<1>1. PICK seen \in Readable(v) :
        verifiers' = [verifiers EXCEPT ![v].step = "accreditation", ![v].proof = seen]
  BY DEF ReadChain
<1> DEFINE q == [verifiers[v] EXCEPT !.step = "accreditation", !.proof = seen]
<1>2. /\ verifiers[v] \in Verifier /\ verifiers[v].step = "chain"
      /\ VerifierOK(verifiers[v], asked[v])
  BY DEF ReadChain, IInv, TypeOK
<1>3. /\ verifiers[v].cred \in Creds
      /\ proof[verifiers[v].cred] \in Trust!Proofs
      /\ seen \in {"absent", proof[verifiers[v].cred]}
      /\ verifiers[v].row = "valid" => seen = proof[verifiers[v].cred]
  BY <1>1, <1>2, TypesOfTrust DEF VerifierOK, Reading, Readable, TrustTypes
<1>4. q \in Verifier
  BY <1>2, <1>3 DEF Verifier, Trust!Proofs
<1>5. verifiers' = [verifiers EXCEPT ![v] = q]
  BY <1>1 DEF IInv, TypeOK
<1>6. VerifierOK(q, asked[v])
  BY <1>2, <1>3 DEF VerifierOK, Verifier, Reading
<1> HIDE DEF q
<1> QED
  BY <1>4, <1>5, <1>6, QuietMove DEF ReadChain

LEMMA ReadAccreditationPreserves ==
  ASSUME IInv, NEW v \in Verifiers, ReadAccreditation(v) PROVE IInv'
<1> DEFINE q == [verifiers[v] EXCEPT !.step = "status",
                                     !.accredited = verifiers[v].cred \in accredited]
<1>1. /\ verifiers[v] \in Verifier /\ verifiers[v].step = "accreditation"
      /\ VerifierOK(verifiers[v], asked[v])
  BY DEF ReadAccreditation, IInv, TypeOK
<1>2. q \in Verifier
  <2>1. ASSUME NEW x \in BOOLEAN
        PROVE  [verifiers[v] EXCEPT !.step = "status", !.accredited = x] \in Verifier
    BY <1>1 DEF Verifier
  <2>2. (verifiers[v].cred \in accredited) \in BOOLEAN
    OBVIOUS
  <2> QED
    BY <2>1, <2>2, Zenon
<1>3. verifiers' = [verifiers EXCEPT ![v] = q]
  BY DEF ReadAccreditation, IInv, TypeOK
<1>4. VerifierOK(q, asked[v])
  BY <1>1 DEF VerifierOK, Verifier, Reading
<1> HIDE DEF q
<1> QED
  BY <1>2, <1>3, <1>4, QuietMove DEF ReadAccreditation

LEMMA IdleOK == ASSUME NEW a PROVE VerifierOK(Idle, a)
  BY DEF VerifierOK, Idle, Reading

LEMMA LeavePreserves ==
  ASSUME IInv, NEW v \in Verifiers, GiveUp(v) \/ Leave(v) PROVE IInv'
<1>1. CASE GiveUp(v)
  BY <1>1, IdleType, IdleOK, QuietMove DEF GiveUp
<1>2. CASE Leave(v)
  <2>1. NotAsked \in AskedTypes
    BY DEF NotAsked, AskedTypes, Trust!Proofs
  <2>2. told' \subseteq Creds /\ ToldOK'
    BY <1>2 DEF Leave, IInv, TypeOK, ToldOK, systemVars
  <2> QED
    BY <1>2, <2>1, <2>2, IdleType, IdleOK, RequestMoves DEF Leave
<1> QED
  BY <1>1, <1>2

-------------------------------------------------------------------------------
\* An index in the latest list is that of an ended credential.
LEMMA LatestEnded ==
  ASSUME IInv, NEW c \in Creds, c \in Publication!Latest
  PROVE  record[c] \in Publication!Ended
<1>1. lists # <<>> /\ c \in lists[Len(lists)].revoked
  BY DEF Publication!Latest
<1>2. Len(lists) \in 1..Len(lists)
  BY <1>1 DEF IInv, TypeOK, Publication!TypeOK
<1> QED
  BY <1>1, <1>2 DEF IInv, Lists!IInv, Lists!OnlyEndedListed, Lists!Ended, Publication!Ended

LEMMA VerdictMeans ==
  ASSUME IInv, NEW v \in Verifiers, verifiers[v].step = "status"
  PROVE  /\ Verdict(v) \in Answers
         /\ Verdict(v) = "VERIFIED" =>
              verifiers[v].row = "valid" /\ verifiers[v].proof = "issued"
         /\ Verdict(v) \in {"REVOKED", "SUPERSEDED"} =>
              \/ record[verifiers[v].cred] \in Publication!Ended
              \/ proof[verifiers[v].cred] = "revoked"
         /\ Verdict(v) = "REVOKED" =>
              \/ proof[verifiers[v].cred] = "revoked"
              \/ verifiers[v].row = "valid" /\ record[verifiers[v].cred] = "superseded"
<1>1. /\ verifiers[v] \in Verifier /\ VerifierOK(verifiers[v], asked[v])
      /\ verifiers[v].cred \in Creds
  BY DEF IInv, TypeOK, VerifierOK, Reading
<1>2. verifiers[v].row \in Publication!Ended => record[verifiers[v].cred] \in Publication!Ended
  BY <1>1 DEF VerifierOK, Reading
<1>3. verifiers[v].proof = "revoked" => proof[verifiers[v].cred] = "revoked"
  BY <1>1 DEF VerifierOK
<1>4. verifiers[v].cred \in Publication!Latest =>
        /\ record[verifiers[v].cred] \in Publication!Ended
        /\ record[verifiers[v].cred] = "revoked" => proof[verifiers[v].cred] = "revoked"
  BY <1>1, LatestEnded DEF IInv, TrustOK
<1>6. verifiers[v].row = "revoked" => proof[verifiers[v].cred] = "revoked"
  BY <1>1 DEF VerifierOK, Reading
<1>5. /\ verifiers[v].row \in {"none", "issuing", "valid", "superseded", "revoked", "failed"}
      /\ verifiers[v].proof \in {"absent", "issued", "revoked"}
  BY <1>1 DEF Verifier, Trust!Records, Trust!Proofs
<1> QED
  BY <1>2, <1>3, <1>4, <1>5, <1>6 DEF Verdict, Answers, Publication!Ended

LEMMA DecidePreserves == ASSUME IInv, NEW v \in Verifiers, Decide(v) PROVE IInv'
<1> DEFINE q == [verifiers[v] EXCEPT !.step = "answered", !.answer = Verdict(v)]
<1>1. /\ verifiers[v] \in Verifier /\ verifiers[v].step = "status"
      /\ VerifierOK(verifiers[v], asked[v]) /\ asked[v] \in AskedTypes
      /\ verifiers[v].cred \in Creds
  BY DEF Decide, IInv, TypeOK, AskedTypes, VerifierOK, Reading
<1>2. q \in Verifier
  BY <1>1, VerdictMeans DEF Verifier
<1>3. verifiers' = [verifiers EXCEPT ![v] = q] /\ asked' = [asked EXCEPT ![v] = asked[v]]
  BY DEF Decide, IInv, TypeOK
<1>4. VerifierOK(q, asked[v])
  BY <1>1, VerdictMeans DEF VerifierOK, Verifier, Reading
<1>5. told' \subseteq Creds /\ ToldOK'
  BY <1>1, VerdictMeans DEF Decide, IInv, TypeOK, ToldOK, systemVars
<1>6. UNCHANGED <<systemVars, factVars>>
  BY DEF Decide
<1> HIDE DEF q
<1> QED
  BY <1>1, <1>2, <1>3, <1>4, <1>5, <1>6, RequestMoves

LEMMA InvStep == IInv /\ [Next]_vars => IInv'
<1> SUFFICES ASSUME IInv, [Next]_vars PROVE IInv'
  OBVIOUS
<1>1. ASSUME NEW v \in Verifiers, Verify(v) PROVE IInv'
  BY <1>1, LookPreserves, StampPreserves, ReadChainPreserves, ReadAccreditationPreserves,
     DecidePreserves, LeavePreserves DEF Verify
<1>2. ASSUME UNCHANGED <<systemVars, verifiers, told, asked>>,
             accredited' \subseteq Creds, bound' \subseteq Creds
      PROVE  IInv'
  <2>1. Lists!IInv'
    BY <1>2, Lists!InvStep DEF IInv, systemVars, Lists!vars
  <2>2. (Lists!TypeOK <=> Publication!TypeOK)'
    BY SameType, PTL
  <2>3. TypeOK'
    BY <1>2, <2>1, <2>2 DEF IInv, TypeOK, Lists!IInv
  <2>4. (TrustOK /\ ToldOK)'
    BY <1>2 DEF IInv, TrustOK, ToldOK, systemVars
  <2>5. Keeps
    BY <1>2 DEF Keeps, systemVars
  <2>6. \A v \in Verifiers : VerifierOK(verifiers[v], asked[v])'
    BY <1>2, <2>5, OthersKeep
  <2> QED
    BY <2>1, <2>3, <2>4, <2>6 DEF IInv
<1>3. CASE Regulate \/ EditStudent
  BY <1>2, <1>3 DEF Regulate, EditStudent, IInv, TypeOK
<1>4. CASE UNCHANGED vars
  BY <1>2, <1>4 DEF vars, factVars, IInv, TypeOK
<1> QED
  BY <1>1, <1>3, <1>4, SystemPreserves DEF Next

LEMMA Invariant == Spec => []IInv
  BY InvInit, InvStep, PTL DEF Spec

-------------------------------------------------------------------------------
\* Every verification keeps its type (verifyCredentialState and its callers).
THEOREM TypeCorrect == Spec => []TypeOK
<1>1. IInv => TypeOK
  BY DEF IInv
<1> QED
  BY <1>1, Invariant, PTL

\* VERIFIED is answered only of a proof that stood, unrevoked, when the request
\* came, whatever happens between the reads of verifyCredentialState.
THEOREM VerifiedStood == Spec => []VerifiedStoodWhenAsked
<1>1. IInv => VerifiedStoodWhenAsked
  BY DEF IInv, TypeOK, VerifierOK, VerifiedStoodWhenAsked, Reading, Trust!Proofs
<1> QED
  BY <1>1, Invariant, PTL

\* What was answered REVOKED or SUPERSEDED before a request came is not
\* answered VERIFIED to it, though the two read the tables at different times.
THEOREM NoReturn == Spec => []NoReturnToVerified
<1>1. IInv => NoReturnToVerified
  BY DEF IInv, VerifierOK, NoReturnToVerified, Reading, Publication!Ended
<1> QED
  BY <1>1, Invariant, PTL

\* REVOKED is answered of a credential whose proof is revoked, or which was
\* superseded since the request read its row.
THEOREM RevokedEnded == Spec => []RevokedHasEnded
<1>1. IInv => RevokedHasEnded
  BY DEF IInv, VerifierOK, RevokedHasEnded
<1> QED
  BY <1>1, Invariant, PTL
===============================================================================
