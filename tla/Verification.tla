------------------------------ MODULE Verification ------------------------------
(***************************************************************************)
(* Public verification (verificationService.js) beside the life of the     *)
(* credentials, the publication of their status lists and the regulator.   *)
(* A verification reads the row, the chain, the accreditation records and  *)
(* the latest status list at four different times and answers from what it *)
(* read.  The credentials are structured-v2 ones with the signature and    *)
(* payload the issuance stored.                                            *)
(***************************************************************************)
EXTENDS Naturals, Sequences

CONSTANTS Creds, NoCred, Publishers, MayFail, MaxTime,   \* see StatusListPublisher
          Verifiers,    \* verification requests handled at a time
          Freshness     \* DEFAULT_FRESHNESS_HOURS, in the clock's unit

ASSUME FreshnessAssumption == Freshness \in Nat
ASSUME PublicationAssumption == NoCred \notin Creds /\ MaxTime \in Nat /\ MayFail \in BOOLEAN

VARIABLES record, proof, lists, anchored, publishers, now,
          accredited,   \* those whose programme is accredited at the award date
          bound,        \* those whose student row still says what was signed
          verifiers,    \* what each verification has read and answered
          told,         \* history: answered REVOKED or SUPERSEDED by somebody
          asked         \* history: the proof, and told, when each request came

systemVars == <<record, proof, lists, anchored, publishers, now>>
factVars == <<accredited, bound>>
vars == <<systemVars, factVars, verifiers, told, asked>>

Publication == INSTANCE StatusListPublisher
Trust == INSTANCE CredentialTrust

-------------------------------------------------------------------------------
Answers == {"VERIFIED", "UNKNOWN", "PENDING", "FAILED", "REVOKED", "SUPERSEDED",
            "SIGNATURE_INVALID", "ANCHOR_MISMATCH", "STATUS_INDETERMINATE",
            "ACCREDITATION_INVALID", "SYSTEM_INCONSISTENCY"}

Verifier == [step : {"idle", "call", "chain", "accreditation", "status", "answered"},
             cred : Creds \union {NoCred}, row : Trust!Records, bound : BOOLEAN,
             at : 0..MaxTime, proof : Trust!Proofs, accredited : BOOLEAN,
             answer : Answers \union {"none"}]

Idle == [step |-> "idle", cred |-> NoCred, row |-> "none", bound |-> FALSE, at |-> 0,
         proof |-> "absent", accredited |-> FALSE, answer |-> "none"]

NotAsked == [proof |-> "absent", told |-> {}]

Init == /\ Publication!Init
        /\ accredited \in SUBSET Creds
        /\ bound = Creds
        /\ verifiers = [v \in Verifiers |-> Idle]
        /\ told = {}
        /\ asked = [v \in Verifiers |-> NotAsked]

-------------------------------------------------------------------------------
System == Publication!Next /\ UNCHANGED <<factVars, verifiers, told, asked>>

\* The regulator changes the accreditation records that cover a credential.
Regulate == /\ \E c \in Creds : accredited' = (accredited \ {c}) \union ({c} \ accredited)
            /\ UNCHANGED <<systemVars, bound, verifiers, told, asked>>

\* updateStudent: the verification joins the student's present number and
\* programme, the signed payload holds those of the issuance.
EditStudent == /\ \E c \in Creds : bound' = (bound \ {c}) \union ({c} \ bound)
               /\ UNCHANGED <<systemVars, accredited, verifiers, told, asked>>

\* The request's own lookup of the row.
Look(v, c) ==
  /\ verifiers[v] = Idle
  /\ verifiers' = [verifiers EXCEPT ![v].step = "call", ![v].cred = c,
                                    ![v].row = record[c], ![v].bound = c \in bound]
  /\ asked' = [asked EXCEPT ![v] = [proof |-> proof[c], told |-> told]]
  /\ UNCHANGED <<systemVars, factVars, told>>

\* verificationTime = new Date() is evaluated by the call.
Stamp(v) ==
  /\ verifiers[v].step = "call"
  /\ verifiers' = [verifiers EXCEPT ![v].step = "chain", ![v].at = now]
  /\ UNCHANGED <<systemVars, factVars, told, asked>>

\* Without a row, or before the row has its structured proof, the chain is asked
\* for the certificate's own hash, which was never anchored.
Readable(v) ==
  CASE verifiers[v].row = "none"    -> {"absent"}
    [] verifiers[v].row = "issuing" -> {"absent", proof[verifiers[v].cred]}
    [] OTHER                        -> {proof[verifiers[v].cred]}

CachedChainBug(v) ==          \* mutant: a proof seen earlier may be taken from a cache
  /\ verifiers[v].step = "chain"
  /\ \E seen \in IF "revoked" \in Readable(v) THEN {"issued", "revoked"} ELSE Readable(v) :
       verifiers' = [verifiers EXCEPT ![v].step = "accreditation", ![v].proof = seen]
  /\ UNCHANGED <<systemVars, factVars, told, asked>>

UnavailableBug(v) ==          \* mutant: an error of the chain is kept as its answer
  /\ verifiers[v].step = "chain"
  /\ \E seen \in Readable(v) \union {"unavailable"} :
       verifiers' = [verifiers EXCEPT ![v].step = "accreditation", ![v].proof = seen]
  /\ UNCHANGED <<systemVars, factVars, told, asked>>

ReadChain(v) ==
  /\ verifiers[v].step = "chain"
  /\ \E seen \in Readable(v) :
       verifiers' = [verifiers EXCEPT ![v].step = "accreditation", ![v].proof = seen]
  /\ UNCHANGED <<systemVars, factVars, told, asked>>

ReadAccreditation(v) ==
  /\ verifiers[v].step = "accreditation"
  /\ verifiers' = [verifiers EXCEPT ![v].step = "status",
                     ![v].accredited = verifiers[v].cred \in accredited]
  /\ UNCHANGED <<systemVars, factVars, told, asked>>

\* The chain, the database or the process fails: the request has no answer.
GiveUp(v) ==
  /\ verifiers[v].step \notin {"idle", "answered"}
  /\ verifiers' = [verifiers EXCEPT ![v] = Idle]
  /\ UNCHANGED <<systemVars, factVars, told, asked>>

\* verifyStatusListArtifact on the latest list: a list stamped after the
\* verification was is not fresh either.
Fresh(v) == /\ lists # <<>>
            /\ lists[Len(lists)].at <= verifiers[v].at
            /\ verifiers[v].at - lists[Len(lists)].at <= Freshness

\* The decision of verifyCredentialState.  A valid row has its CID and its
\* transaction (CredentialLifecycle!ActiveIsAnchored), and a proof its issuer.
Verdict(v) ==
  LET r == verifiers[v]
  IN IF r.row = "none" THEN "UNKNOWN"
     ELSE IF r.row = "revoked" \/ r.proof = "revoked" THEN "REVOKED"
     ELSE IF r.row = "superseded" THEN "SUPERSEDED"
     ELSE IF r.row = "failed" THEN IF r.proof = "absent" THEN "FAILED" ELSE "SYSTEM_INCONSISTENCY"
     ELSE IF r.row = "issuing" THEN IF r.proof = "absent" THEN "PENDING" ELSE "SYSTEM_INCONSISTENCY"
     ELSE IF ~r.bound THEN "SIGNATURE_INVALID"
     ELSE IF r.proof = "absent" THEN "ANCHOR_MISMATCH"
     ELSE IF ~r.accredited THEN "ACCREDITATION_INVALID"
     ELSE IF ~Fresh(v) THEN "STATUS_INDETERMINATE"
     ELSE IF r.cred \in Publication!Latest THEN "REVOKED"
     ELSE "VERIFIED"

\* The status list is read, if a valid row still needs it, and the answer given.
Decide(v) ==
  /\ verifiers[v].step = "status"
  /\ verifiers' = [verifiers EXCEPT ![v].step = "answered", ![v].answer = Verdict(v)]
  /\ told' = IF Verdict(v) \in {"REVOKED", "SUPERSEDED"} THEN told \union {verifiers[v].cred}
                                                         ELSE told
  /\ UNCHANGED <<systemVars, factVars, asked>>

Leave(v) ==
  /\ verifiers[v].step = "answered"
  /\ verifiers' = [verifiers EXCEPT ![v] = Idle]
  /\ asked' = [asked EXCEPT ![v] = NotAsked]
  /\ UNCHANGED <<systemVars, factVars, told>>

Verify(v) == \/ \E c \in Creds : Look(v, c)
             \/ Stamp(v)
             \/ ReadChain(v)
             \/ ReadAccreditation(v)
             \/ Decide(v)
             \/ GiveUp(v)
             \/ Leave(v)

Next == \/ System
        \/ Regulate
        \/ EditStudent
        \/ \E v \in Verifiers : Verify(v)

Spec == Init /\ [][Next]_vars

-------------------------------------------------------------------------------
TypeOK ==
  /\ Publication!TypeOK
  /\ accredited \subseteq Creds
  /\ bound \subseteq Creds
  /\ verifiers \in [Verifiers -> Verifier]
  /\ told \subseteq Creds
  /\ asked \in [Verifiers -> [proof : Trust!Proofs, told : SUBSET Creds]]

\* VERIFIED is never older than the request: though its four reads are not one
\* snapshot, the proof stood unrevoked when the request came, also where the
\* row still says active after a revocation the handler gave up waiting for.
VerifiedStoodWhenAsked ==
  \A v \in Verifiers : verifiers[v].answer = "VERIFIED" => asked[v].proof = "issued"

\* Answers do not go back: what was answered REVOKED or SUPERSEDED before a
\* request came is not answered VERIFIED to it.
NoReturnToVerified ==
  \A v \in Verifiers : verifiers[v].answer = "VERIFIED" => verifiers[v].cred \notin asked[v].told

\* REVOKED is never answered of a credential that stands.  Its proof is revoked,
\* or it was superseded after the request had read its row as valid: a status list
\* does not say which of the two ended a credential, and only in that race is it
\* asked ("REVOKED | Credential has been revoked." and "SUPERSEDED | Credential has
\* been replaced", section 6 of the product requirements, make no such exception).
RevokedHasEnded ==
  \A v \in Verifiers : verifiers[v].answer = "REVOKED" =>
    \/ proof[verifiers[v].cred] = "revoked"
    \/ verifiers[v].row = "valid" /\ record[verifiers[v].cred] = "superseded"
===============================================================================
