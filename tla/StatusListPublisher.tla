-------------------------- MODULE StatusListPublisher --------------------------
(***************************************************************************)
(* The signed status lists of one institution: the status_lists table and  *)
(* publishStatusListForInstitution (statusListPublisherService.js), which  *)
(* the issue, revoke and supersede handlers call after their own change of *)
(* a structured-v2 credential, and whose errors they swallow.  The         *)
(* credentials move as CredentialTrust promises; a credential stands for   *)
(* its status_list_index, which is UNIQUE.                                 *)
(***************************************************************************)
EXTENDS Naturals, Sequences

CONSTANTS Creds, NoCred,
          Publishers,   \* requests that publish at a time
          MayFail,      \* whether signing, the chain, the database or the process may fail
          MaxTime       \* bound: the last time considered

ASSUME NoCredAssumption == NoCred \notin Creds
ASSUME ClockAssumption == MaxTime \in Nat
ASSUME MayFailAssumption == MayFail \in BOOLEAN

VARIABLES record, proof,  \* see CredentialTrust
          lists,          \* the rows of status_lists; a version is a position
          anchored,       \* the list commitments on the ledger
          publishers,     \* what each request is doing
          now             \* the time of day

trustVars == <<record, proof>>
vars == <<record, proof, lists, anchored, publishers, now>>

Trust == INSTANCE CredentialTrust

StatusList == [revoked : SUBSET Creds, at : 0..MaxTime]

Commitment == [version : Nat, revoked : SUBSET Creds, at : 0..MaxTime]

Publisher == [step : {"idle", "call", "read", "anchor", "insert"},
              index : Creds \union {NoCred},
              version : Nat, revoked : SUBSET Creds, at : 0..MaxTime]

Idle == [step |-> "idle", index |-> NoCred, version |-> 0, revoked |-> {}, at |-> 0]

Init == /\ Trust!Init
        /\ lists = <<>>
        /\ anchored = {}
        /\ publishers = [p \in Publishers |-> Idle]
        /\ now = 0

-------------------------------------------------------------------------------
(* The callers: each publishes once its own UPDATE is committed.            *)

Call(p, index) ==
  /\ publishers[p] = Idle
  /\ publishers' = [publishers EXCEPT ![p].step = "call", ![p].index = index]
  /\ UNCHANGED <<lists, anchored, now>>

IssuanceIndexBug(p, c) ==     \* mutant: the new credential's own index is passed
  Trust!Accept(c) /\ Call(p, c)

\* issueCredential: a new list without a new index.
PublishOnIssuance(p, c) == Trust!Accept(c) /\ Call(p, NoCred)

PublishOnRevocation(p, c) == Trust!RecordRevocation(c) /\ Call(p, c)

PublishOnSupersession(p, c) == Trust!Supersede(c) /\ Call(p, c)

\* The rest of a credential's life publishes nothing, nor does the
\* reconciliation script when it activates a row.
Unpublished(c) ==
  /\ \/ Trust!Begin(c)
     \/ Trust!Reject(c)
     \/ Trust!Anchor(c)
     \/ Trust!Withdraw(c)
     \/ MayFail /\ Trust!Accept(c)
  /\ UNCHANGED <<lists, anchored, publishers, now>>

-------------------------------------------------------------------------------
(* publishStatusListForInstitution.                                         *)

End(p) == publishers' = [publishers EXCEPT ![p] = Idle]

\* now = new Date() is evaluated by the call, before the first await.
Stamp(p) ==
  /\ publishers[p].step = "call"
  /\ publishers' = [publishers EXCEPT ![p].step = "read", ![p].at = now]
  /\ UNCHANGED <<trustVars, lists, anchored, now>>

Latest == IF lists = <<>> THEN {} ELSE lists[Len(lists)].revoked

NullIndexBug(p) == {publishers[p].index}   \* mutant: null is taken for an index

Revoking(p) == IF publishers[p].index = NoCred THEN {} ELSE {publishers[p].index}

\* getLatestStatusList, normaliseIndices and the signature.
ReadLatest(p) ==
  /\ publishers[p].step = "read"
  /\ \/ publishers' = [publishers EXCEPT ![p].step = "anchor",
                                         ![p].version = Len(lists) + 1,
                                         ![p].revoked = Latest \union Revoking(p)]
     \/ MayFail /\ End(p)
  /\ UNCHANGED <<trustVars, lists, anchored, now>>

CommitmentOf(p) == [version |-> publishers[p].version,
                    revoked |-> publishers[p].revoked,
                    at |-> publishers[p].at]

UnanchoredBug(p) ==           \* mutant: the chain's error is swallowed
  /\ publishers[p].step = "anchor"
  /\ publishers' = [publishers EXCEPT ![p].step = "insert"]
  /\ anchored' = anchored \/ anchored' = anchored \union {CommitmentOf(p)}
  /\ UNCHANGED <<trustVars, lists, now>>

\* issueCredentialOnChain: a commitment the ledger has is refused; one it does
\* not have may be anchored although the wait for it fails.
AnchorList(p) ==
  /\ publishers[p].step = "anchor"
  /\ \/ /\ CommitmentOf(p) \notin anchored
        /\ anchored' = anchored \union {CommitmentOf(p)}
        /\ \/ publishers' = [publishers EXCEPT ![p].step = "insert"]
           \/ MayFail /\ End(p)
     \/ /\ CommitmentOf(p) \in anchored \/ MayFail
        /\ End(p)
        /\ UNCHANGED anchored
  /\ UNCHANGED <<trustVars, lists, now>>

VersionTakenBug(p) ==         \* mutant: a taken version is no error, the next one is used
  /\ publishers[p].step = "insert"
  /\ \/ lists' = Append(lists, [revoked |-> publishers[p].revoked, at |-> publishers[p].at])
     \/ MayFail /\ UNCHANGED lists
  /\ End(p)
  /\ UNCHANGED <<trustVars, anchored, now>>

\* createStatusList: UNIQUE (institution_id, version).
InsertList(p) ==
  /\ publishers[p].step = "insert"
  /\ \/ /\ publishers[p].version = Len(lists) + 1
        /\ lists' = Append(lists, [revoked |-> publishers[p].revoked,
                                   at |-> publishers[p].at])
     \/ /\ publishers[p].version # Len(lists) + 1 \/ MayFail
        /\ UNCHANGED lists
  /\ End(p)
  /\ UNCHANGED <<trustVars, anchored, now>>

-------------------------------------------------------------------------------
Tick == /\ now < MaxTime
        /\ now' = now + 1
        /\ UNCHANGED <<trustVars, lists, anchored, publishers>>

\* The API process dies between any two awaits.
Crash == /\ MayFail
         /\ \E p \in Publishers : publishers[p] # Idle
         /\ publishers' = [p \in Publishers |-> Idle]
         /\ UNCHANGED <<trustVars, lists, anchored, now>>

Publish(p) == \/ Stamp(p)
              \/ ReadLatest(p)
              \/ AnchorList(p)
              \/ InsertList(p)

Lifecycle(p, c) == \/ PublishOnIssuance(p, c)
                   \/ PublishOnRevocation(p, c)
                   \/ PublishOnSupersession(p, c)

Next == \/ \E p \in Publishers, c \in Creds : Lifecycle(p, c)
        \/ \E c \in Creds : Unpublished(c)
        \/ \E p \in Publishers : Publish(p)
        \/ Tick
        \/ Crash

Spec == Init /\ [][Next]_vars

\* A publication that has begun runs to its end.
FairSpec == Spec /\ \A p \in Publishers : WF_vars(Publish(p))

-------------------------------------------------------------------------------
Ended == {"revoked", "superseded"}

TypeOK ==
  /\ record \in [Creds -> Trust!Records]
  /\ proof \in [Creds -> Trust!Proofs]
  /\ lists \in Seq(StatusList)
  /\ anchored \subseteq Commitment
  /\ publishers \in [Publishers -> Publisher]
  /\ now \in 0..MaxTime

\* An index once published stays published: whatever publications interleave,
\* fail or crash, a version lists every index the versions before it listed.
RevocationsAccumulate ==
  \A i, j \in 1..Len(lists) : i <= j => lists[i].revoked \subseteq lists[j].revoked

\* No list revokes a credential that is still valid.
OnlyEndedListed ==
  \A i \in 1..Len(lists), c \in Creds : c \in lists[i].revoked => record[c] \in Ended

\* The commitment of every stored list is on the ledger.
ListsAreAnchored ==
  \A i \in 1..Len(lists) :
    [version |-> i, revoked |-> lists[i].revoked, at |-> lists[i].at] \in anchored

\* A revoked or superseded credential is listed in the end ("structured-v2
\* credentials therefore add the old status-list index to the issuer's signed
\* lifecycle artefact", backend/controllers/credentialLifecycleController.js:212).
EndedIsListed == \A c \in Creds : record[c] \in Ended ~> c \in Latest
===============================================================================
