---------------------------- MODULE CredentialTrust ----------------------------
(***************************************************************************)
(* What issuance and revocation promise about each credential, with no     *)
(* requests, transactions or reconciliation in sight: a database record    *)
(* that follows an on-chain proof and never gets ahead of it.              *)
(***************************************************************************)
CONSTANT Creds

VARIABLES record,   \* what the platform says of the credential
          proof     \* what the ledger says of its anchor

vars == <<record, proof>>

Records == {"none", "issuing", "valid", "superseded", "revoked", "failed"}
Proofs == {"absent", "issued", "revoked"}

Init == /\ record = [c \in Creds |-> "none"]
        /\ proof = [c \in Creds |-> "absent"]

To(c, from, to) == /\ record[c] = from
                   /\ record' = [record EXCEPT ![c] = to]
                   /\ UNCHANGED proof

Begin(c) == To(c, "none", "issuing")

Reject(c) == To(c, "issuing", "failed")

\* A record is accepted only over a live proof.
Accept(c) == proof[c] = "issued" /\ To(c, "issuing", "valid")

Supersede(c) == To(c, "valid", "superseded")

\* A record is revoked only after its proof.
RecordRevocation(c) == proof[c] = "revoked" /\ To(c, "valid", "revoked")

\* A transaction may be mined when its request is long gone, so a proof may
\* appear beside a failed record, but never before the record exists.
Anchor(c) == /\ proof[c] = "absent"
             /\ record[c] \in {"issuing", "failed"}
             /\ proof' = [proof EXCEPT ![c] = "issued"]
             /\ UNCHANGED record

\* Only the proof of a record that was accepted once is ever revoked.
Withdraw(c) == /\ proof[c] = "issued"
               /\ record[c] \in {"valid", "superseded"}
               /\ proof' = [proof EXCEPT ![c] = "revoked"]
               /\ UNCHANGED record

Next == \E c \in Creds : \/ Begin(c)
                         \/ Reject(c)
                         \/ Accept(c)
                         \/ Supersede(c)
                         \/ RecordRevocation(c)
                         \/ Anchor(c)
                         \/ Withdraw(c)

Spec == Init /\ [][Next]_vars
===============================================================================
