------------------------------ MODULE Corrections ------------------------------
(***************************************************************************)
(* The corrections of CredentialLifecycle with the history of the one race *)
(* between them.  supersedeCredential judges the replacement when it reads *)
(* it and updates the original several awaits later, with a WHERE clause   *)
(* about the original only: a correction is overtaken when its replacement *)
(* is itself superseded between the two.                                   *)
(***************************************************************************)
EXTENDS CredentialLifecycle

VARIABLE overtaken  \* history: pairs of an original and its overtaken replacement

\* This step supersedes p[2], on which a request about to supersede p[1] counts.
Overtakes(p) ==
  /\ rows[p[1]].status # "superseded"
  /\ rows[p[2]].status # "superseded" /\ rows'[p[2]].status = "superseded"
  /\ \E w \in Workers : /\ At(w, "supersede", "mark")
                        /\ requests[w].cred = p[1]
                        /\ requests[w].other = p[2]

Overtake == overtaken' = overtaken \union {p \in Creds \X Creds : Overtakes(p)}

CorrectionsSpec ==
  /\ Init /\ overtaken = {}
  /\ [][Next /\ Overtake]_<<vars, overtaken>>

Corrected == {c \in Creds : rows[c].status = "superseded"}

\* Corrections form chains: a replacement replaces one record and was itself
\* accepted once; and whoever follows the replacements from a superseded record
\* comes to one that is not superseded.  A ring takes a correction that was
\* overtaken: no other order of requests, crashes and retries closes one.
CorrectionsAreChains ==
  /\ \A c \in Corrected : /\ rows[rows[c].supersededBy].status \in Accepted
                          /\ \A d \in Corrected :
                               rows[d].supersededBy = rows[c].supersededBy => d = c
  /\ \A Ring \in (SUBSET Corrected) \ {{}} :
       \E c \in Ring : \/ rows[c].supersededBy \notin Ring
                       \/ <<c, rows[c].supersededBy>> \in overtaken
===============================================================================
