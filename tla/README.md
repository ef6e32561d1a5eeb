# Verification of the skill verification platform

TLA+ models, TLC runs and TLAPS proofs for the platform: the `CredentialRegistry`
contract, the credential rows and the requests that move them, the reconciliation
script, the signed status lists, the public verification with the analysis of uploaded
documents, the accounts and their sessions, and who owns and may see students and
credentials.  Source paths below are relative to the repository's `src/` directory.

## 1. The system

| Component | State | Operations | Interacts by |
|---|---|---|---|
| Registry contract (`contracts/CredentialRegistry.sol`) | roles, pause flag, one record per digest, event log | issue, revoke, authorise, deactivate, pause, unpause, grant/revoke/renounce role | transactions of the API's wallet and of the administrator |
| Blockchain service (`backend/services/blockchainService.js`) | none (nonces are the node's) | submit, wait with a timeout, look for the receipt, read a proof, search an event | called by handlers and by the script |
| Issuance and revocation (`backend/controllers/credentialController.js`) | none beside a request's locals | `issueCredential`, `revokeCredential` | rows, IPFS, chain, audit log, status lists |
| Supersession (`backend/controllers/credentialLifecycleController.js`) | same | `supersedeCredential` | rows, status lists |
| Credential rows (`backend/models/credentialModel.js`, migrations 000, 008) | `credentials` | guarded single-statement UPDATEs, UNIQUE hash and `superseded_by` | called by handlers and by the script |
| Reconciliation (`scripts/reconcileBlockchainCredentials.js`) | rows selected at its start | examine, activate or fail | rows, chain, audit log |
| Status lists (`backend/services/statusList*.js`, `backend/models/statusListModel.js`) | `status_lists`, commitments on the chain | publish the next version | called by handlers after their own update |
| Verification (`backend/services/verificationService.js`, `backend/controllers/verificationController.js`) | temporary files, the verification log | take a file, look up, identify, analyse, decide, log, answer, clean up | reads row, chain, accreditation, list; writes both logs |
| PDF and semantic integrity (`backend/services/pdf*.js`, `semantic*.js`, `tamperAnalysisService.js`) | the manifest columns of a credential | build a manifest, compare a document by manifest, by anchors or by lines, compare structures, resolve a document | called by issuance, by the backfill script and by the upload handlers |
| Students, institutions, accreditation | their tables | create, edit, reassign, link, (de)activate, accredit | read by issuance and by verification |
| Users and sessions (`userController.js`, `authController.js`, `authMiddleware.js`) | `users`: role, token version, lockout, reset token | log in, change roles, reset passwords | guard every request |
| Start-up, rate limiter | `schema_migrations`; Redis counters | migrate; count a hit | several instances share them |
| Dashboards, front end, scripts, deployment | none of their own | read-only views and one-shot tools | |

What makes it hard: the database, the chain and IPFS share no transaction; a wait for
a transaction may time out while the transaction is mined later; handlers run
concurrently, read, wait and then update; the reconciliation works beside them on
old data; publications of lists race for version numbers; a verification takes four
reads that are no snapshot.  `PROJECT.json` lists each hazard with its line.

What makes the parts correct:

* contract: the event log is the ledger's story, evidence is immutable, authority does
  not come from nowhere;
* rows: never ahead of the chain, nothing submitted twice, evidence written once,
  terminal states terminal, corrections are chains (but for a race), unsettled rows are
  settled;
* status lists: versions accumulate, list only ended credentials, and are anchored;
* verification: VERIFIED was true when the request came, an answer is never taken back,
  and REVOKED is said of what was revoked (but for a race);
* uploads: an official document is recognised, another one is accused of its edits and
  of nothing else, no outcome is answered unlogged, no file stays;
* accounts: a live session tells the truth, full counters are locks, a reset link is
  good for one password, administrators are made by administrators;
* ownership: what is disclosed belongs to its reader, links are for good, and a credential
  is of its student's institution and accredited, but for two races.

## 2. The modules

| Module | Models | Extends / instantiates |
|---|---|---|
| `CredentialRegistry` | the contract | |
| `CredentialTrust` | abstract: a record and its proof | |
| `CredentialLifecycle` | handlers, rows, ledger, script | refines `CredentialTrust`, steps of `CredentialRegistry` |
| `Corrections` | the history of the race between two corrections | extends `CredentialLifecycle` |
| `StatusListPublisher` | the lists of one institution | takes the credentials' steps from `CredentialTrust` |
| `Verification` | verification requests, regulator, student edits | composes `StatusListPublisher` |
| `UserAccounts` | accounts, sessions, the requests on them | |
| `Ownership` | students, accreditation, issuance gate, linking, disclosure | |
| `CertificateText`, `PdfLayout` | words, labels and dates; rows of text from items | `PdfLayout` extends `CertificateText` |
| `PdfStructure`, `SemanticManifest`, `SemanticAnchor`, `LegacyText` | one comparison of two documents each | each extends `PdfLayout` |
| `TamperAnalysis` | the comparisons put together | extends `PdfStructure`, instantiates `SemanticManifest`, `SemanticAnchor`, `LegacyText` |
| `CredentialResolution` | whose document it is | extends `PdfLayout` |
| `Uploads` | the verification routes, the manifests' life | extends `TamperAnalysis`, `CredentialResolution` |
| `*_proofs` | theorems and proofs | each extends its module and TLAPS; `Analyses_proofs` is about `TamperAnalysis` and is extended by `Uploads_proofs` |
| `MC*` | constants and symmetry for TLC | each extends its module; `MCCertificates` makes the documents of `MCUploads` and `MCNarrowRow` |

**CredentialRegistry.**  One action per external function, enabled when the function
would not revert; `sender` is `msg.sender`.  `credentials` is the mapping, `issuedLog`
and `revokedLog` the events per digest.  A digest is a value; the zero digest and the
zero address are values the `require`s refuse.  `Uint64` is the cast of
`block.timestamp` (modulus `TimestampModulus`), `Tick` mines a block.  The three
operations inherited from OpenZeppelin are external definitions.

**CredentialTrust.**  Per credential: `none -> issuing -> valid | failed`,
`valid -> revoked | superseded`, and the proof `absent -> issued -> revoked`.
It fixes the order: accepted only over a live proof, revoked only after its proof; and
it admits what cannot be excluded, a proof that appears beside a failed record.

**CredentialLifecycle.**  `rows` is the table; a row keeps the columns the guards and
the evidence need (status, proof version, whether it has a CID, transaction,
revocation transaction, `superseded_by`).  A handler is a record in `requests` with
one action per await that reads or writes shared state; what an await can do wrong is
a disjunct (`Goto(w, "fail")` for the catch of `issueCredential`, `End(w)` where the
catch only answers).  `txs` holds the transactions submitted; `Mine` executes one at
any later time, with the contract's checks (`Effect`), and may never happen.  `Crash` ends
all handlers; transactions stay.  `accepting` is "not paused and the wallet is authorised".
`rec` is the script: `todo` holds the rows and statuses it selected, so every later step
works on a snapshot.  Certificates belong to one student of one active institution: the
case in which the scope checks let every request through.

**Corrections.**  The same actions with a history variable: `overtaken` remembers the pairs
of an original and a replacement of which the second was superseded while a request
that had judged it active was about to supersede the first.

**StatusListPublisher.**  `lists[i]` is version i, with its time and indices; a
credential stands for its `status_list_index`.  The callers publish after their own
UPDATE committed, in a step joined to `CredentialTrust`'s; then `Stamp` (the time is
taken at the call), `ReadLatest`, `AnchorList`, `InsertList`, with the UNIQUE constraint on
the version.  `MayFail` lets the signature, the chain, the database or the process
fail.  The signature itself is left out: every list is signed by the institution.

**Verification.**  A verifier looks its row up (`Look`), takes the time (`Stamp`), reads
the chain, reads the accreditation, and decides with the latest list (`Decide`,
`Verdict`).  The regulator and an edit of the student change what it reads.  For a row
without a structured proof the chain is asked for the certificate's own hash, which was
never anchored (`Readable`).  `told` and `asked` are history variables for the properties.

**UserAccounts.**  `users` is the table with the columns that decide something: role,
institution, `is_active`, `must_change_password`, token version, failure counter,
`locked_until` (null, in the past, in the future), password, reset token.  One operator per
UPDATE of `userModel.js` (`SetRole`, `LoginFailure`, `Consume`, ...), one action per await of
a handler.  A session is a JWT, the record of its claims; beside them it keeps, as history,
the password it was signed for.  `requireCurrentUser` is the first step of every request,
and what it read is all the handler knows of its actor.  A handler may end at any await (`Abort`);
a failed `sendMail` is that.  `changes` counts the changes of a password and `born` says at
which of them a token was asked for.

**Ownership.**  `students`, `accreditations`, `institutions` and the three columns of
`accounts` that routes look at.  Issuance is here from the gate to the end: the
middleware reads the student and finds the effective record, the controller reads the
student again, then the institution, then inserts.  Creation, edit, reassignment (with its count of
credentials) and linking take their reads one by one too.  The listings and views end in
`Disclose`, which records what went to whom: `Refusing` ones answer a foreign institution
with an error (students, credentials, accreditations, the verification log), `Pinning` ones
overwrite what was asked (the audit log, the dashboards).  `raced` remembers the students over
which an issuance and a reassignment met.  An end of NULL is a late date.

**The document modules.**  A text is a sequence of words, punctuation and `" "`; a PDF is a
sequence of pages, each with its size and its items, which have a place, width and height.
`PdfLayout` builds rows from items in the three ways the services do it, with their tolerances;
the manifest takes its rows as parts of the page, so that a page printed at another size is read
alike.  `SemanticManifest` finds, at issuance,
where each value stands (behind a label, below one, after a context, at a position), and reads
that place of another document; `SemanticAnchor` does it without a stored manifest,
`LegacyText` compares labelled and unlabelled lines; `PdfStructure` compares page sizes, items
and metadata.  `CredentialResolution` takes identifiers and student numbers from the text, pattern by
pattern and no more than `MaxIdentifiers`, and ranks the credentials of those numbers; of a number
with more than `MaxRows` credentials it leaves open which are read.
These are operators on data, without variables; the runs check them through `Uploads`.

**Uploads.**  `request` is the handler of one of the six public routes, from `validate` to the
removal of the file: look-up by hash or identifier, two rounds of identification, analysis,
both logs, the answer.  Anything that awaits may throw (`Fail`), an unlink may fail and the
process may stop (`Crash`).  Beside it credentials are registered, get their manifests
(`StoreManifest`, and `Backfill` for rows of an earlier release) and the student is
renamed.  Two requests share nothing but rows they only read, so one is served at a time.

## 3. The runs

| Run | Bounds | Shows |
|---|---|---|
| `registry` | administrator, two wallets and the zero address; two digests and the zero digest; times 1 to 3, modulus 4 | log, evidence, authority |
| `lifecycle` | two certificates (one of each proof version), two requests, three transactions | safety of rows and chain, `CorrectionsAreChains`, `ImplementsTrust`, `StepsOfRegistry` |
| `correction_ring` | as `lifecycle` | `ReplacementIsActive` is violated |
| `lifecycle_liveness` | two certificates, one request at a time, two transactions | `HandlersAnswer`, `UnsettledIsSettled` |
| `failed_not_recovered` | one certificate, two requests, two transactions | `FailedIsRecovered` is violated |
| `publisher` | two credentials, two publishers, times 0 and 1 | accumulation, no false entries, anchoring |
| `lost_status_index` | as `publisher`, nothing fails | `EndedIsListed` is violated |
| `verification` | one credential, publisher and verifier, times 0 to 2, freshness 1 | `VerifiedStoodWhenAsked`, `NoReturnToVerified`, `RevokedHasEnded` |
| `accounts` | two accounts, one institution, two passwords, two requests, lock after one failure | sessions, lockout, reset links, the last super administrator, promotions |
| `ownership` | two accounts (of a super administrator, student, institution administrator or regulator), students, institutions, programmes, records, dates and requests; one other change | disclosure, links, splits and gaps are races only |
| `uploads` | two credentials of one student, thirty-four documents made from them, one fault, three of the six routes | exactness of the comparisons, resolution, recognition, logging, clean-up; the facts about documents of section 5 |
| `narrow_first_row` | one credential, its document and a copy of it, one route | `CopyIsNotAccused` is violated |

Why the bounds are enough.  Two certificates are needed for a correction, two requests for
every race between two handlers; the script is a third actor.  Three
transactions are an issuance for each certificate and a revocation, or the second
submission `NeverResubmitted` forbids; liveness takes two, an issuance and its revocation or the
issuances of a correction's two records.  Two digests, two institutions and
an administrator give every pair of senders and records; modulus 4 is above `MaxTime`,
as 2^64 is above every block time, and the cast's effect shows in the mutant of
the contract's `TypeOK`.  Two publishers are the version race.  A verifier never looks at another credential
or verifier, so one of each suffices; with three times a list can be fresh, stale, or
from the verifier's future.  Two accounts and two requests are what a race about the last
super administrator, a lock or a reset token takes; the bound on failures is 1 because
the properties compare a counter with it and never count up to it.  Two
institutions, two students and one change beside two requests give every reassignment,
link and withdrawn record that can meet an issuance; a programme-wide and an
institution-wide record with overlapping dates exercise the order of
`findEffectiveAccreditation`.  The documents of `uploads` are two layouts, a letter (as in
`test/pdfSemanticAnchor.test.js`) and a form (labels with the value on the next row, a name
over two rows, values without a label), each unedited, re-saved with other metadata, with each
value changed, three blanked, two changed at once, printed word by word with and without items for
the spaces, printed a fifth larger on a larger page, and as the platform's presentation certificate.
Student numbers are of different patterns before and after the renaming; no student has more than
`MaxRows` = 2 credentials, so the limit itself is not reached in the run.  The routes left out differ from `file`,
`credential_id_file` and `public_token` in nothing but how the row is found.

`CHECK_DEADLOCK FALSE` is set where the system may stop: for the publisher's runs (with the
clock at its bound, every credential ended and nothing being published, nothing is left
to do) and for `accounts`, `ownership` and `uploads`, where each request is served once or the
faults are used up.

Each property of a passing run has a mutant: a definition changed as a plausible bug
would change it (an unchecked receipt, a forgotten status in a SELECT, a cached proof), under
which TLC finds that property violated.

**Fairness.**  `CredentialLifecycle!FairSpec`: handlers run to their end, because every
await has a timeout or an error (`waitWithTimeout`, the pool, the HTTP clients); the
operator runs the script again and again, and its database and chain calls do not fail for
ever (strong fairness, as failures may come between).  Nothing is assumed of
mining or of requests arriving.  `StatusListPublisher!FairSpec`: a publication that has
begun runs to its end.

## 4. What the runs found

* **A failed issuance is not recovered** (`failed_not_recovered`).  The wait times out, the
  row becomes failed, the transaction is mined.  `docs/RECOVERY_AND_RECONCILIATION.md`
  says the script recovers it; the script reports failed rows and leaves them alone.
* **A copy that is accused** (`narrow_first_row`).  A value without a label is stored with the
  outline of its one or two rows and is looked for at the row nearest to that outline that
  covers 15 percent of it (`horizontalOverlap`, `semanticManifestService.js:1046`).  A first row
  that is narrower ("The" above "Catholic University of Zimbabwe") is passed over for the second,
  and the field is reported ALTERED on a document that shows what the official one shows.  The
  proof of `CopiesAreNeverAccused` led to it: it went through only where this cannot happen.
  Values on one row are safe (`OneRowIsFound`).
* **A lost index** (`lost_status_index`).  Two publications compute one version; the loser's
  INSERT fails, the handler logs it, and the index is never published.  Verification
  still answers from the row and the chain, so this alone does not make a revoked
  credential VERIFIED.
* **A ring of corrections** (`correction_ring`).  A replacement is judged when it is read, and
  the update guards the original only (`credentialLifecycleController.js:188`).  Two supersessions
  that cross, of c1 by c2 and of c2 by c1, both read an active replacement and both succeed: both
  records are superseded, each by the other, and no current credential is left.  In the same way
  an original may be superseded by a record that is revoked by then.  `CorrectionsAreChains` says
  that this race is the only way to a ring: of any set of superseded records one leads out of
  it, or was corrected by a record that was superseded between the reading and the update.

One more race the models let happen and a property names: a credential superseded after a
verification read its row is answered REVOKED, since the status list that the supersession publishes
does not tell which of the two happened (`verificationService.js:693`).  `RevokedHasEnded` admits
exactly that, and no other REVOKED for a credential that was not revoked.

## 5. The proofs

Each `*_proofs` module proves its theorems for every value of the constants, under the
assumptions named in the component's module (`CredsAssumption`, `TxIdsAssumption`,
`NoCredAssumption`, `ClockAssumption`, `MayFailAssumption`, `PublicationAssumption`, `FreshnessAssumption` and the contract's assumptions on
its addresses, digests and clock, `AccountsAssumption`, `OwnershipAssumption`,
`UploadsAssumption`, `NoRowAssumption`).

* **`CredentialRegistry_proofs`**: `TypeCorrect`, `LogExact`, `TimesAlwaysOrdered`,
  `EvidenceNeverRewritten`, `AuthorityShrinks`.  The log's exactness is inductive once
  "a time is never zero" and "a stored time fits the cast" are at hand (`CastExact`).
* **`CredentialLifecycle_proofs`**: `TypeCorrect`, `ActiveAnchored`, `RevokedOnChain`,
  `NoResubmission`, `SubmittedIsSelectable`, `CorrectionsChain`,
  `EvidenceNeverOverwritten`, and `LifecycleImplementsTrust`.  None of the safety properties is inductive: `ActiveIsAnchored`
  speaks of rows, but a row becomes active because of what a handler saw
  when its wait ended, or the script when it examined the row, several steps earlier.
  `IInv` adds, per row, that a CID fixes the anchor and evidence is
  of the right kind (`RowOK`); per transaction and anchor, that the ledger is what the
  successful transactions made it (`TxOK`, `LedgerOK`); per handler and for the script, what
  the present step may rely on (`HandlerOK`, `ScriptOK`); that a replacement replaces
  one record (`OneOriginal`); and that one handler at most is past the INSERT for a
  certificate, with no transaction before its own submission (`OneIssuer`).  Each part is
  preserved by three lemmas on how rows, transactions and the ledger can grow
  (`RowsOnlyGrow`, `TxsOnlyGrow`, `LedgerOnlyGrows`), so a part that no action
  of its own touches needs no case per action.  The refinement then maps every step
  to one of `CredentialTrust`'s or a stutter (`RowsRefine`, `MineRefines`).
  `CorrectionsChain` adds the history: `Counting` says of a handler about to supersede that
  its replacement is not superseded or was noted as overtaken.  The step that closes a ring
  supersedes a record whose replacement is superseded already, and so it has been noted.  `SubmittedIsSelectable` says
  that whatever was submitted is of a row with a CID, which is what the script selects by.
  `LedgerIsRegistry` rebuilds the contract's state from the ledger, entry by entry, and
  shows each change to be a pause, an unpause, an issue or a revoke transaction.
* **`StatusListPublisher_proofs`**: `TypeCorrect`, `Accumulation`, `NoFalseRevocation`,
  `StoredListsAnchored`.  The inductive invariant says of each publication under way that
  its indices are ended credentials, that they contain those of every version below its own, and
  that its commitment is anchored when it is about to be stored (`PublicationOK`).

* **`Verification_proofs`**: `TypeCorrect`, `VerifiedStood`, `NoReturn`, `RevokedEnded`.  The publication
  beside the verifications keeps the invariant of `StatusListPublisher_proofs`, which is
  instantiated and cited (`SameNext` identifies the two instances of the module).
  On top of it, `VerifierOK` says what each of the four reads still implies later: an end
  that was read is still an end, an end older than the request is seen by the row or by
  the chain; `TrustOK` that a record was accepted over a proof; `ToldOK` that what
  somebody was told has ended.

* **`UserAccounts_proofs`**: `TypeCorrect`, `SessionsAreTruthful`, `FailuresAlwaysLock`,
  `ResetsAlwaysFresh`, `LastSuperNeverTakenAlone`, `PromotionAlwaysFromAbove`.  That live sessions
  tell the truth is not inductive: a login signs what it read before the comparison.
  `Placed` says of it that what it read was true of the version it read, `SessionOK` that no
  session is ahead of its account, and `Upheld` is what every UPDATE keeps: the version
  rises, or nothing a session relies on changes.  `Fresh` ties a reset token to the
  password that stood when it was asked for, `Unset` says that a token is on no account before
  its request wrote it, and `Shape` what a handler's place says about who is asking and how
  many super administrators it saw.
* **`Ownership_proofs`**: `TypeCorrect`, `DisclosureIsToOwners`, `SplitsAreAlwaysRaces`,
  `GapsAreAlwaysRaces`, `LinksAreForGood`.  The invariant follows each handler: an issuance
  past its own look at the student either still agrees with the row or the race has been
  noted (`Placed`); evidence was of a record that covered the award, and records only change
  their status (`Covered`, `RecordsStay`); a reassignment that has counted finds no credential
  but by a race (`Met`).  `Frame` reduces each step to what it does to its own handler, student
  row and credential.
* **`Uploads_proofs`**, first part: `TypeCorrect`, `GenuineIsAlwaysRecognised`,
  `AnswersAreAlwaysLogged`, `LeftFilesAreAlwaysFaults`, for any credentials, documents, layouts and
  routes.  That an official document is recognised follows from the order
  of the look-ups alone (`Recognised`), and the number of files is the number of faults and the
  present request's own (`IInv`).
* **`Analyses_proofs`**: what the analyses say, as operators.  `ManifestFindsItsDocumentUnchanged`:
  verifying a manifest undoes building it, whichever of its four kinds the anchor of a field is;
  on its own document a field reads as stored, or as nothing that can be attributed.  There is a lemma
  per kind (`LabelReads`, `ContextReads`, `IssuedByReads`, `PositionReads`), and the last needs that
  rows stand apart and that the row a value begins with covers enough of its outline
  (`ApartRowsAreFound`): the gap between the two halves of the code that `narrow_first_row` shows.
  `IntactFieldIsNotAccused` is about any other document: what the manifest says of a field depends
  on the rows with the field's label, context or sentence, or at its place, and on what follows
  them, and on nothing else on the page.  If a document has these as the official one has them,
  the field is not called altered, whatever was edited, added or moved beside it (a second
  label or sentence makes the field unassessable, not altered).  `AnchoredAlikeIsNotAccused` is
  about the anchored analysis.
* **`Uploads_proofs`**, second part: `NothingIsEverInvented`, `CopiesAreNeverAccused`,
  `IntactIsNeverAccused`.  They join those lemmas to the requests.  What a request says of its file
  was computed some steps earlier, from a row it read before that; in between the student may
  be edited and manifests stored.  `Judged` says that the analysis is that of the request's row and
  file, whatever happened since, and that a row a request came to by identification belongs to a
  document; `PossibleIs` and `ValidIsOwn` that a manifest that counts is the credential's own,
  built from one of the two versions of its values.  `OneRowIsFound` says how far the finding on copies
  reaches: on rows of some width only a value set on two rows can be passed over, so without such a
  value no copy is accused (`OneRowCopiesAreNeverAccused`).

`NothingIsEverInvented` needs nothing of the documents.  The others start from a fact about the
official documents alone, defined in `Uploads`; no request, row, time or submitted file is mentioned
in it.  `PositionsAreFound`: rows stand apart, and no value found by position begins with a
row that is too narrow.  `OnOneRow` (every such value stands on one row) implies it, by
`OneRowIsFound`.  TLC evaluates both on the documents of `uploads` (`MCFacts`, an assumption of
`MCUploads`), so they are satisfied by both layouts; on the document of `narrow_first_row` both
are false.  They stand where the prover cannot go: rows are built and lines parsed by folds over
sequences of any length, and a fact about the result of a fold needs an induction over data.

Only model-checked, for the instances of section 3: liveness (`HandlersAnswer`, `UnsettledIsSettled`),
which is beyond the prover; and `ManifestIsExact`, `ComparisonsAccuseEdits` and
`ResolvedIsItsSource`, which say what the folds make of particular documents: for arbitrary
ones they would need hypotheses that repeat the verdict's own inputs.  Every other
property of the passing runs is stated by a theorem.

## 6. Abstractions, limits and what is not modelled

Signatures, hashes and canonical JSON are values: a stored proof is the issuer's, a stored
list the institution's, a file is known by its hash.  IPFS is its two outcomes.  Audit
inserts are only their errors, where a handler's control flow depends on them.

Of documents: words are whole tokens, so a label is a prefix word by word; student numbers
and UUIDs are sets of tokens; coordinates are tenths of a point, to which
the comparisons round, and parts of a page are tenths of a point of an A4 page; a date is
one value, though the services parse DATE columns at local midnight and print them with
UTC getters.  Finding identifiers and student numbers is a step each.

The comparisons are exact only as far as their properties say.  A manifest calls a blanked
value "not assessable" and not altered, and a value on the last row of a page gets no position
anchor.  Without a manifest, a document printed with its spaces as separate items is
accused of fields nobody edited (`ComparisonsAccuseEdits` leaves that printing out; the
line builder drops those items), and the platform's own presentation certificate is
answered as tampered with, since it is not the registered document.  An edited copy, or
a reprint with separate spaces, may be attributed to another credential of the
same student (`ResolvedIsItsSource` is about faithful printouts only, and of students with
no more credentials than are read for a number: `LIMIT 20`, `verificationModel.js:393`).  A credential
registered between the look-up by hash and the identification is answered UNKNOWN.
`analyseAnchored` is called by tests only; it is modelled and checked beside the others.

Not modelled: legacy hash-only proofs and the trust-profile text; creation of
institutions and their wallets, which never change; renaming accounts and amending an
accreditation's label; the library that extracts text from a PDF, canonical JSON and
signing (`credentialProofService.js`, `structuredCredentialService.js`); the IPFS client;
migrations and start-up; the rate limiter; health checks, metrics, the front end, and
evaluation, backup and deployment scripts.  These change no state of the modelled parts, or
run before or outside the service.

## 7. What could follow

* Wallet rotation, if the platform ever allows it: status lists and revocations would be judged
  against the present wallet; today no operation changes one.
* Start-up of two instances over one database (`runMigrations.js:38`).
* Liveness of uploads and of account requests under the timeouts of the pool.
