-------------------------- MODULE CredentialRegistry --------------------------
(***************************************************************************)
(* contracts/CredentialRegistry.sol: the ledger of certificate digests.    *)
(* One action per transaction that takes effect; a transaction whose       *)
(* require/revert fails changes nothing and is a stuttering step.  The     *)
(* OpenZeppelin AccessControl functions the contract inherits and leaves   *)
(* public (grantRole, revokeRole, renounceRole) are actions too.           *)
(***************************************************************************)
EXTENDS Naturals, Sequences

CONSTANTS Addresses,          \* every address, the zero address included
          ZeroAddress,        \* address(0)
          Administrator,      \* the constructor's argument
          Digests,            \* every bytes32 value, zero included
          ZeroDigest,         \* bytes32(0)
          MaxTime,            \* bound: the last block timestamp considered
          TimestampModulus    \* 2^64, the range of the uint64 timestamps

ASSUME AddressesAssumption == /\ ZeroAddress \in Addresses
                              /\ Administrator \in Addresses \ {ZeroAddress}
ASSUME DigestsAssumption == ZeroDigest \in Digests
ASSUME TimeAssumption == /\ MaxTime \in Nat \ {0}
                         /\ TimestampModulus \in Nat
                         /\ MaxTime < TimestampModulus

VARIABLES admins,        \* holders of DEFAULT_ADMIN_ROLE
          institutions,  \* holders of INSTITUTION_ROLE
          paused,        \* Pausable's flag
          credentials,   \* mapping(bytes32 => Credential)
          issuedLog,     \* CredentialIssued events, by indexed digest
          revokedLog,    \* CredentialRevoked events, by indexed digest
          now            \* block.timestamp

roleVars == <<admins, institutions>>
ledgerVars == <<credentials, issuedLog, revokedLog>>
vars == <<admins, institutions, paused, credentials, issuedLog, revokedLog, now>>

Senders == Addresses \ {ZeroAddress}

Timestamps == 0..(TimestampModulus - 1)

Credential == [issuer : Addresses, issuedAt : Timestamps, revokedAt : Timestamps,
               exists : BOOLEAN, revoked : BOOLEAN]

Event == [by : Addresses, at : Timestamps]

NoCredential == [issuer |-> ZeroAddress, issuedAt |-> 0, revokedAt |-> 0,
                 exists |-> FALSE, revoked |-> FALSE]

MillisecondsBug(t) == 1000 * t     \* mutant: milliseconds, as off-chain clocks count

\* uint64(block.timestamp)
Uint64(t) == t % TimestampModulus

Init == /\ admins = {Administrator}
        /\ institutions = {}
        /\ paused = FALSE
        /\ credentials = [h \in Digests |-> NoCredential]
        /\ issuedLog = [h \in Digests |-> <<>>]
        /\ revokedLog = [h \in Digests |-> <<>>]
        /\ now = 1

-------------------------------------------------------------------------------
AuthoriseInstitution(sender, wallet) ==
  /\ sender \in admins
  /\ wallet # ZeroAddress
  /\ wallet \notin institutions
  /\ institutions' = institutions \union {wallet}
  /\ UNCHANGED <<admins, paused, ledgerVars, now>>

DeactivateInstitution(sender, wallet) ==
  /\ sender \in admins
  /\ wallet \in institutions
  /\ institutions' = institutions \ {wallet}
  /\ UNCHANGED <<admins, paused, ledgerVars, now>>

IssueBug(sender, h) ==     \* mutant: the duplicate check is forgotten
  /\ sender \in institutions
  /\ ~paused
  /\ h # ZeroDigest
  /\ credentials' = [credentials EXCEPT ![h] =
                       [issuer |-> sender, issuedAt |-> Uint64(now),
                        revokedAt |-> 0, exists |-> TRUE, revoked |-> FALSE]]
  /\ issuedLog' = [issuedLog EXCEPT ![h] =
                     Append(@, [by |-> sender, at |-> Uint64(now)])]
  /\ UNCHANGED <<roleVars, paused, revokedLog, now>>

IssueCredential(sender, h) ==
  /\ sender \in institutions
  /\ ~paused
  /\ h # ZeroDigest
  /\ ~credentials[h].exists
  /\ credentials' = [credentials EXCEPT ![h] =
                       [issuer |-> sender, issuedAt |-> Uint64(now),
                        revokedAt |-> 0, exists |-> TRUE, revoked |-> FALSE]]
  /\ issuedLog' = [issuedLog EXCEPT ![h] =
                     Append(@, [by |-> sender, at |-> Uint64(now)])]
  /\ UNCHANGED <<roleVars, paused, revokedLog, now>>

RevokeByAnyoneBug(sender, h) ==     \* mutant: NotCredentialIssuer is forgotten
  /\ sender \in institutions
  /\ ~paused
  /\ credentials[h].exists
  /\ ~credentials[h].revoked
  /\ credentials' = [credentials EXCEPT ![h].revoked = TRUE,
                                        ![h].revokedAt = Uint64(now)]
  /\ revokedLog' = [revokedLog EXCEPT ![h] =
                      Append(@, [by |-> sender, at |-> Uint64(now)])]
  /\ UNCHANGED <<roleVars, paused, issuedLog, now>>

RevokeCredential(sender, h) ==
  /\ sender \in institutions
  /\ ~paused
  /\ credentials[h].exists
  /\ ~credentials[h].revoked
  /\ credentials[h].issuer = sender
  /\ credentials' = [credentials EXCEPT ![h].revoked = TRUE,
                                        ![h].revokedAt = Uint64(now)]
  /\ revokedLog' = [revokedLog EXCEPT ![h] =
                      Append(@, [by |-> sender, at |-> Uint64(now)])]
  /\ UNCHANGED <<roleVars, paused, issuedLog, now>>

Pause(sender) ==
  /\ sender \in admins
  /\ ~paused
  /\ paused' = TRUE
  /\ UNCHANGED <<roleVars, ledgerVars, now>>

UnpauseByAnyoneBug(sender) ==       \* mutant: onlyRole is forgotten
  /\ paused
  /\ paused' = FALSE
  /\ UNCHANGED <<roleVars, ledgerVars, now>>

Unpause(sender) ==
  /\ sender \in admins
  /\ paused
  /\ paused' = FALSE
  /\ UNCHANGED <<roleVars, ledgerVars, now>>

-------------------------------------------------------------------------------
(* Inherited from AccessControl.  The role administrator of both roles is  *)
(* DEFAULT_ADMIN_ROLE.                                                     *)
GrantRole(sender, account) ==
  /\ sender \in admins
  /\ \/ admins' = admins \union {account} /\ UNCHANGED institutions
     \/ institutions' = institutions \union {account} /\ UNCHANGED admins
  /\ UNCHANGED <<paused, ledgerVars, now>>

RevokeRole(sender, account) ==
  /\ sender \in admins
  /\ \/ admins' = admins \ {account} /\ UNCHANGED institutions
     \/ institutions' = institutions \ {account} /\ UNCHANGED admins
  /\ UNCHANGED <<paused, ledgerVars, now>>

RenounceRole(sender) ==
  /\ \/ admins' = admins \ {sender} /\ UNCHANGED institutions
     \/ institutions' = institutions \ {sender} /\ UNCHANGED admins
  /\ UNCHANGED <<paused, ledgerVars, now>>

\* Mining a block moves block.timestamp forward.
Tick == /\ now < MaxTime
        /\ now' = now + 1
        /\ UNCHANGED <<roleVars, paused, ledgerVars>>

-------------------------------------------------------------------------------
\* The two views off-chain code reads.
VerifyCredential(h) == credentials[h]
CredentialExists(h) == credentials[h].exists

Next ==
  \/ \E s \in Senders, a \in Addresses :
       \/ AuthoriseInstitution(s, a)
       \/ DeactivateInstitution(s, a)
       \/ GrantRole(s, a)
       \/ RevokeRole(s, a)
  \/ \E s \in Senders, h \in Digests :
       \/ IssueCredential(s, h)
       \/ RevokeCredential(s, h)
  \/ \E s \in Senders :
       \/ Pause(s)
       \/ Unpause(s)
       \/ RenounceRole(s)
  \/ Tick

Spec == Init /\ [][Next]_vars

-------------------------------------------------------------------------------
TypeOK ==
  /\ admins \subseteq Addresses
  /\ institutions \subseteq Addresses
  /\ paused \in BOOLEAN
  /\ credentials \in [Digests -> Credential]
  /\ issuedLog \in [Digests -> Seq(Event)]
  /\ revokedLog \in [Digests -> Seq(Event)]
  /\ now \in 1..MaxTime

\* The event log tells the ledger's whole story: exactly one CredentialIssued
\* per registered digest, at most one CredentialRevoked, both by the issuer of
\* record and at the recorded time.  findCredentialIssuanceEvent
\* (backend/services/blockchainService.js) takes the last event of a digest for
\* its issuance, which is right only because of this.
LogMatchesLedger ==
  \A h \in Digests :
    LET c == VerifyCredential(h)
    IN /\ c.revoked => CredentialExists(h)
       /\ issuedLog[h] = IF c.exists
                           THEN <<[by |-> c.issuer, at |-> c.issuedAt]>>
                           ELSE <<>>
       /\ revokedLog[h] = IF c.revoked
                            THEN <<[by |-> c.issuer, at |-> c.revokedAt]>>
                            ELSE <<>>

\* Nobody revokes before issuing: the stored times are ordered and never lie
\* ahead of the chain's clock, also after the uint64 cast.
TimesOrdered ==
  \A h \in Digests :
    /\ credentials[h].issuedAt <= now
    /\ credentials[h].revoked =>
         /\ credentials[h].issuedAt <= credentials[h].revokedAt
         /\ credentials[h].revokedAt <= now

\* A registered proof is immutable evidence: no transaction of any account
\* changes its issuer or its time of issue, and nothing un-revokes it.
EvidenceImmutable ==
  [][\A h \in Digests : credentials[h].exists =>
       /\ credentials'[h].exists
       /\ credentials'[h].issuer = credentials[h].issuer
       /\ credentials'[h].issuedAt = credentials[h].issuedAt
       /\ credentials[h].revoked => credentials'[h] = credentials[h]]_vars

\* When the last administrator has renounced, authority can only shrink: no
\* account gains a role and the pause switch stays where it is.
AuthorityOnlyShrinksWithoutAdmin ==
  [][admins = {} => /\ admins' = {}
                    /\ institutions' \subseteq institutions
                    /\ paused' = paused]_vars
===============================================================================
