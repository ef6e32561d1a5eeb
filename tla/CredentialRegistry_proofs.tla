----------------------- MODULE CredentialRegistry_proofs -----------------------
(* Safety of the ledger contract for every set of accounts and digests.      *)
EXTENDS CredentialRegistry, TLAPS

USE AddressesAssumption, DigestsAssumption, TimeAssumption

\* The uint64 cast loses nothing as long as the clock is below 2^64.
LEMMA CastExact == ASSUME NEW t \in 0..MaxTime PROVE Uint64(t) = t
  BY DEF Uint64

\* Every variable keeps its type, whoever calls what.
THEOREM TypeCorrect == Spec => []TypeOK
<1>1. Init => TypeOK
  <2> SUFFICES ASSUME Init PROVE TypeOK
    OBVIOUS
  <2>1. credentials \in [Digests -> Credential]
    BY DEF Init, Credential, NoCredential, Timestamps
  <2>2. issuedLog \in [Digests -> Seq(Event)] /\ revokedLog \in [Digests -> Seq(Event)]
    BY DEF Init
  <2>3. now \in 1..MaxTime
    BY DEF Init
  <2> QED
    BY <2>1, <2>2, <2>3 DEF Init, TypeOK
<1>2. TypeOK /\ [Next]_vars => TypeOK'
  <2> SUFFICES ASSUME TypeOK, [Next]_vars PROVE TypeOK'
    OBVIOUS
  <2> USE DEF TypeOK
  <2>1. ASSUME NEW s \in Senders, NEW a \in Addresses,
               AuthoriseInstitution(s, a) \/ DeactivateInstitution(s, a)
               \/ GrantRole(s, a) \/ RevokeRole(s, a)
        PROVE TypeOK'
    BY <2>1 DEF AuthoriseInstitution, DeactivateInstitution, GrantRole, RevokeRole,
                ledgerVars
  <2>2. ASSUME NEW s \in Senders, NEW h \in Digests, IssueCredential(s, h)
        PROVE TypeOK'
    <3>1. Uint64(now) \in Timestamps
      BY CastExact DEF Timestamps
    <3>2. s \in Addresses
      BY DEF Senders
    <3>3. [by |-> s, at |-> Uint64(now)] \in Event
      BY <3>1, <3>2 DEF Event
    <3>4. issuedLog' \in [Digests -> Seq(Event)]
      BY <2>2, <3>3 DEF IssueCredential
    <3>5. credentials' \in [Digests -> Credential]
      <4>1. 0 \in Timestamps
        BY DEF Timestamps
      <4> QED
        BY <2>2, <3>1, <3>2, <4>1 DEF IssueCredential, Credential
    <3> QED
      BY <2>2, <3>4, <3>5 DEF IssueCredential, roleVars
  <2>3. ASSUME NEW s \in Senders, NEW h \in Digests, RevokeCredential(s, h)
        PROVE TypeOK'
    <3>1. Uint64(now) \in Timestamps
      BY CastExact DEF Timestamps
    <3>2. s \in Addresses
      BY DEF Senders
    <3>3. [by |-> s, at |-> Uint64(now)] \in Event
      BY <3>1, <3>2 DEF Event
    <3>4. revokedLog' \in [Digests -> Seq(Event)]
      BY <2>3, <3>3 DEF RevokeCredential
    <3>5. credentials' \in [Digests -> Credential]
      BY <2>3, <3>1 DEF RevokeCredential, Credential
    <3> QED
      BY <2>3, <3>4, <3>5 DEF RevokeCredential, roleVars
  <2>4. ASSUME NEW s \in Senders, Pause(s) \/ Unpause(s) \/ RenounceRole(s)
        PROVE TypeOK'
    BY <2>4 DEF Pause, Unpause, RenounceRole, roleVars, ledgerVars
  <2>5. CASE Tick
    BY <2>5 DEF Tick, roleVars, ledgerVars
  <2>6. CASE UNCHANGED vars
    BY <2>6 DEF vars
  <2> QED
    BY <2>1, <2>2, <2>3, <2>4, <2>5, <2>6 DEF Next
<1> QED
  BY <1>1, <1>2, PTL DEF Spec

-------------------------------------------------------------------------------
\* The role and pause transactions, and time, leave the ledger alone.
LEMMA LedgerUntouched ==
  ASSUME [Next]_vars,
         \A s \in Senders, h \in Digests :
            ~IssueCredential(s, h) /\ ~RevokeCredential(s, h)
  PROVE  UNCHANGED ledgerVars
  BY DEF Next, vars, AuthoriseInstitution, DeactivateInstitution, GrantRole, RevokeRole,
         Pause, Unpause, RenounceRole, Tick, ledgerVars

\* Only a new block moves the clock, and it moves it forwards.
LEMMA ClockStep ==
  ASSUME TypeOK, [Next]_vars PROVE now' = now \/ (now' = now + 1 /\ now < MaxTime)
<1>1. ASSUME NEW s \in Senders, NEW a \in Addresses,
             AuthoriseInstitution(s, a) \/ DeactivateInstitution(s, a)
             \/ GrantRole(s, a) \/ RevokeRole(s, a)
      PROVE now' = now
  BY <1>1 DEF AuthoriseInstitution, DeactivateInstitution, GrantRole, RevokeRole
<1>2. ASSUME NEW s \in Senders, NEW h \in Digests,
             IssueCredential(s, h) \/ RevokeCredential(s, h)
      PROVE now' = now
  BY <1>2 DEF IssueCredential, RevokeCredential
<1>3. ASSUME NEW s \in Senders, Pause(s) \/ Unpause(s) \/ RenounceRole(s)
      PROVE now' = now
  BY <1>3 DEF Pause, Unpause, RenounceRole
<1>4. CASE Tick
  BY <1>4 DEF Tick
<1>5. CASE UNCHANGED vars
  BY <1>5 DEF vars
<1> QED
  BY <1>1, <1>2, <1>3, <1>4, <1>5 DEF Next

\* The event log is an exact account of the ledger: one issuance event per
\* registered digest, one revocation event per revoked one, by its issuer.
THEOREM LogExact == Spec => []LogMatchesLedger
<1> USE DEF VerifyCredential, CredentialExists
<1>1. Init => LogMatchesLedger
  <2> SUFFICES ASSUME Init, NEW h \in Digests
               PROVE  /\ ~credentials[h].revoked /\ ~credentials[h].exists
                      /\ issuedLog[h] = <<>> /\ revokedLog[h] = <<>>
    BY DEF LogMatchesLedger
  <2> QED
    BY DEF Init, NoCredential
<1>2. TypeOK /\ LogMatchesLedger /\ [Next]_vars => LogMatchesLedger'
  <2> SUFFICES ASSUME TypeOK, LogMatchesLedger, [Next]_vars
               PROVE  LogMatchesLedger'
    OBVIOUS
  <2>1. ASSUME NEW s \in Senders, NEW h \in Digests, IssueCredential(s, h)
        PROVE LogMatchesLedger'
    <3>1. issuedLog[h] = <<>> /\ revokedLog[h] = <<>>
      BY <2>1 DEF IssueCredential, LogMatchesLedger
    <3>2. issuedLog'[h] = <<[by |-> s, at |-> Uint64(now)]>>
      BY <2>1, <3>1 DEF IssueCredential, TypeOK
    <3>3. credentials'[h] = [issuer |-> s, issuedAt |-> Uint64(now), revokedAt |-> 0,
                             exists |-> TRUE, revoked |-> FALSE]
      BY <2>1 DEF IssueCredential, TypeOK
    <3>4. revokedLog' = revokedLog
      BY <2>1 DEF IssueCredential
    <3>5. \A g \in Digests \ {h} : /\ issuedLog'[g] = issuedLog[g]
                                   /\ credentials'[g] = credentials[g]
      BY <2>1 DEF IssueCredential, TypeOK
    <3> QED
      BY <3>1, <3>2, <3>3, <3>4, <3>5 DEF LogMatchesLedger
  <2>2. ASSUME NEW s \in Senders, NEW h \in Digests, RevokeCredential(s, h)
        PROVE LogMatchesLedger'
    <3>1. revokedLog[h] = <<>> /\ credentials[h].issuer = s
      BY <2>2 DEF RevokeCredential, LogMatchesLedger
    <3>2. revokedLog'[h] = <<[by |-> s, at |-> Uint64(now)]>>
      BY <2>2, <3>1 DEF RevokeCredential, TypeOK
    <3>3. /\ credentials'[h].revoked
          /\ credentials'[h].revokedAt = Uint64(now)
          /\ credentials'[h].issuer = s
          /\ credentials'[h].issuedAt = credentials[h].issuedAt
          /\ credentials'[h].exists = credentials[h].exists
      BY <2>2 DEF RevokeCredential, TypeOK, Credential
    <3>4. issuedLog' = issuedLog /\ credentials[h].exists
      BY <2>2 DEF RevokeCredential
    <3>5. \A g \in Digests \ {h} : /\ revokedLog'[g] = revokedLog[g]
                                   /\ credentials'[g] = credentials[g]
      BY <2>2 DEF RevokeCredential, TypeOK
    <3>6. issuedLog[h] = <<[by |-> s, at |-> credentials[h].issuedAt]>>
      BY <3>1, <3>4 DEF LogMatchesLedger
    <3> SUFFICES ASSUME NEW g \in Digests
                 PROVE  LET c == credentials'[g]
                        IN /\ c.revoked => c.exists
                           /\ issuedLog'[g] = IF c.exists
                                THEN <<[by |-> c.issuer, at |-> c.issuedAt]>> ELSE <<>>
                           /\ revokedLog'[g] = IF c.revoked
                                THEN <<[by |-> c.issuer, at |-> c.revokedAt]>> ELSE <<>>
      BY DEF LogMatchesLedger
    <3>7. CASE g = h
      BY <3>2, <3>3, <3>4, <3>6, <3>7
    <3>8. CASE g # h
      BY <3>4, <3>5, <3>8 DEF LogMatchesLedger
    <3> QED
      BY <3>7, <3>8
  <2>3. CASE UNCHANGED ledgerVars
    BY <2>3 DEF LogMatchesLedger, ledgerVars
  <2> QED
    BY <2>1, <2>2, <2>3, LedgerUntouched
<1> QED
  BY <1>1, <1>2, TypeCorrect, PTL DEF Spec

\* Issue and revocation times are ordered and never ahead of the chain.
THEOREM TimesAlwaysOrdered == Spec => []TimesOrdered
<1>1. Init => TimesOrdered
  BY DEF Init, TimesOrdered, NoCredential
<1>2. TypeOK /\ TimesOrdered /\ [Next]_vars => TimesOrdered'
  <2> SUFFICES ASSUME TypeOK, TimesOrdered, [Next]_vars PROVE TimesOrdered'
    OBVIOUS
  <2>0. now \in Nat /\ now' >= now /\ Uint64(now) = now /\ now' \in Nat
    BY ClockStep, CastExact DEF TypeOK
  <2>1. ASSUME NEW s \in Senders, NEW h \in Digests, IssueCredential(s, h)
        PROVE TimesOrdered'
    BY <2>0, <2>1 DEF IssueCredential, TimesOrdered, TypeOK, Credential
  <2>2. ASSUME NEW s \in Senders, NEW h \in Digests, RevokeCredential(s, h)
        PROVE TimesOrdered'
    BY <2>0, <2>2 DEF RevokeCredential, TimesOrdered, TypeOK, Credential
  <2>3. CASE UNCHANGED ledgerVars
    BY <2>0, <2>3 DEF TimesOrdered, ledgerVars, TypeOK, Credential, Timestamps
  <2> QED
    BY <2>1, <2>2, <2>3, LedgerUntouched
<1> QED
  BY <1>1, <1>2, TypeCorrect, PTL DEF Spec

\* No step changes the issuer or time of a registered proof, or un-revokes one.
THEOREM EvidenceNeverRewritten == Spec => EvidenceImmutable
<1> DEFINE Kept == \A h \in Digests : credentials[h].exists =>
                     /\ credentials'[h].exists
                     /\ credentials'[h].issuer = credentials[h].issuer
                     /\ credentials'[h].issuedAt = credentials[h].issuedAt
                     /\ credentials[h].revoked => credentials'[h] = credentials[h]
<1>1. TypeOK /\ [Next]_vars => [Kept]_vars
  <2> SUFFICES ASSUME TypeOK, [Next]_vars PROVE Kept
    OBVIOUS
  <2>1. ASSUME NEW s \in Senders, NEW h \in Digests, IssueCredential(s, h)
        PROVE Kept
    BY <2>1 DEF IssueCredential, TypeOK
  <2>2. ASSUME NEW s \in Senders, NEW h \in Digests, RevokeCredential(s, h)
        PROVE Kept
    BY <2>2 DEF RevokeCredential, TypeOK, Credential
  <2>3. CASE UNCHANGED ledgerVars
    BY <2>3 DEF ledgerVars
  <2> QED
    BY <2>1, <2>2, <2>3, LedgerUntouched
<1> QED
  BY <1>1, TypeCorrect, PTL DEF Spec, EvidenceImmutable

\* Once no administrator is left, nobody gains authority any more.
THEOREM AuthorityShrinks == Spec => AuthorityOnlyShrinksWithoutAdmin
<1> DEFINE Shrinks == admins = {} => /\ admins' = {}
                                    /\ institutions' \subseteq institutions
                                    /\ paused' = paused
<1>1. [Next]_vars => [Shrinks]_vars
  <2> SUFFICES ASSUME [Next]_vars, admins = {}
               PROVE  /\ admins' = {}
                      /\ institutions' \subseteq institutions
                      /\ paused' = paused
    OBVIOUS
  <2>1. CASE \E s \in Senders : RenounceRole(s)
    BY <2>1 DEF RenounceRole
  <2>2. CASE \E s \in Senders, h \in Digests :
               IssueCredential(s, h) \/ RevokeCredential(s, h)
    BY <2>2 DEF IssueCredential, RevokeCredential, roleVars
  <2>3. CASE Tick
    BY <2>3 DEF Tick, roleVars
  <2>4. CASE UNCHANGED vars
    BY <2>4 DEF vars
  <2>5. ~ \E s \in Senders, a \in Addresses :
             AuthoriseInstitution(s, a) \/ DeactivateInstitution(s, a)
             \/ GrantRole(s, a) \/ RevokeRole(s, a)
    BY DEF AuthoriseInstitution, DeactivateInstitution, GrantRole, RevokeRole
  <2>6. ~ \E s \in Senders : Pause(s) \/ Unpause(s)
    BY DEF Pause, Unpause
  <2> QED
    BY <2>1, <2>2, <2>3, <2>4, <2>5, <2>6 DEF Next
<1> QED
  BY <1>1, PTL DEF Spec, AuthorityOnlyShrinksWithoutAdmin
===============================================================================
