----------------------- MODULE StatusListPublisher_proofs -----------------------
(***************************************************************************)
(* The invariants of StatusListPublisher, for any number of credentials,   *)
(* concurrent publications and versions, with and without failures.        *)
(***************************************************************************)
EXTENDS StatusListPublisher, SequenceTheorems, TLAPS

TrustTypeOK == /\ record \in [Creds -> Trust!Records]
               /\ proof \in [Creds -> Trust!Proofs]

\* A step of the credential's own life keeps the types and leaves what ended ended.
LEMMA TrustStep ==
  ASSUME NEW c \in Creds, TrustTypeOK,
         \/ Trust!Accept(c) \/ Trust!RecordRevocation(c) \/ Trust!Supersede(c)
         \/ Trust!Begin(c) \/ Trust!Reject(c) \/ Trust!Anchor(c) \/ Trust!Withdraw(c)
  PROVE  /\ TrustTypeOK'
         /\ \A d \in Creds : record[d] \in Ended => record'[d] \in Ended
<1> USE DEF TrustTypeOK, Ended, Trust!Records, Trust!Proofs
<1>1. CASE Trust!Accept(c) \/ Trust!Begin(c) \/ Trust!Reject(c)
  BY <1>1 DEF Trust!Accept, Trust!Begin, Trust!Reject, Trust!To
<1>2. CASE Trust!RecordRevocation(c) \/ Trust!Supersede(c)
  BY <1>2 DEF Trust!RecordRevocation, Trust!Supersede, Trust!To
<1>3. CASE Trust!Anchor(c) \/ Trust!Withdraw(c)
  BY <1>3 DEF Trust!Anchor, Trust!Withdraw
<1> QED
  BY <1>1, <1>2, <1>3

LEMMA LatestType == ASSUME lists \in Seq(StatusList) PROVE Latest \subseteq Creds
<1>1. CASE lists = <<>>
  BY <1>1 DEF Latest
<1>2. CASE lists # <<>>
  <2>1. Len(lists) \in 1..Len(lists)
    BY <1>2, EmptySeq, LenProperties
  <2>2. lists[Len(lists)] \in StatusList
    BY <2>1, ElementOfSeq
  <2> QED
    BY <1>2, <2>2 DEF Latest, StatusList
<1> QED
  BY <1>1, <1>2

\* What a step does to one publication.
LEMMA PublisherType ==
  ASSUME TypeOK, NEW p \in Publishers, NEW r \in Publisher,
         publishers' = [publishers EXCEPT ![p] = r]
  PROVE  publishers' \in [Publishers -> Publisher]
  BY DEF TypeOK

LEMMA IdleType == Idle \in Publisher
  BY ClockAssumption DEF Idle, Publisher

LEMMA CommitmentType ==
  ASSUME TypeOK, NEW p \in Publishers PROVE CommitmentOf(p) \in Commitment
  BY DEF TypeOK, Publisher, CommitmentOf, Commitment

\* Every variable keeps its type.
LEMMA TypeStep == TypeOK /\ [Next]_vars => TypeOK'
<1> SUFFICES ASSUME TypeOK, [Next]_vars PROVE TypeOK'
  OBVIOUS
<1>0. TrustTypeOK
  BY DEF TypeOK, TrustTypeOK
<1>1. ASSUME NEW p \in Publishers, NEW c \in Creds, Lifecycle(p, c) PROVE TypeOK'
  <2>1. PICK i \in Creds \union {NoCred} : Call(p, i)
    BY <1>1 DEF Lifecycle, PublishOnIssuance, PublishOnRevocation, PublishOnSupersession
  <2>2. publishers' = [publishers EXCEPT ![p] = [publishers[p] EXCEPT !.step = "call",
                                                                     !.index = i]]
    BY <2>1 DEF Call, TypeOK
  <2>3. [publishers[p] EXCEPT !.step = "call", !.index = i] \in Publisher
    BY <2>1 DEF TypeOK, Publisher
  <2>4. TrustTypeOK'
    BY <1>0, <1>1, TrustStep
       DEF Lifecycle, PublishOnIssuance, PublishOnRevocation, PublishOnSupersession
  <2> QED
    BY <2>1, <2>2, <2>3, <2>4, PublisherType DEF Call, TypeOK, TrustTypeOK
<1>2. ASSUME NEW c \in Creds, Unpublished(c) PROVE TypeOK'
  <2>1. TrustTypeOK'
    BY <1>0, <1>2, TrustStep DEF Unpublished
  <2> QED
    BY <1>2, <2>1 DEF Unpublished, TypeOK, TrustTypeOK
<1>3. ASSUME NEW p \in Publishers, Stamp(p) PROVE TypeOK'
  BY <1>3 DEF Stamp, TypeOK, Publisher, trustVars
<1>4. ASSUME NEW p \in Publishers, ReadLatest(p) PROVE TypeOK'
  <2>1. CASE End(p)
    BY <1>4, <2>1, IdleType, PublisherType DEF ReadLatest, End, TypeOK, trustVars
  <2>2. CASE ~End(p)
    <3>1. Latest \union Revoking(p) \subseteq Creds
      BY LatestType DEF Revoking, TypeOK, Publisher
    <3>2. Len(lists) + 1 \in Nat
      BY DEF TypeOK
    <3>3. [publishers[p] EXCEPT !.step = "anchor", !.version = Len(lists) + 1,
                                !.revoked = Latest \union Revoking(p)] \in Publisher
      BY <3>1, <3>2 DEF TypeOK, Publisher
    <3>4. publishers' = [publishers EXCEPT ![p] =
            [publishers[p] EXCEPT !.step = "anchor", !.version = Len(lists) + 1,
                                  !.revoked = Latest \union Revoking(p)]]
      BY <1>4, <2>2 DEF ReadLatest, TypeOK
    <3> QED
      BY <1>4, <3>3, <3>4, PublisherType DEF ReadLatest, TypeOK, trustVars
  <2> QED
    BY <2>1, <2>2
<1>5. ASSUME NEW p \in Publishers, AnchorList(p) PROVE TypeOK'
  <2>1. anchored' \subseteq Commitment
    BY <1>5, CommitmentType DEF AnchorList, TypeOK
  <2>2. publishers' \in [Publishers -> Publisher]
    <3>1. CASE End(p)
      BY <3>1, IdleType, PublisherType DEF End
    <3>2. CASE publishers' = [publishers EXCEPT ![p].step = "insert"]
      BY <3>2 DEF TypeOK, Publisher
    <3> QED
      BY <1>5, <3>1, <3>2 DEF AnchorList
  <2> QED
    BY <1>5, <2>1, <2>2 DEF AnchorList, TypeOK, trustVars
<1>6. ASSUME NEW p \in Publishers, InsertList(p) PROVE TypeOK'
  <2>1. [revoked |-> publishers[p].revoked, at |-> publishers[p].at] \in StatusList
    BY DEF TypeOK, Publisher, StatusList
  <2>2. lists' \in Seq(StatusList)
    BY <1>6, <2>1 DEF InsertList, TypeOK
  <2>3. publishers' \in [Publishers -> Publisher]
    BY <1>6, IdleType, PublisherType DEF InsertList, End
  <2> QED
    BY <1>6, <2>2, <2>3 DEF InsertList, TypeOK, trustVars
<1>7. CASE Tick
  BY <1>7, ClockAssumption DEF Tick, TypeOK, trustVars
<1>8. CASE Crash
  BY <1>8, IdleType DEF Crash, TypeOK, trustVars
<1>9. CASE UNCHANGED vars
  BY <1>9 DEF vars, TypeOK
<1> QED
  BY <1>1, <1>2, <1>3, <1>4, <1>5, <1>6, <1>7, <1>8, <1>9 DEF Next, Publish

LEMMA TypeInit == Init => TypeOK
  BY IdleType, ClockAssumption
     DEF Init, TypeOK, Trust!Init, Trust!Records, Trust!Proofs

\* Every variable keeps its type, whatever interleaves or fails.
THEOREM TypeCorrect == Spec => []TypeOK
  BY TypeInit, TypeStep, PTL DEF Spec

-------------------------------------------------------------------------------
(* The inductive invariant.  A publication under way holds indices of ended  *)
(* credentials only, and everything its predecessor version lists: that the  *)
(* versions accumulate then follows from their being UNIQUE.                 *)

Working == {"anchor", "insert"}

\* What holds of publication r while it is under way.
PublicationOK(r) ==
  /\ r.index # NoCred => record[r.index] \in Ended
  /\ r.step \in Working =>
       /\ \A c \in r.revoked : record[c] \in Ended
       /\ r.version \in 1..(Len(lists) + 1)
       /\ \A i \in 1..(r.version - 1) : lists[i].revoked \subseteq r.revoked
  /\ r.step = "insert" =>
       [version |-> r.version, revoked |-> r.revoked, at |-> r.at] \in anchored

IInv == /\ TypeOK
        /\ RevocationsAccumulate
        /\ OnlyEndedListed
        /\ ListsAreAnchored
        /\ \A p \in Publishers : PublicationOK(publishers[p])

LEMMA EndedStays ==
  ASSUME TypeOK, [Next]_vars
  PROVE  \A d \in Creds : record[d] \in Ended => record'[d] \in Ended
<1>0. TrustTypeOK
  BY DEF TypeOK, TrustTypeOK
<1>1. ASSUME NEW p \in Publishers, NEW c \in Creds, Lifecycle(p, c)
      PROVE  \A d \in Creds : record[d] \in Ended => record'[d] \in Ended
  BY <1>0, <1>1, TrustStep
     DEF Lifecycle, PublishOnIssuance, PublishOnRevocation, PublishOnSupersession
<1>2. ASSUME NEW c \in Creds, Unpublished(c)
      PROVE  \A d \in Creds : record[d] \in Ended => record'[d] \in Ended
  BY <1>0, <1>2, TrustStep DEF Unpublished
<1>3. CASE UNCHANGED trustVars
  BY <1>3 DEF trustVars
<1> QED
  BY <1>1, <1>2, <1>3
     DEF Next, Publish, Stamp, ReadLatest, AnchorList, InsertList, Tick, Crash,
         vars, trustVars

\* The table grows by at most one list, which its publication wrote.
LEMMA ListsStep ==
  ASSUME TypeOK, [Next]_vars
  PROVE  \/ UNCHANGED lists
         \/ \E p \in Publishers :
              /\ publishers[p].step = "insert"
              /\ publishers[p].version = Len(lists) + 1
              /\ lists' = Append(lists, [revoked |-> publishers[p].revoked,
                                         at |-> publishers[p].at])
  BY DEF Next, Lifecycle, PublishOnIssuance, PublishOnRevocation, PublishOnSupersession,
         Call, Unpublished, Publish, Stamp, ReadLatest, AnchorList, InsertList, Tick,
         Crash, vars

LEMMA AnchoredGrows ==
  ASSUME [Next]_vars PROVE anchored \subseteq anchored'
  BY DEF Next, Lifecycle, PublishOnIssuance, PublishOnRevocation, PublishOnSupersession,
         Call, Unpublished, Publish, Stamp, ReadLatest, AnchorList, InsertList, Tick,
         Crash, vars

LEMMA ListsKept ==
  ASSUME TypeOK, [Next]_vars
  PROVE  /\ Len(lists) \in Nat /\ Len(lists') \in Nat /\ Len(lists) <= Len(lists')
         /\ \A i \in 1..Len(lists) : lists'[i] = lists[i]
<1>1. lists \in Seq(StatusList) /\ Len(lists) \in Nat
  BY LenProperties DEF TypeOK
<1>2. CASE UNCHANGED lists
  BY <1>1, <1>2
<1>3. ASSUME NEW p \in Publishers,
             lists' = Append(lists, [revoked |-> publishers[p].revoked,
                                     at |-> publishers[p].at])
      PROVE  /\ Len(lists') \in Nat /\ Len(lists) <= Len(lists')
             /\ \A i \in 1..Len(lists) : lists'[i] = lists[i]
  <2>1. [revoked |-> publishers[p].revoked, at |-> publishers[p].at] \in StatusList
    BY DEF TypeOK, Publisher, StatusList
  <2> QED
    BY <1>1, <1>3, <2>1, AppendProperties
<1> QED
  BY <1>1, <1>2, <1>3, ListsStep

\* Whatever anybody does meanwhile, a publication stays as good as it was.
LEMMA PublicationKept ==
  ASSUME IInv, [Next]_vars, NEW r \in Publisher, PublicationOK(r)
  PROVE  PublicationOK(r)'
<1>1. TypeOK
  BY DEF IInv
<1>2. r.index # NoCred => record'[r.index] \in Ended
  BY <1>1, EndedStays DEF PublicationOK, Publisher
<1>3. ASSUME r.step \in Working
      PROVE  /\ \A c \in r.revoked : record'[c] \in Ended
             /\ r.version \in 1..(Len(lists') + 1)
             /\ \A i \in 1..(r.version - 1) : lists'[i].revoked \subseteq r.revoked
  <2>1. \A c \in r.revoked : record'[c] \in Ended
    BY <1>1, <1>3, EndedStays DEF PublicationOK, Publisher
  <2>2. r.version \in 1..(Len(lists) + 1)
    BY <1>3 DEF PublicationOK
  <2>3. r.version \in 1..(Len(lists') + 1)
    BY <1>1, <2>2, ListsKept
  <2>4. \A i \in 1..(r.version - 1) : lists'[i].revoked \subseteq r.revoked
    BY <1>1, <1>3, <2>2, ListsKept DEF PublicationOK
  <2> QED
    BY <2>1, <2>3, <2>4
<1>4. r.step = "insert" =>
        [version |-> r.version, revoked |-> r.revoked, at |-> r.at] \in anchored'
  BY AnchoredGrows DEF PublicationOK
<1> QED
  BY <1>2, <1>3, <1>4 DEF PublicationOK

LEMMA PublicationsPreserved ==
  ASSUME IInv, [Next]_vars, NEW q \in Publishers
  PROVE  PublicationOK(publishers[q])'
<1>0. TypeOK /\ publishers \in [Publishers -> Publisher] /\ publishers[q] \in Publisher
  BY DEF IInv, TypeOK
<1>1. PublicationOK(publishers[q])
  BY DEF IInv
<1>2. CASE publishers'[q] = publishers[q]
  <2>1. \A r \in Publisher : PublicationOK(r) => PublicationOK(r)'
    BY PublicationKept
  <2> QED
    BY <1>0, <1>1, <1>2, <2>1 DEF PublicationOK
<1>3. CASE publishers'[q] = Idle
  BY <1>3 DEF PublicationOK, Idle, Working
<1>4. ASSUME NEW c \in Creds, Lifecycle(q, c) PROVE PublicationOK(publishers[q])'
  <2>1. PICK i \in {NoCred, c} : Call(q, i) /\ (i # NoCred => record'[i] \in Ended)
    <3>1. record \in [Creds -> Trust!Records]
      BY <1>0 DEF TypeOK
    <3>2. CASE PublishOnIssuance(q, c)
      BY <3>2 DEF PublishOnIssuance
    <3>3. CASE PublishOnRevocation(q, c) \/ PublishOnSupersession(q, c)
      BY <3>1, <3>3 DEF PublishOnRevocation, PublishOnSupersession, Ended,
                        Trust!RecordRevocation, Trust!Supersede, Trust!To
    <3> QED
      BY <1>4, <3>2, <3>3 DEF Lifecycle
  <2>2. publishers'[q].step = "call" /\ publishers'[q].index = i
    BY <1>0, <2>1 DEF Call, Publisher
  <2> QED
    BY <2>1, <2>2 DEF PublicationOK, Working
<1>5. CASE Stamp(q)
  <2>1. publishers'[q].step = "read" /\ publishers'[q].index = publishers[q].index
    BY <1>0, <1>5 DEF Stamp, Publisher
  <2> QED
    BY <1>1, <1>5, <2>1 DEF PublicationOK, Working, Stamp, trustVars
<1>6. CASE ReadLatest(q) /\ ~End(q)
  <2>1. /\ publishers'[q].step = "anchor"
        /\ publishers'[q].index = publishers[q].index
        /\ publishers'[q].version = Len(lists) + 1
        /\ publishers'[q].revoked = Latest \union Revoking(q)
    BY <1>0, <1>6 DEF ReadLatest, Publisher
  <2>2. lists' = lists /\ record' = record /\ lists \in Seq(StatusList) /\ Len(lists) \in Nat
    BY <1>0, <1>6, LenProperties DEF ReadLatest, trustVars, TypeOK
  <2>3. \A i \in 1..Len(lists) : lists[i].revoked \subseteq Latest
    BY <2>2, EmptySeq DEF IInv, RevocationsAccumulate, Latest
  <2>4. \A c \in Latest : record[c] \in Ended
    <3>1. CASE lists = <<>>
      BY <3>1 DEF Latest
    <3>2. CASE lists # <<>>
      <4>1. Len(lists) \in 1..Len(lists)
        BY <2>2, <3>2, EmptySeq
      <4>2. Latest \subseteq Creds
        BY <2>2, LatestType
      <4> QED
        BY <3>2, <4>1, <4>2 DEF IInv, OnlyEndedListed, Latest
    <3> QED
      BY <3>1, <3>2
  <2>5. \A c \in Revoking(q) : record[c] \in Ended
    BY <1>1 DEF Revoking, PublicationOK
  <2> QED
    BY <1>1, <2>1, <2>2, <2>3, <2>4, <2>5 DEF PublicationOK, Working
<1>7. CASE AnchorList(q) /\ ~End(q)
  <2>1. /\ publishers'[q].step = "insert" /\ publishers[q].step = "anchor"
        /\ publishers'[q].index = publishers[q].index
        /\ publishers'[q].version = publishers[q].version
        /\ publishers'[q].revoked = publishers[q].revoked
        /\ publishers'[q].at = publishers[q].at
    BY <1>0, <1>7 DEF AnchorList, Publisher
  <2>2. CommitmentOf(q) \in anchored' /\ lists' = lists /\ record' = record
    BY <1>7 DEF AnchorList, trustVars
  <2> QED
    BY <1>1, <2>1, <2>2 DEF PublicationOK, Working, CommitmentOf
<1>8. ASSUME NEW p \in Publishers \ {q}, NEW c \in Creds, Lifecycle(p, c)
      PROVE publishers'[q] = publishers[q]
  BY <1>0, <1>8 DEF Lifecycle, PublishOnIssuance, PublishOnRevocation,
                    PublishOnSupersession, Call
<1>9. ASSUME NEW p \in Publishers \ {q}, Publish(p) PROVE publishers'[q] = publishers[q]
  BY <1>0, <1>9 DEF Publish, Stamp, ReadLatest, AnchorList, InsertList, End
<1>10. CASE Publish(q)
  BY <1>0, <1>3, <1>5, <1>6, <1>7, <1>10 DEF Publish, InsertList, End
<1>11. CASE Crash \/ Tick \/ UNCHANGED vars \/ \E c \in Creds : Unpublished(c)
  BY <1>0, <1>2, <1>3, <1>11 DEF Crash, Tick, Unpublished, vars
<1> QED
  BY <1>2, <1>4, <1>8, <1>9, <1>10, <1>11 DEF Next

LEMMA ListsPreserved ==
  ASSUME IInv, [Next]_vars
  PROVE  RevocationsAccumulate' /\ OnlyEndedListed' /\ ListsAreAnchored'
<1>0. TypeOK /\ lists \in Seq(StatusList) /\ Len(lists) \in Nat
  BY LenProperties DEF IInv, TypeOK
<1>1. \A d \in Creds : record[d] \in Ended => record'[d] \in Ended
  BY <1>0, EndedStays
<1>2. anchored \subseteq anchored'
  BY AnchoredGrows
<1>3. CASE UNCHANGED lists
  BY <1>0, <1>1, <1>2, <1>3 DEF IInv, RevocationsAccumulate, OnlyEndedListed, ListsAreAnchored
<1>4. ASSUME NEW p \in Publishers,
             publishers[p].step = "insert", publishers[p].version = Len(lists) + 1,
             lists' = Append(lists, [revoked |-> publishers[p].revoked,
                                     at |-> publishers[p].at])
      PROVE  RevocationsAccumulate' /\ OnlyEndedListed' /\ ListsAreAnchored'
  <2> DEFINE n == Len(lists)
             new == [revoked |-> publishers[p].revoked, at |-> publishers[p].at]
  <2>1. new \in StatusList
    BY <1>0 DEF TypeOK, Publisher, StatusList
  <2>2. /\ Len(lists') = n + 1
        /\ \A i \in 1..n : lists'[i] = lists[i]
        /\ lists'[n + 1] = new
    BY <1>0, <1>4, <2>1, AppendProperties
  <2>3. /\ \A c \in publishers[p].revoked : record[c] \in Ended
        /\ \A i \in 1..n : lists[i].revoked \subseteq publishers[p].revoked
        /\ [version |-> n + 1, revoked |-> publishers[p].revoked,
            at |-> publishers[p].at] \in anchored
    BY <1>0, <1>4 DEF IInv, PublicationOK, Working
  <2> HIDE DEF n
  <2>4. new.revoked = publishers[p].revoked /\ new.at = publishers[p].at
    OBVIOUS
  <2>0. n \in Nat /\ n = Len(lists)
    BY <1>0 DEF n
  <2> HIDE DEF new
  <2>5. RevocationsAccumulate'
    BY <2>0, <2>2, <2>3, <2>4 DEF IInv, RevocationsAccumulate
  <2>6. OnlyEndedListed'
    BY <1>1, <2>0, <2>2, <2>3, <2>4 DEF IInv, OnlyEndedListed
  <2>7. ListsAreAnchored'
    BY <1>2, <2>0, <2>2, <2>3, <2>4 DEF IInv, ListsAreAnchored
  <2> QED
    BY <2>5, <2>6, <2>7
<1> QED
  BY <1>0, <1>3, <1>4, ListsStep

LEMMA InvInit == Init => IInv
<1> SUFFICES ASSUME Init PROVE IInv
  OBVIOUS
<1>1. lists = <<>> /\ Len(lists) = 0 /\ \A p \in Publishers : publishers[p] = Idle
  BY EmptySeq DEF Init
<1> QED
  BY <1>1, TypeInit DEF IInv, RevocationsAccumulate, OnlyEndedListed, ListsAreAnchored,
                        PublicationOK, Idle, Working

LEMMA InvStep == IInv /\ [Next]_vars => IInv'
  BY TypeStep, ListsPreserved, PublicationsPreserved DEF IInv

LEMMA Invariant == Spec => []IInv
  BY InvInit, InvStep, PTL DEF Spec

\* Versions accumulate: no interleaving of publications, failures and crashes
\* takes a published index back.
THEOREM Accumulation == Spec => []RevocationsAccumulate
<1>1. IInv => RevocationsAccumulate
  BY DEF IInv
<1> QED
  BY <1>1, Invariant, PTL

\* No published list revokes a credential that is still valid.
THEOREM NoFalseRevocation == Spec => []OnlyEndedListed
<1>1. IInv => OnlyEndedListed
  BY DEF IInv
<1> QED
  BY <1>1, Invariant, PTL

\* Every stored list has its commitment on the ledger.
THEOREM StoredListsAnchored == Spec => []ListsAreAnchored
<1>1. IInv => ListsAreAnchored
  BY DEF IInv
<1> QED
  BY <1>1, Invariant, PTL
===============================================================================
