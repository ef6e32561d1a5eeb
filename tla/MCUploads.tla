----------------------------- MODULE MCUploads -----------------------------
(* The certificates and documents of MCCertificates, of which the facts    *)
(* hold that the theorems about uploads start from.                         *)
EXTENDS MCCertificates

ASSUME MCFacts ==
    /\ PositionsAreFound
    /\ OnOneRow
=============================================================================
