------------------------- MODULE MCCredentialRegistry -------------------------
(* Two wallets beside the administrator and two real digests: enough for a  *)
(* second institution to try the first one's digest, before and after a     *)
(* deactivation, a pause or a change of administrator.                      *)
EXTENDS CredentialRegistry, TLC

CONSTANTS admin, university, polytechnic, zeroAddress, degree, diploma, zeroDigest

MCAddresses == {admin, university, polytechnic, zeroAddress}
MCDigests == {degree, diploma, zeroDigest}
MCSymmetry == Permutations({degree, diploma})
===============================================================================
