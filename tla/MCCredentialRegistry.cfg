SPECIFICATION Spec
CONSTANTS
  admin = admin
  university = university
  polytechnic = polytechnic
  zeroAddress = zeroAddress
  degree = degree
  diploma = diploma
  zeroDigest = zeroDigest
  Addresses <- MCAddresses
  ZeroAddress = zeroAddress
  Administrator = admin
  Digests <- MCDigests
  ZeroDigest = zeroDigest
  MaxTime = 3
  TimestampModulus = 4
SYMMETRY MCSymmetry
INVARIANTS TypeOK LogMatchesLedger
PROPERTIES EvidenceImmutable AuthorityOnlyShrinksWithoutAdmin
