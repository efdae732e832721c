SPECIFICATION Spec
CONSTANTS
    u1 = u1  u2 = u2  d1 = d1  d2 = d2  n1 = n1  s1 = s1  s2 = s2  s3 = s3
    Users <- MCUsers  Datas <- MCDatas  Nonces <- MCNonces  Proofs <- MCProofs  Signers <- MCSigners
    FirstSigner = s1  NoSigner = NoSigner  NoUser = NoUser  NoData = NoData
    MaxSigners = 2  Delay = 1  MaxProofAge = 1
    MaxTime = 2  Tokens = 2  MaxAuthorized = 1
SYMMETRY MCSignerSymmetry
INVARIANTS NoReplay ListIsAllowlist OwnerHasKey AuthorizedByOwner
CHECK_DEADLOCK FALSE
