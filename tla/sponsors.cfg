SPECIFICATION SponsorSpec
CONSTANTS
    Requests = {r1, r2, r3}
    r1 = r1  r2 = r2  r3 = r3
    Earlier = {d1, d2}
    d1 = d1  d2 = d2
    Users = {u1, u2}
    u1 = u1  u2 = u2
    Placed <- MCPlaced
    PlacedQuota = 3
    MaxQuota = 1
    None = None
SYMMETRY MCSymmetry
INVARIANTS
    SponsorTypeOK
    AcceptedIsComplete
    UsesAreListed
    UsedIsBacked
    SerialQuotaIsExact
    SerialUsesAreExact
    HappensOnce
