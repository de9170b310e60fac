SPECIFICATION DirectorySpec
CONSTANTS
    Requests = {r1, r2, r3}
    r1 = r1  r2 = r2  r3 = r3
    Emails = {m1, m2}
    m1 = m1  m2 = m2
    EarlierCompanies = {c1}
    MethodOwners = {c1}
    c1 = c1
    CompanyBodies <- MCCompanyBodies
    UserBodies <- MCUserBodies
    CompanyEmail <- MCCompanyEmail
    EarlierAccounts = {u1}
    AccountEmail <- MCAccountEmail
    EarlierSpeakerRecords = {u1}
    u1 = u1
    EarlierFiles = {u1, c1}
    EarlierMethods = {k1}
    k1 = k1
    ArrivalBound <- MCArrivalBound
    None = None
SYMMETRY MCSymmetry
INVARIANTS
    DirectoryTypeOK
    SerialDirectoryIsExact
    ResetUsesLatestToken
    
