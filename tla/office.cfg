SPECIFICATION OfficeSpec
CONSTANTS
    Requests = {r1, r2, r3}
    r1 = r1  r2 = r2  r3 = r3
    Companies = {c1, c2}
    c1 = c1  c2 = c2
    EarlierEvents = {e1, e2, e3}
    e1 = e1  e2 = e2  e3 = e3
    PlacedEvent <- MCPlacedEvent
    GivenStatuses = {"draft", "approved", "rejected"}
    GivenSlugs <- MCGivenSlugs
    EarlierTypes = {t1, t2}
    t1 = t1  t2 = t2
    TypeEvent <- MCTypeEvent
    EarlierTemplates = {k1}
    EarlierFiles = {k1}
    k1 = k1
    TemplateTypes <- MCTemplateTypes
    TemplateEvent <- MCTemplateEvent
    EarlierRequirements = {q1}
    q1 = q1
    EventSponsors = {p1}
    p1 = p1
    EventSpeakers = {s1, s2}
    EarlierSpeakers = {s1}
    s1 = s1  s2 = s2
    ArrivalBound <- MCArrivalBound
    Viewers = {None, c2}
    Tickets = {a1, a2}
    a1 = a1  a2 = a2
    Users = {u1, u2}
    u1 = u1  u2 = u2
    o1 = o1
    OwnerOf <- MCOwnerOf
    OrderOf <- MCOrderOf
    Visitors = {u1, u2, u3}
    u3 = u3
    StandStaff = {u2}
    None = None
SYMMETRY MCSymmetry
INVARIANTS
    OfficeTypeOK
    StatusIsTraced
    SlugsResolve
    EventsHaveTypes
    
    LastRequestStands
    AdmittedOnceAndLogged
    VisitsAreCounted
PROPERTIES
    CancelledStays
