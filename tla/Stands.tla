------------------------------- MODULE Stands -------------------------------
(***************************************************************************)
(* Visits to the stand of one sponsor (SponsorStandsService): the visitor   *)
(* scans the stand, or the staff scan the visitor's ticket.                 *)
(***************************************************************************)
EXTENDS Handlers, FiniteSetsExt

CONSTANTS
    Visitors,    \* users who may scan or be scanned
    StandStaff   \* the users among them who participate for this sponsor

ASSUME StaffAssumption == StandStaff \subseteq Visitors /\ None \notin Visitors

VARIABLES visit  \* visit[r]: the SponsorStandVisit that request r created

VisitDoc == [visitor : Visitors \cup {None}, scannedBy : Visitors \cup {None},
             mode : {"user", "staff"}, count : Nat]
NoVisit == [visitor |-> None, scannedBy |-> None, mode |-> "user", count |-> 0]

VisitsOf(v) == {d \in Requests : visit[d].visitor = v}

Visiting(v, d, old, new) ==
    [op |-> "visit", visitor |-> v, doc |-> d, old |-> old, new |-> new]

\* generateStandQR: a link, for an active sponsor; nothing is stored.
StandLink(r) ==
    /\ \E active \in BOOLEAN :
            Start(r, IF active THEN "ok" ELSE "error", [op |-> "standLink"])
    /\ UNCHANGED visit

\* The visit that r is about to find, with the values it will set.
Arrives(r, refused, v, by, mode) ==
    /\ Start(r, IF refused THEN "error" ELSE "visitFind",
             Visiting(v, r, NoVisit, [visitor |-> v, scannedBy |-> by,
                                      mode |-> mode, count |-> 0]))
    /\ UNCHANGED visit

\* recordVisitByUser.
VisitByUser(r) ==
    \E v \in Visitors, active \in BOOLEAN :
        Arrives(r, ~active \/ v \in StandStaff, v, v, "user")

\* recordVisitByStaff.  That the scanner is staff of the sponsor is looked up
\* and not required.
VisitByStaff(r) ==
    \E v, by \in Visitors, active, genuine \in BOOLEAN :
        Arrives(r, ~active \/ ~genuine \/ v = by \/ v \in StandStaff, v, by, "staff")

\* Mutants: a new visit starts at two; a visit of another is raised.
CountTwo(old) == IF old.count = 0 THEN 2 ELSE old.count + 1
AnyVisit(v) == {d \in Requests : visit[d].visitor # None}

CountVisit(old) == old.count + 1
FoundVisit(v) == VisitsOf(v)

\* findOne: any of the visitor's visits, if there are several.
FindVisit(r) ==
    /\ pc[r] = "visitFind"
    /\ LET v == local[r].visitor
           new(old) == [local[r].new EXCEPT !.count = CountVisit(old)]
       IN  \/ /\ FoundVisit(v) = {}
              /\ Continue(r, "visitSave", Visiting(v, r, NoVisit, new(NoVisit)))
           \/ \E d \in FoundVisit(v) :
                Continue(r, "visitSave", Visiting(v, d, visit[d], new(visit[d])))
    /\ UNCHANGED visit

\* save(): the count, the mode and the scanner are written as computed.
SaveVisit(r) ==
    /\ pc[r] = "visitSave"
    /\ LET l == local[r]
       IN  /\ visit' = [visit EXCEPT ![l.doc] =
                [f \in DOMAIN @ |-> IF l.new[f] = l.old[f] THEN @[f] ELSE l.new[f]]]
           /\ Ends(r)

\* getUserVisits and getSponsorVisits: how often v has come.
Counts == [d \in Requests |-> visit[d].count]
Visits(v) == MapThenSumSet(LAMBDA d : Counts[d], VisitsOf(v))

StandArrive(r) == StandLink(r) \/ VisitByUser(r) \/ VisitByStaff(r)
StandStep(r) == FindVisit(r) \/ SaveVisit(r)
StandLabels == {"visitFind", "visitSave"}

StandInit == visit = [r \in Requests |-> NoVisit]

(***************************************************************************)
(* Properties                                                               *)
(***************************************************************************)
StandTypeOK == visit \in [Requests -> VisitDoc]

\* Scans of v that were not refused, those that ended as `ends` only.
Scans(v, ends) ==
    {r \in Requests : pc[r] \in ends /\ Asked(r, "visit") /\ local[r].visitor = v}

\* Nobody is counted more often than they, or the staff, scanned; who was
\* told that the visit is registered is counted at least once.  The staff are
\* never visitors.
VisitsAreBacked ==
    \A v \in Visitors :
        /\ Visits(v) <= Cardinality(Scans(v, Final))
        /\ Scans(v, {"ok"}) # {} => Visits(v) > 0
        /\ v \in StandStaff => Visits(v) = 0

\* Scans that do not overlap, and whose calls succeed, make one visit per
\* visitor, which counts them all.
SerialVisitsAreExact ==
    Serial =>
        \A v \in Visitors : /\ Cardinality(VisitsOf(v)) <= 1
                            /\ Visits(v) = Cardinality(Scans(v, {"ok"}))

\* The count of a visitor's visits lies within what the scans allow, and is
\* exact when they do not overlap.
VisitsAreCounted == VisitsAreBacked /\ SerialVisitsAreExact
=============================================================================
