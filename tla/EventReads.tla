----------------------------- MODULE EventReads -----------------------------
(***************************************************************************)
(* What administrators and visitors read of events (EventsService).         *)
(***************************************************************************)
EXTENDS TicketTypes, FiniteSetsExt

CONSTANTS Viewers  \* None: a visitor, without a token; companies: their administrators

ASSUME ViewersAssumption == Viewers \subseteq Companies \cup {None}

\* The pages of a listing hold one event.
PageSize == 1

(***************************************************************************)
(* findAll                                                                  *)
(***************************************************************************)
\* Mutant: visitors are shown what they may open by its id.
StatusesOpen(v, status) ==
    IF v = None THEN {"published", "completed", "approved"} ELSE EventStatus

\* buildEventStatusFilters; the public list asks for PUBLISHED.
StatusesShown(v, status) ==
    IF v = None THEN {"published"}
    ELSE IF status # None THEN {status} ELSE EventStatus \ {"deleted"}

\* buildCompanyFilter: an administrator of a company is shown its events only.
CompaniesShown(v) == IF v = None THEN Companies ELSE {v}

Matching(l) ==
    {e \in Events : events[e].status \in l.statuses /\ events[e].company \in l.companies}

\* The page and the total are asked for at once, and found in either order.
ListEvents(r) ==
    /\ \E v \in Viewers, status \in GivenStatuses \cup {None} :
        Start(r, "listing", [op |-> "listEvents", viewer |-> v, page |-> None, total |-> None,
                             statuses |-> StatusesShown(v, status), companies |-> CompaniesShown(v)])
    /\ UNCHANGED <<events, typeVars>>

\* The first page: up to PageSize of the events that match.
ReadPage(r) ==
    /\ pc[r] = "listing" /\ local[r].page = None
    /\ LET all == Matching(local[r])
       IN  \E page \in SUBSET all :
            /\ Cardinality(page) = IF Cardinality(all) < PageSize THEN Cardinality(all) ELSE PageSize
            /\ Continue(r, IF local[r].total = None THEN "listing" ELSE "ok",
                        [local[r] EXCEPT !.page = page])
    /\ UNCHANGED <<events, typeVars>>

CountMatching(r) ==
    /\ pc[r] = "listing" /\ local[r].total = None
    /\ Continue(r, IF local[r].page = None THEN "listing" ELSE "ok",
                [local[r] EXCEPT !.total = Cardinality(Matching(local[r]))])
    /\ UNCHANGED <<events, typeVars>>

(***************************************************************************)
(* One event                                                                *)
(***************************************************************************)
Shows(r, op, e) == Start(r, "ok", [op |-> op, page |-> {e}])

\* findOne, for an administrator: the token has no companyId to compare.
FindEvent(r) ==
    /\ \E e \in Events : \/ EventIsStored(e) /\ Shows(r, "findEvent", e)
                         \/ ~EventIsStored(e) /\ Start(r, "error", [op |-> "findEvent"])
    /\ UNCHANGED <<events, typeVars>>

\* findBySlug: any of the events of that slug, of whatever company.
FindBySlug(r) ==
    /\ \E slug \in GivenSlugs :
        LET found == {e \in Events : /\ EventIsStored(e) /\ events[e].slug = slug
                                     /\ events[e].status \in {"published", "completed"}}
        IN  \/ \E e \in found : Shows(r, "showEvent", e)
            \/ found = {} /\ Start(r, "error", [op |-> "showEvent"])
    /\ UNCHANGED <<events, typeVars>>

Published == {e \in Events : EventIsStored(e) /\ events[e].status = "published"}
OnHomepage == {e \in Published : events[e].home}
Upcoming == {e \in OnHomepage : events[e].starts >= Today}
Ongoing == {e \in OnHomepage : events[e].starts <= Today /\ Today <= events[e].ends}

\* getFeaturedEvent: three lookups.  Which events are marked as featured is
\* not modelled: the first finds any event shown on the homepage, or none.
FeaturedMarked(r) ==
    /\ \/ \E e \in OnHomepage : Shows(r, "showEvent", e)
       \/ Start(r, "featuredUpcoming", [op |-> "featured"])
    /\ UNCHANGED <<events, typeVars>>

\* The next looks in `found`; when nothing is there it goes on at `next`.
Featured(r, label, found, next) ==
    /\ pc[r] = label
    /\ \/ \E e \in found : Continue(r, "ok", [op |-> "showEvent", page |-> {e}])
       \/ found = {} /\ Goto(r, next)
    /\ UNCHANGED <<events, typeVars>>

FeaturedUpcoming(r) == Featured(r, "featuredUpcoming", Upcoming, "featuredOngoing")
FeaturedOngoing(r) == Featured(r, "featuredOngoing", Ongoing, "error")

(***************************************************************************)
(* Statistics                                                               *)
(***************************************************************************)
\* getEventStats finds the event as a visitor would; no type counts a sale.
EventStats(r) ==
    /\ \E e \in Events :
        LET open == EventIsStored(e) /\ events[e].status \in {"published", "completed", "approved"}
        IN  Start(r, IF open THEN "statsTypes" ELSE "error", [op |-> "eventStats", event |-> e])
    /\ UNCHANGED <<events, typeVars>>

SumTypes(r) ==
    /\ pc[r] = "statsTypes"
    /\ Continue(r, "ok", [op |-> "eventStats", event |-> local[r].event,
                          total |-> Cardinality(TypesOf(local[r].event))])
    /\ UNCHANGED <<events, typeVars>>

\* getCompanyEventStats: the events by status, then all of them.
OfCompany(c, s) == {e \in Events : events[e].company = c /\ events[e].status = s}

CompanyStats(r) ==
    /\ \E c \in Companies :
        Start(r, "statsCompany", [op |-> "companyStats", company |-> c,
              counts |-> [s \in EventStatus \ {"deleted"} |-> Cardinality(OfCompany(c, s))]])
    /\ UNCHANGED <<events, typeVars>>

CountCompany(r) ==
    /\ pc[r] = "statsCompany"
    /\ Continue(r, "ok", [op |-> "companyStats", counts |-> local[r].counts,
            total |-> Cardinality({e \in Events : Live(e) /\ events[e].company = local[r].company})])
    /\ UNCHANGED <<events, typeVars>>

ReadArrive(r) ==
    \/ ListEvents(r) \/ FindEvent(r) \/ FindBySlug(r) \/ FeaturedMarked(r)
    \/ EventStats(r) \/ CompanyStats(r)

ReadStep(r) ==
    \/ ReadPage(r) \/ CountMatching(r) \/ FeaturedUpcoming(r) \/ FeaturedOngoing(r)
    \/ SumTypes(r) \/ CountCompany(r)

ReadLabels == {"listing", "featuredUpcoming", "featuredOngoing", "statsTypes", "statsCompany"}

(***************************************************************************)
(* Properties                                                               *)
(***************************************************************************)
\* The events a visitor was shown.
Seen(r) ==
    IF pc[r] = "ok" /\ (Asked(r, "showEvent") \/ (Asked(r, "listEvents") /\ local[r].viewer = None))
    THEN local[r].page ELSE {}

\* A visitor is shown an event only after somebody gave it a public status,
\* and not when that was taken back before the visitor's request arrived.
SeenWasPublic ==
    LET public == {"published", "completed"}
    IN  \A r \in Requests : \A e \in Seen(r) :
            \/ \E q \in Requests : Gives(q, e, public)
            \/ /\ e \in EarlierEvents /\ PlacedEvent[e].status \in public
               /\ ~\E q \in before[r] : pc[q] = "ok" /\ Gives(q, e, EventStatus \ public)

\* When no change overlaps them, the two halves of an answer agree: a page and
\* its total, the events by status and all events; and no featured event means
\* that none shown on the homepage is published for today or later.
SerialReadsAgree ==
    Serial => \A r \in Requests :
        /\ pc[r] = "ok" /\ Asked(r, "listEvents") =>
            Cardinality(local[r].page) = IF local[r].total < PageSize THEN local[r].total ELSE PageSize
        /\ pc[r] = "ok" /\ Asked(r, "companyStats") =>
            local[r].total = MapThenSumSet(LAMBDA s : local[r].counts[s], DOMAIN local[r].counts)
        /\ pc[r] = "error" /\ Asked(r, "featured") /\ r \in LastOf({q \in Requests : pc[q] # "idle"})
            => Upcoming \cup Ongoing = {}
=============================================================================
