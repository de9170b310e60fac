------------------------------ MODULE EventLife ------------------------------
(***************************************************************************)
(* Events from their creation to their publication (EventsService).         *)
(***************************************************************************)
EXTENDS Handlers

CONSTANTS
    Companies,
    EarlierEvents,   \* events stored before the behaviour starts
    PlacedEvent,     \* PlacedEvent[e]: how e is stored then
    GivenStatuses,   \* the statuses requests ask for
    GivenSlugs       \* the slugs requests ask for

\* An event is named by the request that creates it.
Events == Requests \cup EarlierEvents

EventStatus == {"draft", "pending_approval", "approved", "rejected", "published",
                "cancelled", "completed", "deleted"}

\* A slug is the count generateUniqueSlug appends to the title: the titles are equal.
EventDoc == [company : Companies \cup {None}, slug : Nat, status : EventStatus,
             explained : BOOLEAN,   \* rejectionReason is set
             signed : BOOLEAN,      \* approvedBy is set
             home : BOOLEAN,        \* showOnHomepage
             starts : Nat, ends : Nat]

NoEvent == [company |-> None, slug |-> 0, status |-> "draft", explained |-> FALSE,
            signed |-> FALSE, home |-> TRUE, starts |-> 0, ends |-> 0]

ASSUME EventsAssumption ==
    /\ None \notin Companies /\ GivenStatuses \subseteq EventStatus
    /\ GivenSlugs \subseteq Nat
    /\ EarlierEvents \cap Requests = {} /\ None \notin EarlierEvents
    /\ IsFiniteSet(EarlierEvents) /\ PlacedEvent \in [EarlierEvents -> EventDoc]

NeedsReason(s) == s \in {"rejected", "cancelled"}

\* What earlier requests left: every event has a company and its dates in
\* order, the index holds, and the statuses were not given by updates.
ASSUME PlacedAssumption ==
    /\ \A e \in EarlierEvents :
        LET doc == PlacedEvent[e]
        IN  /\ doc.company # None /\ doc.starts < doc.ends
            /\ NeedsReason(doc.status) => doc.explained /\ ~doc.signed
            /\ doc.status = "approved" => doc.signed /\ ~doc.explained
    /\ \A d, e \in EarlierEvents :
        d # e /\ PlacedEvent[d].slug = PlacedEvent[e].slug
            => PlacedEvent[d].company # PlacedEvent[e].company

VARIABLES events  \* events[e]: Event; company None: not stored

EventIsStored(e) == events[e].company # None
Live(e) == EventIsStored(e) /\ events[e].status # "deleted"

Today == 1

\* Mutant: the index is not built.
IndexMissing(e, doc) == FALSE

\* The unique index on the company and the slug: deleted events count.
IndexRefuses(e, doc) ==
    \E d \in Events \ {e} : /\ EventIsStored(d) /\ events[d].company = doc.company
                            /\ events[d].slug = doc.slug

\* The lookup before it: deleted events do not count.
SlugTaken(e, doc) ==
    \E d \in Events \ {e} : /\ Live(d) /\ events[d].company = doc.company
                            /\ events[d].slug = doc.slug

(***************************************************************************)
(* create                                                                   *)
(***************************************************************************)
\* What a CreateEventDto gives: a slug or none, whether the event may be
\* featured, dates in order or not, or past.
CreateInputs == [company : Companies, slug : GivenSlugs \cup {None}, home : BOOLEAN,
                 dates : {<<1, 3>>, <<2, 2>>, <<0, 3>>}]

Drafted(i) ==
    [NoEvent EXCEPT !.company = i.company, !.slug = IF i.slug = None THEN 0 ELSE i.slug,
                    !.home = i.home, !.starts = i.dates[1], !.ends = i.dates[2]]

\* The company is looked up.
CreateEvent(r) ==
    /\ \E i \in CreateInputs, active \in BOOLEAN :
        Start(r, IF active THEN "slugLookup" ELSE "error",
              [op |-> "createEvent", generated |-> i.slug = None, new |-> Drafted(i)])
    /\ UNCHANGED events

DatesAllowed(doc) == Today <= doc.starts /\ doc.starts < doc.ends

\* A given slug: one lookup in the company.
LookUpSlug(r) ==
    /\ pc[r] = "slugLookup" /\ ~local[r].generated
    /\ Goto(r, IF SlugTaken(r, local[r].new) \/ ~DatesAllowed(local[r].new)
               THEN "error" ELSE "eventInsert")
    /\ UNCHANGED events

\* Mutant: only the events of the company are looked up.
SlugInUseHere(new) == \E d \in Events :
    Live(d) /\ events[d].slug = new.slug /\ events[d].company = new.company

\* generateUniqueSlug looks in the events of every company.
SlugInUse(new) == \E d \in Events : Live(d) /\ events[d].slug = new.slug

\* One turn of its loop.
GenerateSlug(r) ==
    /\ pc[r] = "slugLookup" /\ local[r].generated
    /\ LET new == local[r].new
       IN  \/ /\ SlugInUse(new)
              /\ Continue(r, "slugLookup", [local[r] EXCEPT !.new.slug = @ + 1])
           \/ /\ ~SlugInUse(new)
              /\ Goto(r, IF DatesAllowed(new) THEN "eventInsert" ELSE "error")
    /\ UNCHANGED events

\* The insertion; the system ticket types follow.
InsertEvent(r) ==
    /\ pc[r] = "eventInsert"
    /\ \/ /\ ~IndexRefuses(r, local[r].new)
          /\ events' = [events EXCEPT ![r] = local[r].new]
          /\ \E label \in {"systemTypes", "failed"} : Goto(r, label)
       \/ IndexRefuses(r, local[r].new) /\ Goto(r, "failed") /\ UNCHANGED events

(***************************************************************************)
(* update                                                                   *)
(***************************************************************************)
\* What an UpdateEventDto gives: the fields are independent of each other.
UpdateInputs ==
    [slug : GivenSlugs] \cup [status : GivenStatuses] \cup [home : BOOLEAN]
    \cup [starts : 1..3] \cup [ends : 1..3] \cup [starts : {2}, ends : {2, 3}]

\* Mutant: the dates of an update are not compared.
UpdateUnchecked(new) == "eventSet"

UpdateChecked(new) == IF new.starts < new.ends THEN "eventSet" ELSE "error"

UpdateEvent(r) ==
    /\ \E e \in Events, changes \in UpdateInputs :
        LET new == With(events[e], changes)
        IN  Start(r, CASE ~EventIsStored(e) -> "error"
                       [] EventIsStored(e) /\ new.slug # events[e].slug -> "slugCheck"
                       [] OTHER -> UpdateChecked(new),
                  [op |-> "updateEvent", event |-> e, changes |-> changes, new |-> new])
    /\ UNCHANGED events

CheckSlug(r) ==
    /\ pc[r] = "slugCheck"
    /\ Goto(r, IF SlugTaken(local[r].event, local[r].new) THEN "error"
               ELSE UpdateChecked(local[r].new))
    /\ UNCHANGED events

\* $set of the fields given; the dates were checked on the event as read.
SetEvent(r) ==
    /\ pc[r] = "eventSet"
    /\ LET e == local[r].event
           new == With(events[e], local[r].changes)
       IN  \/ IndexRefuses(e, new) /\ Goto(r, "failed") /\ UNCHANGED events
           \/ ~IndexRefuses(e, new) /\ events' = [events EXCEPT ![e] = new] /\ Ends(r)

(***************************************************************************)
(* changeEventStatus, and the handlers made of it                           *)
(***************************************************************************)
\* Mutant: a status that is none of the enumeration.
Removed(doc, s) == [doc EXCEPT !.status = IF s = "deleted" THEN "removed" ELSE s]

\* Mutant: a rejection does not take the approval back.
StillSigned(doc, s) ==
    CASE s = "approved" -> [doc EXCEPT !.status = s, !.signed = TRUE, !.explained = FALSE]
      [] NeedsReason(s) -> [doc EXCEPT !.status = s, !.explained = TRUE]
      [] OTHER -> [doc EXCEPT !.status = s, !.explained = FALSE]

\* What one findByIdAndUpdate sets and unsets.
WithStatus(doc, s) ==
    CASE s = "approved" -> [doc EXCEPT !.status = s, !.signed = TRUE, !.explained = FALSE]
      [] NeedsReason(s) -> [doc EXCEPT !.status = s, !.signed = FALSE, !.explained = TRUE]
      [] OTHER -> [doc EXCEPT !.status = s, !.explained = FALSE]

StatusRequest(e, s) == [op |-> "status", event |-> e, status |-> s]

MoveTo(r, e, s, refused) ==
    \/ /\ refused \/ ~EventIsStored(e)
       /\ Start(r, "error", StatusRequest(e, s)) /\ UNCHANGED events
    \/ /\ ~refused /\ EventIsStored(e)
       /\ \E label \in {"ok", "failed"} : Start(r, label, StatusRequest(e, s))
       /\ events' = [events EXCEPT ![e] = WithStatus(@, s)]

ChangeStatus(r) ==
    \E e \in Events, s \in GivenStatuses, reason \in BOOLEAN :
        MoveTo(r, e, s, NeedsReason(s) /\ ~reason)

CancelEvent(r) ==
    \E e \in Events, reason \in BOOLEAN : MoveTo(r, e, "cancelled", ~reason)

DeleteEvent(r) == \E e \in Events : MoveTo(r, e, "deleted", FALSE)

\* submitForReview, up to its save.
Submit(r) ==
    /\ \E e \in Events, wellFormed \in BOOLEAN :
        Start(r, IF EventIsStored(e) /\ events[e].status = "draft" /\ wellFormed
                 THEN "submitSave" ELSE "error",
              [op |-> "submit", event |-> e, old |-> events[e],
               new |-> [events[e] EXCEPT !.status = "pending_approval", !.explained = FALSE]])
    /\ UNCHANGED events

\* save(): the fields changed since the event was read; the hook refuses dates
\* out of order in the event as read.
SaveSubmitted(r) ==
    /\ pc[r] = "submitSave"
    /\ LET l == local[r]
       IN  \/ l.old.ends < l.old.starts /\ Goto(r, "failed") /\ UNCHANGED events
           \/ /\ l.old.ends >= l.old.starts
              /\ events' = [events EXCEPT ![l.event] =
                    [f \in DOMAIN @ |-> IF l.new[f] = l.old[f] THEN @[f] ELSE l.new[f]]]
              /\ Ends(r)

\* Mutant: any event a visitor may read can be published.
PublishableIfPublic(doc) ==
    doc.company # None /\ doc.status \in {"published", "completed", "approved"}

\* findOne lets the public read events, and publish asks for an approved one.
Publishable(doc) ==
    /\ doc.company # None
    /\ doc.status \in {"published", "completed", "approved"}
    /\ doc.status = "approved"

Publish(r) ==
    /\ \E e \in Events : Start(r, IF Publishable(events[e]) THEN "publishSet" ELSE "error",
                               [op |-> "publish", event |-> e])
    /\ UNCHANGED events

SetPublished(r) ==
    /\ pc[r] = "publishSet"
    /\ events' = [events EXCEPT ![local[r].event] = WithStatus(@, "published")]
    /\ Ends(r)

EventArrive(r) ==
    \/ CreateEvent(r) \/ UpdateEvent(r) \/ ChangeStatus(r) \/ CancelEvent(r)
    \/ DeleteEvent(r) \/ Submit(r) \/ Publish(r)

EventStep(r) ==
    \/ LookUpSlug(r) \/ GenerateSlug(r) \/ InsertEvent(r) \/ CheckSlug(r)
    \/ SetEvent(r) \/ SaveSubmitted(r) \/ SetPublished(r)

EventLabels == {"slugLookup", "eventInsert", "systemTypes", "slugCheck", "eventSet",
                "submitSave", "publishSet"}

EventInit ==
    events = [e \in Events |-> IF e \in EarlierEvents THEN PlacedEvent[e] ELSE NoEvent]

(***************************************************************************)
(* Properties                                                               *)
(***************************************************************************)
EventTypeOK == events \in [Events -> EventDoc]

\* The status request r gives e, or asked to give it before a call failed.
Gives(r, e, S) ==
    /\ pc[r] \in {"ok", "failed"} /\ local[r].op \in {"status", "publish", "submit", "updateEvent"}
    /\ local[r].event = e
    /\ \/ Asked(r, "status") /\ local[r].status \in S
       \/ Asked(r, "publish") /\ "published" \in S
       \/ Asked(r, "submit") /\ "pending_approval" \in S
       \/ Asked(r, "updateEvent") /\ "status" \in DOMAIN local[r].changes
            /\ local[r].changes.status \in S

\* e had been approved, and every change of status that ended before r
\* arrived, and began after the approval ended, was an approval too.
ApprovedFor(e, r) ==
    LET undoes(q) == q \in before[r] /\ pc[q] = "ok" /\ Gives(q, e, EventStatus \ {"approved"})
    IN  \/ /\ e \in EarlierEvents /\ PlacedEvent[e].status = "approved"
           /\ ~\E q \in Requests : undoes(q)
        \/ \E a \in Requests : /\ Gives(a, e, {"approved"})
                               /\ ~\E q \in Requests : undoes(q) /\ a \in before[q]

\* A publication rests on an approval that nothing had taken back when it was
\* asked for; an event rejected or cancelled says why and has no approval,
\* unless its status came with an update.
PublicationIsTraced ==
    /\ \A r \in Requests :
        pc[r] = "ok" /\ Asked(r, "publish") => ApprovedFor(local[r].event, r)
    /\ \A e \in Events :
        EventIsStored(e) /\ (\A q \in Requests : Asked(q, "updateEvent") =>
                                "status" \notin DOMAIN local[q].changes)
            => /\ NeedsReason(events[e].status) => events[e].explained /\ ~events[e].signed
               /\ events[e].status = "approved" => events[e].signed /\ ~events[e].explained

\* No request moved the slug of e or freed it by a deletion.
SlugKept(e) ==
    \A q \in Requests : local[q].op \in {"updateEvent", "status"} /\ local[q].event = e =>
        IF Asked(q, "updateEvent") THEN DOMAIN local[q].changes \cap {"slug", "status"} = {}
        ELSE local[q].status # "deleted"

\* An event is found by its slug: no company has two of one slug, though the
\* slug is looked up and stored later; and a generated slug is the slug of no
\* event, of any company, whose creation had ended before.
SlugsResolve ==
    \A d, e \in Events : d # e /\ EventIsStored(d) /\ EventIsStored(e)
                         /\ events[d].slug = events[e].slug =>
        /\ events[d].company # events[e].company
        /\ d \in Requests /\ Asked(d, "createEvent") /\ local[d].generated
           /\ SlugKept(d) /\ SlugKept(e)
           /\ (e \in EarlierEvents => PlacedEvent[e].status # "deleted")
            => e \in Requests \ before[d]
=============================================================================
