----------------------------- MODULE OfficeProofs -----------------------------
(***************************************************************************)
(* Theorems about Office, for any sets of requests, events, ticket types,   *)
(* documents and visitors.                                                  *)
(***************************************************************************)
EXTENDS ScopeProofs

(***************************************************************************)
(* The events.                                                              *)
(***************************************************************************)
\* What the records of events are made of.
DocFields == {"company", "slug", "status", "explained", "signed", "home", "starts", "ends"}

\* What a save of a submission leaves of the event.
SavedEvent(stored, old, new) ==
    [f \in DOMAIN stored |-> IF new[f] = old[f] THEN stored[f] ELSE new[f]]

InReview(doc) == [doc EXCEPT !.status = "pending_approval", !.explained = FALSE]

\* The fields of an event.
LEMMA EventFields ==
  ASSUME NEW doc \in EventDoc
  PROVE  /\ DOMAIN doc = DocFields
         /\ doc.company \in Companies \cup {None} /\ doc.slug \in Nat /\ doc.status \in EventStatus
         /\ doc.explained \in BOOLEAN /\ doc.signed \in BOOLEAN /\ doc.home \in BOOLEAN
         /\ doc.starts \in Nat /\ doc.ends \in Nat
         /\ doc = [company |-> doc.company, slug |-> doc.slug, status |-> doc.status,
                   explained |-> doc.explained, signed |-> doc.signed, home |-> doc.home,
                   starts |-> doc.starts, ends |-> doc.ends]
BY DEF EventDoc, DocFields

\* An event with the changes an update asks for.
LEMMA EventWith ==
  ASSUME NEW doc \in EventDoc, NEW changes \in UpdateInputs
  PROVE  LET new == With(doc, changes)
         IN  /\ new \in EventDoc /\ new.company = doc.company /\ new.explained = doc.explained
             /\ new.signed = doc.signed
             /\ "slug" \notin DOMAIN changes => new.slug = doc.slug
             /\ "status" \notin DOMAIN changes => new.status = doc.status
             /\ "status" \in DOMAIN changes => new.status = changes.status /\ changes.status \in EventStatus
<1> DEFINE new == With(doc, changes)
<1>1. /\ new = [f \in DocFields |-> IF f \in DOMAIN changes THEN changes[f] ELSE doc[f]]
  BY EventFields DEF With
<1>2. /\ "company" \notin DOMAIN changes /\ "explained" \notin DOMAIN changes /\ "signed" \notin DOMAIN changes
      /\ "slug" \in DOMAIN changes => changes.slug \in Nat
      /\ "status" \in DOMAIN changes => changes.status \in EventStatus
      /\ "home" \in DOMAIN changes => changes.home \in BOOLEAN
      /\ "starts" \in DOMAIN changes => changes.starts \in Nat
      /\ "ends" \in DOMAIN changes => changes.ends \in Nat
  <2>1. GivenSlugs \subseteq Nat /\ GivenStatuses \subseteq EventStatus /\ 1..3 \subseteq Nat
    BY EventsAssumption
  <2>2. CASE changes \in [slug : GivenSlugs]
    BY <2>1, <2>2
  <2>3. CASE changes \in [status : GivenStatuses]
    BY <2>1, <2>3
  <2>4. CASE changes \in [starts : 1..3]
    BY <2>1, <2>4
  <2>5. CASE changes \in [ends : 1..3]
    BY <2>1, <2>5
  <2>6. CASE changes \in [starts : {2}, ends : {2, 3}]
    BY <2>6
  <2>7. CASE changes \in [home : BOOLEAN]
    BY <2>7
  <2> QED
    BY <2>2, <2>3, <2>4, <2>5, <2>6, <2>7 DEF UpdateInputs
<1> HIDE DEF new
<1>3. /\ new.company = doc.company /\ new.explained = doc.explained /\ new.signed = doc.signed
      /\ new.slug = IF "slug" \in DOMAIN changes THEN changes.slug ELSE doc.slug
      /\ new.status = IF "status" \in DOMAIN changes THEN changes.status ELSE doc.status
      /\ new.home = IF "home" \in DOMAIN changes THEN changes.home ELSE doc.home
      /\ new.starts = IF "starts" \in DOMAIN changes THEN changes.starts ELSE doc.starts
      /\ new.ends = IF "ends" \in DOMAIN changes THEN changes.ends ELSE doc.ends
  BY <1>1, <1>2 DEF DocFields
<1>4. new = [company |-> new.company, slug |-> new.slug, status |-> new.status,
             explained |-> new.explained, signed |-> new.signed, home |-> new.home,
             starts |-> new.starts, ends |-> new.ends]
  BY <1>1 DEF DocFields
<1>5. /\ new.slug \in Nat /\ new.status \in EventStatus /\ new.home \in BOOLEAN
      /\ new.starts \in Nat /\ new.ends \in Nat
  BY <1>2, <1>3, EventFields
<1>6. new \in EventDoc
  BY <1>3, <1>4, <1>5, EventFields DEF EventDoc
<1> QED
  BY <1>2, <1>3, <1>6 DEF new

\* What the records of the handlers hold.
LEMMA EventRecords ==
  /\ \A doc \in EventDoc, s \in EventStatus :
        LET new == WithStatus(doc, s)
        IN  /\ new \in EventDoc /\ new.company = doc.company /\ new.slug = doc.slug
            /\ new.starts = doc.starts /\ new.ends = doc.ends /\ new.status = s
            /\ NeedsReason(s) => new.explained /\ ~new.signed
            /\ s = "approved" => new.signed /\ ~new.explained
  /\ \A i \in CreateInputs :
        Drafted(i) \in EventDoc /\ Drafted(i).company # None /\ Drafted(i).status = "draft"
  /\ \A doc \in EventDoc :
        LET new == [doc EXCEPT !.slug = @ + 1]
        IN  /\ new \in EventDoc /\ new.company = doc.company /\ new.status = doc.status
            /\ new.starts = doc.starts /\ new.ends = doc.ends
  /\ \A stored, old \in EventDoc :
        LET new == SavedEvent(stored, old, InReview(old))
        IN  /\ new \in EventDoc /\ new.company = stored.company /\ new.slug = stored.slug
            /\ new.starts = stored.starts /\ new.ends = stored.ends
            /\ old.status = "draft" => new.status = "pending_approval"
  /\ NoEvent \in EventDoc /\ NoEvent.company = None /\ NoEvent.status = "draft"
<1>1. ASSUME NEW doc \in EventDoc, NEW s \in EventStatus
      PROVE  LET new == WithStatus(doc, s)
             IN  /\ new \in EventDoc /\ new.company = doc.company /\ new.slug = doc.slug
                 /\ new.starts = doc.starts /\ new.ends = doc.ends /\ new.status = s
                 /\ NeedsReason(s) => new.explained /\ ~new.signed
                 /\ s = "approved" => new.signed /\ ~new.explained
  <2>1. CASE s = "approved"
    BY <2>1 DEF WithStatus, EventDoc, NeedsReason
  <2>2. CASE s # "approved" /\ NeedsReason(s)
    BY <2>2 DEF WithStatus, EventDoc
  <2>3. CASE s # "approved" /\ ~NeedsReason(s)
    BY <2>3 DEF WithStatus, EventDoc
  <2> QED
    BY <2>1, <2>2, <2>3
<1>2. ASSUME NEW i \in CreateInputs
      PROVE  Drafted(i) \in EventDoc /\ Drafted(i).company # None /\ Drafted(i).status = "draft"
  <2>1. /\ i.company \in Companies /\ i.company # None
        /\ i.slug \in Nat \cup {None} /\ i.home \in BOOLEAN /\ i.dates[1] \in Nat /\ i.dates[2] \in Nat
    <3>1. /\ i.company \in Companies /\ i.slug \in GivenSlugs \cup {None} /\ i.home \in BOOLEAN
          /\ i.dates \in {<<1, 3>>, <<2, 2>>, <<0, 3>>}
      BY DEF CreateInputs
    <3>2. i.dates[1] \in Nat /\ i.dates[2] \in Nat
      BY <3>1
    <3> QED
      BY <3>1, <3>2, EventsAssumption
  <2>2. PICK n \in Nat : n = IF i.slug = None THEN 0 ELSE i.slug
    BY <2>1
  <2>3. "draft" \in EventStatus
    BY DEF EventStatus
  <2> QED
    BY <2>1, <2>2, <2>3 DEF Drafted, NoEvent, EventDoc
<1>3. ASSUME NEW doc \in EventDoc
      PROVE  LET new == [doc EXCEPT !.slug = @ + 1]
             IN  /\ new \in EventDoc /\ new.company = doc.company /\ new.status = doc.status
                 /\ new.starts = doc.starts /\ new.ends = doc.ends
  BY DEF EventDoc
<1>4. ASSUME NEW stored \in EventDoc, NEW old \in EventDoc
      PROVE  LET new == SavedEvent(stored, old, InReview(old))
             IN  /\ new \in EventDoc /\ new.company = stored.company /\ new.slug = stored.slug
                 /\ new.starts = stored.starts /\ new.ends = stored.ends
                 /\ old.status = "draft" => new.status = "pending_approval"
  <2>1. PICK sub \in EventDoc : /\ sub = InReview(old) /\ sub.company = old.company
                                /\ sub.slug = old.slug /\ sub.signed = old.signed /\ sub.home = old.home
                                /\ sub.starts = old.starts /\ sub.ends = old.ends
                                /\ sub.status = "pending_approval"
    <3>1. /\ InReview(old).company = old.company /\ InReview(old).slug = old.slug
          /\ InReview(old).signed = old.signed /\ InReview(old).home = old.home
          /\ InReview(old).starts = old.starts
          /\ InReview(old).ends = old.ends /\ InReview(old).status = "pending_approval"
      BY DEF InReview, EventDoc
    <3>2. InReview(old) \in EventDoc
      BY DEF InReview, EventDoc, EventStatus
    <3> QED
      BY <3>1, <3>2
  <2> DEFINE new == SavedEvent(stored, old, sub)
  <2>2. new = [f \in DocFields |-> IF sub[f] = old[f] THEN stored[f] ELSE sub[f]]
    BY EventFields DEF SavedEvent
  <2> HIDE DEF new
  <2>3. /\ new.company = stored.company /\ new.slug = stored.slug /\ new.signed = stored.signed
        /\ new.home = IF sub.home = old.home THEN stored.home ELSE sub.home
        /\ new.starts = stored.starts /\ new.ends = stored.ends
        /\ new.status = IF sub.status = old.status THEN stored.status ELSE sub.status
        /\ new.explained = IF sub.explained = old.explained THEN stored.explained ELSE sub.explained
    BY <2>1, <2>2 DEF DocFields
  <2>4. new = [company |-> new.company, slug |-> new.slug, status |-> new.status,
               explained |-> new.explained, signed |-> new.signed, home |-> new.home,
               starts |-> new.starts, ends |-> new.ends]
    BY <2>2 DEF DocFields
  <2>5. new \in EventDoc
    BY <2>1, <2>3, <2>4, EventFields DEF EventDoc
  <2> QED
    BY <2>1, <2>3, <2>5 DEF new
<1>5. NoEvent \in EventDoc /\ NoEvent.company = None /\ NoEvent.status = "draft"
  BY DEF NoEvent, EventDoc, EventStatus
<1> QED
  BY <1>1, <1>2, <1>3, <1>4, <1>5

\* The requests that give an event a status, or may.
GivingOps == {"status", "publish", "submit", "updateEvent"}

\* What a request about an event knows of it,
EventKnown(r) ==
    /\ local[r].op \in GivingOps => "event" \in DOMAIN local[r] /\ local[r].event \in Events
    /\ Asked(r, "updateEvent") => "changes" \in DOMAIN local[r] /\ local[r].changes \in UpdateInputs
    /\ Asked(r, "status") => "status" \in DOMAIN local[r] /\ local[r].status \in EventStatus
    /\ Asked(r, "createEvent") => "generated" \in DOMAIN local[r] /\ local[r].generated \in BOOLEAN

\* and what it has read when it is about to make a call.
EventAt(r) ==
    /\ pc[r] \in {"slugLookup", "eventInsert"} =>
        /\ Asked(r, "createEvent") /\ "new" \in DOMAIN local[r] /\ local[r].new \in EventDoc
        /\ local[r].new.company # None /\ local[r].new.status = "draft"
    /\ pc[r] = "eventInsert" => local[r].new.starts < local[r].new.ends
    /\ pc[r] = "systemTypes" => Asked(r, "createEvent") /\ EventIsStored(r)
    /\ pc[r] \in {"slugCheck", "eventSet"} =>
        /\ Asked(r, "updateEvent") /\ "new" \in DOMAIN local[r] /\ local[r].new \in EventDoc
        /\ EventIsStored(local[r].event)
    /\ pc[r] = "eventSet" => local[r].new.starts < local[r].new.ends
    /\ pc[r] = "submitSave" =>
        /\ Asked(r, "submit") /\ {"old", "new"} \subseteq DOMAIN local[r]
        /\ local[r].old \in EventDoc /\ local[r].new = InReview(local[r].old)
        /\ local[r].old.status = "draft" /\ EventIsStored(local[r].event)
    /\ pc[r] = "publishSet" => Asked(r, "publish") /\ EventIsStored(local[r].event)
    /\ EventIsStored(r) => Asked(r, "createEvent") /\ pc[r] \in {"systemTypes"} \cup Final

EventShape == \A r \in Requests : EventKnown(r) /\ EventAt(r)

(***************************************************************************)
(* What a request does to the events.                                       *)
(***************************************************************************)
\* What was asked stays as it is.
Keeps(r) ==
    \A f \in DOMAIN local[r] \ {"old", "new"} : f \in DOMAIN local'[r] /\ local'[r][f] = local[r][f]

\* A request that has nothing to do with them, but may read them.
EventsAside(r) ==
    /\ UNCHANGED events /\ local[r].op \notin EventOps
    /\ local'[r].op \notin EventOps /\ pc'[r] \notin EventLabels

\* One arrives, and is refused or goes on.
CreationCame(r) ==
    /\ local'[r].op = "createEvent" /\ "generated" \in DOMAIN local'[r] /\ local'[r].generated \in BOOLEAN
    /\ \/ pc'[r] = "error"
       \/ /\ pc'[r] = "slugLookup" /\ "new" \in DOMAIN local'[r] /\ local'[r].new \in EventDoc
          /\ local'[r].new.company # None /\ local'[r].new.status = "draft"

UpdateCame(r) ==
    /\ local'[r].op = "updateEvent" /\ {"event", "changes"} \subseteq DOMAIN local'[r]
    /\ local'[r].event \in Events /\ local'[r].changes \in UpdateInputs
    /\ \/ pc'[r] = "error"
       \/ /\ pc'[r] \in {"slugCheck", "eventSet"} /\ EventIsStored(local'[r].event)
          /\ "new" \in DOMAIN local'[r]
          /\ local'[r].new = With(events[local'[r].event], local'[r].changes)
          /\ pc'[r] = "eventSet" => local'[r].new.starts < local'[r].new.ends

StatusRefused(r) ==
    /\ local'[r].op = "status" /\ {"event", "status"} \subseteq DOMAIN local'[r]
    /\ local'[r].event \in Events /\ local'[r].status \in EventStatus /\ pc'[r] = "error"

SubmissionCame(r) ==
    /\ local'[r].op = "submit" /\ "event" \in DOMAIN local'[r] /\ local'[r].event \in Events
    /\ \/ pc'[r] = "error"
       \/ /\ pc'[r] = "submitSave" /\ {"old", "new"} \subseteq DOMAIN local'[r]
          /\ local'[r].old = events[local'[r].event] /\ local'[r].new = InReview(local'[r].old)
          /\ local'[r].old.status = "draft" /\ EventIsStored(local'[r].event)

PublicationCame(r) ==
    /\ local'[r].op = "publish" /\ "event" \in DOMAIN local'[r] /\ local'[r].event \in Events
    /\ \/ pc'[r] = "error"
       \/ /\ pc'[r] = "publishSet" /\ events[local'[r].event].status = "approved"
          /\ EventIsStored(local'[r].event)

EventCame(r) ==
    /\ pc[r] = "idle" /\ UNCHANGED events
    /\ CreationCame(r) \/ UpdateCame(r) \/ StatusRefused(r) \/ SubmissionCame(r) \/ PublicationCame(r)

\* One goes on to its next call, or ends and has written nothing.
EventGoesOn(r) ==
    /\ pc[r] \in EventLabels /\ Keeps(r) /\ UNCHANGED events
    /\ \/ pc'[r] \in {"error", "failed"}
       \/ pc[r] = "systemTypes" /\ pc'[r] = "ok"
       \/ /\ pc[r] = "slugLookup" /\ pc'[r] = "slugLookup"
          /\ local'[r] = [local[r] EXCEPT !.new.slug = @ + 1]
       \/ /\ pc[r] = "slugLookup" /\ pc'[r] = "eventInsert" /\ local'[r] = local[r]
          /\ DatesAllowed(local[r].new) /\ (local[r].generated => ~SlugInUse(local[r].new))
       \/ /\ pc[r] = "slugCheck" /\ pc'[r] = "eventSet" /\ local'[r] = local[r]
          /\ local[r].new.starts < local[r].new.ends

\* One writes, and goes on or ends.
EventInserted(r) ==
    /\ pc[r] = "eventInsert" /\ Keeps(r) /\ pc'[r] \in {"systemTypes", "failed"}
    /\ ~IndexRefuses(r, local[r].new)
    /\ events' = [events EXCEPT ![r] = local[r].new]

EventSetTo(r) ==
    /\ pc[r] = "eventSet" /\ Keeps(r) /\ pc'[r] \in {"ok", "failed"}
    /\ ~IndexRefuses(local[r].event, With(events[local[r].event], local[r].changes))
    /\ events' = [events EXCEPT ![local[r].event] = With(events[local[r].event], local[r].changes)]

StatusGiven(r) ==
    /\ pc[r] = "idle" /\ pc'[r] \in {"ok", "failed"}
    /\ local'[r].op = "status" /\ {"event", "status"} \subseteq DOMAIN local'[r]
    /\ local'[r].event \in Events /\ local'[r].status \in EventStatus /\ EventIsStored(local'[r].event)
    /\ events' = [events EXCEPT ![local'[r].event] = WithStatus(@, local'[r].status)]

EventPublished(r) ==
    /\ pc[r] = "publishSet" /\ Keeps(r) /\ pc'[r] \in {"ok", "failed"}
    /\ events' = [events EXCEPT ![local[r].event] = WithStatus(@, "published")]

EventSubmitted(r) ==
    /\ pc[r] = "submitSave" /\ Keeps(r) /\ pc'[r] \in {"ok", "failed"}
    /\ events' = [events EXCEPT ![local[r].event] = SavedEvent(@, local[r].old, local[r].new)]

EventEffect(r) ==
    /\ MoveOf(r)
    /\ \/ EventsAside(r) \/ EventCame(r) \/ EventGoesOn(r) \/ EventInserted(r)
       \/ EventSetTo(r) \/ StatusGiven(r) \/ EventPublished(r) \/ EventSubmitted(r)

\* Every step of a request about an event is one of these.
LEMMA EventEffects ==
  ASSUME EventShape, events \in [Events -> EventDoc],
         NEW Labels, Labels \cap (Final \cup {"idle"}) = {}, EventLabels \subseteq Labels, Here(Labels),
         \A q \in Requests : "op" \in DOMAIN local[q],
         NEW r \in Requests,
         \/ EventArrive(r) \/ EventStep(r) \/ InsertSystemTypes(r)
         \/ Fails(r) /\ pc[r] \in EventLabels /\ UNCHANGED events
  PROVE  EventEffect(r) /\ pc'[r] \in EventLabels \cup Final /\ local'[r].op \in EventOps
<1> DEFINE L == {"slugLookup", "eventInsert", "systemTypes", "slugCheck", "eventSet",
                 "submitSave", "publishSet", "ok", "error", "failed"}
<1>a. /\ L = EventLabels \cup Final /\ Final = {"ok", "error", "failed"}
      /\ EventLabels = {"slugLookup", "eventInsert", "systemTypes", "slugCheck", "eventSet",
                        "submitSave", "publishSet"}
      /\ EventLabels \cap (Final \cup {"idle"}) = {}
      /\ EventOps = {"createEvent", "updateEvent", "status", "submit", "publish"}
  BY DEF EventLabels, Final, EventOps
<1> HIDE DEF L
\* A request that arrives,
<1>b. ASSUME NEW label \in L, NEW l, "op" \in DOMAIN l, l.op # "none", Start(r, label, l)
      PROVE  /\ MoveOf(r) /\ pc'[r] = label /\ pc[r] = "idle" /\ local[r] = NoLocal
             /\ label \notin Final => local'[r] = l
             /\ \A f \in DOMAIN l \ {"old", "new"} : f \in DOMAIN local'[r] /\ local'[r][f] = l[f]
  <2>1. label # "idle" /\ label \in Labels \cup Final
    BY <1>a, <1>b
  <2>2. Went(r, label, l) /\ pc[r] = "idle" /\ local[r] = NoLocal
    BY <1>a, <1>b, <2>1, Starts
  <2>3. MoveOf(r)
    BY <2>1, <2>2, WentMoved
  <2> QED
    BY <2>2, <2>3 DEF Went
\* and one that goes on.
<1>c. ASSUME pc[r] \in EventLabels
      PROVE  InFlight(r) /\ "op" \in DOMAIN local[r] /\ local[r].op \in EventOps /\ local[r].op # "none"
  BY <1>a, <1>c DEF InFlight, EventShape, EventKnown, EventAt, Asked
<1>d. ASSUME NEW label \in L, NEW l, pc[r] \in EventLabels, "op" \in DOMAIN l, l.op # "none", Continue(r, label, l)
      PROVE  /\ MoveOf(r) /\ pc'[r] = label
             /\ label \notin Final => local'[r] = l
             /\ \A f \in DOMAIN l \ {"old", "new"} : f \in DOMAIN local'[r] /\ local'[r][f] = l[f]
  <2>1. label # "idle" /\ label \in Labels \cup Final
    BY <1>a, <1>d
  <2>2. Went(r, label, l)
    BY <1>a, <1>c, <1>d, <2>1, Continues
  <2>3. MoveOf(r)
    BY <2>1, <2>2, WentMoved
  <2> QED
    BY <2>2, <2>3 DEF Went
<1>e. ASSUME NEW label \in L, pc[r] \in EventLabels, Goto(r, label)
      PROVE  /\ MoveOf(r) /\ pc'[r] = label /\ Keeps(r) /\ (label \notin Final => local'[r] = local[r])
             /\ pc'[r] \in EventLabels \cup Final /\ local'[r].op \in EventOps
  <2>1. /\ MoveOf(r) /\ pc'[r] = label /\ (label \notin Final => local'[r] = local[r])
        /\ \A f \in DOMAIN local[r] \ {"old", "new"} : f \in DOMAIN local'[r] /\ local'[r][f] = local[r][f]
    BY <1>c, <1>d, <1>e DEF Goto
  <2>2. Keeps(r)
    BY <2>1 DEF Keeps
  <2>3. local'[r].op = local[r].op
    BY <1>c, <1>e, <2>1
  <2> QED
    BY <1>a, <1>c, <1>e, <2>1, <2>2, <2>3
<1>1. CASE CreateEvent(r)
  <2>1. PICK i \in CreateInputs, label \in {"slugLookup", "error"} :
            Start(r, label, [op |-> "createEvent", generated |-> i.slug = None, new |-> Drafted(i)])
    BY <1>1 DEF CreateEvent
  <2>2. PICK l : l = [op |-> "createEvent", generated |-> i.slug = None, new |-> Drafted(i)]
    OBVIOUS
  <2>3. /\ DOMAIN l = {"op", "generated", "new"} /\ l.op = "createEvent"
        /\ l.generated \in BOOLEAN /\ l.new = Drafted(i)
    BY <2>2
  <2>4. /\ MoveOf(r) /\ pc'[r] = label /\ pc[r] = "idle"
        /\ label \notin Final => local'[r] = l
        /\ \A f \in DOMAIN l \ {"old", "new"} : f \in DOMAIN local'[r] /\ local'[r][f] = l[f]
    BY <1>a, <1>b, <2>1, <2>2, <2>3
  <2>5. /\ local'[r].op = "createEvent" /\ "generated" \in DOMAIN local'[r] /\ local'[r].generated \in BOOLEAN
    BY <2>3, <2>4
  <2>6. /\ Drafted(i) \in EventDoc /\ Drafted(i).company # None /\ Drafted(i).status = "draft"
    BY EventRecords
  <2>7. label = "slugLookup" => "new" \in DOMAIN local'[r] /\ local'[r].new = Drafted(i)
    BY <1>a, <2>3, <2>4
  <2>8. CreationCame(r)
    BY <2>4, <2>5, <2>6, <2>7 DEF CreationCame
  <2>9. UNCHANGED events
    BY <1>1 DEF CreateEvent
  <2> QED
    BY <1>a, <2>4, <2>5, <2>8, <2>9 DEF EventEffect, EventCame
<1>2. CASE UpdateEvent(r)
  <2>1. PICK e \in Events, changes \in UpdateInputs, label \in {"error", "slugCheck", "eventSet"} :
            /\ Start(r, label, [op |-> "updateEvent", event |-> e, changes |-> changes,
                                new |-> With(events[e], changes)])
            /\ label # "error" => EventIsStored(e)
            /\ label = "eventSet" => With(events[e], changes).starts < With(events[e], changes).ends
    BY <1>2 DEF UpdateEvent, UpdateChecked
  <2>2. PICK l : l = [op |-> "updateEvent", event |-> e, changes |-> changes, new |-> With(events[e], changes)]
    OBVIOUS
  <2>3. /\ DOMAIN l = {"op", "event", "changes", "new"} /\ l.op = "updateEvent"
        /\ l.event = e /\ l.changes = changes /\ l.new = With(events[e], changes)
    BY <2>2
  <2>4. /\ MoveOf(r) /\ pc'[r] = label /\ pc[r] = "idle"
        /\ label \notin Final => local'[r] = l
        /\ \A f \in DOMAIN l \ {"old", "new"} : f \in DOMAIN local'[r] /\ local'[r][f] = l[f]
    BY <1>a, <1>b, <2>1, <2>2, <2>3
  <2>5. /\ local'[r].op = "updateEvent" /\ {"event", "changes"} \subseteq DOMAIN local'[r]
        /\ local'[r].event = e /\ local'[r].changes = changes
    BY <2>3, <2>4
  <2>6. label # "error" => "new" \in DOMAIN local'[r] /\ local'[r].new = With(events[e], changes)
    BY <1>a, <2>1, <2>3, <2>4
  <2>7. UpdateCame(r)
    BY <2>1, <2>4, <2>5, <2>6 DEF UpdateCame
  <2>8. UNCHANGED events
    BY <1>2 DEF UpdateEvent
  <2> QED
    BY <1>a, <2>1, <2>4, <2>5, <2>7, <2>8 DEF EventEffect, EventCame
<1>3. ASSUME NEW e \in Events, NEW s \in EventStatus, NEW refused, MoveTo(r, e, s, refused)
      PROVE  EventEffect(r) /\ pc'[r] \in EventLabels \cup Final /\ local'[r].op \in EventOps
  <2>1. PICK label \in {"ok", "failed", "error"} :
            /\ Start(r, label, StatusRequest(e, s))
            /\ label = "error" => UNCHANGED events
            /\ label # "error" => EventIsStored(e) /\ events' = [events EXCEPT ![e] = WithStatus(@, s)]
    BY <1>3 DEF MoveTo
  <2>2. PICK l : l = StatusRequest(e, s)
    OBVIOUS
  <2>3. DOMAIN l = {"op", "event", "status"} /\ l.op = "status" /\ l.event = e /\ l.status = s
    BY <2>2 DEF StatusRequest
  <2>4. /\ MoveOf(r) /\ pc'[r] = label /\ pc[r] = "idle"
        /\ \A f \in DOMAIN l \ {"old", "new"} : f \in DOMAIN local'[r] /\ local'[r][f] = l[f]
    BY <1>a, <1>b, <2>1, <2>2, <2>3
  <2>5. /\ local'[r].op = "status" /\ {"event", "status"} \subseteq DOMAIN local'[r]
        /\ local'[r].event = e /\ local'[r].status = s
    BY <2>3, <2>4
  <2>6. CASE label = "error"
    BY <1>a, <2>1, <2>4, <2>5, <2>6 DEF EventEffect, EventCame, StatusRefused
  <2>7. CASE label # "error"
    BY <1>a, <2>1, <2>4, <2>5, <2>7 DEF EventEffect, StatusGiven
  <2> QED
    BY <2>6, <2>7
<1>4. CASE Submit(r)
  <2>1. PICK e \in Events, label \in {"submitSave", "error"} :
            /\ Start(r, label, [op |-> "submit", event |-> e, old |-> events[e],
                                new |-> [events[e] EXCEPT !.status = "pending_approval", !.explained = FALSE]])
            /\ label # "error" => EventIsStored(e) /\ events[e].status = "draft"
    BY <1>4 DEF Submit
  <2>2. PICK l : l = [op |-> "submit", event |-> e, old |-> events[e],
                      new |-> [events[e] EXCEPT !.status = "pending_approval", !.explained = FALSE]]
    OBVIOUS
  <2>3. /\ DOMAIN l = {"op", "event", "old", "new"} /\ l.op = "submit" /\ l.event = e
        /\ l.old = events[e] /\ l.new = InReview(events[e])
    BY <2>2 DEF InReview
  <2>4. /\ MoveOf(r) /\ pc'[r] = label /\ pc[r] = "idle"
        /\ label \notin Final => local'[r] = l
        /\ \A f \in DOMAIN l \ {"old", "new"} : f \in DOMAIN local'[r] /\ local'[r][f] = l[f]
    BY <1>a, <1>b, <2>1, <2>2, <2>3
  <2>5. /\ local'[r].op = "submit" /\ "event" \in DOMAIN local'[r] /\ local'[r].event = e
    BY <2>3, <2>4
  <2>6. label # "error" => /\ {"old", "new"} \subseteq DOMAIN local'[r]
                           /\ local'[r].old = events[e] /\ local'[r].new = InReview(events[e])
    BY <1>a, <2>1, <2>3, <2>4
  <2>7. SubmissionCame(r)
    BY <2>1, <2>4, <2>5, <2>6 DEF SubmissionCame
  <2>8. UNCHANGED events
    BY <1>4 DEF Submit
  <2> QED
    BY <1>a, <2>1, <2>4, <2>5, <2>7, <2>8 DEF EventEffect, EventCame
<1>5. CASE Publish(r)
  <2>1. PICK e \in Events, label \in {"publishSet", "error"} :
            /\ Start(r, label, [op |-> "publish", event |-> e])
            /\ label # "error" => EventIsStored(e) /\ events[e].status = "approved"
    BY <1>5 DEF Publish, Publishable, EventIsStored
  <2>2. PICK l : l = [op |-> "publish", event |-> e]
    OBVIOUS
  <2>3. /\ DOMAIN l = {"op", "event"} /\ l.op = "publish" /\ l.event = e
    BY <2>2
  <2>4. /\ MoveOf(r) /\ pc'[r] = label /\ pc[r] = "idle"
        /\ \A f \in DOMAIN l \ {"old", "new"} : f \in DOMAIN local'[r] /\ local'[r][f] = l[f]
    BY <1>a, <1>b, <2>1, <2>2, <2>3
  <2>5. /\ local'[r].op = "publish" /\ "event" \in DOMAIN local'[r] /\ local'[r].event = e
    BY <2>3, <2>4
  <2>6. PublicationCame(r)
    BY <2>1, <2>4, <2>5 DEF PublicationCame
  <2>7. UNCHANGED events
    BY <1>5 DEF Publish
  <2> QED
    BY <1>a, <2>1, <2>4, <2>5, <2>6, <2>7 DEF EventEffect, EventCame
<1>6. CASE LookUpSlug(r)
  <2>1. PICK label \in {"error", "eventInsert"} :
            Goto(r, label) /\ (label # "error" => DatesAllowed(local[r].new))
    BY <1>6 DEF LookUpSlug
  <2>2. pc[r] = "slugLookup" /\ ~local[r].generated /\ UNCHANGED events
    BY <1>6 DEF LookUpSlug
  <2>3. /\ MoveOf(r) /\ pc'[r] = label /\ Keeps(r) /\ (label \notin Final => local'[r] = local[r])
        /\ pc'[r] \in EventLabels \cup Final /\ local'[r].op \in EventOps
    BY <1>a, <1>e, <2>1, <2>2
  <2> QED
    BY <1>a, <2>1, <2>2, <2>3 DEF EventEffect, EventGoesOn
<1>7. CASE GenerateSlug(r)
  <2>1. pc[r] = "slugLookup" /\ UNCHANGED events /\ pc[r] \in EventLabels
    BY <1>a, <1>7 DEF GenerateSlug
  <2>2. CASE Continue(r, "slugLookup", [local[r] EXCEPT !.new.slug = @ + 1])
    <3>1. PICK l : l = [local[r] EXCEPT !.new.slug = @ + 1]
      OBVIOUS
    <3>2. /\ DOMAIN l = DOMAIN local[r] /\ \A f \in DOMAIN local[r] \ {"new"} : l[f] = local[r][f]
      BY <3>1
    <3>3. "op" \in DOMAIN l /\ l.op \in EventOps /\ l.op # "none"
      BY <1>c, <2>1, <3>2
    <3>4. /\ MoveOf(r) /\ pc'[r] = "slugLookup" /\ local'[r] = l
      BY <1>a, <1>d, <2>1, <2>2, <3>1, <3>3
    <3>5. Keeps(r)
      BY <3>2, <3>4 DEF Keeps
    <3> QED
      BY <1>a, <2>1, <3>1, <3>3, <3>4, <3>5 DEF EventEffect, EventGoesOn
  <2>3. CASE ~SlugInUse(local[r].new) /\ Goto(r, IF DatesAllowed(local[r].new) THEN "eventInsert" ELSE "error")
    <3>1. PICK label \in {"error", "eventInsert"} :
              Goto(r, label) /\ (label # "error" => DatesAllowed(local[r].new))
      BY <2>3
    <3>2. /\ MoveOf(r) /\ pc'[r] = label /\ Keeps(r) /\ (label \notin Final => local'[r] = local[r])
          /\ pc'[r] \in EventLabels \cup Final /\ local'[r].op \in EventOps
      BY <1>a, <1>e, <2>1, <3>1
    <3> QED
      BY <1>a, <2>1, <2>3, <3>1, <3>2 DEF EventEffect, EventGoesOn
  <2> QED
    BY <1>7, <2>2, <2>3 DEF GenerateSlug
<1>8. CASE InsertEvent(r)
  <2>1. pc[r] = "eventInsert"
    BY <1>8 DEF InsertEvent
  <2>2. PICK label \in {"systemTypes", "failed"} :
            /\ Goto(r, label)
            /\ \/ ~IndexRefuses(r, local[r].new) /\ events' = [events EXCEPT ![r] = local[r].new]
               \/ label = "failed" /\ UNCHANGED events
    BY <1>8 DEF InsertEvent
  <2>3. /\ MoveOf(r) /\ pc'[r] = label /\ Keeps(r)
        /\ pc'[r] \in EventLabels \cup Final /\ local'[r].op \in EventOps
    BY <1>a, <1>e, <2>1, <2>2
  <2> QED
    BY <1>a, <2>1, <2>2, <2>3 DEF EventEffect, EventGoesOn, EventInserted
<1>9. CASE CheckSlug(r)
  <2>1. PICK label \in {"error", "eventSet"} :
            Goto(r, label) /\ (label # "error" => local[r].new.starts < local[r].new.ends)
    BY <1>9 DEF CheckSlug, UpdateChecked
  <2>2. pc[r] = "slugCheck" /\ UNCHANGED events
    BY <1>9 DEF CheckSlug
  <2>3. /\ MoveOf(r) /\ pc'[r] = label /\ Keeps(r) /\ (label \notin Final => local'[r] = local[r])
        /\ pc'[r] \in EventLabels \cup Final /\ local'[r].op \in EventOps
    BY <1>a, <1>e, <2>1, <2>2
  <2> QED
    BY <1>a, <2>1, <2>2, <2>3 DEF EventEffect, EventGoesOn
<1>10. CASE SetEvent(r)
  <2>1. pc[r] = "eventSet"
    BY <1>10 DEF SetEvent
  <2>2. PICK label \in {"ok", "failed"} :
            /\ Goto(r, label)
            /\ \/ /\ ~IndexRefuses(local[r].event, With(events[local[r].event], local[r].changes))
                  /\ events' = [events EXCEPT ![local[r].event] = With(events[local[r].event], local[r].changes)]
               \/ label = "failed" /\ UNCHANGED events
    BY <1>10 DEF SetEvent, Ends
  <2>3. /\ MoveOf(r) /\ pc'[r] = label /\ Keeps(r)
        /\ pc'[r] \in EventLabels \cup Final /\ local'[r].op \in EventOps
    BY <1>a, <1>e, <2>1, <2>2
  <2> QED
    BY <1>a, <2>1, <2>2, <2>3 DEF EventEffect, EventGoesOn, EventSetTo
<1>11. CASE SaveSubmitted(r)
  <2>1. pc[r] = "submitSave"
    BY <1>11 DEF SaveSubmitted
  <2>2. PICK label \in {"ok", "failed"} :
            /\ Goto(r, label)
            /\ \/ events' = [events EXCEPT ![local[r].event] = SavedEvent(@, local[r].old, local[r].new)]
               \/ label = "failed" /\ UNCHANGED events
    BY <1>11 DEF SaveSubmitted, SavedEvent, Ends
  <2>3. /\ MoveOf(r) /\ pc'[r] = label /\ Keeps(r)
        /\ pc'[r] \in EventLabels \cup Final /\ local'[r].op \in EventOps
    BY <1>a, <1>e, <2>1, <2>2
  <2> QED
    BY <1>a, <2>1, <2>2, <2>3 DEF EventEffect, EventGoesOn, EventSubmitted
<1>12. CASE SetPublished(r)
  <2>1. /\ pc[r] = "publishSet"
        /\ events' = [events EXCEPT ![local[r].event] = WithStatus(@, "published")]
    BY <1>12 DEF SetPublished
  <2>2. PICK label \in {"ok", "failed"} : Goto(r, label)
    BY <1>12 DEF SetPublished, Ends
  <2>3. /\ MoveOf(r) /\ pc'[r] = label /\ Keeps(r)
        /\ pc'[r] \in EventLabels \cup Final /\ local'[r].op \in EventOps
    BY <1>a, <1>e, <2>1, <2>2
  <2> QED
    BY <1>a, <2>1, <2>2, <2>3 DEF EventEffect, EventPublished
<1>13. CASE InsertSystemTypes(r)
  <2>1. pc[r] = "systemTypes" /\ UNCHANGED events
    BY <1>13 DEF InsertSystemTypes
  <2>2. PICK label \in {"ok", "failed"} : Goto(r, label)
    BY <1>13 DEF InsertSystemTypes, AnswerCreation, Ends
  <2>3. /\ MoveOf(r) /\ pc'[r] = label /\ Keeps(r)
        /\ pc'[r] \in EventLabels \cup Final /\ local'[r].op \in EventOps
    BY <1>a, <1>e, <2>1, <2>2
  <2> QED
    BY <1>a, <2>1, <2>2, <2>3 DEF EventEffect, EventGoesOn
<1>14. CASE Fails(r) /\ pc[r] \in EventLabels /\ UNCHANGED events
  <2>1. /\ MoveOf(r) /\ pc'[r] = "failed" /\ Keeps(r)
        /\ pc'[r] \in EventLabels \cup Final /\ local'[r].op \in EventOps
    BY <1>a, <1>e, <1>14 DEF Fails
  <2> QED
    BY <1>14, <2>1 DEF EventEffect, EventGoesOn
<1>15. CASE ChangeStatus(r) \/ CancelEvent(r) \/ DeleteEvent(r)
  <2>1. GivenStatuses \subseteq EventStatus /\ {"cancelled", "deleted"} \subseteq EventStatus
    BY EventsAssumption DEF EventStatus
  <2>2. CASE ChangeStatus(r)
    <3>1. PICK e \in Events, s \in GivenStatuses, reason \in BOOLEAN : MoveTo(r, e, s, NeedsReason(s) /\ ~reason)
      BY <2>2 DEF ChangeStatus
    <3> QED
      BY <1>3, <2>1, <3>1
  <2>3. CASE CancelEvent(r)
    <3>1. PICK e \in Events, reason \in BOOLEAN : MoveTo(r, e, "cancelled", ~reason)
      BY <2>3 DEF CancelEvent
    <3> QED
      BY <1>3, <2>1, <3>1
  <2>4. CASE DeleteEvent(r)
    BY <1>3, <2>1, <2>4 DEF DeleteEvent
  <2> QED
    BY <1>15, <2>2, <2>3, <2>4
<1> QED
  BY <1>1, <1>2, <1>4, <1>5, <1>6, <1>7, <1>8, <1>9, <1>10, <1>11, <1>12, <1>13, <1>14, <1>15
     DEF EventArrive, EventStep

\* The request that moves asks for status s.
AsksStatus(r, s) ==
    \/ local'[r].op = "status" /\ local'[r].status = s
    \/ local'[r].op = "publish" /\ s = "published"
    \/ local'[r].op = "submit" /\ s = "pending_approval"
    \/ /\ local'[r].op = "updateEvent" /\ "status" \in DOMAIN local'[r].changes
       /\ local'[r].changes.status = s

\* It ends, and was about event e.
EndsOn(r, e) ==
    /\ pc'[r] \in {"ok", "failed"} /\ local'[r].op \in GivingOps
    /\ "event" \in DOMAIN local'[r] /\ local'[r].event = e

\* What a step leaves of a stored event.
EventStays(r, e) ==
    /\ EventIsStored(e)' /\ events'[e].company = events[e].company
    /\ events'[e].slug # events[e].slug =>
        EndsOn(r, e) /\ local'[r].op = "updateEvent" /\ "slug" \in DOMAIN local'[r].changes
    /\ events'[e].status # events[e].status => EndsOn(r, e) /\ AsksStatus(r, events'[e].status)
    /\ \/ events'[e].starts = events[e].starts /\ events'[e].ends = events[e].ends
       \/ EventSetTo(r) /\ local[r].event = e
    /\ \/ /\ events'[e].status = events[e].status /\ events'[e].explained = events[e].explained
          /\ events'[e].signed = events[e].signed
       \/ EndsOn(r, e) /\ local'[r].op = "updateEvent" /\ "status" \in DOMAIN local'[r].changes
       \/ /\ NeedsReason(events'[e].status) => events'[e].explained /\ ~events'[e].signed
          /\ events'[e].status = "approved" => events'[e].signed /\ ~events'[e].explained
    /\ pc'[r] = "ok" /\ EndsOn(r, e) =>
        \A s \in EventStatus : AsksStatus(r, s) => events'[e].status = s

\* What a request that ends leaves of its event.
LEMMA EventWrites ==
  ASSUME EventShape, events \in [Events -> EventDoc], \A q \in Requests : "op" \in DOMAIN local[q],
         NEW r \in Requests, EventEffect(r)
  PROVE  /\ events' \in [Events -> EventDoc]
         /\ \A e \in Events : EventIsStored(e) => EventStays(r, e)
         /\ \A e \in Events : ~EventIsStored(e) =>
                events'[e] = events[e] \/ (e = r /\ EventInserted(r) /\ events'[e] = local[r].new)
<1>a. r \in Events /\ GivingOps = {"status", "publish", "submit", "updateEvent"}
  BY DEF Events, GivingOps
\* One event, e, is written, as new.
<1>b. ASSUME NEW e \in Events, NEW new \in EventDoc, events' = [events EXCEPT ![e] = new]
      PROVE  /\ events' \in [Events -> EventDoc] /\ events'[e] = new
             /\ \A d \in Events \ {e} : events'[d] = events[d]
  BY <1>b
\* An event that is not written stays as it is.
<1>c. ASSUME NEW d \in Events, EventIsStored(d), events'[d] = events[d],
             pc'[r] = "ok" => ~EndsOn(r, d)
      PROVE  EventStays(r, d)
  BY <1>c DEF EventStays, EventIsStored
<1>1. CASE EventsAside(r) \/ EventCame(r) \/ EventGoesOn(r)
  <2>0. UNCHANGED events
    BY <1>1 DEF EventsAside, EventCame, EventGoesOn
  <2>1. pc'[r] = "ok" => local'[r].op \notin GivingOps
    <3>1. CASE EventsAside(r)
      BY <1>a, <3>1 DEF EventsAside, EventOps
    <3>2. CASE EventCame(r)
      BY <1>a, <3>2 DEF EventCame, CreationCame, UpdateCame, StatusRefused, SubmissionCame, PublicationCame
    <3>3. CASE EventGoesOn(r)
      <4>1. pc'[r] = "ok" => pc[r] = "systemTypes" /\ local[r].op = "createEvent" /\ local'[r].op = local[r].op
        <5>1. pc[r] = "systemTypes" => local[r].op = "createEvent"
          BY DEF EventShape, EventKnown, EventAt, Asked
        <5>2. local'[r].op = local[r].op
          BY <3>3 DEF EventGoesOn, Keeps
        <5> QED
          BY <3>3, <5>1, <5>2 DEF EventGoesOn
      <4> QED
        BY <1>a, <4>1
    <3> QED
      BY <1>1, <3>1, <3>2, <3>3
  <2> QED
    BY <1>c, <2>0, <2>1 DEF EndsOn
\* The others: one event is written, whose company stays.
<1>d. ASSUME NEW e \in Events, EventIsStored(e), NEW new \in EventDoc, new.company = events[e].company,
             events' = [events EXCEPT ![e] = new], local'[r].event = e
      PROVE  /\ events' \in [Events -> EventDoc] /\ events'[e] = new /\ EventIsStored(e)'
             /\ \A d \in Events \ {e} : events'[d] = events[d] /\ (EventIsStored(d) => EventStays(r, d))
             /\ \A d \in Events : ~EventIsStored(d) => events'[d] = events[d]
  <2>1. /\ events' \in [Events -> EventDoc] /\ events'[e] = new
        /\ \A d \in Events \ {e} : events'[d] = events[d]
    BY <1>b, <1>d
  <2>2. EventIsStored(e)'
    BY <1>d, <2>1 DEF EventIsStored
  <2>3. \A d \in Events \ {e} : EventIsStored(d) => EventStays(r, d)
    BY <1>c, <1>d, <2>1 DEF EndsOn
  <2> QED
    BY <1>d, <2>1, <2>2, <2>3
<1>e. ASSUME Keeps(r)
      PROVE  \A f \in DOMAIN local[r] \ {"old", "new"} : f \in DOMAIN local'[r] /\ local'[r][f] = local[r][f]
  BY <1>e DEF Keeps
<1>2. CASE EventInserted(r)
  <2>1. /\ pc[r] = "eventInsert" /\ events' = [events EXCEPT ![r] = local[r].new]
        /\ pc'[r] \in {"systemTypes", "failed"}
    BY <1>2 DEF EventInserted
  <2>2. Asked(r, "createEvent") /\ local[r].new \in EventDoc /\ ~EventIsStored(r)
    BY <2>1 DEF EventShape, EventKnown, EventAt, Final
  <2>3. /\ events' \in [Events -> EventDoc] /\ events'[r] = local[r].new
        /\ \A d \in Events \ {r} : events'[d] = events[d]
    BY <1>a, <1>b, <2>1, <2>2
  <2>4. ASSUME NEW d \in Events, EventIsStored(d)
        PROVE  EventStays(r, d)
    <3>1. d # r /\ events'[d] = events[d] /\ pc'[r] # "ok"
      BY <2>1, <2>2, <2>3, <2>4
    <3> QED
      BY <1>c, <2>4, <3>1
  <2> QED
    BY <1>2, <2>2, <2>3, <2>4
<1>3. CASE EventSetTo(r)
  <2>1. PICK e \in Events, changes \in UpdateInputs :
            /\ e = local[r].event /\ changes = local[r].changes /\ EventIsStored(e)
            /\ local'[r].op = "updateEvent" /\ {"event", "changes"} \subseteq DOMAIN local'[r]
            /\ local'[r].event = e /\ local'[r].changes = changes
    <3>1. /\ Asked(r, "updateEvent") /\ {"event", "changes", "op"} \subseteq DOMAIN local[r]
          /\ local[r].event \in Events /\ local[r].changes \in UpdateInputs /\ EventIsStored(local[r].event)
      BY <1>a, <1>3 DEF EventSetTo, EventShape, EventKnown, EventAt, Asked
    <3> QED
      BY <1>3, <1>e, <3>1 DEF EventSetTo, Asked
  <2>2. PICK new \in EventDoc :
            /\ new = With(events[e], changes) /\ new.company = events[e].company
            /\ new.explained = events[e].explained /\ new.signed = events[e].signed
            /\ "slug" \notin DOMAIN changes => new.slug = events[e].slug
            /\ "status" \notin DOMAIN changes => new.status = events[e].status
            /\ "status" \in DOMAIN changes => new.status = changes.status /\ changes.status \in EventStatus
    BY EventWith
  <2>3. events' = [events EXCEPT ![e] = new] /\ pc'[r] \in {"ok", "failed"}
    BY <1>3, <2>1, <2>2 DEF EventSetTo
  <2>4. /\ events' \in [Events -> EventDoc] /\ events'[e] = new /\ EventIsStored(e)'
        /\ \A d \in Events \ {e} : events'[d] = events[d] /\ (EventIsStored(d) => EventStays(r, d))
        /\ \A d \in Events : ~EventIsStored(d) => events'[d] = events[d]
    BY <1>d, <2>1, <2>2, <2>3
  <2>5. EndsOn(r, e)
    BY <1>a, <2>1, <2>3 DEF EndsOn
  <2>6. EventStays(r, e)
    BY <1>3, <2>1, <2>2, <2>4, <2>5 DEF EventStays, AsksStatus
  <2> QED
    BY <2>4, <2>6
\* A status is given.
<1>f. ASSUME NEW e \in Events, EventIsStored(e), NEW s \in EventStatus, EndsOn(r, e),
             AsksStatus(r, s), \A z \in EventStatus : AsksStatus(r, z) => z = s,
             events' = [events EXCEPT ![e] = WithStatus(@, s)]
      PROVE  /\ events' \in [Events -> EventDoc]
             /\ \A d \in Events : EventIsStored(d) => EventStays(r, d)
             /\ \A d \in Events : ~EventIsStored(d) => events'[d] = events[d]
  <2>1. PICK new \in EventDoc :
            /\ new = WithStatus(events[e], s) /\ new.company = events[e].company /\ new.slug = events[e].slug
            /\ new.starts = events[e].starts /\ new.ends = events[e].ends /\ new.status = s
            /\ NeedsReason(s) => new.explained /\ ~new.signed
            /\ s = "approved" => new.signed /\ ~new.explained
    BY EventRecords
  <2>2. events' = [events EXCEPT ![e] = new] /\ local'[r].event = e
    BY <1>f, <2>1 DEF EndsOn
  <2>3. /\ events' \in [Events -> EventDoc] /\ events'[e] = new /\ EventIsStored(e)'
        /\ \A d \in Events \ {e} : events'[d] = events[d] /\ (EventIsStored(d) => EventStays(r, d))
        /\ \A d \in Events : ~EventIsStored(d) => events'[d] = events[d]
    BY <1>d, <1>f, <2>1, <2>2
  <2>4. EventStays(r, e)
    BY <1>f, <2>1, <2>3 DEF EventStays
  <2> QED
    BY <2>3, <2>4
<1>4. CASE StatusGiven(r)
  <2>1. PICK e \in Events, s \in EventStatus : e = local'[r].event /\ s = local'[r].status
    BY <1>4 DEF StatusGiven
  <2>2. /\ EndsOn(r, e) /\ AsksStatus(r, s) /\ \A z \in EventStatus : AsksStatus(r, z) => z = s
    BY <1>a, <1>4, <2>1 DEF StatusGiven, EndsOn, AsksStatus
  <2>3. EventIsStored(e) /\ events' = [events EXCEPT ![e] = WithStatus(@, s)]
    BY <1>4, <2>1 DEF StatusGiven
  <2> QED
    BY <1>f, <2>2, <2>3
<1>5. CASE EventPublished(r)
  <2>1. PICK e \in Events : /\ e = local[r].event /\ EventIsStored(e) /\ local'[r].op = "publish"
                            /\ "event" \in DOMAIN local'[r] /\ local'[r].event = e
    <3>1. /\ Asked(r, "publish") /\ {"event", "op"} \subseteq DOMAIN local[r]
          /\ local[r].event \in Events /\ EventIsStored(local[r].event)
      BY <1>a, <1>5 DEF EventPublished, EventShape, EventKnown, EventAt, Asked
    <3> QED
      BY <1>5, <1>e, <3>1 DEF EventPublished, Asked
  <2>2. /\ EndsOn(r, e) /\ AsksStatus(r, "published") /\ \A z \in EventStatus : AsksStatus(r, z) => z = "published"
    BY <1>a, <1>5, <2>1 DEF EventPublished, EndsOn, AsksStatus
  <2>3. "published" \in EventStatus
    BY DEF EventStatus
  <2>4. events' = [events EXCEPT ![e] = WithStatus(@, "published")]
    BY <1>5, <2>1 DEF EventPublished
  <2> QED
    BY <1>f, <2>1, <2>2, <2>3, <2>4
<1>6. CASE EventSubmitted(r)
  <2>1. PICK e \in Events, old \in EventDoc :
            /\ e = local[r].event /\ old = local[r].old /\ old.status = "draft" /\ local[r].new = InReview(old)
            /\ EventIsStored(e) /\ local'[r].op = "submit"
            /\ "event" \in DOMAIN local'[r] /\ local'[r].event = e
    <3>1. /\ Asked(r, "submit") /\ {"event", "op"} \subseteq DOMAIN local[r]
          /\ local[r].event \in Events /\ EventIsStored(local[r].event)
          /\ local[r].old \in EventDoc /\ local[r].new = InReview(local[r].old) /\ local[r].old.status = "draft"
      BY <1>a, <1>6 DEF EventSubmitted, EventShape, EventKnown, EventAt, Asked
    <3> QED
      BY <1>6, <1>e, <3>1 DEF EventSubmitted, Asked
  <2>2. PICK new \in EventDoc :
            /\ new = SavedEvent(events[e], old, InReview(old)) /\ new.company = events[e].company
            /\ new.slug = events[e].slug /\ new.starts = events[e].starts /\ new.ends = events[e].ends
            /\ new.status = "pending_approval"
    BY <2>1, EventRecords
  <2>3. events' = [events EXCEPT ![e] = new] /\ pc'[r] \in {"ok", "failed"}
    BY <1>6, <2>1, <2>2 DEF EventSubmitted
  <2>4. /\ events' \in [Events -> EventDoc] /\ events'[e] = new /\ EventIsStored(e)'
        /\ \A d \in Events \ {e} : events'[d] = events[d] /\ (EventIsStored(d) => EventStays(r, d))
        /\ \A d \in Events : ~EventIsStored(d) => events'[d] = events[d]
    BY <1>d, <2>1, <2>2, <2>3
  <2>5. EndsOn(r, e) /\ AsksStatus(r, "pending_approval")
        /\ \A z \in EventStatus : AsksStatus(r, z) => z = "pending_approval"
    BY <1>a, <2>1, <2>3 DEF EndsOn, AsksStatus
  <2>6. EventStays(r, e)
    BY <2>2, <2>4, <2>5 DEF EventStays, NeedsReason
  <2> QED
    BY <2>4, <2>6
<1> QED
  BY <1>1, <1>2, <1>3, <1>4, <1>5, <1>6 DEF EventEffect

\* What a request was asked is known as long as it is.
LEMMA AskedStays ==
  ASSUME EventShape, \A q \in Requests : "op" \in DOMAIN local[q], NEW r \in Requests, Keeps(r)
  PROVE  /\ local'[r].op = local[r].op /\ "op" \in DOMAIN local'[r] /\ EventKnown(r)'
         /\ local[r].op \in GivingOps => local'[r].event = local[r].event
         /\ Asked(r, "updateEvent") => local'[r].changes = local[r].changes
         /\ Asked(r, "status") => local'[r].status = local[r].status
         /\ Asked(r, "createEvent") => local'[r].generated = local[r].generated
<1>0. \A f \in DOMAIN local[r] \ {"old", "new"} : f \in DOMAIN local'[r] /\ local'[r][f] = local[r][f]
  BY DEF Keeps
<1>1. local'[r].op = local[r].op /\ "op" \in DOMAIN local'[r]
  BY <1>0
<1>2. EventKnown(r)
  BY DEF EventShape
<1>3. local[r].op \in GivingOps => "event" \in DOMAIN local'[r] /\ local'[r].event = local[r].event
  BY <1>0, <1>2 DEF EventKnown
<1>4. Asked(r, "updateEvent") => "changes" \in DOMAIN local'[r] /\ local'[r].changes = local[r].changes
  BY <1>0, <1>2 DEF EventKnown
<1>5. Asked(r, "status") => "status" \in DOMAIN local'[r] /\ local'[r].status = local[r].status
  BY <1>0, <1>2 DEF EventKnown
<1>6. Asked(r, "createEvent") => "generated" \in DOMAIN local'[r] /\ local'[r].generated = local[r].generated
  BY <1>0, <1>2 DEF EventKnown
<1> QED
  BY <1>1, <1>2, <1>3, <1>4, <1>5, <1>6 DEF EventKnown, Asked

\* Every request of the events keeps what they know of them.
LEMMA EventKeepsShape ==
  ASSUME EventShape, events \in [Events -> EventDoc], \A q \in Requests : "op" \in DOMAIN local[q],
         NEW r \in Requests, EventEffect(r)
  PROVE  EventShape'
<1>0. /\ events' \in [Events -> EventDoc]
      /\ \A e \in Events : EventIsStored(e) => EventIsStored(e)'
      /\ \A e \in Events : ~EventIsStored(e) =>
            events'[e] = events[e] \/ (e = r /\ EventInserted(r) /\ events'[e] = local[r].new)
      /\ \A q \in Requests : q \in Events
      /\ EventOps = {"createEvent", "updateEvent", "status", "submit", "publish"}
      /\ GivingOps = {"status", "publish", "submit", "updateEvent"}
      /\ EventLabels = {"slugLookup", "eventInsert", "systemTypes", "slugCheck", "eventSet",
                        "submitSave", "publishSet"} /\ Final = {"ok", "error", "failed"}
  BY EventWrites DEF EventStays, Events, EventOps, GivingOps, EventLabels, Final
<1>1. ASSUME NEW q \in Requests \ {r}
      PROVE  EventKnown(q)' /\ EventAt(q)'
  <2>1. pc'[q] = pc[q] /\ local'[q] = local[q]
    BY DEF EventEffect, MoveOf
  <2>2. EventIsStored(q)' = EventIsStored(q)
    BY <1>0 DEF EventIsStored
  <2>3. EventKnown(q) /\ EventAt(q)
    BY DEF EventShape
  <2>4. EventKnown(q)'
    BY <2>1, <2>3 DEF EventKnown, Asked
  <2>5. pc[q] \in {"slugCheck", "eventSet", "submitSave", "publishSet"} =>
            local[q].event \in Events /\ EventIsStored(local[q].event)
    BY <1>0, <2>3 DEF EventKnown, EventAt, Asked
  <2>6. pc[q] \in {"slugCheck", "eventSet", "submitSave", "publishSet"} => EventIsStored(local[q].event)'
    BY <1>0, <2>1, <2>5 DEF EventIsStored
  <2> QED
    BY <2>1, <2>2, <2>3, <2>4, <2>6 DEF EventAt, Asked
\* A request that ends.
<1>a. ASSUME pc'[r] \in Final, EventIsStored(r)' => local'[r].op = "createEvent"
      PROVE  EventAt(r)'
  BY <1>0, <1>a DEF EventAt, Asked
<1>2. CASE EventsAside(r)
  <2>1. ~EventIsStored(r)
    BY <1>0, <1>2 DEF EventsAside, EventShape, EventAt, Asked
  <2>2. ~EventIsStored(r)'
    BY <1>2, <2>1 DEF EventsAside, EventIsStored
  <2>3. EventKnown(r)' /\ EventAt(r)'
    BY <1>0, <1>2, <2>2 DEF EventsAside, EventKnown, EventAt, Asked
  <2> QED
    BY <1>1, <2>3 DEF EventShape
<1>3. CASE EventCame(r)
  <2>1. ~EventIsStored(r)
    BY <1>0, <1>3 DEF EventCame, EventShape, EventAt
  <2>2. ~EventIsStored(r)'
    BY <1>3, <2>1 DEF EventCame, EventIsStored
  <2>3. EventKnown(r)'
    BY <1>0, <1>3 DEF EventCame, CreationCame, UpdateCame, StatusRefused, SubmissionCame, PublicationCame,
       EventKnown, Asked
  <2>4. ASSUME pc'[r] \in Final
        PROVE  EventAt(r)'
    BY <1>a, <2>2, <2>4
  <2>5. ASSUME CreationCame(r) /\ pc'[r] \notin Final
        PROVE  EventAt(r)'
    BY <1>0, <2>2, <2>5 DEF CreationCame, EventAt, Asked
  <2>6. ASSUME UpdateCame(r) /\ pc'[r] \notin Final
        PROVE  EventAt(r)'
    <3>1. PICK e \in Events, changes \in UpdateInputs : local'[r].event = e /\ local'[r].changes = changes
      BY <2>6 DEF UpdateCame
    <3>2. /\ local'[r].op = "updateEvent" /\ "new" \in DOMAIN local'[r] /\ EventIsStored(e)
          /\ local'[r].new = With(events[e], changes) /\ pc'[r] \in {"slugCheck", "eventSet"}
          /\ pc'[r] = "eventSet" => local'[r].new.starts < local'[r].new.ends
      BY <1>0, <2>6, <3>1 DEF UpdateCame
    <3>3. local'[r].new \in EventDoc
      BY <3>2, EventWith
    <3>4. events'[local'[r].event].company # None
      BY <1>0, <3>1, <3>2 DEF EventIsStored
    <3> QED
      BY <2>2, <3>2, <3>3, <3>4 DEF EventAt, Asked, EventIsStored
  <2>7. ASSUME SubmissionCame(r) /\ pc'[r] \notin Final
        PROVE  EventAt(r)'
    <3>1. PICK e \in Events : local'[r].event = e
      BY <2>7 DEF SubmissionCame
    <3>2. /\ local'[r].op = "submit" /\ {"old", "new"} \subseteq DOMAIN local'[r] /\ EventIsStored(e)
          /\ local'[r].old = events[e] /\ local'[r].new = InReview(local'[r].old)
          /\ local'[r].old.status = "draft" /\ pc'[r] = "submitSave"
      BY <1>0, <2>7, <3>1 DEF SubmissionCame
    <3>3. local'[r].old \in EventDoc
      BY <3>2
    <3>4. events'[local'[r].event].company # None
      BY <1>0, <3>1, <3>2 DEF EventIsStored
    <3> QED
      BY <2>2, <3>2, <3>3, <3>4 DEF EventAt, Asked, EventIsStored
  <2>8. ASSUME PublicationCame(r) /\ pc'[r] \notin Final
        PROVE  EventAt(r)'
    <3>1. /\ local'[r].event \in Events /\ EventIsStored(local'[r].event) /\ pc'[r] = "publishSet"
          /\ local'[r].op = "publish"
      BY <1>0, <2>8 DEF PublicationCame
    <3>2. events'[local'[r].event].company # None
      BY <1>3, <3>1 DEF EventCame, EventIsStored
    <3> QED
      BY <2>2, <3>1, <3>2 DEF EventAt, Asked, EventIsStored
  <2>9. EventAt(r)'
    BY <1>0, <1>3, <2>4, <2>5, <2>6, <2>7, <2>8 DEF EventCame, StatusRefused
  <2> QED
    BY <1>1, <2>3, <2>9 DEF EventShape
<1>4. CASE Keeps(r) /\ pc'[r] \in Final /\ pc[r] \in EventLabels /\ ~EventsAside(r)
  <2>1. local'[r].op = local[r].op /\ EventKnown(r)'
    BY <1>4, AskedStays
  <2>2. EventIsStored(r) => local'[r].op = "createEvent"
    BY <2>1 DEF EventShape, EventAt, Asked
  <2>3. EventInserted(r) => local[r].op = "createEvent"
    BY DEF EventInserted, EventShape, EventAt, Asked
  <2>4. EventIsStored(r)' => local'[r].op = "createEvent"
    BY <1>0, <2>1, <2>2, <2>3 DEF EventIsStored
  <2> QED
    BY <1>1, <1>4, <1>a, <2>1, <2>4 DEF EventShape
<1>5. CASE StatusGiven(r)
  <2>1. ~EventIsStored(r)
    BY <1>0, <1>5 DEF StatusGiven, EventShape, EventAt
  <2>2. ~EventIsStored(r)'
    BY <1>0, <1>5, <2>1 DEF StatusGiven, EventInserted, EventIsStored
  <2>3. EventKnown(r)' /\ pc'[r] \in Final
    BY <1>0, <1>5 DEF StatusGiven, EventKnown, Asked
  <2> QED
    BY <1>1, <1>a, <2>2, <2>3 DEF EventShape
<1>6. CASE EventGoesOn(r) /\ pc'[r] \notin Final
  <2>1. /\ local'[r].op = local[r].op /\ EventKnown(r)'
        /\ local[r].op \in GivingOps => local'[r].event = local[r].event
    BY <1>6, AskedStays DEF EventGoesOn
  <2>2. EventKnown(r) /\ EventAt(r) /\ UNCHANGED events /\ EventIsStored(r)' = EventIsStored(r)
    BY <1>6 DEF EventShape, EventGoesOn, EventIsStored
  <2>3. ASSUME pc[r] = "slugLookup" /\ local'[r] = [local[r] EXCEPT !.new.slug = @ + 1] /\ pc'[r] = "slugLookup"
        PROVE  EventAt(r)'
    <3>1. /\ Asked(r, "createEvent") /\ "new" \in DOMAIN local[r] /\ local[r].new \in EventDoc
          /\ local[r].new.company # None /\ local[r].new.status = "draft" /\ ~EventIsStored(r)
      BY <1>0, <2>2, <2>3 DEF EventAt
    <3>2. PICK new \in EventDoc : new = [local[r].new EXCEPT !.slug = @ + 1]
            /\ new.company = local[r].new.company /\ new.status = local[r].new.status
      BY <3>1, EventRecords
    <3>3. local'[r].new = new /\ "new" \in DOMAIN local'[r]
      BY <2>3, <3>1, <3>2
    <3> QED
      BY <2>1, <2>2, <2>3, <3>1, <3>2, <3>3 DEF EventAt, Asked
  <2>4. ASSUME pc[r] = "slugLookup" /\ pc'[r] = "eventInsert" /\ local'[r] = local[r] /\ DatesAllowed(local[r].new)
        PROVE  EventAt(r)'
    BY <1>0, <2>2, <2>4 DEF EventAt, Asked, DatesAllowed
  <2>5. ASSUME /\ pc[r] = "slugCheck" /\ pc'[r] = "eventSet" /\ local'[r] = local[r]
               /\ local[r].new.starts < local[r].new.ends
        PROVE  EventAt(r)'
    <3>1. EventAt(r) /\ events'[local'[r].event].company # None
      BY <2>2, <2>5 DEF EventAt, EventIsStored
    <3> QED
      BY <1>0, <2>2, <2>5, <3>1 DEF EventAt, Asked, EventIsStored
  <2>6. EventAt(r)'
    BY <1>0, <1>6, <2>3, <2>4, <2>5 DEF EventGoesOn
  <2> QED
    BY <1>1, <2>1, <2>6 DEF EventShape
<1>7. CASE EventInserted(r) /\ pc'[r] \notin Final
  <2>1. /\ local'[r].op = local[r].op /\ EventKnown(r)'
    BY <1>7, AskedStays DEF EventInserted
  <2>2. Asked(r, "createEvent") /\ local[r].new \in EventDoc /\ local[r].new.company # None
    BY <1>7 DEF EventInserted, EventShape, EventAt
  <2>3. EventIsStored(r)'
    BY <1>0, <1>7, <2>2 DEF EventInserted, EventIsStored
  <2>4. EventAt(r)'
    BY <1>0, <1>7, <2>1, <2>2, <2>3 DEF EventInserted, EventAt, Asked
  <2> QED
    BY <1>1, <2>1, <2>4 DEF EventShape
<1>8. CASE (EventGoesOn(r) \/ EventInserted(r)) /\ pc'[r] \in Final
  BY <1>0, <1>4, <1>8, <1>2 DEF EventGoesOn, EventInserted
<1>9. CASE EventSetTo(r) \/ EventPublished(r) \/ EventSubmitted(r)
  BY <1>0, <1>4, <1>9, <1>2 DEF EventSetTo, EventPublished, EventSubmitted
<1> QED
  BY <1>2, <1>3, <1>5, <1>6, <1>7, <1>8, <1>9 DEF EventEffect

(***************************************************************************)
(* What is read of the events.                                              *)
(***************************************************************************)
\* A list that is being read; the public list is of published events.
IsListing(l) ==
    /\ l.op = "listEvents" /\ {"op", "viewer", "page", "total", "statuses", "companies"} \subseteq DOMAIN l
    /\ l.viewer = None => l.statuses = {"published"} /\ l.companies = Companies

\* What a request that reads knows.
ReadAt(r) ==
    /\ pc[r] = "listing" => IsListing(local[r])
    /\ pc[r] \in {"featuredUpcoming", "featuredOngoing"} => Asked(r, "featured")
    /\ pc[r] = "statsTypes" => Asked(r, "eventStats")
    /\ pc[r] = "statsCompany" => /\ Asked(r, "companyStats") /\ {"op", "company", "counts"} \subseteq DOMAIN local[r]
                                 /\ local[r].company \in Companies

ReadShape == \A r \in Requests : ReadAt(r)

PageOf(n) == IF n < PageSize THEN n ELSE PageSize

SameList(r) ==
    /\ IsListing(local'[r]) /\ local'[r].viewer = local[r].viewer
    /\ local'[r].statuses = local[r].statuses /\ local'[r].companies = local[r].companies

\* A list is asked for, its page is read, its total is counted.
ListCame(r) ==
    /\ pc[r] = "idle" /\ pc'[r] = "listing" /\ IsListing(local'[r])
    /\ local'[r].page = None /\ local'[r].total = None

PageRead(r) ==
    /\ pc[r] = "listing" /\ SameList(r) /\ local'[r].total = local[r].total
    /\ pc'[r] = IF local[r].total = None THEN "listing" ELSE "ok"
    /\ local'[r].page \subseteq Matching(local[r])
    /\ Cardinality(local'[r].page) = PageOf(Cardinality(Matching(local[r])))

TotalRead(r) ==
    /\ pc[r] = "listing" /\ SameList(r) /\ local'[r].page = local[r].page
    /\ pc'[r] = IF local[r].page = None THEN "listing" ELSE "ok"
    /\ local'[r].total = Cardinality(Matching(local[r]))

\* An event is shown.
EventShown(r) ==
    /\ pc'[r] = "ok" /\ local'[r].op \in {"findEvent", "showEvent"}
    /\ \E e \in Events : /\ local'[r].page = {e} /\ EventIsStored(e)
                         /\ local'[r].op = "showEvent" => events[e].status \in {"published", "completed"}

\* The event to be featured is looked for.
FeaturedGoesOn(r) ==
    /\ local'[r].op = "featured"
    /\ \/ pc[r] = "idle" /\ pc'[r] = "featuredUpcoming"
       \/ pc[r] = "featuredUpcoming" /\ pc'[r] = "featuredOngoing" /\ Upcoming = {}
       \/ pc[r] = "featuredOngoing" /\ pc'[r] = "error" /\ Ongoing = {}

\* The events of a company are counted.
StatsCame(r) ==
    /\ pc[r] = "idle" /\ pc'[r] = "statsCompany" /\ local'[r].op = "companyStats"
    /\ {"op", "company", "counts"} \subseteq DOMAIN local'[r] /\ local'[r].company \in Companies
    /\ local'[r].counts = [s \in EventStatus \ {"deleted"} |-> Cardinality(OfCompany(local'[r].company, s))]

StatsEnd(r) ==
    /\ pc[r] = "statsCompany" /\ pc'[r] = "ok" /\ local'[r].op = "companyStats"
    /\ local'[r].counts = local[r].counts
    /\ local'[r].total = Cardinality({e \in Events : Live(e) /\ events[e].company = local[r].company})

\* Nothing of it is told.
ReadElse(r) ==
    \/ local'[r].op \in {"findEvent", "showEvent"} /\ pc'[r] = "error"
    \/ local'[r].op = "eventStats" /\ pc'[r] \in {"statsTypes", "ok", "error"}
    \/ pc'[r] = "failed"

ReadEffect(r) ==
    /\ MoveOf(r) /\ UNCHANGED events /\ local[r].op \in ReadOps \cup {"none"}
    /\ local'[r].op \in ReadOps /\ pc'[r] \in ReadLabels \cup Final
    /\ \/ ListCame(r) \/ PageRead(r) \/ TotalRead(r) \/ EventShown(r) \/ FeaturedGoesOn(r)
       \/ StatsCame(r) \/ StatsEnd(r) \/ ReadElse(r)

\* Every step of a request that reads is one of these.
LEMMA ReadEffects ==
  ASSUME ReadShape, NEW Labels, Labels \cap (Final \cup {"idle"}) = {}, ReadLabels \subseteq Labels, Here(Labels),
         \A q \in Requests : "op" \in DOMAIN local[q],
         NEW r \in Requests,
         ReadArrive(r) \/ ReadStep(r) \/ (Fails(r) /\ pc[r] \in ReadLabels /\ UNCHANGED events)
  PROVE  ReadEffect(r)
<1> DEFINE L == {"listing", "featuredUpcoming", "featuredOngoing", "statsTypes", "statsCompany",
                 "ok", "error", "failed"}
<1>a. /\ L = ReadLabels \cup Final /\ Final = {"ok", "error", "failed"}
      /\ ReadLabels = {"listing", "featuredUpcoming", "featuredOngoing", "statsTypes", "statsCompany"}
      /\ ReadLabels \cap (Final \cup {"idle"}) = {}
      /\ ReadOps = {"listEvents", "findEvent", "showEvent", "featured", "eventStats", "companyStats"}
  BY DEF ReadLabels, Final, ReadOps
<1> HIDE DEF L
<1>b. ASSUME NEW label \in L, NEW l, "op" \in DOMAIN l, l.op \in ReadOps, Start(r, label, l)
      PROVE  /\ MoveOf(r) /\ pc'[r] = label /\ pc[r] = "idle" /\ local[r].op = "none"
             /\ pc'[r] \in ReadLabels \cup Final /\ local'[r].op \in ReadOps
             /\ label \notin Final => local'[r] = l
             /\ \A f \in DOMAIN l \ {"old", "new"} : f \in DOMAIN local'[r] /\ local'[r][f] = l[f]
  <2>1. label # "idle" /\ label \in Labels \cup Final /\ l.op # "none"
    BY <1>a, <1>b
  <2>2. Went(r, label, l) /\ pc[r] = "idle" /\ local[r] = NoLocal
    BY <1>a, <1>b, <2>1, Starts
  <2>3. MoveOf(r)
    BY <2>1, <2>2, WentMoved
  <2>4. local'[r].op = l.op
    BY <1>b, <2>2 DEF Went
  <2> QED
    BY <1>a, <1>b, <2>2, <2>3, <2>4 DEF Went, NoLocal
<1>c. ASSUME pc[r] \in ReadLabels
      PROVE  InFlight(r) /\ "op" \in DOMAIN local[r] /\ local[r].op \in ReadOps
  BY <1>a, <1>c DEF InFlight, ReadShape, ReadAt, Asked, IsListing
<1>d. ASSUME NEW label \in L, NEW l, pc[r] \in ReadLabels, "op" \in DOMAIN l, l.op \in ReadOps, Continue(r, label, l)
      PROVE  /\ MoveOf(r) /\ pc'[r] = label /\ local[r].op \in ReadOps
             /\ pc'[r] \in ReadLabels \cup Final /\ local'[r].op \in ReadOps
             /\ label \notin Final => local'[r] = l
             /\ \A f \in DOMAIN l \ {"old", "new"} : f \in DOMAIN local'[r] /\ local'[r][f] = l[f]
  <2>1. label # "idle" /\ label \in Labels \cup Final /\ l.op # "none"
    BY <1>a, <1>d
  <2>2. Went(r, label, l)
    BY <1>a, <1>c, <1>d, <2>1, Continues
  <2>3. MoveOf(r)
    BY <2>1, <2>2, WentMoved
  <2>4. local'[r].op = l.op
    BY <1>d, <2>2 DEF Went
  <2> QED
    BY <1>a, <1>c, <1>d, <2>2, <2>3, <2>4 DEF Went
<1>1. CASE ListEvents(r)
  <2>1. PICK v \in Viewers, status \in GivenStatuses \cup {None} :
            Start(r, "listing", [op |-> "listEvents", viewer |-> v, page |-> None, total |-> None,
                                 statuses |-> StatusesShown(v, status), companies |-> CompaniesShown(v)])
    BY <1>1 DEF ListEvents
  <2>2. PICK l : l = [op |-> "listEvents", viewer |-> v, page |-> None, total |-> None,
                      statuses |-> StatusesShown(v, status), companies |-> CompaniesShown(v)]
    OBVIOUS
  <2>3. /\ DOMAIN l = {"op", "viewer", "page", "total", "statuses", "companies"} /\ l.op = "listEvents"
        /\ l.viewer = v /\ l.page = None /\ l.total = None
        /\ v = None => l.statuses = {"published"} /\ l.companies = Companies
    BY <2>2 DEF StatusesShown, CompaniesShown
  <2>4. "listing" \in L /\ "listing" \notin Final /\ l.op \in ReadOps
    BY <1>a, <2>3
  <2>5. /\ MoveOf(r) /\ pc'[r] = "listing" /\ pc[r] = "idle" /\ local[r].op = "none"
        /\ pc'[r] \in ReadLabels \cup Final /\ local'[r].op \in ReadOps /\ local'[r] = l
    BY <1>b, <2>1, <2>2, <2>3, <2>4
  <2>6. ListCame(r)
    BY <2>3, <2>5 DEF ListCame, IsListing
  <2> QED
    BY <1>1, <2>5, <2>6 DEF ListEvents, ReadEffect
<1>2. CASE ReadPage(r)
  <2>1. pc[r] = "listing" /\ IsListing(local[r]) /\ UNCHANGED events /\ pc[r] \in ReadLabels
    BY <1>2, <1>a DEF ReadPage, ReadShape, ReadAt
  <2>2. PICK page \in SUBSET Matching(local[r]), label \in {"listing", "ok"} :
            /\ label = IF local[r].total = None THEN "listing" ELSE "ok"
            /\ Cardinality(page) = PageOf(Cardinality(Matching(local[r])))
            /\ Continue(r, label, [local[r] EXCEPT !.page = page])
    BY <1>2 DEF ReadPage, PageOf
  <2>3. PICK l : l = [local[r] EXCEPT !.page = page]
    OBVIOUS
  <2>4. /\ DOMAIN l = DOMAIN local[r] /\ l.page = page
        /\ \A f \in DOMAIN local[r] \ {"page"} : l[f] = local[r][f]
    BY <2>1, <2>3 DEF IsListing
  <2>5. /\ {"op", "viewer", "page", "total", "statuses", "companies"} \subseteq DOMAIN l
        /\ l.op = "listEvents" /\ l.viewer = local[r].viewer /\ l.total = local[r].total
        /\ l.statuses = local[r].statuses /\ l.companies = local[r].companies
    BY <2>1, <2>4 DEF IsListing
  <2>6. label \in L /\ "op" \in DOMAIN l /\ l.op \in ReadOps
    BY <1>a, <2>5
  <2>7. /\ MoveOf(r) /\ pc'[r] = label /\ local[r].op \in ReadOps
        /\ pc'[r] \in ReadLabels \cup Final /\ local'[r].op \in ReadOps
        /\ \A f \in DOMAIN l \ {"old", "new"} : f \in DOMAIN local'[r] /\ local'[r][f] = l[f]
    BY <1>d, <2>1, <2>2, <2>3, <2>6
  <2>8. SameList(r) /\ local'[r].page = page /\ local'[r].total = local[r].total
    BY <2>1, <2>4, <2>5, <2>7 DEF SameList, IsListing
  <2>9. PageRead(r)
    BY <2>1, <2>2, <2>7, <2>8 DEF PageRead
  <2> QED
    BY <2>1, <2>7, <2>9 DEF ReadEffect
<1>3. CASE CountMatching(r)
  <2>1. pc[r] = "listing" /\ IsListing(local[r]) /\ UNCHANGED events /\ pc[r] \in ReadLabels
    BY <1>3, <1>a DEF CountMatching, ReadShape, ReadAt
  <2>0. PICK n : n = Cardinality(Matching(local[r]))
    OBVIOUS
  <2>2. PICK label \in {"listing", "ok"} :
            /\ label = IF local[r].page = None THEN "listing" ELSE "ok"
            /\ Continue(r, label, [local[r] EXCEPT !.total = n])
    BY <1>3, <2>0 DEF CountMatching
  <2>3. PICK l : l = [local[r] EXCEPT !.total = n]
    OBVIOUS
  <2>4. /\ DOMAIN l = DOMAIN local[r] /\ l.total = n
        /\ \A f \in DOMAIN local[r] \ {"total"} : l[f] = local[r][f]
    BY <2>1, <2>3 DEF IsListing
  <2>5. /\ {"op", "viewer", "page", "total", "statuses", "companies"} \subseteq DOMAIN l
        /\ l.op = "listEvents" /\ l.viewer = local[r].viewer /\ l.page = local[r].page
        /\ l.statuses = local[r].statuses /\ l.companies = local[r].companies
    BY <2>1, <2>4 DEF IsListing
  <2>6. label \in L /\ "op" \in DOMAIN l /\ l.op \in ReadOps
    BY <1>a, <2>5
  <2>7. /\ MoveOf(r) /\ pc'[r] = label /\ local[r].op \in ReadOps
        /\ pc'[r] \in ReadLabels \cup Final /\ local'[r].op \in ReadOps
        /\ \A f \in DOMAIN l \ {"old", "new"} : f \in DOMAIN local'[r] /\ local'[r][f] = l[f]
    BY <1>d, <2>1, <2>2, <2>3, <2>6
  <2>8. SameList(r) /\ local'[r].total = n /\ local'[r].page = local[r].page
    BY <2>1, <2>4, <2>5, <2>7 DEF SameList, IsListing
  <2>9. TotalRead(r)
    BY <2>0, <2>1, <2>2, <2>7, <2>8 DEF TotalRead
  <2> QED
    BY <2>1, <2>7, <2>9 DEF ReadEffect
\* An event is shown.
<1>e. ASSUME NEW op \in {"findEvent", "showEvent"}, NEW e \in Events, EventIsStored(e),
             op = "showEvent" => events[e].status \in {"published", "completed"}, UNCHANGED events,
             \/ Start(r, "ok", [op |-> op, page |-> {e}])
             \/ pc[r] \in ReadLabels /\ Continue(r, "ok", [op |-> op, page |-> {e}])
      PROVE  ReadEffect(r)
  <2>1. PICK l : l = [op |-> op, page |-> {e}]
    OBVIOUS
  <2>2. DOMAIN l = {"op", "page"} /\ l.op = op /\ l.page = {e} /\ op \in ReadOps /\ "ok" \in L
    BY <1>a, <2>1
  <2>3. /\ MoveOf(r) /\ pc'[r] = "ok" /\ local[r].op \in ReadOps \cup {"none"}
        /\ pc'[r] \in ReadLabels \cup Final /\ local'[r].op \in ReadOps
        /\ \A f \in DOMAIN l \ {"old", "new"} : f \in DOMAIN local'[r] /\ local'[r][f] = l[f]
    BY <1>b, <1>d, <1>e, <2>1, <2>2
  <2>4. EventShown(r)
    BY <1>e, <2>2, <2>3 DEF EventShown
  <2> QED
    BY <1>e, <2>3, <2>4 DEF ReadEffect
\* A request of one field, or that is refused.
<1>f. ASSUME NEW op \in ReadOps, NEW label \in L, Start(r, label, [op |-> op])
      PROVE  /\ MoveOf(r) /\ pc'[r] = label /\ pc[r] = "idle" /\ local[r].op = "none"
             /\ pc'[r] \in ReadLabels \cup Final /\ local'[r].op = op
  <2>1. PICK l : l = [op |-> op]
    OBVIOUS
  <2>2. DOMAIN l = {"op"} /\ l.op = op
    BY <2>1
  <2> QED
    BY <1>b, <1>f, <2>1, <2>2
<1>4. CASE FindEvent(r)
  <2>1. PICK e \in Events : \/ EventIsStored(e) /\ Start(r, "ok", [op |-> "findEvent", page |-> {e}])
                            \/ Start(r, "error", [op |-> "findEvent"])
    BY <1>4 DEF FindEvent, Shows
  <2>2. UNCHANGED events
    BY <1>4 DEF FindEvent
  <2>3. CASE Start(r, "error", [op |-> "findEvent"])
    BY <1>a, <1>f, <2>2, <2>3 DEF ReadEffect, ReadElse
  <2> QED
    BY <1>e, <2>1, <2>2, <2>3
<1>5. CASE FindBySlug(r)
  <2>1. UNCHANGED events
    BY <1>5 DEF FindBySlug
  <2>2. CASE Start(r, "error", [op |-> "showEvent"])
    BY <1>a, <1>f, <2>1, <2>2 DEF ReadEffect, ReadElse
  <2>3. \/ Start(r, "error", [op |-> "showEvent"])
        \/ \E e \in Events : /\ EventIsStored(e) /\ events[e].status \in {"published", "completed"}
                             /\ Start(r, "ok", [op |-> "showEvent", page |-> {e}])
    BY <1>5 DEF FindBySlug, Shows
  <2> QED
    BY <1>e, <2>1, <2>2, <2>3
<1>6. CASE FeaturedMarked(r)
  <2>1. UNCHANGED events
    BY <1>6 DEF FeaturedMarked
  <2>2. CASE Start(r, "featuredUpcoming", [op |-> "featured"])
    BY <1>a, <1>f, <2>1, <2>2 DEF ReadEffect, FeaturedGoesOn
  <2>3. \/ Start(r, "featuredUpcoming", [op |-> "featured"])
        \/ \E e \in Events : /\ EventIsStored(e) /\ events[e].status \in {"published", "completed"}
                             /\ Start(r, "ok", [op |-> "showEvent", page |-> {e}])
    BY <1>6 DEF FeaturedMarked, Shows, OnHomepage, Published
  <2> QED
    BY <1>e, <2>1, <2>2, <2>3
<1>7. CASE EventStats(r)
  <2>1. PICK e \in Events, label \in {"statsTypes", "error"} : Start(r, label, [op |-> "eventStats", event |-> e])
    BY <1>7 DEF EventStats
  <2>2. PICK l : l = [op |-> "eventStats", event |-> e]
    OBVIOUS
  <2>3. DOMAIN l = {"op", "event"} /\ l.op = "eventStats" /\ l.op \in ReadOps /\ label \in L
    BY <1>a, <2>2
  <2>4. /\ MoveOf(r) /\ pc'[r] = label /\ local[r].op = "none"
        /\ pc'[r] \in ReadLabels \cup Final /\ local'[r].op = "eventStats" /\ local'[r].op \in ReadOps
    BY <1>b, <2>1, <2>2, <2>3
  <2> QED
    BY <1>7, <2>4 DEF EventStats, ReadEffect, ReadElse
<1>8. CASE CompanyStats(r)
  <2>1. PICK c \in Companies :
            Start(r, "statsCompany", [op |-> "companyStats", company |-> c,
                  counts |-> [s \in EventStatus \ {"deleted"} |-> Cardinality(OfCompany(c, s))]])
    BY <1>8 DEF CompanyStats
  <2>2. PICK l : l = [op |-> "companyStats", company |-> c,
                      counts |-> [s \in EventStatus \ {"deleted"} |-> Cardinality(OfCompany(c, s))]]
    OBVIOUS
  <2>3. /\ DOMAIN l = {"op", "company", "counts"} /\ l.op = "companyStats" /\ l.company = c
        /\ l.counts = [s \in EventStatus \ {"deleted"} |-> Cardinality(OfCompany(c, s))]
    BY <2>2
  <2>4. l.op \in ReadOps /\ "statsCompany" \in L /\ "statsCompany" \notin Final
    BY <1>a, <2>3
  <2>5. /\ MoveOf(r) /\ pc'[r] = "statsCompany" /\ pc[r] = "idle" /\ local[r].op = "none"
        /\ pc'[r] \in ReadLabels \cup Final /\ local'[r].op \in ReadOps /\ local'[r] = l
    BY <1>b, <2>1, <2>2, <2>3, <2>4
  <2>6. StatsCame(r)
    BY <2>3, <2>5 DEF StatsCame
  <2> QED
    BY <1>8, <2>5, <2>6 DEF CompanyStats, ReadEffect
<1>9. ASSUME NEW label \in ReadLabels, NEW next \in L, NEW found \in SUBSET Published,
             Featured(r, label, found, next), next \in {"error", "featuredOngoing"},
             label = "featuredUpcoming" => found = Upcoming /\ next = "featuredOngoing",
             label = "featuredOngoing" => found = Ongoing /\ next = "error",
             label \in {"featuredUpcoming", "featuredOngoing"}
      PROVE  ReadEffect(r)
  <2>1. UNCHANGED events /\ pc[r] = label
    BY <1>9 DEF Featured
  <2>2. ASSUME NEW e \in found, Continue(r, "ok", [op |-> "showEvent", page |-> {e}])
        PROVE  ReadEffect(r)
    <3>1. e \in Events /\ EventIsStored(e) /\ events[e].status \in {"published", "completed"}
      BY <2>2 DEF Published
    <3> QED
      BY <1>e, <2>1, <2>2, <3>1
  <2>3. ASSUME found = {}, Goto(r, next)
        PROVE  ReadEffect(r)
    <3>1. local[r].op = "featured" /\ "op" \in DOMAIN local[r] /\ local[r].op \in ReadOps
      BY <1>a, <1>9, <2>1 DEF ReadShape, ReadAt, Asked
    <3>2. /\ MoveOf(r) /\ pc'[r] = next /\ local[r].op \in ReadOps
          /\ pc'[r] \in ReadLabels \cup Final /\ local'[r].op \in ReadOps
          /\ \A f \in DOMAIN local[r] \ {"old", "new"} : f \in DOMAIN local'[r] /\ local'[r][f] = local[r][f]
      BY <1>d, <2>1, <2>3, <3>1 DEF Goto
    <3>3. local'[r].op = "featured"
      BY <3>1, <3>2
    <3>4. FeaturedGoesOn(r)
      BY <1>9, <2>1, <2>3, <3>2, <3>3 DEF FeaturedGoesOn
    <3> QED
      BY <2>1, <3>2, <3>4 DEF ReadEffect
  <2> QED
    BY <1>9, <2>2, <2>3 DEF Featured
<1>10. CASE FeaturedUpcoming(r) \/ FeaturedOngoing(r)
  <2>1. Upcoming \in SUBSET Published /\ Ongoing \in SUBSET Published
    BY DEF Upcoming, Ongoing, OnHomepage
  <2> QED
    BY <1>9, <1>10, <1>a, <2>1 DEF FeaturedUpcoming, FeaturedOngoing
<1>11. CASE SumTypes(r)
  <2>1. PICK e, n : /\ Continue(r, "ok", [op |-> "eventStats", event |-> e, total |-> n])
                    /\ pc[r] \in ReadLabels /\ UNCHANGED events
    BY <1>11, <1>a DEF SumTypes
  <2>2. PICK l : l = [op |-> "eventStats", event |-> e, total |-> n]
    OBVIOUS
  <2>3. DOMAIN l = {"op", "event", "total"} /\ l.op = "eventStats" /\ l.op \in ReadOps /\ "ok" \in L
    BY <1>a, <2>2
  <2>4. /\ MoveOf(r) /\ pc'[r] = "ok" /\ local[r].op \in ReadOps
        /\ pc'[r] \in ReadLabels \cup Final /\ local'[r].op = "eventStats" /\ local'[r].op \in ReadOps
    BY <1>d, <2>1, <2>2, <2>3
  <2> QED
    BY <2>1, <2>4 DEF ReadEffect, ReadElse
<1>12. CASE CountCompany(r)
  <2>1. PICK n : /\ n = Cardinality({e \in Events : Live(e) /\ events[e].company = local[r].company})
                 /\ Continue(r, "ok", [op |-> "companyStats", counts |-> local[r].counts, total |-> n])
                 /\ pc[r] = "statsCompany" /\ pc[r] \in ReadLabels /\ UNCHANGED events
    BY <1>12, <1>a DEF CountCompany
  <2>2. PICK l : l = [op |-> "companyStats", counts |-> local[r].counts, total |-> n]
    OBVIOUS
  <2>3. /\ DOMAIN l = {"op", "counts", "total"} /\ l.op = "companyStats" /\ l.op \in ReadOps /\ "ok" \in L
        /\ l.counts = local[r].counts /\ l.total = n
    BY <1>a, <2>2
  <2>a. Continue(r, "ok", l)
    BY <2>1, <2>2
  <2>4. /\ MoveOf(r) /\ pc'[r] = "ok" /\ local[r].op \in ReadOps
        /\ pc'[r] \in ReadLabels \cup Final /\ local'[r].op \in ReadOps
        /\ \A f \in DOMAIN l \ {"old", "new"} : f \in DOMAIN local'[r] /\ local'[r][f] = l[f]
    BY <1>d, <2>1, <2>a, <2>3
  <2>5. StatsEnd(r)
    BY <2>1, <2>3, <2>4 DEF StatsEnd
  <2> QED
    BY <2>1, <2>4, <2>5 DEF ReadEffect
<1>13. CASE Fails(r) /\ pc[r] \in ReadLabels /\ UNCHANGED events
  <2>1. "op" \in DOMAIN local[r] /\ local[r].op \in ReadOps /\ "failed" \in L
    BY <1>a, <1>c, <1>13
  <2>2. /\ MoveOf(r) /\ pc'[r] = "failed" /\ local[r].op \in ReadOps
        /\ pc'[r] \in ReadLabels \cup Final /\ local'[r].op \in ReadOps
    BY <1>d, <1>13, <2>1 DEF Fails, Goto
  <2> QED
    BY <1>13, <2>2 DEF ReadEffect, ReadElse
<1> QED
  BY <1>1, <1>2, <1>3, <1>4, <1>5, <1>6, <1>7, <1>8, <1>10, <1>11, <1>12, <1>13
     DEF ReadArrive, ReadStep

(***************************************************************************)
(* The requests of the events, of their types and of what is read.          *)
(***************************************************************************)
EventScopeOps == EventOps \cup ReadOps \cup TypeOps

EventsHere == Here(EventScopeLabels) /\ AsksOnly(EventScopeOps)

\* What one of them does.
EventsEffect(r) ==
    /\ EventEffect(r) /\ TypeInv'
    /\ \/ ReadEffect(r)
       \/ local[r].op \notin ReadOps /\ local'[r].op \notin ReadOps /\ pc'[r] \notin ReadLabels

\* Every request of the scope is one of these moves.
LEMMA EventsEffects ==
  ASSUME EventsHere, events \in [Events -> EventDoc], EventShape, ReadShape, TypeInv, NEW r \in Requests,
         \/ (EventArrive(r) \/ EventStep(r)) /\ UNCHANGED typeVars
         \/ ReadArrive(r) \/ ReadStep(r) \/ InsertSystemTypes(r)
         \/ TypeArrive(r) \/ TypeStep(r)
         \/ Fails(r) /\ UNCHANGED <<events, typeVars>>
  PROVE  EventsEffect(r)
<1> USE DEF typeVars
<1>a. /\ EventScopeLabels = EventLabels \cup ReadLabels \cup TypeLabels
      /\ EventLabels \cap (ReadLabels \cup TypeLabels \cup Final \cup {"idle"}) = {}
      /\ ReadLabels \cap (TypeLabels \cup Final \cup {"idle"}) = {}
      /\ TypeLabels \cap (Final \cup {"idle"}) = {} /\ EventScopeLabels \cap (Final \cup {"idle"}) = {}
      /\ EventLabels \subseteq EventScopeLabels /\ ReadLabels \subseteq EventScopeLabels
      /\ TypeLabels \subseteq EventScopeLabels
      /\ EventLabels = {"slugLookup", "eventInsert", "systemTypes", "slugCheck", "eventSet",
                        "submitSave", "publishSet"} /\ Final = {"ok", "error", "failed"}
  BY DEF EventScopeLabels, EventLabels, ReadLabels, TypeLabels, Final
<1>b. /\ EventOps \cap (ReadOps \cup TypeOps \cup {"none"}) = {} /\ ReadOps \cap (TypeOps \cup {"none"}) = {}
      /\ "none" \notin TypeOps /\ {"deleteType", "chooseType"} \subseteq TypeOps /\ "createEvent" \in EventOps
      /\ TypeOps = {"createType", "updateType", "deleteType", "chooseType"}
  BY DEF EventOps, ReadOps, TypeOps
<1>c. Here(EventScopeLabels) /\ \A q \in Requests : "op" \in DOMAIN local[q]
  BY DEF EventsHere, AsksOnly
<1>d. pc[r] = "idle" => local[r].op = "none"
  BY <1>c DEF Here, Asked
<1>e. pc[r] \in EventLabels => local[r].op \in EventOps
  BY <1>a DEF EventShape, EventAt, Asked, EventOps
<1>1. ASSUME \/ EventArrive(r) \/ EventStep(r) \/ InsertSystemTypes(r)
             \/ Fails(r) /\ pc[r] \in EventLabels /\ UNCHANGED events,
             InsertSystemTypes(r) \/ UNCHANGED typeVars
      PROVE  EventsEffect(r)
  <2>1. EventEffect(r) /\ pc'[r] \in EventLabels \cup Final /\ local'[r].op \in EventOps
    BY <1>1, <1>a, <1>c, EventEffects
  <2>2. local[r].op \in EventOps \cup {"none"}
    <3>1. pc[r] = "idle" \/ pc[r] \in EventLabels
      BY <1>a, <1>b, <2>1 DEF EventEffect, EventsAside, EventCame, EventGoesOn, EventInserted, EventSetTo,
         StatusGiven, EventPublished, EventSubmitted
    <3> QED
      BY <1>d, <1>e, <3>1
  <2>3. /\ \A e \in Events : EventIsStored(e) => EventIsStored(e)'
        /\ MoveOf(r)
    BY <1>c, <2>1, EventWrites DEF EventStays, EventEffect
  <2>4. CASE InsertSystemTypes(r)
    <3>1. pc[r] = "systemTypes" /\ UNCHANGED <<events, issued>>
      BY <2>4 DEF InsertSystemTypes
    <3>2. Asked(r, "createEvent") /\ EventIsStored(r) /\ InFlight(r) /\ "op" \in DOMAIN local[r]
      BY <1>c, <3>1 DEF EventShape, EventAt, InFlight, Final
    <3>3. PICK done \in SUBSET SystemRoles, label \in {"ok", "failed"} :
              /\ types' = [t \in Types |-> IF t \in {r} \X done THEN TypeOf(r, TRUE) ELSE types[t]]
              /\ Goto(r, label)
              /\ label = "ok" => done = SystemRoles
      BY <2>4 DEF InsertSystemTypes, AnswerCreation, Ends, SystemRoles
    <3>4. Went(r, label, local[r])
      <4>1. local[r].op # "none" /\ label \in EventScopeLabels \cup Final
        BY <1>a, <3>2 DEF Asked
      <4> QED
        BY <1>a, <1>c, <3>2, <3>3, <4>1, Continues DEF Goto
    <3>5. pc'[r] = label /\ local'[r].op = local[r].op
      BY <3>2, <3>4 DEF Went
    <3>6. TypesInserted(r)
      BY <3>1, <3>2, <3>3, <3>5 DEF TypesInserted
    <3>7. TypeEffect(r)
      BY <2>3, <3>1, <3>6 DEF TypeEffect
    <3>8. TypeInv'
      BY <1>c, <3>7, TypesKept
    <3> QED
      BY <1>a, <1>b, <2>1, <2>2, <3>8 DEF EventsEffect
  <2>5. CASE ~InsertSystemTypes(r) /\ UNCHANGED typeVars
    <3>1. pc'[r] = "ok" => pc[r] # "systemTypes"
      <4>1. CASE EventArrive(r)
        BY <4>1 DEF EventArrive, CreateEvent, UpdateEvent, ChangeStatus, CancelEvent, DeleteEvent, Submit, Publish,
           MoveTo, Start
      <4>2. CASE EventStep(r)
        BY <4>2 DEF EventStep, LookUpSlug, GenerateSlug, InsertEvent, CheckSlug, SetEvent,
           SaveSubmitted, SetPublished
      <4>3. CASE Fails(r)
        BY <1>c, <4>3 DEF Fails, Goto, Continue, Here
      <4> QED
        BY <1>1, <2>5, <4>1, <4>2, <4>3
    <3>2. local'[r].op = "createEvent" => pc'[r] # "ok"
      <4>1. CASE EventGoesOn(r)
        BY <3>1, <4>1 DEF EventGoesOn
      <4>2. CASE EventCame(r)
        BY <4>2 DEF EventCame, CreationCame, UpdateCame, StatusRefused, SubmissionCame, PublicationCame
      <4>3. CASE EventInserted(r) \/ StatusGiven(r)
        BY <4>3 DEF EventInserted, StatusGiven
      <4>4. CASE EventSetTo(r) \/ EventPublished(r) \/ EventSubmitted(r)
        <5>1. local[r].op # "createEvent" /\ Keeps(r)
          BY <4>4 DEF EventSetTo, EventPublished, EventSubmitted, EventShape, EventAt, Asked
        <5>2. local'[r].op = local[r].op
          BY <1>c, <5>1, AskedStays
        <5> QED
          BY <5>1, <5>2
      <4>5. ~EventsAside(r)
        BY <2>1 DEF EventsAside
      <4> QED
        BY <2>1, <4>1, <4>2, <4>3, <4>4, <4>5 DEF EventEffect
    <3>3. TypesAside(r)
      BY <1>a, <1>b, <2>1, <2>2, <2>5, <3>2 DEF TypesAside
    <3>4. TypeEffect(r)
      BY <2>3, <2>5, <3>3 DEF TypeEffect
    <3>5. TypeInv'
      BY <1>c, <3>4, TypesKept
    <3> QED
      BY <1>a, <1>b, <2>1, <2>2, <3>5 DEF EventsEffect
  <2> QED
    BY <1>1, <2>4, <2>5
<1>2. ASSUME \/ ReadArrive(r) \/ ReadStep(r)
             \/ Fails(r) /\ pc[r] \in ReadLabels /\ UNCHANGED <<events, typeVars>>
      PROVE  EventsEffect(r)
  <2>1. ReadEffect(r)
    BY <1>2, <1>a, <1>c, ReadEffects
  <2>2. UNCHANGED typeVars
    BY <1>2 DEF ReadArrive, ReadStep, ListEvents, FindEvent, FindBySlug, FeaturedMarked, EventStats, CompanyStats,
       ReadPage, CountMatching, FeaturedUpcoming, FeaturedOngoing, Featured, SumTypes, CountCompany
  <2>3. EventsAside(r)
    BY <1>a, <1>b, <2>1 DEF ReadEffect, EventsAside
  <2>4. EventEffect(r)
    BY <2>1, <2>3 DEF ReadEffect, EventEffect
  <2>a. /\ local[r].op \in ReadOps \cup {"none"} /\ local'[r].op \in ReadOps /\ UNCHANGED events
        /\ pc'[r] \in ReadLabels \cup Final
    BY <2>1 DEF ReadEffect
  <2>b. TypesAside(r)
    <3>1. /\ {"createEvent", "chooseType", "deleteType"} \cap (ReadOps \cup {"none"}) = {}
          /\ TypeLabels \cap (ReadLabels \cup Final) = {}
      BY <1>a DEF ReadOps
    <3>2. UNCHANGED types /\ pc'[r] \notin TypeLabels
      BY <2>2, <2>a, <3>1
    <3>3. local'[r].op \notin {"createEvent", "chooseType", "deleteType"} /\ local[r].op # "deleteType"
      BY <2>a, <3>1
    <3> QED
      BY <3>2, <3>3 DEF TypesAside
  <2>5. TypeEffect(r)
    BY <2>1, <2>2, <2>a, <2>b DEF ReadEffect, TypeEffect, EventIsStored
  <2>6. TypeInv'
    BY <1>c, <2>5, TypesKept
  <2> QED
    BY <2>1, <2>4, <2>6 DEF EventsEffect
<1>3. ASSUME \/ TypeArrive(r) \/ TypeStep(r)
             \/ Fails(r) /\ pc[r] \in TypeLabels /\ UNCHANGED <<events, typeVars>>
      PROVE  EventsEffect(r)
  <2>1. TypeEffect(r) /\ (TypeCame(r) \/ TypeEnds(r)) /\ UNCHANGED events
    BY <1>3, <1>a, <1>c, TypeEffects
  <2>2. TypeInv'
    BY <1>c, <2>1, TypesKept
  <2>3. local[r].op \in TypeOps \cup {"none"} /\ local'[r].op \in TypeOps /\ pc'[r] \in TypeLabels \cup Final
    <3>1. CASE TypeCame(r)
      BY <1>b, <1>d, <3>1 DEF TypeCame, TypeLabels, Final
    <3>2. CASE TypeEnds(r)
      <4>1. local[r].op \in TypeOps
        BY <1>b, <3>2 DEF TypeEnds, TypeInv, TypeShape, Asked, TypeLabels
      <4> QED
        BY <3>2, <4>1 DEF TypeEnds
    <3> QED
      BY <2>1, <3>1, <3>2
  <2>4. EventsAside(r)
    BY <1>a, <1>b, <2>1, <2>3 DEF EventsAside
  <2> QED
    BY <1>a, <1>b, <2>1, <2>2, <2>3, <2>4 DEF EventsEffect, EventEffect, TypeEffect
<1>4. ASSUME Fails(r)
      PROVE  pc[r] \in EventLabels \cup ReadLabels \cup TypeLabels
  BY <1>a, <1>c, <1>4 DEF Fails, InFlight, Here
<1> QED
  BY <1>1, <1>2, <1>3, <1>4

\* A request arrives, goes on, or has nothing to do with the events.
LEMMA EventCases ==
  ASSUME NEW r \in Requests, EventEffect(r)
  PROVE  pc[r] = "idle" \/ Keeps(r) \/ EventsAside(r)
BY DEF EventEffect, EventCame, EventGoesOn, EventInserted, EventSetTo, StatusGiven, EventPublished, EventSubmitted

\* Requests that read keep what they know.
LEMMA ReadsKeepShape ==
  ASSUME ReadShape, NEW r \in Requests, EventsEffect(r)
  PROVE  ReadShape'
<1>1. ASSUME NEW q \in Requests \ {r}
      PROVE  ReadAt(q)'
  <2>1. pc'[q] = pc[q] /\ local'[q] = local[q]
    BY DEF EventsEffect, EventEffect, MoveOf
  <2> QED
    BY <2>1 DEF ReadShape, ReadAt, Asked
<1>2. ReadAt(r)'
  <2>1. /\ {"listing", "featuredUpcoming", "featuredOngoing", "statsTypes", "statsCompany"} = ReadLabels
        /\ ReadLabels \cap Final = {} /\ Final = {"ok", "error", "failed"}
    BY DEF ReadLabels, Final
  <2>2. CASE pc'[r] \notin ReadLabels
    BY <2>1, <2>2 DEF ReadAt
  <2>3. ASSUME ReadEffect(r), pc'[r] \in ReadLabels
        PROVE  ReadAt(r)'
    <3>1. CASE ListCame(r) \/ PageRead(r) \/ TotalRead(r)
      BY <2>1, <3>1 DEF ListCame, PageRead, TotalRead, SameList, ReadAt
    <3>2. CASE FeaturedGoesOn(r) \/ StatsCame(r) \/ StatsEnd(r) \/ EventShown(r) \/ ReadElse(r)
      BY <2>1, <2>3, <3>2 DEF FeaturedGoesOn, StatsCame, StatsEnd, EventShown, ReadElse, ReadAt, Asked
    <3> QED
      BY <2>3, <3>1, <3>2 DEF ReadEffect
  <2> QED
    BY <2>2, <2>3 DEF EventsEffect
<1> QED
  BY <1>1, <1>2 DEF ReadShape

(***************************************************************************)
(* The slugs of events.                                                     *)
(***************************************************************************)
\* No company has two events of one slug.
OneSlugEach ==
    \A d, e \in Events : d # e /\ EventIsStored(d) /\ EventIsStored(e)
                         /\ events[d].slug = events[e].slug => events[d].company # events[e].company

\* Nothing deleted e, and no update moved its slug.
Settled(e) ==
    /\ EventIsStored(e) /\ SlugKept(e)
    /\ e \in EarlierEvents => PlacedEvent[e].status # "deleted"

SettledIsLive == \A e \in Events : Settled(e) => events[e].status # "deleted"

\* The slug that was generated for request d: of the event, or of what it
\* will insert.
SlugOf(d) == IF pc[d] = "eventInsert" THEN local[d].new.slug ELSE events[d].slug

SlugsFresh ==
    \A d \in Requests :
        Asked(d, "createEvent") /\ local[d].generated /\ SlugKept(d)
          /\ (pc[d] = "eventInsert" \/ EventIsStored(d)) =>
            \A e \in Events \ {d} : Settled(e) /\ (e \in EarlierEvents \/ e \in before[d]) =>
                events[e].slug # SlugOf(d)

\* What every lemma on a step of these requests assumes.
EventsKnown ==
    /\ EventsHere /\ events \in [Events -> EventDoc] /\ EventShape /\ ReadShape /\ TypeInv

\* What no request has asked to change has not changed.
LEMMA KeptBack ==
  ASSUME EventsKnown, NEW r \in Requests, EventEffect(r), NEW e \in Events, SlugKept(e)'
  PROVE  /\ SlugKept(e)
         /\ EventIsStored(e) => /\ events'[e].slug = events[e].slug
                                /\ events'[e].status = "deleted" => events[e].status = "deleted"
<1>0. /\ \A q \in Requests : "op" \in DOMAIN local[q]
      /\ pc[r] = "idle" => local[r].op = "none"
      /\ GivingOps = {"status", "publish", "submit", "updateEvent"}
      /\ EventOps = {"createEvent", "updateEvent", "status", "submit", "publish"}
  BY DEF EventsKnown, EventsHere, AsksOnly, Here, Asked, GivingOps, EventOps
<1>1. SlugKept(e)
  <2> SUFFICES ASSUME NEW q \in Requests, local[q].op \in {"updateEvent", "status"}, local[q].event = e
               PROVE  IF Asked(q, "updateEvent") THEN DOMAIN local[q].changes \cap {"slug", "status"} = {}
                      ELSE local[q].status # "deleted"
    BY DEF SlugKept
  <2>1. CASE q # r
    <3>1. local'[q] = local[q]
      BY <2>1 DEF EventEffect, MoveOf
    <3> QED
      BY <3>1 DEF SlugKept, Asked
  <2>2. CASE q = r
    <3>1. Keeps(r)
      BY <1>0, <2>2, EventCases DEF EventsAside
    <3>2. /\ local'[r].op = local[r].op /\ local'[r].event = local[r].event
          /\ Asked(r, "updateEvent") => local'[r].changes = local[r].changes
          /\ Asked(r, "status") => local'[r].status = local[r].status
      BY <1>0, <2>2, <3>1, AskedStays DEF EventsKnown
    <3> QED
      BY <2>2, <3>2 DEF SlugKept, Asked
  <2> QED
    BY <2>1, <2>2
<1>2. ASSUME EventIsStored(e)
      PROVE  /\ events'[e].slug = events[e].slug
             /\ events'[e].status = "deleted" => events[e].status = "deleted"
  <2>1. EventStays(r, e)
    BY <1>0, <1>2, EventWrites DEF EventsKnown
  <2>2. EndsOn(r, e) /\ local'[r].op = "updateEvent" => DOMAIN local'[r].changes \cap {"slug", "status"} = {}
    BY DEF SlugKept, EndsOn, Asked
  <2>3. EndsOn(r, e) => ~AsksStatus(r, "deleted")
    <3>1. EndsOn(r, e) /\ local'[r].op = "status" => local'[r].status # "deleted"
      BY DEF SlugKept, EndsOn, Asked
    <3> QED
      BY <2>2, <3>1 DEF AsksStatus
  <2> QED
    BY <2>1, <2>2, <2>3 DEF EventStays
<1> QED
  BY <1>1, <1>2

\* The slugs stay so.
LEMMA SlugsKeep ==
  ASSUME EventsKnown, NEW r \in Requests, EventEffect(r), OneSlugEach, SettledIsLive, SlugsFresh
  PROVE  OneSlugEach' /\ SettledIsLive' /\ SlugsFresh'
<1>0. /\ \A q \in Requests : "op" \in DOMAIN local[q]
      /\ pc[r] = "idle" => local[r].op = "none" /\ before[r] = {}
      /\ EventOps = {"createEvent", "updateEvent", "status", "submit", "publish"}
      /\ GivingOps = {"status", "publish", "submit", "updateEvent"}
      /\ \A q \in Requests : q \in Events
      /\ \A p \in Requests : \A q \in before[p] : pc[q] \in Final
  BY DEF EventsKnown, EventsHere, AsksOnly, Here, Asked, EventOps, GivingOps, Events
<1>1. /\ events' \in [Events -> EventDoc]
      /\ \A e \in Events : EventIsStored(e) => EventStays(r, e)
      /\ \A e \in Events : ~EventIsStored(e) =>
            events'[e] = events[e] \/ (e = r /\ EventInserted(r) /\ events'[e] = local[r].new)
  BY <1>0, EventWrites DEF EventsKnown
<1>2. OneSlugEach'
  <2> SUFFICES ASSUME NEW d \in Events, NEW e \in Events, d # e, EventIsStored(d)', EventIsStored(e)',
                      events'[d].slug = events'[e].slug
               PROVE  events'[d].company # events'[e].company
    BY DEF OneSlugEach
  \* The index was asked about one of the two.
  <2>1. ASSUME NEW x \in Events, NEW y \in Events, x # y, EventIsStored(y), events'[y] = events[y],
               NEW doc, ~IndexRefuses(x, doc), events'[x] = doc, events'[x].slug = events'[y].slug
        PROVE  events'[x].company # events'[y].company
    BY <2>1 DEF IndexRefuses
  <2>2. CASE EventInserted(r)
    <3>1. ~IndexRefuses(r, local[r].new) /\ events' = [events EXCEPT ![r] = local[r].new]
      BY <2>2 DEF EventInserted
    <3>2. events'[r] = local[r].new /\ \A x \in Events \ {r} : events'[x] = events[x]
      BY <1>0, <3>1 DEF EventsKnown
    <3>3. \A x \in Events \ {r} : EventIsStored(x)' = EventIsStored(x)
      BY <3>2 DEF EventIsStored
    <3>4. CASE d # r /\ e # r
      BY <3>2, <3>3, <3>4 DEF OneSlugEach
    <3>5. CASE d = r
      BY <1>0, <2>1, <3>1, <3>2, <3>3, <3>5
    <3>6. CASE e = r
      <4>1. events'[r].company # events'[d].company
        BY <1>0, <2>1, <3>1, <3>2, <3>3, <3>6
      <4> QED
        BY <3>6, <4>1
    <3> QED
      BY <3>4, <3>5, <3>6
  <2>3. CASE EventSetTo(r)
    <3>a. PICK x \in Events : x = local[r].event /\ EventIsStored(x)
      BY <2>3, <1>0 DEF EventSetTo, EventsKnown, EventShape, EventKnown, EventAt, Asked
    <3>0. PICK new : new = With(events[x], local[r].changes)
      OBVIOUS
    <3>1. ~IndexRefuses(x, new) /\ events' = [events EXCEPT ![x] = new]
      BY <2>3, <3>0, <3>a DEF EventSetTo
    <3>2. events'[x] = new /\ \A y \in Events \ {x} : events'[y] = events[y]
      BY <1>0, <3>1 DEF EventsKnown
    <3>3. \A y \in Events \ {x} : EventIsStored(y)' = EventIsStored(y)
      BY <3>2 DEF EventIsStored
    <3>4. CASE d # x /\ e # x
      BY <3>2, <3>3, <3>4 DEF OneSlugEach
    <3>5. CASE d = x
      BY <2>1, <3>a, <3>1, <3>2, <3>3, <3>5
    <3>6. CASE e = x
      <4>1. events'[x].company # events'[d].company
        BY <2>1, <3>a, <3>1, <3>2, <3>3, <3>6
      <4> QED
        BY <3>6, <4>1
    <3> QED
      BY <3>4, <3>5, <3>6
  <2>4. CASE ~EventInserted(r) /\ ~EventSetTo(r)
    <3>1. EventIsStored(d) /\ EventIsStored(e)
      BY <1>1, <2>4 DEF EventIsStored
    <3>2. ASSUME NEW x \in Events, EventIsStored(x)
          PROVE  events'[x].slug = events[x].slug /\ events'[x].company = events[x].company
      <4>1. ASSUME EndsOn(r, x), local'[r].op = "updateEvent", events'[x].slug # events[x].slug
            PROVE  FALSE
        <5>1. ~EventsAside(r) /\ ~StatusGiven(r) /\ ~EventCame(r) /\ ~EventGoesOn(r)
          BY <4>1, <1>0 DEF EventsAside, StatusGiven, EventCame, EventGoesOn
        <5>2. EventPublished(r) \/ EventSubmitted(r)
          BY <2>4, <5>1 DEF EventEffect
        <5>3. Keeps(r) /\ (Asked(r, "publish") \/ Asked(r, "submit"))
          BY <5>2 DEF EventPublished, EventSubmitted, EventsKnown, EventShape, EventAt
        <5>4. local'[r].op = local[r].op
          BY <1>0, <5>3, AskedStays DEF EventsKnown
        <5> QED
          BY <4>1, <5>3, <5>4 DEF Asked
      <4> QED
        BY <1>1, <3>2, <4>1 DEF EventStays
    <3> QED
      BY <3>1, <3>2 DEF OneSlugEach
  <2> QED
    BY <2>2, <2>3, <2>4
\* What is settled was.
<1>3. ASSUME NEW e \in Events, Settled(e)', EventIsStored(e)
      PROVE  /\ Settled(e) /\ events'[e].slug = events[e].slug
             /\ events'[e].status = "deleted" => events[e].status = "deleted"
  <2>1. SlugKept(e)' /\ (e \in EarlierEvents => PlacedEvent[e].status # "deleted")
    BY <1>3 DEF Settled
  <2>2. /\ SlugKept(e) /\ events'[e].slug = events[e].slug
        /\ events'[e].status = "deleted" => events[e].status = "deleted"
    BY <1>3, <2>1, KeptBack
  <2> QED
    BY <1>3, <2>1, <2>2 DEF Settled
<1>4. SettledIsLive'
  <2> SUFFICES ASSUME NEW e \in Events, Settled(e)' PROVE events'[e].status # "deleted"
    BY DEF SettledIsLive
  <2>1. CASE EventIsStored(e)
    BY <1>3, <2>1 DEF SettledIsLive
  <2>2. CASE ~EventIsStored(e)
    <3>1. e = r /\ EventInserted(r) /\ events'[e] = local[r].new
      BY <1>1, <2>2 DEF Settled, EventIsStored
    <3>2. local[r].new.status = "draft"
      BY <3>1 DEF EventInserted, EventsKnown, EventShape, EventAt
    <3> QED
      BY <3>1, <3>2
  <2> QED
    BY <2>1, <2>2
<1>5. SlugsFresh'
  <2> SUFFICES ASSUME NEW d \in Requests, Asked(d, "createEvent")', local'[d].generated, SlugKept(d)',
                      pc'[d] = "eventInsert" \/ EventIsStored(d)',
                      NEW e \in Events \ {d}, Settled(e)', e \in EarlierEvents \/ e \in before'[d]
               PROVE  events'[e].slug # SlugOf(d)'
    BY DEF SlugsFresh
  \* The event compared was there before.
  <2>1. ASSUME d # r \/ pc[r] # "idle"
        PROVE  EventIsStored(e) /\ Settled(e) /\ events'[e].slug = events[e].slug
               /\ (e \in EarlierEvents \/ e \in before[d]) /\ before'[d] = before[d]
    <3>1. before'[d] = before[d]
      BY <2>1 DEF EventEffect, MoveOf
    <3>2. e # r
      <4>1. pc[r] \notin Final
        BY DEF EventEffect, MoveOf
      <4>2. r \notin EarlierEvents
        BY EventsAssumption
      <4> QED
        BY <1>0, <3>1, <4>1, <4>2
    <3>3. EventIsStored(e)
      BY <1>1, <3>2 DEF Settled, EventIsStored
    <3> QED
      BY <1>3, <3>1, <3>3
  <2>2. SlugKept(d) /\ (EventIsStored(d) => events'[d].slug = events[d].slug)
    BY <1>0, KeptBack
  <2>3. CASE d # r
    <3>1. pc'[d] = pc[d] /\ local'[d] = local[d]
      BY <2>3 DEF EventEffect, MoveOf
    <3>2. EventIsStored(d)' = EventIsStored(d) /\ (~EventIsStored(d) => events'[d] = events[d])
      BY <1>0, <1>1, <2>3 DEF EventIsStored, EventStays
    <3>3. SlugOf(d)' = SlugOf(d)
      BY <2>2, <3>1, <3>2 DEF SlugOf
    <3>4. Asked(d, "createEvent") /\ local[d].generated /\ (pc[d] = "eventInsert" \/ EventIsStored(d))
      BY <3>1, <3>2 DEF Asked
    <3> QED
      BY <2>1, <2>2, <2>3, <3>3, <3>4 DEF SlugsFresh
  <2>4. CASE d = r /\ EventIsStored(r)
    <3>1. Asked(r, "createEvent") /\ pc[r] = "systemTypes"
      BY <2>4 DEF EventsKnown, EventShape, EventAt, EventEffect, MoveOf
    <3>2. Keeps(r) /\ pc'[r] # "eventInsert"
      <4>1. ~EventsAside(r) /\ ~EventCame(r) /\ ~EventInserted(r) /\ ~EventSetTo(r) /\ ~StatusGiven(r)
            /\ ~EventPublished(r) /\ ~EventSubmitted(r)
        BY <1>0, <3>1 DEF EventsAside, EventCame, EventInserted, EventSetTo, StatusGiven, EventPublished,
           EventSubmitted, Asked
      <4> QED
        BY <3>1, <4>1 DEF EventEffect, EventGoesOn
    <3>3. local[r].generated
      BY <1>0, <2>4, <3>1, <3>2, AskedStays DEF EventsKnown
    <3>4. SlugOf(r)' = SlugOf(r)
      BY <2>2, <2>4, <3>1, <3>2 DEF SlugOf
    <3> QED
      BY <2>1, <2>2, <2>4, <3>1, <3>3, <3>4 DEF SlugsFresh
  <2>5. CASE d = r /\ ~EventIsStored(r)
    <3>1. CASE EventInserted(r)
      <4>1. /\ pc[r] = "eventInsert" /\ Keeps(r) /\ pc'[r] # "eventInsert" /\ Asked(r, "createEvent")
            /\ events'[r] = local[r].new
        BY <1>0, <1>1, <2>5, <3>1 DEF EventInserted, EventsKnown, EventShape, EventAt
      <4>2. local[r].generated
        BY <1>0, <2>5, <4>1, AskedStays DEF EventsKnown
      <4>3. SlugOf(r)' = SlugOf(r)
        BY <4>1 DEF SlugOf
      <4> QED
        BY <2>1, <2>2, <2>5, <4>1, <4>2, <4>3 DEF SlugsFresh
    <3>2. CASE ~EventInserted(r)
      <4>1. ~EventIsStored(r)'
        BY <1>0, <1>1, <2>5, <3>2 DEF EventIsStored
      <4>2. pc'[r] = "eventInsert"
        BY <2>5, <4>1
      <4>3. /\ EventGoesOn(r) /\ pc[r] = "slugLookup" /\ local'[r] = local[r]
            /\ local[r].generated => ~SlugInUse(local[r].new)
        <5>1. "eventInsert" \in EventLabels /\ "eventInsert" \notin Final
          BY DEF EventLabels, Final
        <5> QED
          BY <3>2, <4>2, <5>1 DEF EventEffect, EventsAside, EventCame, CreationCame, UpdateCame, StatusRefused,
             SubmissionCame, PublicationCame, EventGoesOn, EventSetTo, StatusGiven, EventPublished, EventSubmitted
      <4>4. UNCHANGED events /\ ~SlugInUse(local[r].new)
        BY <2>5, <4>3 DEF EventGoesOn
      <4>5. Settled(e) /\ events[e].status # "deleted"
        BY <2>1, <4>3 DEF SettledIsLive
      <4>6. events[e].slug # local[r].new.slug
        BY <4>4, <4>5 DEF SlugInUse, Live, Settled
      <4> QED
        BY <2>5, <4>2, <4>3, <4>4, <4>6 DEF SlugOf
    <3> QED
      BY <3>1, <3>2
  <2> QED
    BY <2>3, <2>4, <2>5
<1> QED
  BY <1>2, <1>4, <1>5

(***************************************************************************)
(* Who gave an event its status.                                            *)
(***************************************************************************)
\* Request q gave e a status that is not of S.
Undoes(q, e, S) == pc[q] = "ok" /\ Gives(q, e, EventStatus \ S)

\* What gave e a status of S, and that nothing took back since.
Traced(e, S) ==
    \/ /\ e \in EarlierEvents /\ PlacedEvent[e].status \in S
       /\ ~\E q \in Requests : Undoes(q, e, S)
    \/ \E a \in Requests : Gives(a, e, S) /\ ~\E q \in Requests : Undoes(q, e, S) /\ a \in before[q]

\* The same for what request r was answered.
TracedFor(e, r, S) ==
    \/ /\ e \in EarlierEvents /\ PlacedEvent[e].status \in S
       /\ ~\E q \in before[r] : Undoes(q, e, S)
    \/ \E a \in Requests : Gives(a, e, S) /\ ~\E q \in before[r] : Undoes(q, e, S) /\ a \in before[q]

PublicStatus == {"published", "completed"}

StatusesTraced(S) == \A e \in Events : events[e].status \in S => Traced(e, S)

\* Publications rest on an approval, and what visitors see on a publication.
AnswersTraced ==
    /\ \A r \in Requests : Asked(r, "publish") /\ pc[r] # "error" => TracedFor(local[r].event, r, {"approved"})
    /\ \A r \in Requests : \A e \in Seen(r) : TracedFor(e, r, PublicStatus)
    /\ \A r \in Requests : pc[r] = "listing" /\ local[r].viewer = None /\ local[r].page # None =>
            \A e \in local[r].page : TracedFor(e, r, PublicStatus)

\* No status came with an update.
StatusesAsked == \A q \in Requests : Asked(q, "updateEvent") => "status" \notin DOMAIN local[q].changes

Explained(doc) ==
    /\ NeedsReason(doc.status) => doc.explained /\ ~doc.signed
    /\ doc.status = "approved" => doc.signed /\ ~doc.explained

StatusesExplained == StatusesAsked => \A e \in Events : EventIsStored(e) => Explained(events[e])

\* An event that is not stored has no status that anybody gave.
NothingStored == \A e \in Events : ~EventIsStored(e) => events[e].status = "draft"

StatusInv ==
    /\ StatusesTraced({"approved"}) /\ StatusesTraced(PublicStatus) /\ AnswersTraced
    /\ StatusesExplained /\ NothingStored

\* What is given in a step is given by the request that moves.
LEMMA GivesNow ==
  ASSUME EventsKnown, NEW r \in Requests, EventEffect(r), NEW e, NEW S
  PROVE  /\ ~Gives(r, e, S) /\ pc[r] \notin Final
         /\ \A q \in Requests \ {r} : /\ Gives(q, e, S)' <=> Gives(q, e, S)
                                      /\ Undoes(q, e, S)' <=> Undoes(q, e, S)
                                      /\ pc'[q] = pc[q] /\ before'[q] = before[q]
         /\ Gives(r, e, S)' <=> EndsOn(r, e) /\ \E s \in S : AsksStatus(r, s)
         /\ \A q \in Requests : r \notin before[q] /\ r \notin before'[q]
         /\ pc[r] # "idle" => before'[r] = before[r]
         /\ before'[r] \subseteq Requests \ {r}
<1>1. pc[r] \notin Final /\ \A q \in Requests \ {r} : pc'[q] = pc[q] /\ local'[q] = local[q] /\ before'[q] = before[q]
  BY DEF EventEffect, MoveOf
<1>2. \A q \in Requests : \A p \in before[q] : pc[p] \in Final /\ before[q] \subseteq Requests
  BY DEF EventsKnown, EventsHere, Here
<1>3. before'[r] = before[r] \/ before'[r] = {q \in Requests : pc[q] \in Final}
  BY DEF EventEffect, MoveOf
<1>4. EventKnown(r)'
  <2>1. EventShape'
    BY EventKeepsShape DEF EventsKnown, EventsHere, AsksOnly
  <2> QED
    BY <2>1 DEF EventShape
<1>5. ~Gives(r, e, S)
  BY <1>1 DEF Gives, Final
<1>6. \A q \in Requests \ {r} : (Gives(q, e, S)' <=> Gives(q, e, S)) /\ (Undoes(q, e, S)' <=> Undoes(q, e, S))
  BY <1>1 DEF Gives, Undoes, Asked
<1>7. Gives(r, e, S)' <=> EndsOn(r, e) /\ \E s \in S : AsksStatus(r, s)
  BY <1>4 DEF Gives, EndsOn, AsksStatus, EventKnown, GivingOps, Asked
<1>8. \A q \in Requests : r \notin before[q] /\ r \notin before'[q]
  BY <1>1, <1>2, <1>3
<1>9. (pc[r] # "idle" => before'[r] = before[r]) /\ before'[r] \subseteq Requests \ {r}
  <2>1. before[r] \subseteq Requests
    BY DEF EventsKnown, EventsHere, Here
  <2>2. pc[r] # "idle" => before'[r] = before[r]
    BY DEF EventEffect, MoveOf
  <2> QED
    BY <1>3, <1>8, <2>1, <2>2
<1> QED
  BY <1>1, <1>5, <1>6, <1>7, <1>8, <1>9

\* What was traced for a request stays traced,
LEMMA TracedForStays ==
  ASSUME EventsKnown, NEW r \in Requests, EventEffect(r), NEW e, NEW S, NEW p \in Requests,
         TracedFor(e, p, S), p # r \/ pc[r] # "idle"
  PROVE  TracedFor(e, p, S)'
<1>1. /\ ~Gives(r, e, S)
      /\ \A q \in Requests \ {r} : /\ Gives(q, e, S)' <=> Gives(q, e, S)
                                   /\ Undoes(q, e, S)' <=> Undoes(q, e, S)
                                   /\ before'[q] = before[q]
  BY GivesNow
<1>2. before'[p] = before[p] /\ r \notin before[p]
  BY GivesNow
<1>3. before[p] \subseteq Requests
  BY DEF EventsKnown, EventsHere, Here
<1>4. \A q \in before[p] : (Undoes(q, e, S)' <=> Undoes(q, e, S)) /\ before'[q] = before[q]
  BY <1>1, <1>2, <1>3
<1>5. CASE e \in EarlierEvents /\ PlacedEvent[e].status \in S /\ ~\E q \in before[p] : Undoes(q, e, S)
  BY <1>2, <1>4, <1>5 DEF TracedFor
<1>6. ASSUME NEW a \in Requests, Gives(a, e, S), ~\E q \in before[p] : Undoes(q, e, S) /\ a \in before[q]
      PROVE  TracedFor(e, p, S)'
  <2>1. Gives(a, e, S)'
    BY <1>1, <1>6
  <2>2. ~\E q \in before'[p] : Undoes(q, e, S)' /\ a \in before'[q]
    BY <1>2, <1>4, <1>6
  <2> QED
    BY <2>1, <2>2 DEF TracedFor
<1> QED
  BY <1>5, <1>6 DEF TracedFor

\* and what is traced is traced for whoever arrives, or goes on.
LEMMA TracedIsFor ==
  ASSUME EventsKnown, NEW r \in Requests, EventEffect(r), NEW e, NEW S, Traced(e, S)
  PROVE  TracedFor(e, r, S)'
<1>1. /\ \A q \in Requests \ {r} : /\ Gives(q, e, S)' <=> Gives(q, e, S)
                                   /\ Undoes(q, e, S)' <=> Undoes(q, e, S)
                                   /\ before'[q] = before[q]
      /\ before'[r] \subseteq Requests \ {r} /\ ~Gives(r, e, S)
  BY GivesNow
<1>2. CASE e \in EarlierEvents /\ PlacedEvent[e].status \in S /\ ~\E q \in Requests : Undoes(q, e, S)
  BY <1>1, <1>2 DEF TracedFor
<1>3. ASSUME NEW a \in Requests, Gives(a, e, S), ~\E q \in Requests : Undoes(q, e, S) /\ a \in before[q]
      PROVE  TracedFor(e, r, S)'
  <2>1. Gives(a, e, S)'
    BY <1>1, <1>3
  <2>2. ~\E q \in before'[r] : Undoes(q, e, S)' /\ a \in before'[q]
    BY <1>1, <1>3
  <2> QED
    BY <2>1, <2>2 DEF TracedFor
<1> QED
  BY <1>2, <1>3 DEF Traced

\* A status that is traced stays so.
LEMMA TracedStays ==
  ASSUME EventsKnown, NothingStored, NEW r \in Requests, EventEffect(r),
         NEW S \in SUBSET EventStatus, "draft" \notin S, StatusesTraced(S)
  PROVE  StatusesTraced(S)'
<1> SUFFICES ASSUME NEW e \in Events, events'[e].status \in S
             PROVE  Traced(e, S)'
  BY DEF StatusesTraced
<1>0. /\ \A q \in Requests : "op" \in DOMAIN local[q]
  BY DEF EventsKnown, EventsHere, AsksOnly
<1>1. EventIsStored(e)
  <2>1. \A d \in Events : ~EventIsStored(d) =>
            events'[d] = events[d] \/ (d = r /\ EventInserted(r) /\ events'[d] = local[r].new)
    BY <1>0, EventWrites DEF EventsKnown
  <2>2. EventInserted(r) => local[r].new.status = "draft"
    BY DEF EventInserted, EventsKnown, EventShape, EventAt
  <2> QED
    BY <2>1, <2>2 DEF NothingStored
<1>2. EventStays(r, e) /\ events'[e].status \in EventStatus
  BY <1>0, <1>1, EventWrites DEF EventsKnown
<1>3. /\ \A q \in Requests \ {r} : /\ Gives(q, e, S)' <=> Gives(q, e, S)
                                   /\ Undoes(q, e, S)' <=> Undoes(q, e, S)
                                   /\ before'[q] = before[q]
      /\ ~Gives(r, e, S)
      /\ \A q \in Requests : r \notin before[q] /\ r \notin before'[q]
  BY GivesNow
<1>4. ~Undoes(r, e, S)'
  <2>1. Gives(r, e, EventStatus \ S)' <=> EndsOn(r, e) /\ \E s \in EventStatus \ S : AsksStatus(r, s)
    BY GivesNow
  <2>2. pc'[r] = "ok" /\ EndsOn(r, e) => \A s \in EventStatus : AsksStatus(r, s) => events'[e].status = s
    BY <1>2 DEF EventStays
  <2> QED
    BY <2>1, <2>2 DEF Undoes
<1>5. CASE events'[e].status = events[e].status
  <2>1. Traced(e, S)
    BY <1>5 DEF StatusesTraced
  <2>2. CASE e \in EarlierEvents /\ PlacedEvent[e].status \in S /\ ~\E q \in Requests : Undoes(q, e, S)
    BY <1>3, <1>4, <2>2 DEF Traced
  <2>3. ASSUME NEW a \in Requests, Gives(a, e, S), ~\E q \in Requests : Undoes(q, e, S) /\ a \in before[q]
        PROVE  Traced(e, S)'
    <3>1. Gives(a, e, S)'
      BY <1>3, <2>3
    <3>2. ~\E q \in Requests : Undoes(q, e, S)' /\ a \in before'[q]
      BY <1>3, <1>4, <2>3
    <3> QED
      BY <3>1, <3>2 DEF Traced
  <2> QED
    BY <2>1, <2>2, <2>3 DEF Traced
<1>6. CASE events'[e].status # events[e].status
  <2>1. EndsOn(r, e) /\ AsksStatus(r, events'[e].status)
    BY <1>2, <1>6 DEF EventStays
  <2>2. Gives(r, e, S)' <=> EndsOn(r, e) /\ \E s \in S : AsksStatus(r, s)
    BY GivesNow
  <2>3. Gives(r, e, S)'
    BY <2>1, <2>2
  <2>4. ~\E q \in Requests : Undoes(q, e, S)' /\ r \in before'[q]
    BY <1>3
  <2> QED
    BY <2>3, <2>4 DEF Traced
<1> QED
  BY <1>5, <1>6

\* What requests were answered stays traced, and what they are answered is.
LEMMA AnswersStay ==
  ASSUME EventsKnown, NEW r \in Requests, EventsEffect(r), StatusInv
  PROVE  AnswersTraced'
<1>0. /\ EventEffect(r) /\ \A q \in Requests : "op" \in DOMAIN local[q]
      /\ pc[r] = "idle" => local[r].op = "none"
      /\ EventOps = {"createEvent", "updateEvent", "status", "submit", "publish"}
      /\ GivingOps = {"status", "publish", "submit", "updateEvent"}
      /\ ReadOps = {"listEvents", "findEvent", "showEvent", "featured", "eventStats", "companyStats"}
  BY DEF EventsEffect, EventsKnown, EventsHere, AsksOnly, Here, Asked, EventOps, GivingOps, ReadOps
<1>1. ASSUME NEW q \in Requests, Asked(q, "publish")', pc'[q] # "error"
      PROVE  TracedFor(local[q].event, q, {"approved"})'
  <2>1. CASE q # r
    <3>1. pc'[q] = pc[q] /\ local'[q] = local[q]
      BY <1>0, <2>1 DEF EventEffect, MoveOf
    <3>2. PICK e : e = local[q].event
      OBVIOUS
    <3>3. TracedFor(e, q, {"approved"})
      BY <1>1, <3>1, <3>2 DEF StatusInv, AnswersTraced, Asked
    <3>4. TracedFor(e, q, {"approved"})'
      BY <1>0, <2>1, <3>3, TracedForStays
    <3> QED
      BY <3>1, <3>2, <3>4
  <2>2. CASE q = r /\ pc[r] # "idle"
    <3>1. Keeps(r)
      BY <1>0, <1>1, <2>2, EventCases DEF EventsAside, Asked
    <3>2. local'[r].op = local[r].op /\ local'[r].event = local[r].event /\ pc[r] # "error"
      BY <1>0, <1>1, <2>2, <3>1, AskedStays DEF EventsKnown, Asked, EventEffect, MoveOf, Final
    <3>3. PICK e : e = local[r].event
      OBVIOUS
    <3>4. TracedFor(e, r, {"approved"})
      BY <1>1, <2>2, <3>2, <3>3 DEF StatusInv, AnswersTraced, Asked
    <3>5. TracedFor(e, r, {"approved"})'
      BY <1>0, <2>2, <3>4, TracedForStays
    <3> QED
      BY <2>2, <3>2, <3>3, <3>5
  <2>3. CASE q = r /\ pc[r] = "idle"
    <3>1. PublicationCame(r)
      <4>1. EventLabels \cap {"idle"} = {}
        BY DEF EventLabels
      <4> QED
        BY <1>0, <1>1, <2>3, <4>1 DEF EventEffect, EventsAside, EventCame, CreationCame, UpdateCame, StatusRefused,
           SubmissionCame, EventGoesOn, EventInserted, EventSetTo, StatusGiven, EventPublished, EventSubmitted, Asked
    <3>2. PICK e \in Events : e = local'[r].event
      BY <3>1 DEF PublicationCame
    <3>3. events[e].status = "approved"
      BY <1>1, <2>3, <3>1, <3>2 DEF PublicationCame
    <3>4. Traced(e, {"approved"})
      BY <3>3 DEF StatusInv, StatusesTraced
    <3>5. TracedFor(e, r, {"approved"})'
      BY <1>0, <3>4, TracedIsFor
    <3> QED
      BY <2>3, <3>2, <3>5
  <2> QED
    BY <2>1, <2>2, <2>3
\* A visitor sees what is public.
<1>2. ASSUME NEW e \in Events, events[e].status \in PublicStatus
      PROVE  TracedFor(e, r, PublicStatus)'
  <2>1. Traced(e, PublicStatus)
    BY <1>2 DEF StatusInv, StatusesTraced
  <2> QED
    BY <1>0, <2>1, TracedIsFor
<1>3. ASSUME NEW e, NEW q \in Requests, TracedFor(e, q, PublicStatus), q # r \/ pc[r] # "idle"
      PROVE  TracedFor(e, q, PublicStatus)'
  BY <1>0, <1>3, TracedForStays
<1>4. ASSUME PageRead(r), local[r].viewer = None, NEW e \in local'[r].page
      PROVE  TracedFor(e, r, PublicStatus)'
  <2>1. IsListing(local[r]) /\ e \in Matching(local[r])
    BY <1>4 DEF PageRead, EventsKnown, ReadShape, ReadAt
  <2>2. e \in Events /\ events[e].status \in PublicStatus
    BY <1>4, <2>1 DEF IsListing, Matching, PublicStatus
  <2> QED
    BY <1>2, <2>2
<1>5. ASSUME TotalRead(r), local[r].viewer = None, local[r].page # None, NEW e \in local'[r].page
      PROVE  TracedFor(e, r, PublicStatus)'
  <2>1. pc[r] = "listing" /\ local'[r].page = local[r].page
    BY <1>5 DEF TotalRead
  <2>2. TracedFor(e, r, PublicStatus)
    BY <1>5, <2>1 DEF StatusInv, AnswersTraced
  <2> QED
    BY <1>3, <2>1, <2>2
<1>6. ASSUME NEW q \in Requests, NEW e \in Seen(q)'
      PROVE  TracedFor(e, q, PublicStatus)'
  <2>1. CASE q # r
    <3>1. pc'[q] = pc[q] /\ local'[q] = local[q]
      BY <1>0, <2>1 DEF EventEffect, MoveOf
    <3>2. e \in Seen(q)
      BY <1>6, <3>1 DEF Seen, Asked
    <3>3. TracedFor(e, q, PublicStatus)
      BY <3>2 DEF StatusInv, AnswersTraced
    <3> QED
      BY <1>3, <2>1, <3>3
  <2>2. CASE q = r
    <3>1. /\ pc'[r] = "ok" /\ e \in local'[r].page
          /\ local'[r].op = "showEvent" \/ (local'[r].op = "listEvents" /\ local'[r].viewer = None)
      BY <1>6, <2>2 DEF Seen, Asked
    <3>2. ReadEffect(r)
      BY <1>0, <3>1 DEF EventsEffect
    <3>3. CASE PageRead(r)
      <4>1. local'[r].op = "listEvents" /\ local'[r].viewer = local[r].viewer
        BY <3>3 DEF PageRead, SameList, IsListing
      <4> QED
        BY <1>4, <2>2, <3>1, <3>3, <4>1
    <3>4. CASE TotalRead(r)
      <4>1. local'[r].op = "listEvents" /\ local'[r].viewer = local[r].viewer /\ local[r].page # None
        BY <3>1, <3>4 DEF TotalRead, SameList, IsListing
      <4> QED
        BY <1>5, <2>2, <3>1, <3>4, <4>1
    <3>5. CASE EventShown(r)
      <4>1. e \in Events /\ events[e].status \in PublicStatus
        BY <3>1, <3>5 DEF EventShown, PublicStatus
      <4> QED
        BY <1>2, <2>2, <4>1
    <3> QED
      BY <3>1, <3>2, <3>3, <3>4, <3>5 DEF ReadEffect, ListCame, FeaturedGoesOn, StatsCame, StatsEnd, ReadElse
  <2> QED
    BY <2>1, <2>2
<1>7. ASSUME NEW q \in Requests, pc'[q] = "listing", local'[q].viewer = None, local'[q].page # None,
             NEW e \in local'[q].page
      PROVE  TracedFor(e, q, PublicStatus)'
  <2>1. CASE q # r
    <3>1. pc'[q] = pc[q] /\ local'[q] = local[q]
      BY <1>0, <2>1 DEF EventEffect, MoveOf
    <3>2. TracedFor(e, q, PublicStatus)
      BY <1>7, <3>1 DEF StatusInv, AnswersTraced
    <3> QED
      BY <1>3, <2>1, <3>2
  <2>2. CASE q = r
    <3>1. ReadEffect(r)
      BY <1>7, <2>2 DEF EventsEffect, ReadLabels
    <3>2. CASE PageRead(r)
      <4>1. local'[r].viewer = local[r].viewer
        BY <3>2 DEF PageRead, SameList
      <4> QED
        BY <1>4, <1>7, <2>2, <3>2, <4>1
    <3>3. CASE TotalRead(r)
      <4>1. local'[r].viewer = local[r].viewer /\ local[r].page # None
        BY <1>7, <2>2, <3>3 DEF TotalRead, SameList
      <4> QED
        BY <1>5, <1>7, <2>2, <3>3, <4>1
    <3>4. ~ListCame(r)
      BY <1>7, <2>2 DEF ListCame
    <3> QED
      BY <1>7, <2>2, <3>1, <3>2, <3>3, <3>4 DEF ReadEffect, EventShown, FeaturedGoesOn, StatsCame, StatsEnd, ReadElse
  <2> QED
    BY <2>1, <2>2
<1> QED
  BY <1>1, <1>6, <1>7 DEF AnswersTraced

\* Every step leaves the statuses traced.
LEMMA StatusStays ==
  ASSUME EventsKnown, NEW r \in Requests, EventsEffect(r), StatusInv
  PROVE  StatusInv'
<1>0. /\ EventEffect(r) /\ \A q \in Requests : "op" \in DOMAIN local[q]
      /\ pc[r] = "idle" => local[r].op = "none"
  BY DEF EventsEffect, EventsKnown, EventsHere, AsksOnly, Here, Asked
<1>1. StatusesTraced({"approved"})' /\ StatusesTraced(PublicStatus)'
  <2>1. /\ {"approved"} \in SUBSET EventStatus /\ "draft" \notin {"approved"}
        /\ PublicStatus \in SUBSET EventStatus /\ "draft" \notin PublicStatus
    BY DEF EventStatus, PublicStatus
  <2>2. StatusesTraced({"approved"})'
    BY <1>0, <2>1, TracedStays DEF StatusInv
  <2>3. StatusesTraced(PublicStatus)'
    BY <1>0, <2>1, TracedStays DEF StatusInv
  <2> QED
    BY <2>2, <2>3
<1>2. /\ \A e \in Events : EventIsStored(e) => EventStays(r, e)
      /\ \A e \in Events : ~EventIsStored(e) =>
            events'[e] = events[e] \/ (e = r /\ EventInserted(r) /\ events'[e] = local[r].new)
      /\ EventInserted(r) => local[r].new.status = "draft" /\ local[r].new.company # None
  BY <1>0, EventWrites DEF EventsKnown, EventInserted, EventShape, EventAt
<1>3. NothingStored'
  BY <1>2 DEF StatusInv, NothingStored, EventIsStored, EventStays
<1>4. StatusesExplained'
  <2> SUFFICES ASSUME StatusesAsked', NEW e \in Events, EventIsStored(e)'
               PROVE  Explained(events'[e])
    BY DEF StatusesExplained
  <2>1. StatusesAsked
    <3> SUFFICES ASSUME NEW q \in Requests, Asked(q, "updateEvent")
                 PROVE  "status" \notin DOMAIN local[q].changes
      BY DEF StatusesAsked
    <3>1. CASE q # r
      <4>1. local'[q] = local[q]
        BY <1>0, <3>1 DEF EventEffect, MoveOf
      <4> QED
        BY <4>1 DEF StatusesAsked, Asked
    <3>2. CASE q = r
      <4>1. Keeps(r)
        BY <1>0, <3>2, EventCases DEF EventsAside, Asked, EventOps
      <4>2. local'[r].op = local[r].op /\ local'[r].changes = local[r].changes
        BY <1>0, <3>2, <4>1, AskedStays DEF EventsKnown
      <4> QED
        BY <3>2, <4>2 DEF StatusesAsked, Asked
    <3> QED
      BY <3>1, <3>2
  <2>2. CASE EventIsStored(e)
    <3>1. EventStays(r, e) /\ Explained(events[e])
      BY <1>2, <2>1, <2>2 DEF StatusInv, StatusesExplained
    <3>2. local'[r].op = "updateEvent" => "status" \notin DOMAIN local'[r].changes
      BY DEF StatusesAsked, Asked
    <3> QED
      BY <3>1, <3>2 DEF EventStays, Explained
  <2>3. CASE ~EventIsStored(e)
    <3>1. events'[e].status = "draft"
      BY <1>2, <2>3 DEF StatusInv, NothingStored
    <3> QED
      BY <3>1 DEF Explained, NeedsReason
  <2> QED
    BY <2>2, <2>3
<1> QED
  BY <1>1, <1>3, <1>4, AnswersStay DEF StatusInv

\* What that says.
LEMMA StatusesAreTraced ==
  ASSUME EventsKnown, StatusInv
  PROVE  StatusIsTraced
<1>1. ASSUME NEW q \in Requests, pc[q] = "ok", Asked(q, "publish")
      PROVE  ApprovedFor(local[q].event, q)
  <2>1. TracedFor(local[q].event, q, {"approved"})
    BY <1>1 DEF StatusInv, AnswersTraced
  <2>2. before[q] \subseteq Requests
    BY DEF EventsKnown, EventsHere, Here
  <2> QED
    BY <2>1, <2>2 DEF TracedFor, ApprovedFor, Undoes
<1>2. ASSUME NEW e \in Events, EventIsStored(e), StatusesAsked
      PROVE  /\ NeedsReason(events[e].status) => events[e].explained /\ ~events[e].signed
             /\ events[e].status = "approved" => events[e].signed /\ ~events[e].explained
  BY <1>2 DEF StatusInv, StatusesExplained, Explained
<1>3. PublicationIsTraced
  BY <1>1, <1>2 DEF PublicationIsTraced, StatusesAsked
<1>4. ASSUME NEW q \in Requests, NEW e \in Seen(q)
      PROVE  \/ \E a \in Requests : Gives(a, e, PublicStatus)
             \/ /\ e \in EarlierEvents /\ PlacedEvent[e].status \in PublicStatus
                /\ ~\E p \in before[q] : pc[p] = "ok" /\ Gives(p, e, EventStatus \ PublicStatus)
  <2>1. TracedFor(e, q, PublicStatus)
    BY <1>4 DEF StatusInv, AnswersTraced
  <2> QED
    BY <2>1 DEF TracedFor, Undoes
<1>5. SeenWasPublic
  BY <1>4 DEF SeenWasPublic, PublicStatus
<1> QED
  BY <1>3, <1>5 DEF StatusIsTraced


\* What the slugs say of the events that are stored.
LEMMA SlugsAreRight ==
  ASSUME EventsKnown, OneSlugEach, SlugsFresh
  PROVE  SlugsResolve
<1> SUFFICES ASSUME NEW d \in Events, NEW e \in Events, d # e, EventIsStored(d), EventIsStored(e),
                    events[d].slug = events[e].slug
             PROVE  /\ events[d].company # events[e].company
                    /\ d \in Requests /\ Asked(d, "createEvent") /\ local[d].generated
                       /\ SlugKept(d) /\ SlugKept(e)
                       /\ (e \in EarlierEvents => PlacedEvent[e].status # "deleted")
                        => e \in Requests \ before[d]
  BY DEF SlugsResolve
<1>1. events[d].company # events[e].company
  BY DEF OneSlugEach
<1>2. ASSUME d \in Requests, Asked(d, "createEvent"), local[d].generated, SlugKept(d), SlugKept(e),
             e \in EarlierEvents => PlacedEvent[e].status # "deleted"
      PROVE  e \in Requests \ before[d]
  <2>1. Settled(e)
    BY <1>2 DEF Settled
  <2>2. pc[d] # "eventInsert"
    BY <1>2 DEF EventsKnown, EventShape, EventAt, Final
  <2>3. events[e].slug = SlugOf(d)
    BY <2>2 DEF SlugOf
  <2>4. ~(e \in EarlierEvents \/ e \in before[d])
    BY <1>2, <2>1, <2>3 DEF SlugsFresh
  <2> QED
    BY <2>4 DEF Events
<1> QED
  BY <1>1, <1>2

(***************************************************************************)
(* Requests about events that do not overlap.                               *)
(***************************************************************************)
InOrder == \A e \in Events : EventIsStored(e) => events[e].starts < events[e].ends

CountsOf(c) == [s \in EventStatus \ {"deleted"} |-> Cardinality(OfCompany(c, s))]

\* What a request has read is still so,
ReadsHold(r) ==
    /\ pc[r] \in {"slugCheck", "eventSet"} => local[r].new = With(events[local[r].event], local[r].changes)
    /\ pc[r] = "listing" /\ local[r].page # None =>
        Cardinality(local[r].page) = PageOf(Cardinality(Matching(local[r])))
    /\ pc[r] = "listing" /\ local[r].total # None => local[r].total = Cardinality(Matching(local[r]))
    /\ pc[r] = "statsCompany" => local[r].counts = CountsOf(local[r].company)
    /\ pc[r] = "featuredOngoing" => Upcoming = {}

\* and what it was answered agrees.
AnswerAgrees(r) ==
    /\ pc[r] = "ok" /\ Asked(r, "listEvents") => Cardinality(local[r].page) = PageOf(local[r].total)
    /\ pc[r] = "ok" /\ Asked(r, "companyStats") =>
        local[r].total = SumOf(local[r].counts, DOMAIN local[r].counts)
    /\ pc[r] = "error" /\ Asked(r, "featured") /\ r \in LastOf({q \in Requests : pc[q] # "idle"})
        => Upcoming \cup Ongoing = {}

EventsSerial == SerialSoFar => InOrder /\ \A r \in Requests : ReadsHold(r) /\ AnswerAgrees(r)

\* The events of a company are those of each status, but for the deleted ones.
LEMMA StatusesSum ==
  ASSUME NEW c \in Companies, events \in [Events -> EventDoc]
  PROVE  /\ DOMAIN CountsOf(c) = EventStatus \ {"deleted"}
         /\ SumOf(CountsOf(c), DOMAIN CountsOf(c)) = Cardinality({e \in Events : Live(e) /\ events[e].company = c})
<1> DEFINE S == EventStatus \ {"deleted"}
           F == [s \in S |-> OfCompany(c, s)]
           T == {e \in Events : Live(e) /\ events[e].company = c}
<1>1. IsFiniteSet(S)
  <2> DEFINE A == {"draft", "pending_approval"}
             B == {"approved", "rejected"}
             C == {"published", "cancelled", "completed"}
  <2>0. \A x, y : IsFiniteSet({x, y})
    <3> TAKE x, y
    <3>1. IsFiniteSet({x}) /\ IsFiniteSet({y}) /\ {x, y} = {x} \cup {y}
      BY FS_Singleton
    <3>2. IsFiniteSet({x} \cup {y})
      BY <3>1, FS_Union
    <3> QED
      BY <3>1, <3>2
  <2>1. IsFiniteSet(A) /\ IsFiniteSet(B) /\ IsFiniteSet(C)
    <3>1. IsFiniteSet({"published", "cancelled"}) /\ C = {"published", "cancelled"} \cup {"completed"}
      BY <2>0
    <3> HIDE DEF C
    <3>2. IsFiniteSet(C)
      BY <3>1, FS_AddElement
    <3> QED
      BY <2>0, <3>2
  <2>2. S = A \cup B \cup C
    BY DEF EventStatus
  <2> HIDE DEF A, B, C, S
  <2>3. IsFiniteSet(A \cup B)
    BY <2>1, FS_Union
  <2>4. IsFiniteSet((A \cup B) \cup C)
    BY <2>1, <2>3, FS_Union
  <2> QED
    BY <2>2, <2>4
<1>2. IsFiniteSet(Events)
  BY RequestsAssumption, EventsAssumption, FS_Union DEF Events
<1>3. \A s \in S : F[s] = OfCompany(c, s) /\ IsFiniteSet(F[s]) /\ CountsOf(c)[s] = Cardinality(F[s])
  BY <1>2, FS_Subset DEF OfCompany, CountsOf
<1>4. \A z : z \in T <=> \E s \in S : z \in F[s]
  <2>1. c # None
    BY EventsAssumption
  <2>2. \A e \in Events : events[e].status \in EventStatus
    BY DEF EventDoc
  <2> QED
    BY <2>1, <2>2 DEF OfCompany, Live, EventIsStored
<1>5. \A x, y \in S : x # y => F[x] \cap F[y] = {}
  BY DEF OfCompany
<1>6. DOMAIN CountsOf(c) = S
  BY DEF CountsOf
<1> HIDE DEF S, F, T
<1>7. SumOf(CountsOf(c), S) = Cardinality(T)
  <2>1. PICK f, X, G, U : f = CountsOf(c) /\ X = S /\ G = F /\ U = T
    OBVIOUS
  <2>2. ArePartsOf(U, X, G, f)
    BY <1>1, <1>3, <1>4, <1>5, <2>1 DEF ArePartsOf
  <2>3. SumOf(f, X) = Cardinality(U)
    BY <2>2, SumOfParts
  <2> QED
    BY <2>1, <2>3
<1> QED
  BY <1>6, <1>7 DEF S, T


\* Each request alone keeps the dates in order and reads what is so.
LEMMA SerialStays ==
  ASSUME EventsKnown, NEW r \in Requests, EventsEffect(r), Here(EventScopeLabels)', EventsSerial
  PROVE  EventsSerial'
<1> SUFFICES ASSUME SerialSoFar'
             PROVE  InOrder' /\ \A q \in Requests : ReadsHold(q)' /\ AnswerAgrees(q)'
  BY DEF EventsSerial
<1>0. /\ EventEffect(r) /\ MoveOf(r) /\ \A q \in Requests : "op" \in DOMAIN local[q]
      /\ Here(EventScopeLabels) /\ pc[r] = "idle" => local[r].op = "none"
      /\ EventOps = {"createEvent", "updateEvent", "status", "submit", "publish"}
      /\ ReadOps = {"listEvents", "findEvent", "showEvent", "featured", "eventStats", "companyStats"}
      /\ EventLabels = {"slugLookup", "eventInsert", "systemTypes", "slugCheck", "eventSet",
                        "submitSave", "publishSet"} /\ Final = {"ok", "error", "failed"}
      /\ ReadLabels = {"listing", "featuredUpcoming", "featuredOngoing", "statsTypes", "statsCompany"}
  BY DEF EventsEffect, EventEffect, EventsKnown, EventsHere, AsksOnly, Here, Asked, EventOps, ReadOps,
     EventLabels, ReadLabels, Final
<1>1. /\ SerialSoFar /\ pc'[r] # "failed"
      /\ \A q \in Requests \ {r} : ~InFlight(q) /\ (pc[q] # "idle" => q \in before'[r])
  <2>1. MoveOf(r)
    BY DEF EventsEffect, EventEffect
  <2>2. Here(EventScopeLabels)
    BY DEF EventsKnown, EventsHere
  <2> QED
    BY <2>1, <2>2, MovesAlone
<1>2. InOrder /\ ReadsHold(r)
  BY <1>1 DEF EventsSerial
<1>3. InOrder'
  <2> SUFFICES ASSUME NEW e \in Events, EventIsStored(e)' PROVE events'[e].starts < events'[e].ends
    BY DEF InOrder
  <2>1. /\ EventIsStored(e) => EventStays(r, e)
        /\ ~EventIsStored(e) =>
              events'[e] = events[e] \/ (e = r /\ EventInserted(r) /\ events'[e] = local[r].new)
    BY <1>0, EventWrites DEF EventsKnown
  <2>2. CASE ~EventIsStored(e)
    BY <2>1, <2>2 DEF EventIsStored, EventInserted, EventsKnown, EventShape, EventAt
  <2>3. CASE EventIsStored(e) /\ events'[e].starts = events[e].starts /\ events'[e].ends = events[e].ends
    BY <1>2, <2>3 DEF InOrder
  <2>4. CASE EventSetTo(r) /\ local[r].event = e
    <3>1. events'[e] = local[r].new
      BY <1>2, <2>4 DEF EventSetTo, ReadsHold, EventsKnown
    <3> QED
      BY <2>4, <3>1 DEF EventSetTo, EventsKnown, EventShape, EventAt
  <2> QED
    BY <2>1, <2>2, <2>3, <2>4 DEF EventStays
<1>4. ASSUME NEW q \in Requests \ {r}
      PROVE  ReadsHold(q)' /\ AnswerAgrees(q)'
  <2>1. pc'[q] = pc[q] /\ local'[q] = local[q] /\ before'[q] = before[q] /\ ~InFlight(q)
    BY <1>0, <1>1 DEF MoveOf
  <2>2. ReadsHold(q)'
    BY <1>0, <2>1 DEF ReadsHold, InFlight
  <2>3. r \notin before'[q] /\ pc'[r] # "idle"
    <3>1. pc[r] \notin Final /\ pc'[r] # "idle"
      BY <1>0 DEF MoveOf
    <3>2. \A p \in before[q] : pc[p] \in Final
      BY DEF EventsKnown, EventsHere, Here
    <3> QED
      BY <2>1, <3>1, <3>2
  <2>5. (q \notin LastOf({p \in Requests : pc[p] # "idle"}))'
    BY <2>3 DEF LastOf
  <2>4. AnswerAgrees(q)
    BY <1>1 DEF EventsSerial
  <2> QED
    BY <2>1, <2>2, <2>4, <2>5 DEF AnswerAgrees, Asked
<1>5. ReadsHold(r)' /\ AnswerAgrees(r)'
  <2>1. CASE ~ReadEffect(r)
    <3>1. local'[r].op \notin ReadOps /\ pc'[r] \notin ReadLabels
      BY <2>1 DEF EventsEffect
    <3>2. AnswerAgrees(r)'
      BY <1>0, <3>1 DEF AnswerAgrees, Asked
    <3>3. ASSUME pc'[r] \in {"slugCheck", "eventSet"}
          PROVE  local'[r].new = With(events'[local'[r].event], local'[r].changes)
      <4>1. CASE EventCame(r)
        BY <3>3, <4>1 DEF EventCame, CreationCame, UpdateCame, StatusRefused, SubmissionCame, PublicationCame
      <4>2. CASE EventGoesOn(r)
        BY <1>2, <3>3, <4>2 DEF EventGoesOn, ReadsHold
      <4> QED
        BY <1>0, <3>3, <4>1, <4>2 DEF EventEffect, EventsAside, EventInserted, EventSetTo, StatusGiven,
           EventPublished, EventSubmitted
    <3> QED
      BY <1>0, <3>1, <3>2, <3>3 DEF ReadsHold
  <2>2. CASE ReadEffect(r)
    <3>a. UNCHANGED events /\ pc'[r] \notin {"slugCheck", "eventSet"}
      BY <1>0, <2>2 DEF ReadEffect
    <3>b. PICK M : M = Matching(local[r])
      OBVIOUS
    <3>c. PageRead(r) \/ TotalRead(r) => Matching(local[r])' = M
      BY <3>a, <3>b DEF PageRead, TotalRead, SameList, Matching
    <3>1. CASE ListCame(r)
      BY <3>1 DEF ListCame, ReadsHold, AnswerAgrees
    <3>2. CASE PageRead(r)
      <4>1. /\ Cardinality(local'[r].page) = PageOf(Cardinality(M)) /\ local'[r].total = local[r].total
            /\ local'[r].op = "listEvents" /\ pc[r] = "listing" /\ pc'[r] \in {"listing", "ok"}
            /\ pc'[r] = "ok" => local[r].total # None
        BY <3>2, <3>b DEF PageRead, SameList, IsListing
      <4>2. local[r].total # None => local[r].total = Cardinality(M)
        <5>1. local[r].total # None => local[r].total = Cardinality(Matching(local[r]))
          BY <1>2, <4>1 DEF ReadsHold
        <5> QED
          BY <3>b, <5>1
      <4>3. ReadsHold(r)'
        BY <3>2, <3>c, <4>1, <4>2 DEF ReadsHold
      <4>4. AnswerAgrees(r)'
        BY <4>1, <4>2 DEF AnswerAgrees, Asked
      <4> QED
        BY <4>3, <4>4
    <3>3. CASE TotalRead(r)
      <4>1. /\ local'[r].total = Cardinality(M) /\ local'[r].page = local[r].page
            /\ local'[r].op = "listEvents" /\ pc[r] = "listing" /\ pc'[r] \in {"listing", "ok"}
            /\ pc'[r] = "ok" => local[r].page # None
        BY <3>3, <3>b DEF TotalRead, SameList, IsListing
      <4>2. local[r].page # None => Cardinality(local[r].page) = PageOf(Cardinality(M))
        <5>1. local[r].page # None =>
                Cardinality(local[r].page) = PageOf(Cardinality(Matching(local[r])))
          BY <1>2, <4>1 DEF ReadsHold
        <5> QED
          BY <3>b, <5>1
      <4>3. ReadsHold(r)'
        BY <3>3, <3>c, <4>1, <4>2 DEF ReadsHold
      <4>4. AnswerAgrees(r)'
        BY <4>1, <4>2 DEF AnswerAgrees, Asked
      <4> QED
        BY <4>3, <4>4
    <3>4. CASE EventShown(r)
      BY <3>4 DEF EventShown, ReadsHold, AnswerAgrees, Asked
    <3>5. CASE FeaturedGoesOn(r)
      <4>1. pc'[r] = "featuredOngoing" => Upcoming = {}
        BY <3>5 DEF FeaturedGoesOn
      <4>2. pc'[r] = "error" => Upcoming = {} /\ Ongoing = {}
        BY <1>2, <3>5 DEF FeaturedGoesOn, ReadsHold
      <4>3. Upcoming' = Upcoming /\ Ongoing' = Ongoing
        BY <3>a DEF Upcoming, Ongoing, OnHomepage, Published, EventIsStored
      <4>4. ReadsHold(r)'
        BY <3>5, <4>1, <4>3 DEF FeaturedGoesOn, ReadsHold
      <4>5. AnswerAgrees(r)'
        BY <3>5, <4>2, <4>3 DEF FeaturedGoesOn, AnswerAgrees, Asked
      <4> QED
        BY <4>4, <4>5
    <3>6. CASE StatsCame(r)
      BY <3>6, <3>a DEF StatsCame, ReadsHold, AnswerAgrees, CountsOf, OfCompany
    <3>7. CASE StatsEnd(r)
      <4>1. pc[r] = "statsCompany" /\ pc'[r] = "ok" /\ local'[r].op = "companyStats"
            /\ local'[r].counts = local[r].counts
            /\ local'[r].total = Cardinality({e \in Events : Live(e) /\ events[e].company = local[r].company})
        BY <3>7 DEF StatsEnd
      <4>2. PICK c \in Companies : c = local[r].company
        BY <4>1 DEF EventsKnown, ReadShape, ReadAt
      <4>3. local[r].counts = CountsOf(c)
        BY <1>2, <4>1, <4>2 DEF ReadsHold
      <4>4. SumOf(CountsOf(c), DOMAIN CountsOf(c)) = Cardinality({e \in Events : Live(e) /\ events[e].company = c})
        BY StatusesSum DEF EventsKnown
      <4>5. local'[r].total = SumOf(local'[r].counts, DOMAIN local'[r].counts)
        BY <4>1, <4>2, <4>3, <4>4
      <4> QED
        BY <4>1, <4>5 DEF ReadsHold, AnswerAgrees, Asked
    <3>8. CASE ReadElse(r)
      BY <1>1, <3>8 DEF ReadElse, ReadsHold, AnswerAgrees, Asked
    <3> QED
      BY <2>2, <3>1, <3>2, <3>3, <3>4, <3>5, <3>6, <3>7, <3>8 DEF ReadEffect
  <2> QED
    BY <2>1, <2>2
<1> QED
  BY <1>3, <1>4, <1>5


(***************************************************************************)
(* The invariant of the events.                                             *)
(***************************************************************************)
EventsInv ==
    /\ EventsKnown /\ OneSlugEach /\ SettledIsLive /\ SlugsFresh /\ StatusInv /\ EventsSerial

\* What was stored before the behaviour starts.
LEMMA EventsPlaced ==
  ASSUME EventInit
  PROVE  /\ events \in [Events -> EventDoc] /\ InOrder
         /\ \A e \in Events : EventIsStored(e) <=> e \in EarlierEvents
         /\ \A e \in EarlierEvents : events[e] = PlacedEvent[e] /\ Explained(events[e])
         /\ \A e \in Requests : events[e].status = "draft"
         /\ OneSlugEach
<1>1. /\ \A e \in EarlierEvents : e \in Events /\ events[e] = PlacedEvent[e] /\ PlacedEvent[e] \in EventDoc
      /\ \A e \in Requests : e \in Events /\ events[e] = NoEvent /\ e \notin EarlierEvents
      /\ \A e \in Events : e \in EarlierEvents \/ e \in Requests
  BY EventsAssumption DEF EventInit, Events
<1>2. NoEvent \in EventDoc /\ NoEvent.company = None /\ NoEvent.status = "draft"
  BY EventRecords
<1>3. events \in [Events -> EventDoc]
  <2>1. events = [e \in Events |-> events[e]]
    BY DEF EventInit
  <2> QED
    BY <1>1, <1>2, <2>1
<1>4. \A e \in EarlierEvents : LET doc == PlacedEvent[e]
                               IN  /\ doc.company # None /\ doc.starts < doc.ends
                                   /\ NeedsReason(doc.status) => doc.explained /\ ~doc.signed
                                   /\ doc.status = "approved" => doc.signed /\ ~doc.explained
  BY PlacedAssumption
<1>5. \A e \in Events : EventIsStored(e) <=> e \in EarlierEvents
  BY <1>1, <1>2, <1>4 DEF EventIsStored
<1>6. InOrder
  BY <1>1, <1>4, <1>5 DEF InOrder
<1>7. \A e \in EarlierEvents : events[e] = PlacedEvent[e] /\ Explained(events[e])
  BY <1>1, <1>4 DEF Explained
<1>8. OneSlugEach
  <2>1. \A d, e \in EarlierEvents : d # e /\ PlacedEvent[d].slug = PlacedEvent[e].slug
                                        => PlacedEvent[d].company # PlacedEvent[e].company
    BY PlacedAssumption
  <2> QED
    BY <1>1, <1>5, <2>1 DEF OneSlugEach
<1> QED
  BY <1>1, <1>2, <1>3, <1>5, <1>6, <1>7, <1>8

\* It holds at first,
LEMMA EventsStart ==
  ASSUME HandlersInit, EventInit, TypeInit
  PROVE  EventsInv
<1>1. EventsHere /\ TypeInv
  BY HereInit, AsksInit, TypesStart DEF EventsHere
<1>2. \A r \in Requests : pc[r] = "idle" /\ local[r].op = "none" /\ before[r] = {}
  BY DEF HandlersInit, NoLocal
<1>3. \A r \in Requests : r \notin EarlierEvents /\ r \in Events
  BY EventsAssumption DEF Events
<1>4. EventShape /\ ReadShape
  BY <1>2, <1>3, EventsPlaced DEF EventShape, EventKnown, EventAt, GivingOps, ReadShape, ReadAt, Asked
<1>5. EventsKnown /\ OneSlugEach
  BY <1>1, <1>4, EventsPlaced DEF EventsKnown
<1>6. SettledIsLive
  BY EventsPlaced DEF SettledIsLive, Settled
<1>7. SlugsFresh
  BY <1>2 DEF SlugsFresh, Asked
<1>8. StatusInv
  <2>1. \A q \in Requests : \A e, S : ~Undoes(q, e, S)
    BY <1>2 DEF Undoes
  <2>2. ASSUME NEW S, "draft" \notin S
        PROVE  StatusesTraced(S)
    <3> SUFFICES ASSUME NEW e \in Events, events[e].status \in S PROVE Traced(e, S)
      BY DEF StatusesTraced
    <3>1. e \in EarlierEvents /\ PlacedEvent[e].status \in S
      BY <2>2, EventsPlaced DEF Events
    <3> QED
      BY <2>1, <3>1 DEF Traced
  <2>3. StatusesTraced({"approved"}) /\ StatusesTraced(PublicStatus)
    BY <2>2 DEF PublicStatus
  <2>4. AnswersTraced
    BY <1>2 DEF AnswersTraced, Seen, Asked
  <2>5. StatusesExplained /\ NothingStored
    BY EventsPlaced DEF StatusesExplained, NothingStored, Events
  <2> QED
    BY <2>3, <2>4, <2>5 DEF StatusInv
<1>9. EventsSerial
  BY <1>2, EventsPlaced DEF EventsSerial, ReadsHold, AnswerAgrees
<1> QED
  BY <1>5, <1>6, <1>7, <1>8, <1>9 DEF EventsInv

\* every step of the requests keeps it,
LEMMA EventsNext ==
  ASSUME EventsInv, EventsHere', NEW r \in Requests,
         \/ (EventArrive(r) \/ EventStep(r)) /\ UNCHANGED typeVars
         \/ ReadArrive(r) \/ ReadStep(r) \/ InsertSystemTypes(r)
         \/ TypeArrive(r) \/ TypeStep(r)
         \/ Fails(r) /\ UNCHANGED <<events, typeVars>>
  PROVE  EventsInv'
<1>1. EventsKnown
  BY DEF EventsInv
<1>2. EventsEffect(r)
  BY <1>1, EventsEffects DEF EventsKnown
<1>3. EventEffect(r) /\ TypeInv'
  BY <1>2 DEF EventsEffect
<1>4. \A q \in Requests : "op" \in DOMAIN local[q]
  BY <1>1 DEF EventsKnown, EventsHere, AsksOnly
<1>5. events' \in [Events -> EventDoc] /\ EventShape'
  BY <1>1, <1>3, <1>4, EventWrites, EventKeepsShape DEF EventsKnown
<1>6. ReadShape'
  BY <1>1, <1>2, ReadsKeepShape DEF EventsKnown
<1>7. EventsKnown'
  BY <1>3, <1>5, <1>6 DEF EventsKnown
<1>8. OneSlugEach' /\ SettledIsLive' /\ SlugsFresh'
  BY <1>1, <1>3, SlugsKeep DEF EventsInv
<1>9. StatusInv'
  BY <1>1, <1>2, StatusStays DEF EventsInv
<1>10. EventsSerial'
  <2>1. Here(EventScopeLabels)'
    BY DEF EventsHere
  <2> QED
    BY <1>1, <1>2, <2>1, SerialStays DEF EventsInv
<1> QED
  BY <1>7, <1>8, <1>9, <1>10 DEF EventsInv

\* and so does a step of nothing.
LEMMA EventsStutter ==
  ASSUME EventsInv, UNCHANGED <<events, typeVars, handlerVars>>
  PROVE  EventsInv'
<1>1. /\ events' = events /\ pc' = pc /\ local' = local /\ before' = before
      /\ types' = types /\ issued' = issued
  BY DEF typeVars, handlerVars
<1>2. EventsKnown'
  <2>1. EventsHere'
    BY <1>1 DEF EventsInv, EventsKnown, EventsHere, Here, AsksOnly, Asked
  <2>2. EventShape'
    BY <1>1 DEF EventsInv, EventsKnown, EventShape, EventKnown, EventAt, Asked, EventIsStored
  <2>3. ReadShape'
    BY <1>1 DEF EventsInv, EventsKnown, ReadShape, ReadAt, Asked
  <2>4. TypeInv'
    BY <1>1, TypesStutter DEF EventsInv, EventsKnown, TypeInv, handlerVars
  <2> QED
    BY <1>1, <2>1, <2>2, <2>3, <2>4 DEF EventsInv, EventsKnown
<1>3. (\A e \in Events : SlugKept(e)' <=> SlugKept(e)) /\ (\A e \in Events : EventIsStored(e)' <=> EventIsStored(e))
  BY <1>1 DEF SlugKept, Asked, EventIsStored
<1>4. OneSlugEach' /\ SettledIsLive'
  BY <1>1, <1>3 DEF EventsInv, OneSlugEach, SettledIsLive, Settled
<1>5. SlugsFresh'
  BY <1>1, <1>3 DEF EventsInv, SlugsFresh, Asked, SlugOf, Settled, Events
<1>6. StatusInv'
  <2>1. \A e, S : /\ \A q \in Requests : (Gives(q, e, S)' <=> Gives(q, e, S)) /\ (Undoes(q, e, S)' <=> Undoes(q, e, S))
    BY <1>1 DEF Gives, Undoes, Asked
  <2>2. \A e, S : Traced(e, S)' <=> Traced(e, S)
    BY <1>1, <2>1 DEF Traced
  <2>3. \A e, S : \A r \in Requests : TracedFor(e, r, S)' <=> TracedFor(e, r, S)
    <3>1. \A r \in Requests : before[r] \subseteq Requests
      BY DEF EventsInv, EventsKnown, EventsHere, Here
    <3> QED
      BY <1>1, <2>1, <3>1 DEF TracedFor
  <2>4. StatusesTraced({"approved"})' /\ StatusesTraced(PublicStatus)'
    BY <1>1, <2>2 DEF EventsInv, StatusInv, StatusesTraced
  <2>5. AnswersTraced'
    BY <1>1, <2>3 DEF EventsInv, StatusInv, AnswersTraced, Seen, Asked
  <2>6. StatusesExplained' /\ NothingStored'
    BY <1>1, <1>3 DEF EventsInv, StatusInv, StatusesExplained, StatusesAsked, Asked, NothingStored
  <2> QED
    BY <2>4, <2>5, <2>6 DEF StatusInv
<1>7. EventsSerial'
  <2>1. (\A l : Matching(l)' = Matching(l)) /\ (\A c : CountsOf(c)' = CountsOf(c))
        /\ Upcoming' = Upcoming /\ Ongoing' = Ongoing
    BY <1>1 DEF Matching, CountsOf, OfCompany, Upcoming, Ongoing, OnHomepage, Published, EventIsStored
  <2>2. ASSUME NEW r \in Requests, ReadsHold(r) PROVE ReadsHold(r)'
    BY <1>1, <2>1, <2>2 DEF ReadsHold
  <2>3. ASSUME NEW r \in Requests, AnswerAgrees(r) PROVE AnswerAgrees(r)'
    BY <1>1, <2>1, <2>3 DEF AnswerAgrees, LastOf, Asked
  <2>4. InOrder' <=> InOrder
    BY <1>1, <1>3 DEF InOrder
  <2>5. SerialSoFar' => SerialSoFar
    BY <1>1 DEF SerialSoFar
  <2> QED
    BY <2>2, <2>3, <2>4, <2>5 DEF EventsInv, EventsSerial
<1> QED
  BY <1>2, <1>4, <1>5, <1>6, <1>7 DEF EventsInv


(***************************************************************************)
(* What the faults do at the door.                                          *)
(***************************************************************************)
DoorBlocked ==
    /\ phase \in {"early", "open", "over"}
    /\ ~repaired => \A r \in Requests :
            entries[r] = None /\ ~Allowed(r) /\ pc[r] \notin {"scanUsed", "scanLog"}

\* No step of a behaviour at the door gets past them.
LEMMA DoorStaysBlocked ==
  ASSUME DoorInv, DoorBlocked, [OfficeNext]_officeVars
  PROVE  DoorBlocked'
<1> USE DEF entryVars, handlerVars
<1>0. /\ UNCHANGED <<scope, repaired>>
      /\ \/ \E r \in Requests : EntryArrive(r) \/ EntryStep(r)
         \/ \E r \in Requests : ~Asked(r, "scan") /\ Fails(r) /\ UNCHANGED entryVars
         \/ TimePasses
         \/ UNCHANGED <<entryVars, handlerVars>>
  BY DoorStep DEF DoorInv
\* Nothing but a scan may be let in.
<1>1. ASSUME NEW r \in Requests, NEW label, NEW l, ~repaired, UNCHANGED entries,
             label \notin {"scanUsed", "scanLog"}, "op" \in DOMAIN l,
             l.op = "scan" => "answer" \in DOMAIN l /\ l.answer # "allowed",
             pc' = [pc EXCEPT ![r] = label],
             local' = [local EXCEPT ![r] = IF label \in Final THEN Forget(l) ELSE l]
      PROVE  \A q \in Requests :
                entries'[q] = None /\ ~Allowed(q)' /\ pc'[q] \notin {"scanUsed", "scanLog"}
  <2> SUFFICES ASSUME NEW q \in Requests
               PROVE  entries'[q] = None /\ ~Allowed(q)' /\ pc'[q] \notin {"scanUsed", "scanLog"}
    OBVIOUS
  <2>1. CASE q # r
    <3>1. pc'[q] = pc[q] /\ local'[q] = local[q] /\ entries'[q] = entries[q]
      BY <1>1, <2>1 DEF DoorInv, AtDoor
    <3> QED
      BY <1>1, <3>1 DEF DoorBlocked, Allowed, Asked
  <2>2. CASE q = r
    <3>1. pc'[r] = label /\ entries'[r] = None
      BY <1>1 DEF DoorInv, AtDoor, DoorBlocked
    <3>2. local'[r] = IF label \in Final THEN Forget(l) ELSE l
      BY <1>1 DEF DoorInv, AtDoor
    <3>3. \A f \in DOMAIN l \ {"old", "new"} : local'[r][f] = l[f]
      <4>1. CASE label \in Final
        <5>1. local'[r] = Forget(l)
          BY <3>2, <4>1
        <5> QED
          BY <5>1, ForgetKeeps
      <4>2. CASE label \notin Final
        BY <3>2, <4>2
      <4> QED
        BY <4>1, <4>2
    <3>4. local'[r].op = l.op
      BY <1>1, <3>3
    <3>5. l.op = "scan" => local'[r].answer = l.answer
      BY <1>1, <3>3
    <3> QED
      BY <1>1, <2>2, <3>1, <3>4, <3>5 DEF Allowed, Asked
  <2> QED
    BY <2>1, <2>2
<1>2. ASSUME NEW r \in Requests, NEW label, NEW l, ~repaired, UNCHANGED entries,
             label \notin {"scanUsed", "scanLog"}, "op" \in DOMAIN l,
             l.op = "scan" => "answer" \in DOMAIN l /\ l.answer # "allowed",
             Start(r, label, l) \/ Continue(r, label, l)
      PROVE  \A q \in Requests :
                entries'[q] = None /\ ~Allowed(q)' /\ pc'[q] \notin {"scanUsed", "scanLog"}
  BY <1>1, <1>2 DEF Start, Continue
<1>3. CASE UNCHANGED <<entryVars, handlerVars>> \/ TimePasses
  BY <1>0, <1>3 DEF TimePasses, DoorBlocked, Allowed, Asked
<1>4. ASSUME NEW r \in Requests,
             EntryArrive(r) \/ EntryStep(r) \/ (~Asked(r, "scan") /\ Fails(r) /\ UNCHANGED entryVars)
      PROVE  DoorBlocked'
  <2>1. UNCHANGED <<phase, repaired>>
    BY <1>0, <1>4 DEF EntryArrive, EntryStep, UpdateAttendee, Transfer, CancelOrderTickets, GenerateQR,
       ScanArrives, EntryStats, EntryHistory, SaveTicketChange, ScanUsed, ScanLog, ScanCallFails, StatsLast
  <2> SUFFICES ASSUME ~repaired
               PROVE  \A q \in Requests :
                        entries'[q] = None /\ ~Allowed(q)' /\ pc'[q] \notin {"scanUsed", "scanLog"}
    BY <2>1 DEF DoorBlocked
  <2>a. {"ticketSave", "statsLast", "ok", "error", "failed"} \cap {"scanUsed", "scanLog"} = {}
    OBVIOUS
  <2>2. CASE UpdateAttendee(r) \/ Transfer(r)
    <3>1. UNCHANGED entries /\ \E t \in Tickets : \E new : ReadForChange(r, t, new)
      BY <2>2 DEF UpdateAttendee, Transfer
    <3> QED
      BY <1>2, <3>1 DEF ReadForChange
  <2>3. CASE CancelOrderTickets(r)
    BY <1>2, <2>3 DEF CancelOrderTickets
  <2>4. CASE GenerateQR(r)
    BY <1>2, <2>4 DEF GenerateQR
  <2>5. CASE ScanArrives(r)
    <3>1. PICK t \in Tickets \cup {None}, role \in {"admin", "staff", "other"} :
            Start(r, IF MayScan(role) THEN "ok" ELSE "error",
                     Scan(t, IF ~MayScan(role) THEN "none"
                             ELSE IF t = None THEN "invalid_signature" ELSE "invalid_ticket"))
      <4>1. PICK t \in Tickets \cup {None}, role \in {"admin", "staff", "other"} :
              Start(r, CASE ~MayScan(role) -> "error"
                         [] MayScan(role) /\ t # None /\ LeanHasToJSON -> "scanUsed"
                         [] OTHER -> "ok",
                       Scan(t, CASE ~MayScan(role) -> "none"
                                 [] MayScan(role) /\ t = None -> "invalid_signature"
                                 [] MayScan(role) /\ t # None /\ ~LeanHasToJSON -> "invalid_ticket"
                                 [] OTHER -> "none"))
        BY <2>5 DEF ScanArrives
      <4>2. ~LeanHasToJSON
        BY DEF LeanHasToJSON
      <4>3. CASE ~MayScan(role)
        BY <4>1, <4>2, <4>3
      <4>4. CASE MayScan(role) /\ t = None
        BY <4>1, <4>2, <4>4
      <4>5. CASE MayScan(role) /\ t # None
        BY <4>1, <4>2, <4>5
      <4> QED
        BY <4>3, <4>4, <4>5
    <3> DEFINE answer == IF ~MayScan(role) THEN "none"
                         ELSE IF t = None THEN "invalid_signature" ELSE "invalid_ticket"
    <3>2. UNCHANGED entries
      BY <2>5 DEF ScanArrives, entryVars
    <3>3. /\ "op" \in DOMAIN Scan(t, answer) /\ "answer" \in DOMAIN Scan(t, answer)
          /\ Scan(t, answer).answer # "allowed"
      BY DEF Scan
    <3>4. (IF MayScan(role) THEN "ok" ELSE "error") \notin {"scanUsed", "scanLog"}
      OBVIOUS
    <3>5. Start(r, IF MayScan(role) THEN "ok" ELSE "error", Scan(t, answer))
      BY <3>1
    <3> HIDE DEF answer
    <3> QED
      BY <1>2, <3>2, <3>3, <3>4, <3>5
  <2>6. CASE EntryStats(r)
    BY <1>2, <2>6 DEF EntryStats
  <2>7. CASE EntryHistory(r)
    BY <1>2, <2>7 DEF EntryHistory
  <2>8. CASE SaveTicketChange(r) \/ StatsLast(r)
    <3>1. /\ "op" \in DOMAIN local[r] /\ local[r].op # "scan" /\ UNCHANGED entries
      BY <2>8 DEF DoorInv, AtDoor, ChangeInv, StatsInv, Asked, SaveTicketChange, StatsLast
    <3>2. \E label \in {"ok", "failed"} : Continue(r, label, local[r])
      BY <2>8 DEF SaveTicketChange, StatsLast, Ends, Goto
    <3> QED
      BY <1>2, <3>1, <3>2
  <2>9. CASE ScanUsed(r) \/ ScanLog(r) \/ ScanCallFails(r)
    BY <2>9 DEF ScanUsed, ScanLog, ScanCallFails, DoorBlocked
  <2>10. CASE ~Asked(r, "scan") /\ Fails(r) /\ UNCHANGED entryVars
    <3>1. "op" \in DOMAIN local[r] /\ local[r].op # "scan"
      BY <2>10 DEF DoorInv, AtDoor, Asked
    <3> QED
      BY <1>2, <2>10, <3>1 DEF Fails, Goto
  <2> QED
    BY <1>4, <2>2, <2>3, <2>4, <2>5, <2>6, <2>7, <2>8, <2>9, <2>10 DEF EntryArrive, EntryStep
<1> QED
  BY <1>0, <1>3, <1>4

\* Which requests at the door are in flight.
LEMMA ChangesInFlight ==
  ASSUME DoorInv, NEW r \in Requests, InFlight(r), Asked(r, "change")
  PROVE  local[r].old \in TicketDoc /\ local[r].new \in TicketDoc
<1>1. pc[r] \in {"ticketSave", "scanUsed", "scanLog", "statsLast"}
  BY InFlightKnown
<1> QED
  BY <1>1 DEF DoorInv, ChangeInv, ScanInv, StatsInv, Asked

(***************************************************************************)
(* What nobody asks for stays as it was before the behaviour.               *)
(***************************************************************************)
NobodyAsks(Ops) == \A r \in Requests : local[r].op \notin Ops

\* The events.
LEMMA QuietEvents ==
  ASSUME EventInit, NobodyAsks(EventOps \cup ReadOps)
  PROVE  EventTypeOK /\ StatusIsTraced /\ SlugsResolve /\ SerialReadsAgree /\ InOrder
<1> USE DEF NobodyAsks, EventOps, ReadOps
<1>1. EventTypeOK /\ InOrder
  BY EventsPlaced DEF EventTypeOK
<1>2. PublicationIsTraced
  <2>1. \A e \in Events : EventIsStored(e) => Explained(events[e])
    BY EventsPlaced
  <2> QED
    BY <2>1 DEF PublicationIsTraced, Explained, Asked
<1>3. \A q \in Requests : Seen(q) = {}
  BY DEF Seen, Asked
<1>4. StatusIsTraced
  BY <1>2, <1>3 DEF StatusIsTraced, SeenWasPublic
<1>5. SlugsResolve
  <2>1. \A r \in Requests : ~Asked(r, "createEvent")
    BY DEF Asked
  <2>2. OneSlugEach
    BY EventsPlaced
  <2> QED
    BY <2>1, <2>2 DEF SlugsResolve, OneSlugEach
<1>6. SerialReadsAgree
  BY DEF SerialReadsAgree, Asked
<1> QED
  BY <1>1, <1>4, <1>5, <1>6

\* The ticket types.
LEMMA QuietTypes ==
  ASSUME EventInit, TypeInit, NobodyAsks({"createEvent", "chooseType"})
  PROVE  TypesTypeOK /\ EventsHaveTypes
<1>1. /\ \A t \in Types : types[t] = IF t \in EarlierTypes THEN TypeOf(TypeEvent[t], FALSE) ELSE NoType
      /\ types = [t \in Types |-> types[t]]
  BY DEF TypeInit
<1>2. \A t \in EarlierTypes : TypeEvent[t] \in Events /\ TypeEvent[t] \in EarlierEvents
  BY TypesAssumption DEF Events
<1>3. /\ \A t \in EarlierTypes : /\ TypeOf(TypeEvent[t], FALSE) \in TypeDoc
                                 /\ TypeOf(TypeEvent[t], FALSE).event = TypeEvent[t]
      /\ NoType \in TypeDoc /\ NoType.event = None
  BY <1>2, TypeNames
<1>4. types \in [Types -> TypeDoc]
  BY <1>1, <1>3
<1>5. \A t \in Types : TypeIsStored(t) => EventIsStored(types[t].event)
  <2>1. \A e \in EarlierEvents : EventIsStored(e)
    BY EventsPlaced DEF Events
  <2> QED
    BY <1>1, <1>2, <1>3, <2>1 DEF TypeIsStored
<1>6. issued \subseteq Types
  BY DEF TypeInit
<1> QED
  BY <1>4, <1>5, <1>6 DEF TypesTypeOK, EventsHaveTypes, NobodyAsks, Asked

\* The certificate templates, as long as their files are there.
LEMMA QuietTemplates ==
  ASSUME CertificateInit, EarlierFiles \subseteq files
  PROVE  /\ CertificateTypeOK /\ TemplateFilesExist /\ SerialTemplatesAreExclusive
         /\ \A r \in Requests : ~TemplateIsStored(r)
<1>1. TemplateFilesExist
  BY TemplatesStart, TemplatesAssumption DEF TemplateFilesExist, Templates
<1>2. ASSUME NEW j \in Templates, NEW k \in Templates, j # k, templates[j].event = templates[k].event
      PROVE  templates[j].types \cap templates[k].types = {}
  <2>1. CASE templates[j].event = None
    <3>1. j \in Requests
      BY <2>1, TemplatesStart DEF Templates, TemplateIsStored
    <3>2. templates[j].types = {}
      BY <3>1, TemplatesStart, TemplateRecords
    <3> QED
      BY <3>2
  <2>2. CASE templates[j].event # None
    <3>1. j \in EarlierTemplates /\ k \in EarlierTemplates
      BY <1>2, <2>2, TemplatesStart DEF Templates, TemplateIsStored
    <3> QED
      BY <1>2, <3>1, TemplatesStart, TemplatesAssumption
  <2> QED
    BY <2>1, <2>2
<1>3. SerialTemplatesAreExclusive
  BY <1>2 DEF SerialTemplatesAreExclusive
<1> QED
  BY <1>1, <1>3, TemplatesStart DEF CertificateTypeOK

\* The documents.
LEMMA QuietDocuments ==
  ASSUME DocumentInit, NobodyAsks({"review"})
  PROVE  DocumentTypeOK /\ SubmissionFilesExist /\ VerdictsStand
<1>1. \A s \in Requests : submissions[s] = NoSubmission
  BY DEF DocumentInit
<1>2. NoSubmission \in SubmissionDoc /\ NoSubmission.status = "pending"
  BY DEF NoSubmission, SubmissionDoc, Verdicts
<1>3. DocumentTypeOK
  BY <1>2 DEF DocumentTypeOK, DocumentInit, RequirementDoc, NoRequirement
<1>4. SubmissionFilesExist
  BY <1>1 DEF SubmissionFilesExist, Submitted, NoSubmission
<1>5. VerdictsStand
  <2>1. \A r \in Requests : ~Asked(r, "review")
    BY DEF NobodyAsks, Asked
  <2>2. \A s : {r \in Requests : /\ Asked(r, "review") /\ local[r].document = s
                                 /\ pc[r] # "error"} = {}
    BY <2>1
  <2>3. LastOf({}) = {}
    BY DEF LastOf
  <2> QED
    BY <1>1, <1>2, <2>2, <2>3 DEF VerdictsStand
<1> QED
  BY <1>3, <1>4, <1>5

\* The speakers.
LEMMA QuietRoster ==
  ASSUME RosterInit, NobodyAsks({"syncSpeakers"})
  PROVE  RosterTypeOK /\ RosterIsTheList
<1>1. RosterTypeOK
  BY DEF RosterTypeOK, RosterInit
<1>2. \A s \in EventSpeakers \ EarlierSpeakers : ~Active(s)
  BY ActiveMeans DEF RosterInit
<1>3. {r \in Requests : Asked(r, "syncSpeakers")} = {}
  BY DEF NobodyAsks, Asked
<1>4. LastOf({}) = {}
  BY DEF LastOf
<1> QED
  BY <1>1, <1>2, <1>3, <1>4 DEF RosterIsTheList

\* The door.
LEMMA QuietDoor ==
  ASSUME EntryInit, NobodyAsks({"scan"})
  PROVE  EntryTypeOK /\ \A r \in Requests : entries[r] = None /\ ~Allowed(r)
<1>1. NewTicket \in TicketDoc
  BY DEF NewTicket, TicketDoc
<1> QED
  BY <1>1 DEF EntryInit, EntryTypeOK, Allowed, Asked, NobodyAsks

\* The stand.
LEMMA QuietStand ==
  ASSUME StandInit, NobodyAsks({"visit"})
  PROVE  StandTypeOK /\ VisitsAreCounted
<1>1. \A v \in Visitors : \A S : Scans(v, S) = {}
  BY DEF NobodyAsks, Asked, Scans
<1>2. \A v \in Visitors : VisitsOf(v) = {} /\ Visits(v) = 0
  BY NoVisitsCounted
<1>3. Cardinality({}) = 0
  BY FS_EmptySet
<1>4. VisitsAreBacked
  BY <1>1, <1>2, <1>3 DEF VisitsAreBacked
<1>5. SerialVisitsAreExact
  BY <1>1, <1>2, <1>3 DEF SerialVisitsAreExact
<1>6. StandTypeOK
  BY DEF StandInit, StandTypeOK, NoVisit, VisitDoc
<1> QED
  BY <1>4, <1>5, <1>6 DEF VisitsAreCounted

(***************************************************************************)
(* The invariant of the office: that of the scope the requests are about,   *)
(* and what they leave as it was.                                           *)
(***************************************************************************)
ScopeInv ==
    /\ scope = "events" => EventsInv
    /\ scope = "catalog" => CatalogInv
    /\ scope = "documents" => DocumentInv /\ EarlierFiles \subseteq files
    /\ scope = "roster" => RosterInv
    /\ scope = "door" => DoorInv /\ DoorBlocked
    /\ scope = "stand" => StandInv

OfficeInv == Untouched /\ OfficeHere /\ ScopeInv

\* It holds at first,
LEMMA OfficeStarts == OfficeInit => OfficeInv
<1> SUFFICES ASSUME OfficeInit PROVE OfficeInv
  OBVIOUS
<1>1. Untouched /\ OfficeHere
  BY UntouchedInit, OfficeHereInit
<1>2. /\ HandlersInit /\ EventInit /\ TypeInit /\ CertificateInit /\ StorageInit
      /\ DocumentInit /\ RosterInit /\ EntryInit /\ StandInit
  BY DEF OfficeInit
<1>3. EventsInv /\ CatalogInv /\ DocumentInv /\ RosterInv /\ StandInv
  BY <1>2, EventsStart, CatalogStarts, DocumentStarts, RosterStarts, StandStarts
<1>4. EarlierFiles \subseteq files
  BY <1>2 DEF StorageInit
<1>5. scope = "door" => DoorInv
  BY DoorInit
<1>6. DoorBlocked
  BY <1>2 DEF DoorBlocked, EntryInit, HandlersInit, NoLocal, Allowed, Asked
<1> QED
  BY <1>1, <1>3, <1>4, <1>5, <1>6 DEF OfficeInv, ScopeInv

\* and every step keeps it: in each scope its handlers do, and the rest is
\* as it was.
LEMMA OfficeStays ==
  ASSUME OfficeInv, [OfficeNext]_officeVars
  PROVE  OfficeInv'
<1> USE DEF fixedVars, dayVars, paperVars, catalogVars, officeVars
<1>0. Untouched /\ OfficeHere /\ ScopeInv /\ scope \in Scopes /\ Here(LabelsOf(scope))
  BY DEF OfficeInv, OfficeHere
<1>1. Untouched' /\ OfficeHere'
  BY <1>0, UntouchedStays, OfficeHereStays
<1>2. ScopeStep
  BY <1>0, NextIsScoped DEF ScopeStep
<1>3. scope' = scope /\ repaired' = repaired
  BY <1>2 DEF ScopeStep
<1>4. CASE scope = "events"
  <2>1. EventsHere'
    BY <1>1, <1>3, <1>4 DEF OfficeHere, LabelsOf, OpsOf, EventsHere, EventScopeOps
  <2>2. EventsInv
    BY <1>0, <1>4 DEF ScopeInv
  <2>3. \/ \E r \in Requests : \/ (EventArrive(r) \/ EventStep(r)) /\ UNCHANGED typeVars
                               \/ ReadArrive(r) \/ ReadStep(r) \/ InsertSystemTypes(r)
                               \/ TypeArrive(r) \/ TypeStep(r)
                               \/ Fails(r) /\ UNCHANGED <<events, typeVars>>
        \/ UNCHANGED officeVars
    BY <1>2, <1>4 DEF ScopeStep
  <2>4. ASSUME UNCHANGED officeVars
        PROVE  EventsInv'
    BY <2>2, <2>4, EventsStutter DEF typeVars
  <2>5. ASSUME NEW r \in Requests,
               \/ (EventArrive(r) \/ EventStep(r)) /\ UNCHANGED typeVars
               \/ ReadArrive(r) \/ ReadStep(r) \/ InsertSystemTypes(r)
               \/ TypeArrive(r) \/ TypeStep(r)
               \/ Fails(r) /\ UNCHANGED <<events, typeVars>>
        PROVE  EventsInv'
    BY <2>1, <2>2, <2>5, EventsNext
  <2> QED
    BY <1>1, <1>3, <1>4, <2>3, <2>4, <2>5 DEF ScopeInv, OfficeInv
<1>5. CASE scope = "catalog"
  <2>1. Here(CatalogLabels)' /\ AsksOnly(TypeOps \cup CertificateOps)'
    BY <1>1, <1>3, <1>5 DEF OfficeHere, LabelsOf, OpsOf
  <2>2. CatalogInv
    BY <1>0, <1>5 DEF ScopeInv
  <2>3. \/ \E r \in Requests : \/ (TypeArrive(r) \/ TypeStep(r)) /\ UNCHANGED <<templates, files>>
                               \/ CertificateArrive(r) \/ CertificateStep(r)
                               \/ Fails(r) /\ UNCHANGED certificateVars
        \/ (\E t \in EarlierTypes : IssueTicket(t)) /\ UNCHANGED <<templates, files, events>>
        \/ UNCHANGED officeVars
    BY <1>2, <1>5 DEF ScopeStep
  <2>4. ASSUME UNCHANGED officeVars
        PROVE  CatalogInv'
    <3>1. issued' \subseteq Types
      BY <2>2, <2>4 DEF CatalogInv, CertificateInv, TypeInv
    <3> QED
      BY <2>2, <2>4, <3>1, CatalogStutters
  <2>5. ASSUME NEW t \in EarlierTypes, IssueTicket(t), UNCHANGED <<templates, files, events>>
        PROVE  CatalogInv'
    <3>1. issued \subseteq Types /\ t \in Types
      BY <2>2 DEF CatalogInv, CertificateInv, TypeInv, Types
    <3>2. issued' \subseteq Types /\ UNCHANGED <<types, handlerVars>>
      BY <2>5, <3>1 DEF IssueTicket
    <3> QED
      BY <1>3, <2>2, <2>5, <3>2, CatalogStutters
  <2>6. ASSUME NEW r \in Requests,
               \/ (TypeArrive(r) \/ TypeStep(r)) /\ UNCHANGED <<templates, files>>
               \/ CertificateArrive(r) \/ CertificateStep(r)
               \/ Fails(r) /\ UNCHANGED certificateVars
        PROVE  CatalogInv'
    <3>1. TemplateEffect(r)
      BY <1>3, <2>2, <2>6, CatalogEffects
    <3> QED
      BY <2>1, <2>2, <3>1, CatalogNext
  <2> QED
    BY <1>1, <1>3, <1>5, <2>3, <2>4, <2>5, <2>6 DEF ScopeInv, OfficeInv
<1>6. CASE scope = "documents"
  <2>1. DocumentInv /\ EarlierFiles \subseteq files
    BY <1>0, <1>6 DEF ScopeInv
  <2>2. \/ \E r \in Requests : \/ DocumentArrive(r) \/ DocumentStep(r)
                               \/ Fails(r) /\ UNCHANGED documentVars
        \/ UNCHANGED officeVars
    BY <1>2, <1>6 DEF ScopeStep
  <2>3. ASSUME UNCHANGED officeVars
        PROVE  DocumentInv' /\ EarlierFiles \subseteq files'
    BY <2>1, <2>3, DocumentStutters DEF documentVars
  <2>4. ASSUME NEW r \in Requests,
               \/ DocumentArrive(r) \/ DocumentStep(r)
               \/ Fails(r) /\ UNCHANGED documentVars
        PROVE  DocumentInv' /\ EarlierFiles \subseteq files'
    BY <2>1, <2>4, DocumentNext, DocumentEffects, DocumentsStay
  <2> QED
    BY <1>1, <1>3, <1>6, <2>1, <2>2, <2>3, <2>4 DEF ScopeInv, OfficeInv
<1>7. CASE scope = "roster"
  <2>1. RosterInv
    BY <1>0, <1>7 DEF ScopeInv
  <2>2. \/ \E r \in Requests : \/ BeginSync(r) \/ RosterStep(r)
                               \/ Fails(r) /\ UNCHANGED presence
        \/ UNCHANGED officeVars
    BY <1>2, <1>7 DEF ScopeStep
  <2>3. RosterInv'
    BY <2>1, <2>2, RosterNext, RosterStutters
  <2> QED
    BY <1>1, <1>3, <1>7, <2>3 DEF ScopeInv, OfficeInv
<1>8. CASE scope = "door"
  <2>1. DoorInv /\ DoorBlocked
    BY <1>0, <1>8 DEF ScopeInv
  <2>2. DoorInv' /\ DoorBlocked'
    BY <2>1, DoorNext, DoorStaysBlocked
  <2> QED
    BY <1>1, <1>3, <1>8, <2>2 DEF ScopeInv, OfficeInv
<1>9. CASE scope = "stand"
  <2>1. StandInv
    BY <1>0, <1>9 DEF ScopeInv
  <2>2. \/ \E r \in Requests : \/ StandArrive(r) \/ StandStep(r)
                               \/ Fails(r) /\ UNCHANGED visit
        \/ UNCHANGED officeVars
    BY <1>2, <1>9 DEF ScopeStep
  <2>3. StandInv'
    BY <2>1, <2>2, StandNext, StandStutters
  <2> QED
    BY <1>1, <1>3, <1>9, <2>3 DEF ScopeInv, OfficeInv
<1> QED
  BY <1>0, <1>4, <1>5, <1>6, <1>7, <1>8, <1>9 DEF Scopes

\* The invariant of every behaviour of the office, whatever its requests are
\* about and however their calls interleave and fail.
THEOREM OfficeInvariance == OfficeSpec => []OfficeInv
<1>1. OfficeInit => OfficeInv
  BY OfficeStarts
<1>2. OfficeInv /\ [OfficeNext]_officeVars => OfficeInv'
  BY OfficeStays
<1> QED
  BY <1>1, <1>2, PTL DEF OfficeSpec

(***************************************************************************)
(* What the invariant says of each collection, in every scope.              *)
(***************************************************************************)
\* Nobody asks what belongs to another scope.
LEMMA NobodyElse ==
  ASSUME OfficeInv
  PROVE  /\ scope \in {"events", "catalog", "documents", "roster", "door", "stand"}
         /\ scope # "events" => NobodyAsks(EventOps \cup ReadOps)
         /\ scope \notin {"events", "catalog"} => NobodyAsks({"createEvent", "chooseType"})
         /\ scope # "catalog" => NobodyAsks(TemplateOps)
         /\ scope # "documents" => NobodyAsks({"review"})
         /\ scope # "roster" => NobodyAsks({"syncSpeakers"})
         /\ scope # "door" => NobodyAsks({"scan", "change"})
         /\ scope # "stand" => NobodyAsks({"visit"})
<1>1. scope \in {"events", "catalog", "documents", "roster", "door", "stand"}
  BY DEF OfficeInv, OfficeHere, Scopes
<1>2. \A r \in Requests : local[r].op \in OpsOf(scope) \cup {"none"}
  BY DEF OfficeInv, OfficeHere, AsksOnly
<1> USE DEF NobodyAsks, EventOps, ReadOps, TypeOps, CertificateOps, DocumentOps, RosterOps, EntryOps,
            StandOps, TemplateOps
<1>3. CASE scope = "events"
  BY <1>2, <1>3 DEF OpsOf
<1>4. CASE scope = "catalog"
  BY <1>2, <1>4 DEF OpsOf
<1>5. CASE scope = "documents"
  BY <1>2, <1>5 DEF OpsOf
<1>6. CASE scope = "roster"
  BY <1>2, <1>6 DEF OpsOf
<1>7. CASE scope = "door"
  BY <1>2, <1>7 DEF OpsOf
<1>8. CASE scope = "stand"
  BY <1>2, <1>8 DEF OpsOf
<1> QED
  BY <1>1, <1>3, <1>4, <1>5, <1>6, <1>7, <1>8

\* Of the events,
LEMMA EventsAreRight ==
  ASSUME OfficeInv
  PROVE  EventTypeOK /\ StatusIsTraced /\ SlugsResolve /\ SerialReadsAgree /\ (Serial => InOrder)
<1>1. CASE scope # "events"
  <2>1. EventInit
    BY <1>1 DEF OfficeInv, Untouched
  <2> QED
    BY <1>1, <2>1, NobodyElse, QuietEvents
<1>2. CASE scope = "events"
  <2>1. EventsInv
    BY <1>2 DEF OfficeInv, ScopeInv
  <2>2. EventsKnown /\ StatusInv /\ OneSlugEach /\ SlugsFresh /\ EventsSerial
    BY <2>1 DEF EventsInv
  <2>3. StatusIsTraced /\ SlugsResolve
    BY <2>2, StatusesAreTraced, SlugsAreRight
  <2>4. EventTypeOK
    BY <2>2 DEF EventsKnown, EventTypeOK
  <2>5. Serial => InOrder /\ \A r \in Requests : AnswerAgrees(r)
    BY <2>2, SerialIsSoFar DEF EventsSerial
  <2>6. SerialReadsAgree
    BY <2>5 DEF SerialReadsAgree, AnswerAgrees, PageOf, SumOf
  <2> QED
    BY <2>3, <2>4, <2>5, <2>6
<1> QED
  BY <1>1, <1>2

\* of their ticket types,
LEMMA TypesRight ==
  ASSUME OfficeInv
  PROVE  TypesTypeOK /\ EventsHaveTypes
<1>1. CASE scope = "events"
  <2>1. TypeInv
    BY <1>1 DEF OfficeInv, ScopeInv, EventsInv, EventsKnown
  <2> QED
    BY <2>1, TypesAreRight
<1>2. CASE scope = "catalog"
  <2>1. CatalogInv
    BY <1>2 DEF OfficeInv, ScopeInv
  <2> QED
    BY <2>1, CatalogIsRight
<1>3. CASE scope \notin {"events", "catalog"}
  <2>1. EventInit /\ TypeInit
    BY <1>3 DEF OfficeInv, Untouched
  <2> QED
    BY <1>3, <2>1, NobodyElse, QuietTypes
<1> QED
  BY <1>1, <1>2, <1>3

\* of the certificates and the documents, and their files,
LEMMA PapersRight ==
  ASSUME OfficeInv
  PROVE  /\ CertificateTypeOK /\ TemplateFilesExist /\ SerialTemplatesAreExclusive
         /\ StorageTypeOK /\ DocumentTypeOK /\ SubmissionFilesExist /\ VerdictsStand
         /\ ~repaired => \A r \in Requests : ~TemplateIsStored(r)
         /\ \A r \in Requests : InFlight(r) /\ local[r].op \in TemplateOps =>
                {local[r].old, local[r].new} \subseteq TemplateDoc
<1>1. CASE scope = "catalog"
  <2>1. CatalogInv /\ DocumentInit
    BY <1>1 DEF OfficeInv, ScopeInv, Untouched
  <2>2. NobodyAsks({"review"})
    BY <1>1, NobodyElse
  <2> QED
    BY <2>1, <2>2, CatalogIsRight, QuietDocuments
<1>2. CASE scope # "catalog"
  <2>1. CertificateInit /\ NobodyAsks(TemplateOps)
    BY <1>2, NobodyElse DEF OfficeInv, Untouched
  <2>2. /\ EarlierFiles \subseteq files /\ StorageTypeOK
        /\ DocumentTypeOK /\ SubmissionFilesExist /\ VerdictsStand
    <3>1. CASE scope = "documents"
      BY <3>1, DocumentsAreRight DEF OfficeInv, ScopeInv
    <3>2. CASE scope # "documents"
      <4>1. StorageInit /\ DocumentInit
        BY <1>2, <3>2 DEF OfficeInv, Untouched
      <4>2. NobodyAsks({"review"})
        BY <3>2, NobodyElse
      <4> QED
        BY <4>1, <4>2, QuietDocuments DEF StorageInit, StorageTypeOK
    <3> QED
      BY <3>1, <3>2
  <2> QED
    BY <2>1, <2>2, QuietTemplates DEF NobodyAsks
<1> QED
  BY <1>1, <1>2

\* and of the speakers, the door and the stand.
LEMMA DayRight ==
  ASSUME OfficeInv
  PROVE  /\ RosterTypeOK /\ RosterIsTheList /\ EntryTypeOK /\ StandTypeOK /\ VisitsAreCounted
         /\ ~repaired => \A r \in Requests : entries[r] = None /\ ~Allowed(r)
         /\ \A r \in Requests : InFlight(r) =>
                /\ Asked(r, "change") => {local[r].old, local[r].new} \subseteq TicketDoc
                /\ Asked(r, "visit") => {local[r].old, local[r].new} \subseteq VisitDoc
<1>1. RosterTypeOK /\ RosterIsTheList
  <2>1. CASE scope = "roster"
    BY <2>1, RosterIsRight DEF OfficeInv, ScopeInv
  <2>2. CASE scope # "roster"
    <3>1. RosterInit /\ NobodyAsks({"syncSpeakers"})
      BY <2>2, NobodyElse DEF OfficeInv, Untouched
    <3> QED
      BY <3>1, QuietRoster
  <2> QED
    BY <2>1, <2>2
<1>2. /\ EntryTypeOK
      /\ ~repaired => \A r \in Requests : entries[r] = None /\ ~Allowed(r)
      /\ \A r \in Requests : InFlight(r) /\ Asked(r, "change")
            => {local[r].old, local[r].new} \subseteq TicketDoc
  <2>1. CASE scope = "door"
    <3>1. DoorInv /\ DoorBlocked
      BY <2>1 DEF OfficeInv, ScopeInv
    <3>2. EntryTypeOK
      BY <3>1 DEF DoorInv, AtDoor, DoorBlocked, EntryTypeOK
    <3>3. \A r \in Requests : InFlight(r) /\ Asked(r, "change")
            => {local[r].old, local[r].new} \subseteq TicketDoc
      BY <3>1, ChangesInFlight
    <3> QED
      BY <3>1, <3>2, <3>3 DEF DoorBlocked
  <2>2. CASE scope # "door"
    <3>1. EntryInit /\ NobodyAsks({"scan", "change"})
      BY <2>2, NobodyElse DEF OfficeInv, Untouched
    <3>2. NobodyAsks({"scan"}) /\ \A r \in Requests : ~Asked(r, "change")
      BY <3>1 DEF NobodyAsks, Asked
    <3> QED
      BY <3>1, <3>2, QuietDoor
  <2> QED
    BY <2>1, <2>2
<1>3. /\ StandTypeOK /\ VisitsAreCounted
      /\ \A r \in Requests : InFlight(r) /\ Asked(r, "visit")
            => {local[r].old, local[r].new} \subseteq VisitDoc
  <2>1. CASE scope = "stand"
    <3>1. StandInv
      BY <2>1 DEF OfficeInv, ScopeInv
    <3>2. \A r \in Requests : InFlight(r) => pc[r] \in StandLabels
      BY <3>1 DEF StandInv, Here, InFlight
    <3>3. StandTypeOK /\ \A r \in Requests : InFlight(r) =>
            {local[r].old, local[r].new} \subseteq VisitDoc
      BY <3>1, <3>2 DEF StandInv, StandTypeOK, StandShape
    <3> QED
      BY <3>1, <3>3, StandCounts
  <2>2. CASE scope # "stand"
    <3>1. StandInit /\ NobodyAsks({"visit"})
      BY <2>2, NobodyElse DEF OfficeInv, Untouched
    <3> QED
      BY <3>1, QuietStand DEF NobodyAsks, Asked
  <2> QED
    BY <2>1, <2>2
<1> QED
  BY <1>1, <1>2, <1>3

(***************************************************************************)
(* The theorems about the office.                                           *)
(***************************************************************************)
\* Every collection holds documents of its type, and every handler that is
\* about to save one has read and will write such a document.
THEOREM OfficeTypes == OfficeSpec => []OfficeTypeOK
<1>1. ASSUME OfficeInv PROVE OfficeTypeOK
  <2> DEFINE L == EventLabels \cup ReadLabels \cup TypeLabels \cup CertificateLabels
                     \cup DocumentLabels \cup RosterLabels \cup EntryLabels \cup StandLabels
  <2>1. Here(LabelsOf(scope)) /\ scope \in Scopes /\ repaired \in BOOLEAN
    BY <1>1 DEF OfficeInv, OfficeHere, Untouched
  <2>2. LabelsOf(scope) \subseteq L
    BY <2>1 DEF LabelsOf, EventScopeLabels, CatalogLabels, Scopes
  <2> HIDE DEF L
  <2>3. HandlersTypeOK(L)
    BY <2>1, <2>2 DEF Here, HandlersTypeOK
  <2>4. /\ EventTypeOK /\ TypesTypeOK /\ CertificateTypeOK /\ StorageTypeOK
        /\ DocumentTypeOK /\ RosterTypeOK /\ EntryTypeOK /\ StandTypeOK
    BY <1>1, EventsAreRight, TypesRight, PapersRight, DayRight
  <2>5. ASSUME NEW r \in Requests, InFlight(r)
        PROVE  /\ local[r].op \in TemplateOps
                    => {local[r].old, local[r].new} \subseteq TemplateDoc
               /\ Asked(r, "change") => {local[r].old, local[r].new} \subseteq TicketDoc
               /\ Asked(r, "visit") => {local[r].old, local[r].new} \subseteq VisitDoc
    BY <1>1, <2>5, PapersRight, DayRight
  <2> QED
    BY <2>1, <2>3, <2>4, <2>5 DEF OfficeTypeOK, TemplateOps, L
<1> QED
  BY <1>1, OfficeInvariance, PTL

\* A publication rests on an approval nothing had taken back when it was asked
\* for, and a visitor is shown only what somebody had made public: however
\* approvals, rejections, submissions, updates and deletions interleave between
\* the reading of a status and the writing of the next.
THEOREM StatusTraced == OfficeSpec => []StatusIsTraced
<1>1. OfficeInv => StatusIsTraced
  BY EventsAreRight
<1> QED
  BY <1>1, OfficeInvariance, PTL

\* No company has two events of one slug, and a generated slug is that of no
\* event created before: though a slug is looked up in one call and stored in
\* another (the unique index of a company's slugs, and the counter).
THEOREM SlugsAreFound == OfficeSpec => []SlugsResolve
<1>1. OfficeInv => SlugsResolve
  BY EventsAreRight
<1> QED
  BY <1>1, OfficeInvariance, PTL

\* An event whose creation was answered has its three system types, and later
\* invitations find them, whatever else runs and whichever call fails.
THEOREM EventsKeepTypes == OfficeSpec => []EventsHaveTypes
<1>1. OfficeInv => EventsHaveTypes
  BY TypesRight
<1> QED
  BY <1>1, OfficeInvariance, PTL

\* A stored template or document has its file, unless an update that brought
\* another one was cut short, or still runs.
THEOREM FilesAreThere == OfficeSpec => []FilesExist
<1>1. OfficeInv => FilesExist
  BY PapersRight DEF FilesExist
<1> QED
  BY <1>1, OfficeInvariance, PTL

\* Requests that do not overlap leave what the last one asked for.
THEOREM LastStands == OfficeSpec => []LastRequestStands
<1>1. OfficeInv => LastRequestStands
  BY EventsAreRight, PapersRight, DayRight DEF LastRequestStands, InOrder
<1> QED
  BY <1>1, OfficeInvariance, PTL

\* Nobody's visits are counted more often than they were scanned, and those
\* of scans that do not overlap are counted exactly.
THEOREM VisitsCounted == OfficeSpec => []VisitsAreCounted
<1>1. OfficeInv => VisitsAreCounted
  BY DayRight
<1> QED
  BY <1>1, OfficeInvariance, PTL

\* At the door nobody is let in twice, in every behaviour.
THEOREM OfficeAdmitsOnce == OfficeSpec => []AdmittedOnceAndLogged
<1>1. ASSUME OfficeInv PROVE AdmittedOnceAndLogged
  <2>1. CASE scope = "door"
    BY <1>1, <2>1 DEF OfficeInv, ScopeInv, DoorInv, AdmittedOnceAndLogged
  <2>2. CASE scope # "door"
    <3>1. EntryInit
      BY <1>1, <2>2 DEF OfficeInv, Untouched
    <3>2. \A r \in Requests : entries[r] = None /\ ~Allowed(r)
      <4>1. NobodyAsks({"scan", "change"})
        BY <1>1, <2>2, NobodyElse
      <4> QED
        BY <3>1, <4>1, QuietDoor DEF NobodyAsks
    <3>3. \A r \in Requests : ~Asked(r, "entryStats")
      <4>1. \A r \in Requests : local[r].op \in OpsOf(scope) \cup {"none"}
        BY <1>1 DEF OfficeInv, OfficeHere, AsksOnly
      <4>2. "entryStats" \notin OpsOf(scope)
        BY <1>1, <2>2, NobodyElse DEF OpsOf, EventOps, ReadOps, TypeOps, CertificateOps, DocumentOps,
           RosterOps, StandOps
      <4> QED
        BY <4>1, <4>2 DEF Asked
    <3>4. \A r \in Requests : before[r] \subseteq Requests
      BY <1>1 DEF OfficeInv, OfficeHere, Here
    <3> QED
      BY <3>2, <3>3, <3>4 DEF AdmittedOnceAndLogged, EnteredOnce, AllowedIsLogged, StatsCountEntries
  <2> QED
    BY <2>1, <2>2
<1> QED
  BY <1>1, OfficeInvariance, PTL

\* No change of a ticket that was read before undoes its cancellation.
THEOREM OfficeCancelledStays == OfficeSpec => CancelledStays
<1>1. ASSUME OfficeInv, [OfficeNext]_officeVars
      PROVE  [\A t \in Tickets : ticket[t].status = "cancelled"
                => ticket'[t].status = "cancelled"]_entryVars
  <2>1. CASE scope = "door"
    <3>1. DoorInv
      BY <1>1, <2>1 DEF OfficeInv, ScopeInv
    <3> QED
      BY <1>1, <3>1, DoorNext
  <2>2. CASE scope # "door"
    <3>1. ScopeStep
      BY <1>1, NextIsScoped DEF OfficeInv, OfficeHere, ScopeStep
    <3> QED
      BY <2>2, <3>1 DEF ScopeStep, dayVars, officeVars
  <2> QED
    BY <2>1, <2>2
<1>2. OfficeInv /\ [OfficeNext]_officeVars
        => [\A t \in Tickets : ticket[t].status = "cancelled"
              => ticket'[t].status = "cancelled"]_entryVars
  BY <1>1
<1> QED
  BY <1>2, OfficeInvariance, PTL DEF OfficeSpec, CancelledStays
=============================================================================
