------------------------------- MODULE Roster -------------------------------
(***************************************************************************)
(* The speakers of one event as its participants                            *)
(* (EventParticipantsService.syncSpeakersAsParticipants).                   *)
(***************************************************************************)
EXTENDS Handlers

CONSTANTS
    EventSpeakers,   \* the speakers a list may name
    EarlierSpeakers  \* those who participate before the behaviour starts

ASSUME SpeakersAssumption ==
    /\ EarlierSpeakers \subseteq EventSpeakers /\ None \notin EventSpeakers
    /\ IsFiniteSet(EventSpeakers)

\* A participant is named by the request that creates it, None: an earlier one.
Participants == (Requests \cup {None}) \X EventSpeakers

VARIABLES presence  \* presence[d]: "none", or an EventParticipant "active" or "inactive"

ParticipantsOf(s) == {d \in Participants : d[2] = s /\ presence[d] # "none"}
Active(s) == \E d \in ParticipantsOf(s) : presence[d] = "active"

Sync(list, removed, look, save) ==
    [op |-> "syncSpeakers", list |-> list, removed |-> removed,
     look |-> look,   \* speakers still to be looked up
     save |-> save]   \* documents found, still to be saved

\* The lists are compared with the participants as read.
BeginSync(r) ==
    /\ \E list \in SUBSET EventSpeakers :
        LET current == {s \in EventSpeakers : Active(s)}
        IN  Start(r, CASE current \ list # {} -> "rosterRemove"
                       [] current = list -> "ok"
                       [] OTHER -> "rosterAdd",
                  Sync(list, current \ list, list \ current, {}))
    /\ UNCHANGED presence

\* updateMany: every participant of a removed speaker.
Cancelled(R) == UNION {ParticipantsOf(s) : s \in R}

RemoveSpeakers(r) ==
    /\ pc[r] = "rosterRemove"
    /\ presence' = [d \in Participants |->
            IF d \in Cancelled(local[r].removed) THEN "inactive" ELSE presence[d]]
    /\ \E label \in {IF local[r].look = {} THEN "ok" ELSE "rosterAdd", "failed"} : Goto(r, label)

\* Mutant: the saves are not awaited.
SavesLeft(look, save) == IF look = {} THEN "ok" ELSE "rosterAdd"

\* The added speakers are looked up and saved concurrently: in any order.
LeftAfter(look, save) == IF look \cup save = {} THEN "ok" ELSE "rosterAdd"

LookUpSpeaker(r) ==
    /\ pc[r] = "rosterAdd"
    /\ \E s \in local[r].look, d \in Participants :
        /\ IF ParticipantsOf(s) = {} THEN d = <<r, s>> ELSE d \in ParticipantsOf(s)
        /\ LET look == local[r].look \ {s}
               save == IF presence[d] = "active" THEN local[r].save
                       ELSE local[r].save \cup {d}
           IN  Continue(r, LeftAfter(look, save),
                        [local[r] EXCEPT !.look = look, !.save = save])
    /\ UNCHANGED presence

\* A participant is activated again, or created.
SaveSpeaker(r) ==
    /\ pc[r] = "rosterAdd"
    /\ \E d \in local[r].save :
        LET save == local[r].save \ {d}
        IN  /\ presence' = [presence EXCEPT ![d] = "active"]
            /\ \E label \in {LeftAfter(local[r].look, save), "failed"} :
                    Continue(r, label, [local[r] EXCEPT !.save = save])

RosterStep(r) == RemoveSpeakers(r) \/ LookUpSpeaker(r) \/ SaveSpeaker(r)
RosterLabels == {"rosterRemove", "rosterAdd"}

RosterInit ==
    presence = [d \in Participants |->
        IF d[1] = None /\ d[2] \in EarlierSpeakers THEN "active" ELSE "none"]

(***************************************************************************)
(* Properties                                                               *)
(***************************************************************************)
RosterTypeOK == presence \in [Participants -> {"none", "active", "inactive"}]

\* After lists that do not overlap, who is on the last participates, once; a
\* speaker nobody listed does not.
RosterIsTheList ==
    LET syncs == {r \in Requests : Asked(r, "syncSpeakers")}
    IN  /\ Serial => \A r \in LastOf(syncs), s \in EventSpeakers :
            Cardinality({d \in ParticipantsOf(s) : presence[d] = "active"})
                = IF s \in local[r].list THEN 1 ELSE 0
        /\ \A s \in EventSpeakers \ EarlierSpeakers :
            Active(s) => \E r \in syncs : s \in local[r].list
=============================================================================
