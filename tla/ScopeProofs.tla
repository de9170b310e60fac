----------------------------- MODULE ScopeProofs -----------------------------
(***************************************************************************)
(* Theorems about the door of Office, for any set of requests, tickets and  *)
(* users, as committed and repaired; then lemmas about Office: which steps  *)
(* there are in each scope of a behaviour, and for the stand, the           *)
(* documents, the speakers, the ticket types and the certificate templates, *)
(* an invariant, that every step keeps it, and what it says.  The events    *)
(* and the theorems about all scopes are in OfficeProofs.                   *)
(***************************************************************************)
EXTENDS Office, HandlerProofs, Sums

(***************************************************************************)
(* The door: the scans, and the changes of tickets.                         *)
(***************************************************************************)
doorVars == <<entryVars, handlerVars, fixedVars>>

DoorLabels == EntryLabels \cup Final \cup {"idle"}

(***************************************************************************)
(* The inductive invariant, part by part.                                   *)
(***************************************************************************)
\* Only the handlers of the door run.
AtDoor ==
    /\ scope = "door"
    /\ pc \in [Requests -> DoorLabels]
    /\ before \in [Requests -> SUBSET Requests]
    /\ entries \in [Requests -> Tickets \cup {None}]
    /\ ticket \in [Tickets -> TicketDoc]
    /\ DOMAIN local = Requests
    /\ \A r \in Requests : "op" \in DOMAIN local[r]

\* A request that has not arrived has left nothing, and the requests before
\* another one are over.
ArrivalInv ==
    \A r \in Requests :
        /\ pc[r] = "idle" => Asked(r, "none") /\ entries[r] = None /\ before[r] = {}
        /\ \A q \in before[r] : pc[q] \in Final

\* A scan in flight has not answered, and stored no entry.
ScanInv ==
    \A r \in Requests : pc[r] \in {"scanUsed", "scanLog"} =>
        /\ Asked(r, "scan") /\ local[r].answer = "none" /\ entries[r] = None
        /\ local[r].ticket \in Tickets

\* A scan about to be logged is of a ticket nobody let in before it arrived.
FreshInv ==
    \A r \in Requests : pc[r] = "scanLog" =>
        \A q \in before[r] : Allowed(q) => local[q].ticket # local[r].ticket

\* A count in flight is a count.
StatsInv ==
    \A r \in Requests :
        /\ pc[r] = "statsLast" => Asked(r, "entryStats")
        /\ Asked(r, "entryStats") => {"of", "total"} \subseteq DOMAIN local[r] /\ local[r].total \in Nat

\* A change in flight was read from, and leaves, an active ticket.
ChangeInv ==
    \A r \in Requests : pc[r] = "ticketSave" =>
        /\ Asked(r, "change") /\ local[r].ticket \in Tickets
        /\ local[r].old \in TicketDoc /\ local[r].new \in TicketDoc
        /\ local[r].old.status = "active" /\ local[r].new.status = "active"

DoorInv == AtDoor /\ ArrivalInv /\ ScanInv /\ FreshInv /\ StatsInv /\ ChangeInv
             /\ EnteredOnce /\ AllowedIsLogged /\ StatsCountEntries

(***************************************************************************)
(* The handlers of the other scopes make no step.                           *)
(***************************************************************************)
LEMMA OthersAreElsewhere ==
  ASSUME AtDoor, NEW r \in Requests
  PROVE  /\ ~EventStep(r) /\ ~ReadStep(r) /\ ~InsertSystemTypes(r) /\ ~TypeStep(r)
         /\ ~CertificateStep(r) /\ ~DocumentStep(r) /\ ~RosterStep(r) /\ ~StandStep(r)
<1> USE DEF AtDoor, DoorLabels, EntryLabels, Final
<1>1. ~EventStep(r)
  BY DEF EventStep, LookUpSlug, GenerateSlug, InsertEvent, CheckSlug, SetEvent,
     SaveSubmitted, SetPublished
<1>2. ~ReadStep(r)
  BY DEF ReadStep, ReadPage, CountMatching, FeaturedUpcoming, FeaturedOngoing, Featured,
     SumTypes, CountCompany
<1>3. ~InsertSystemTypes(r) /\ ~TypeStep(r)
  BY DEF InsertSystemTypes, TypeStep, InsertType, SetType, RemoveType
<1>4. ~CertificateStep(r)
  BY DEF CertificateStep, CountTypes, CheckConflict, DeleteOldFile, UploadTemplate,
     SaveTemplate, DrawCertificate
<1>5. ~DocumentStep(r)
  BY DEF DocumentStep, ResolveSponsor, UploadDocument, InsertSubmission, SaveReview
<1>6. ~RosterStep(r)
  BY DEF RosterStep, RemoveSpeakers, LookUpSpeaker, SaveSpeaker
<1>7. ~StandStep(r)
  BY DEF StandStep, FindVisit, SaveVisit
<1> QED
  BY <1>1, <1>2, <1>3, <1>4, <1>5, <1>6, <1>7

\* What a step of a behaviour at the door is.
LEMMA DoorStep ==
  ASSUME AtDoor, [OfficeNext]_officeVars
  PROVE  /\ UNCHANGED <<scope, repaired>>
         /\ \/ \E r \in Requests : EntryArrive(r) \/ EntryStep(r)
            \/ \E r \in Requests : ~Asked(r, "scan") /\ Fails(r) /\ UNCHANGED entryVars
            \/ TimePasses
            \/ UNCHANGED <<entryVars, handlerVars>>
<1> USE DEF AtDoor, Open, fixedVars, dayVars
<1>1. ASSUME NEW r \in Requests, InEvents(r) PROVE FALSE
  BY <1>1, OthersAreElsewhere DEF InEvents
<1>2. ASSUME NEW r \in Requests, InCatalog(r) PROVE FALSE
  BY <1>2, OthersAreElsewhere DEF InCatalog
<1>3. ASSUME NEW r \in Requests, InDocuments(r) \/ InRoster(r) \/ AtTheStand(r) PROVE FALSE
  BY <1>3, OthersAreElsewhere DEF InDocuments, InRoster, AtTheStand
<1>4. ASSUME NEW r \in Requests, AtTheDoor(r)
      PROVE  UNCHANGED <<scope, repaired>> /\ (EntryArrive(r) \/ EntryStep(r))
  BY <1>4 DEF AtTheDoor
<1>5. ASSUME NEW r \in Requests, OfficeCallFails(r)
      PROVE  /\ UNCHANGED <<scope, repaired>>
             /\ ~Asked(r, "scan") /\ Fails(r) /\ UNCHANGED entryVars
  BY <1>5 DEF OfficeCallFails
<1>6. ASSUME UNCHANGED officeVars
      PROVE  UNCHANGED <<scope, repaired>> /\ UNCHANGED <<entryVars, handlerVars>>
  BY <1>6 DEF officeVars
<1> QED
  BY <1>1, <1>2, <1>3, <1>4, <1>5, <1>6 DEF OfficeNext, OfficeQuiet

(***************************************************************************)
(* How one request moves.                                                   *)
(***************************************************************************)
\* What is forgotten at the end is not what the properties read.
LEMMA ForgetKeeps ==
  ASSUME NEW l
  PROVE  /\ DOMAIN Forget(l) = DOMAIN l \ {"old", "new"}
         /\ \A f \in DOMAIN l \ {"old", "new"} : Forget(l)[f] = l[f]
BY DEF Forget

\* r goes on at `label`, as l; the other requests stay as they are.
Moves(r, label, l) ==
    /\ pc[r] \notin Final
    /\ pc' = [pc EXCEPT ![r] = label]
    /\ local' = [local EXCEPT ![r] = IF label \in Final THEN Forget(l) ELSE l]
    /\ before' = [before EXCEPT ![r] = IF pc[r] = "idle" THEN {q \in Requests : pc[q] \in Final}
                                        ELSE before[r]]

\* A request that arrives at the door moves.
LEMMA StartMoves ==
  ASSUME AtDoor, NEW r \in Requests, NEW label, NEW l, Start(r, label, l)
  PROVE  pc[r] = "idle" /\ Moves(r, label, l)
BY DEF AtDoor, Start, Moves, Final

\* So does one that goes on.
LEMMA ContinueMoves ==
  ASSUME AtDoor, NEW r \in Requests, NEW label, NEW l, InFlight(r), Continue(r, label, l)
  PROVE  pc[r] # "idle" /\ Moves(r, label, l)
BY DEF AtDoor, Continue, Moves, InFlight, Final

\* What is known of all requests after a move of r.
Moved(r, label, l) ==
    /\ pc' \in [Requests -> DoorLabels] /\ pc'[r] = label
    /\ before' \in [Requests -> SUBSET Requests]
    /\ DOMAIN local' = Requests
    /\ DOMAIN local'[r] = IF label \in Final THEN DOMAIN l \ {"old", "new"} ELSE DOMAIN l
    /\ \A f \in DOMAIN l \ {"old", "new"} : local'[r][f] = l[f]
    /\ label \notin Final => local'[r] = l
    /\ before'[r] = IF pc[r] = "idle" THEN {q \in Requests : pc[q] \in Final} ELSE before[r]
    /\ \A q \in Requests \ {r} : pc'[q] = pc[q] /\ local'[q] = local[q] /\ before'[q] = before[q]

\* What a move leaves of all requests.
LEMMA MovesMoved ==
  ASSUME AtDoor, NEW r \in Requests, NEW label \in DoorLabels, NEW l, Moves(r, label, l)
  PROVE  Moved(r, label, l)
<1>1. local'[r] = IF label \in Final THEN Forget(l) ELSE l
  BY DEF AtDoor, Moves
<1>2. /\ DOMAIN local'[r] = IF label \in Final THEN DOMAIN l \ {"old", "new"} ELSE DOMAIN l
      /\ \A f \in DOMAIN l \ {"old", "new"} : local'[r][f] = l[f]
      /\ label \notin Final => local'[r] = l
  BY <1>1, ForgetKeeps
<1>3. /\ pc' \in [Requests -> DoorLabels] /\ pc'[r] = label
      /\ before' \in [Requests -> SUBSET Requests]
      /\ DOMAIN local' = Requests
      /\ before'[r] = IF pc[r] = "idle" THEN {q \in Requests : pc[q] \in Final} ELSE before[r]
      /\ \A q \in Requests \ {r} : pc'[q] = pc[q] /\ local'[q] = local[q] /\ before'[q] = before[q]
  BY DEF AtDoor, Moves
<1> QED
  BY <1>2, <1>3 DEF Moved

(***************************************************************************)
(* What the door's handlers do to the request they serve.                   *)
(***************************************************************************)
\* r moves, to a label of the door, and nothing of another request changes.
OneMoves(r) ==
    /\ pc' \in [Requests -> DoorLabels] /\ before' \in [Requests -> SUBSET Requests]
    /\ entries' \in [Requests -> Tickets \cup {None}]
    /\ DOMAIN local' = Requests /\ "op" \in DOMAIN local'[r]
    /\ pc[r] \notin Final /\ pc'[r] # "idle"
    /\ before'[r] = IF pc[r] = "idle" THEN {q \in Requests : pc[q] \in Final} ELSE before[r]
    /\ \A q \in Requests \ {r} : /\ pc'[q] = pc[q] /\ local'[q] = local[q]
                                 /\ before'[q] = before[q] /\ entries'[q] = entries[q]

\* A request that is neither a scan nor a count.
MovesElse(r) ==
    /\ pc'[r] \in Final \cup {"ticketSave"} /\ local'[r].op \notin {"scan", "entryStats", "none"}
    /\ local[r].op # "scan"
    /\ entries'[r] = entries[r] /\ entries[r] = None
    /\ pc'[r] = "ticketSave" =>
        /\ local'[r].op = "change" /\ local'[r].ticket \in Tickets
        /\ local'[r].old \in TicketDoc /\ local'[r].new \in TicketDoc
        /\ local'[r].old.status = "active" /\ local'[r].new.status = "active"

\* A scan that stores no entry: it arrives, finds its ticket unused, or ends.
ScanMoves(r) ==
    /\ local'[r].op = "scan" /\ entries'[r] = None /\ entries[r] = None
    /\ \/ pc'[r] \in Final /\ local'[r].answer # "allowed"
       \/ pc'[r] = "scanUsed" /\ local'[r].answer = "none" /\ local'[r].ticket \in Tickets
       \/ /\ pc[r] = "scanUsed" /\ pc'[r] = "scanLog" /\ local'[r] = local[r]
          /\ \A q \in Requests : entries[q] # local[r].ticket
    /\ pc[r] # "idle" => local[r].op = "scan" /\ local'[r].ticket = local[r].ticket

\* A scan stores its entry.
ScanEnters(r) ==
    /\ pc[r] = "scanLog" /\ pc'[r] \in Final
    /\ local'[r].op = "scan" /\ local'[r].ticket = local[r].ticket
    /\ entries'[r] = local[r].ticket
    /\ local'[r].answer \in {"allowed", "invalid_ticket"}

\* A count of the entries arrives, or ends.
StatsMoves(r) ==
    /\ local'[r].op = "entryStats" /\ {"of", "total"} \subseteq DOMAIN local'[r]
    /\ pc'[r] \in Final \cup {"statsLast"}
    /\ entries'[r] = entries[r] /\ entries[r] = None
    /\ \/ /\ pc[r] = "idle" /\ local'[r].of \in SUBSET Tickets
          /\ local'[r].total = Cardinality(Logged(local'[r].of))
       \/ /\ pc[r] # "idle" /\ local[r].op = "entryStats"
          /\ local'[r].of = local[r].of /\ local'[r].total = local[r].total

DoorMove(r) ==
    OneMoves(r) /\ (MovesElse(r) \/ ScanMoves(r) \/ ScanEnters(r) \/ StatsMoves(r))

\* A move of r that leaves the entries alone.
LEMMA QuietMove ==
  ASSUME AtDoor, NEW r \in Requests, NEW label \in DoorLabels \ {"idle"}, NEW l,
         "op" \in DOMAIN l, Moves(r, label, l), UNCHANGED entries
  PROVE  OneMoves(r) /\ Moved(r, label, l)
<1>1. Moved(r, label, l)
  BY MovesMoved
<1> QED
  BY <1>1 DEF OneMoves, Moved, AtDoor, Moves

\* An arrival is such a move, whatever is asked,
LEMMA ArrivalsMove ==
  ASSUME DoorInv, NEW r \in Requests, EntryArrive(r)
  PROVE  DoorMove(r)
<1> USE DEF EntryArrive, entryVars, Final, DoorLabels, EntryLabels
<1>0. AtDoor /\ (pc[r] = "idle" => entries[r] = None /\ local[r].op = "none")
  BY DEF DoorInv, ArrivalInv, Asked
<1>1. ASSUME NEW label \in DoorLabels \ {"idle"}, NEW l, "op" \in DOMAIN l, Start(r, label, l),
             UNCHANGED entries
      PROVE  /\ OneMoves(r) /\ Moved(r, label, l) /\ local[r].op = "none"
             /\ entries'[r] = None /\ entries[r] = None
  BY <1>0, <1>1, StartMoves, QuietMove
<1>2. ASSUME NEW t \in Tickets, NEW new \in TicketDoc, new.status = ticket[t].status,
             ReadForChange(r, t, new), UNCHANGED entryVars
      PROVE  DoorMove(r)
  <2> DEFINE l == [op |-> "change", ticket |-> t, old |-> ticket[t], new |-> new]
             label == IF ticket[t].status = "active" THEN "ticketSave" ELSE "error"
  <2>1. /\ OneMoves(r) /\ Moved(r, label, l) /\ local[r].op = "none"
        /\ entries'[r] = None /\ entries[r] = None
    BY <1>1, <1>2 DEF ReadForChange
  <2>2. ticket[t] \in TicketDoc
    BY <1>0 DEF AtDoor
  <2>3. local'[r].op = "change" /\ (label = "ticketSave" => local'[r] = l)
    BY <2>1 DEF Moved
  <2>4. pc'[r] = label
    BY <2>1 DEF Moved
  <2> QED
    BY <1>2, <2>1, <2>2, <2>3, <2>4 DEF DoorMove, MovesElse
<1>3. CASE UpdateAttendee(r)
  <2>1. PICK t \in Tickets : ReadForChange(r, t, [ticket[t] EXCEPT !.attendee = "other"])
    BY <1>3 DEF UpdateAttendee
  <2>2. [ticket[t] EXCEPT !.attendee = "other"] \in TicketDoc
        /\ [ticket[t] EXCEPT !.attendee = "other"].status = ticket[t].status
    BY <1>0 DEF AtDoor, TicketDoc
  <2> QED
    BY <1>2, <1>3, <2>1, <2>2 DEF UpdateAttendee
<1>4. CASE Transfer(r)
  <2>1. PICK t \in Tickets, u \in Users :
            ReadForChange(r, t, [ticket[t] EXCEPT !.transferredTo = u])
    BY <1>4 DEF Transfer
  <2>2. [ticket[t] EXCEPT !.transferredTo = u] \in TicketDoc
        /\ [ticket[t] EXCEPT !.transferredTo = u].status = ticket[t].status
    BY <1>0 DEF AtDoor, TicketDoc
  <2> QED
    BY <1>2, <1>4, <2>1, <2>2 DEF Transfer
<1>5. CASE CancelOrderTickets(r)
  <2>1. Start(r, "ok", [op |-> "cancelTickets"]) /\ UNCHANGED entries
    BY <1>5 DEF CancelOrderTickets
  <2>2. OneMoves(r) /\ Moved(r, "ok", [op |-> "cancelTickets"]) /\ local[r].op = "none"
        /\ entries'[r] = None /\ entries[r] = None
    BY <1>1, <2>1
  <2> QED
    BY <2>2 DEF DoorMove, MovesElse, Moved
<1>6. CASE GenerateQR(r)
  <2>1. PICK t \in Tickets, u \in Users, label \in {"failed", "ok", "error"} :
            Start(r, label, [op |-> "generate", ticket |-> t, user |-> u])
    BY <1>6 DEF GenerateQR
  <2>2. OneMoves(r) /\ Moved(r, label, [op |-> "generate", ticket |-> t, user |-> u])
        /\ local[r].op = "none" /\ entries'[r] = None /\ entries[r] = None
    BY <1>1, <1>6, <2>1 DEF GenerateQR
  <2> QED
    BY <2>2 DEF DoorMove, MovesElse, Moved
<1>7. CASE ScanArrives(r)
  <2>1. PICK t \in Tickets \cup {None}, label \in {"error", "ok", "scanUsed"},
             answer \in {"none", "invalid_signature", "invalid_ticket"} :
            /\ Start(r, label, Scan(t, answer))
            /\ label = "scanUsed" => t # None /\ answer = "none"
    <3>1. PICK t \in Tickets \cup {None}, role \in {"admin", "staff", "other"} :
        Start(r, CASE ~MayScan(role) -> "error"
                   [] MayScan(role) /\ t # None /\ LeanHasToJSON -> "scanUsed"
                   [] OTHER -> "ok",
              Scan(t, CASE ~MayScan(role) -> "none"
                        [] MayScan(role) /\ t = None -> "invalid_signature"
                        [] MayScan(role) /\ t # None /\ ~LeanHasToJSON -> "invalid_ticket"
                        [] OTHER -> "none"))
      BY <1>7 DEF ScanArrives
    <3>2. CASE ~MayScan(role)
      <4>1. Start(r, "error", Scan(t, "none"))
        BY <3>1, <3>2
      <4> QED
        BY <4>1
    <3>3. CASE MayScan(role) /\ t = None
      <4>1. Start(r, "ok", Scan(t, "invalid_signature"))
        BY <3>1, <3>3
      <4> QED
        BY <4>1
    <3>4. CASE MayScan(role) /\ t # None /\ ~LeanHasToJSON
      <4>1. Start(r, "ok", Scan(t, "invalid_ticket"))
        BY <3>1, <3>4
      <4> QED
        BY <4>1
    <3>5. CASE MayScan(role) /\ t # None /\ LeanHasToJSON
      <4>1. Start(r, "scanUsed", Scan(t, "none"))
        BY <3>1, <3>5
      <4> QED
        BY <4>1, <3>5
    <3> QED
      BY <3>2, <3>3, <3>4, <3>5
  <2>2. OneMoves(r) /\ Moved(r, label, Scan(t, answer)) /\ entries'[r] = None /\ entries[r] = None
    BY <1>1, <1>7, <2>1 DEF ScanArrives, Scan
  <2>3. /\ local'[r].op = "scan" /\ local'[r].answer = answer /\ local'[r].ticket = t
        /\ pc'[r] = label /\ pc[r] = "idle"
    BY <2>1, <2>2, <1>0, StartMoves DEF Moved, Scan
  <2> QED
    BY <2>1, <2>2, <2>3 DEF DoorMove, ScanMoves
<1>8. ASSUME NEW of \in SUBSET Tickets, NEW label \in {"statsLast", "ok", "failed"},
             Start(r, label, [op |-> "entryStats", of |-> of, total |-> Cardinality(Logged(of))]),
             UNCHANGED entries
      PROVE  DoorMove(r)
  <2>1. OneMoves(r)
        /\ Moved(r, label, [op |-> "entryStats", of |-> of, total |-> Cardinality(Logged(of))])
        /\ entries'[r] = None /\ entries[r] = None
    BY <1>1, <1>8
  <2>2. pc[r] = "idle"
    BY <1>0, <1>8, StartMoves
  <2>3. /\ local'[r].op = "entryStats" /\ local'[r].of = of
        /\ local'[r].total = Cardinality(Logged(of)) /\ {"of", "total"} \subseteq DOMAIN local'[r]
    BY <2>1 DEF Moved
  <2> QED
    BY <2>1, <2>2, <2>3 DEF DoorMove, StatsMoves, Moved
<1>9. CASE EntryStats(r)
  BY <1>8, <1>9 DEF EntryStats
<1>10. CASE EntryHistory(r)
  <2>1. PICK t \in Tickets, label \in {"ok", "failed"} :
        Start(r, label, [op |-> "entryStats", of |-> {t}, total |-> Cardinality(Logged({t}))])
    BY <1>10 DEF EntryHistory
  <2> QED
    BY <1>8, <1>10, <2>1 DEF EntryHistory
<1> QED
  BY <1>3, <1>4, <1>5, <1>6, <1>7, <1>9, <1>10

\* What is known of a request that has not ended.
LEMMA InFlightKnown ==
  ASSUME DoorInv, NEW r \in Requests, InFlight(r)
  PROVE  /\ AtDoor /\ r \in Requests /\ "op" \in DOMAIN local[r]
         /\ pc[r] \in {"ticketSave", "scanUsed", "scanLog", "statsLast"}
         /\ entries[r] = None
<1>1. pc[r] \in {"ticketSave", "scanUsed", "scanLog", "statsLast"}
  BY DEF DoorInv, AtDoor, InFlight, DoorLabels, EntryLabels, Final
<1>2. CASE pc[r] \in {"scanUsed", "scanLog"}
  BY <1>1, <1>2 DEF DoorInv, ScanInv, AtDoor
<1>3. CASE pc[r] \in {"ticketSave", "statsLast"}
  BY <1>1, <1>3 DEF DoorInv, ChangeInv, StatsInv, AllowedIsLogged, AtDoor, Asked
<1> QED
  BY <1>1, <1>2, <1>3

\* and so is each later call, and a rejected one.
LEMMA StepsMove ==
  ASSUME DoorInv, NEW r \in Requests,
         EntryStep(r) \/ (~Asked(r, "scan") /\ Fails(r) /\ UNCHANGED entryVars)
  PROVE  DoorMove(r)
<1> USE DEF entryVars, Final, DoorLabels, EntryLabels, InFlight
<1>0. AtDoor
  BY DEF DoorInv
<1>1. ASSUME NEW label \in DoorLabels \ {"idle"}, NEW l, "op" \in DOMAIN l, InFlight(r),
             Continue(r, label, l), UNCHANGED entries
      PROVE  /\ OneMoves(r) /\ Moved(r, label, l) /\ pc[r] # "idle"
             /\ entries'[r] = None /\ entries[r] = None
  BY <1>0, <1>1, ContinueMoves, QuietMove, InFlightKnown
\* A call returns, or is rejected, with what was known left as it was.
<1>2. ASSUME NEW label \in Final, Goto(r, label), UNCHANGED entries,
             pc[r] \in {"ticketSave", "statsLast"}
      PROVE  DoorMove(r)
  <2>1. InFlight(r) /\ "op" \in DOMAIN local[r]
    BY <1>0, <1>2 DEF AtDoor
  <2>2. /\ OneMoves(r) /\ Moved(r, label, local[r]) /\ pc[r] # "idle"
        /\ entries'[r] = None /\ entries[r] = None
    BY <1>1, <1>2, <2>1 DEF Goto
  <2>3. /\ pc'[r] = label /\ local'[r].op = local[r].op
        /\ DOMAIN local'[r] = DOMAIN local[r] \ {"old", "new"}
        /\ \A f \in DOMAIN local[r] \ {"old", "new"} : local'[r][f] = local[r][f]
    BY <2>1, <2>2 DEF Moved
  <2>4. CASE pc[r] = "ticketSave"
    <3>1. local[r].op = "change"
      BY <2>4 DEF DoorInv, ChangeInv, Asked
    <3> QED
      BY <2>2, <2>3, <3>1 DEF DoorMove, MovesElse
  <2>5. CASE pc[r] = "statsLast"
    <3>1. local[r].op = "entryStats" /\ {"of", "total"} \subseteq DOMAIN local[r]
      BY <2>5 DEF DoorInv, StatsInv, Asked
    <3>2. {"of", "total"} \subseteq DOMAIN local'[r]
          /\ local'[r].of = local[r].of /\ local'[r].total = local[r].total
      BY <2>3, <3>1
    <3> QED
      BY <2>2, <2>3, <3>1, <3>2 DEF DoorMove, StatsMoves
  <2> QED
    BY <1>2, <2>4, <2>5
\* A scan goes on without an entry.
<1>3. ASSUME NEW answer, answer # "allowed", NEW label \in Final, pc[r] \in {"scanUsed", "scanLog"},
             Continue(r, label, Scan(local[r].ticket, answer)), UNCHANGED entries
      PROVE  DoorMove(r)
  <2>1. InFlight(r) /\ local[r].op = "scan"
    BY <1>3 DEF DoorInv, ScanInv, Asked
  <2>2. /\ OneMoves(r) /\ Moved(r, label, Scan(local[r].ticket, answer))
        /\ entries'[r] = None /\ entries[r] = None
    BY <1>1, <1>3, <2>1 DEF Scan
  <2>3. /\ local'[r].op = "scan" /\ local'[r].answer = answer
        /\ local'[r].ticket = local[r].ticket /\ pc'[r] = label
    BY <2>2 DEF Moved, Scan
  <2> QED
    BY <1>3, <2>1, <2>2, <2>3 DEF DoorMove, ScanMoves
<1>4. ASSUME Fails(r), ~Asked(r, "scan"), UNCHANGED entryVars PROVE DoorMove(r)
  <2>1. pc[r] \in {"ticketSave", "statsLast"}
    BY <1>4, InFlightKnown DEF Fails, DoorInv, ScanInv
  <2> QED
    BY <1>2, <1>4, <2>1 DEF Fails
<1>5. ASSUME SaveTicketChange(r) PROVE DoorMove(r)
  BY <1>2, <1>5 DEF SaveTicketChange, Ends
<1>6. ASSUME ScanUsed(r) PROVE DoorMove(r)
  <2>1. CASE Continue(r, "ok", Scan(local[r].ticket, "already_used"))
    BY <1>3, <1>6, <2>1 DEF ScanUsed
  <2>2. CASE TimingAnswer # "allowed" /\ Continue(r, "ok", Scan(local[r].ticket, TimingAnswer))
    BY <1>3, <1>6, <2>2 DEF ScanUsed
  <2>3. CASE ~AlreadyUsed(local[r].ticket, r) /\ Continue(r, "scanLog", local[r])
    <3>1. InFlight(r) /\ local[r].op = "scan" /\ local[r].answer = "none"
      BY <1>6 DEF ScanUsed, DoorInv, ScanInv, Asked
    <3>2. OneMoves(r) /\ Moved(r, "scanLog", local[r]) /\ entries'[r] = None /\ entries[r] = None
      BY <1>0, <1>1, <1>6, <2>3, <3>1 DEF ScanUsed, AtDoor
    <3> QED
      BY <1>6, <2>3, <3>1, <3>2 DEF ScanUsed, DoorMove, ScanMoves, Moved, AlreadyUsed
  <2> QED
    BY <1>6, <2>1, <2>2, <2>3 DEF ScanUsed
<1>7. ASSUME ScanLog(r) PROVE DoorMove(r)
  <2>1. CASE ScanFails(r) /\ UNCHANGED entries
    BY <1>3, <1>7, <2>1 DEF ScanLog, ScanFails
  <2>2. ASSUME NEW answer \in {"allowed", "invalid_ticket"}, NEW label \in {"ok", "failed"},
               Continue(r, label, Scan(local[r].ticket, answer)),
               entries' = [entries EXCEPT ![r] = local[r].ticket]
        PROVE  DoorMove(r)
    <3>1. InFlight(r) /\ pc[r] = "scanLog" /\ local[r].ticket \in Tickets
      BY <1>7 DEF ScanLog, DoorInv, ScanInv
    <3>2. Moved(r, label, Scan(local[r].ticket, answer))
      BY <1>0, <2>2, <3>1, ContinueMoves, MovesMoved
    <3>3. /\ local'[r].op = "scan" /\ local'[r].answer = answer
          /\ local'[r].ticket = local[r].ticket /\ pc'[r] = label /\ "op" \in DOMAIN local'[r]
      BY <3>2 DEF Moved, Scan
    <3>4. OneMoves(r) /\ entries'[r] = local[r].ticket
      BY <1>0, <2>2, <3>1, <3>2, <3>3 DEF OneMoves, Moved, AtDoor
    <3> QED
      BY <3>1, <3>3, <3>4 DEF DoorMove, ScanEnters
  <2> QED
    BY <1>7, <2>1, <2>2 DEF ScanLog, ScanFails
<1>8. ASSUME ScanCallFails(r) PROVE DoorMove(r)
  BY <1>3, <1>8 DEF ScanCallFails, ScanFails
<1>9. ASSUME StatsLast(r) PROVE DoorMove(r)
  BY <1>2, <1>9 DEF StatsLast
<1> QED
  BY <1>4, <1>5, <1>6, <1>7, <1>8, <1>9 DEF EntryStep

(***************************************************************************)
(* Each part of the invariant is kept by a move.                            *)
(***************************************************************************)
\* The tickets keep their type, and a cancelled one its status.
LEMMA TicketsKept ==
  ASSUME DoorInv, NEW r \in Requests,
         \/ EntryArrive(r) \/ EntryStep(r)
         \/ Fails(r) /\ UNCHANGED entryVars
  PROVE  /\ ticket' \in [Tickets -> TicketDoc]
         /\ \A t \in Tickets : ticket[t].status = "cancelled" => ticket'[t].status = "cancelled"
<1> USE DEF DoorInv, AtDoor
<1>1. CASE CancelOrderTickets(r)
  BY <1>1 DEF CancelOrderTickets, CancelledTicket, TicketDoc
<1>2. CASE SaveTicketChange(r)
  <2> DEFINE l == local[r]
  <2>1. /\ l.ticket \in Tickets /\ l.old \in TicketDoc /\ l.new \in TicketDoc
        /\ l.old.status = "active" /\ l.new.status = "active"
    BY <1>2 DEF SaveTicketChange, ChangeInv
  <2>2. ASSUME NEW stored \in TicketDoc
        PROVE  Saved(stored, l.old, l.new) \in TicketDoc
               /\ Saved(stored, l.old, l.new).status = stored.status
    BY <2>1 DEF Saved, TicketDoc
  <2>3. ticket' = [ticket EXCEPT ![l.ticket] = Saved(ticket[l.ticket], l.old, l.new)]
    BY <1>2 DEF SaveTicketChange
  <2> HIDE DEF l
  <2> QED
    BY <2>1, <2>2, <2>3
<1>3. CASE UNCHANGED ticket
  BY <1>3
<1> QED
  BY <1>1, <1>2, <1>3 DEF EntryArrive, EntryStep, entryVars, UpdateAttendee, Transfer, GenerateQR,
     ScanArrives, EntryStats, EntryHistory, ScanUsed, ScanLog, ScanCallFails, StatsLast

\* A move keeps what is known of who has not arrived,
LEMMA MoveKeepsArrival ==
  ASSUME DoorInv, NEW r \in Requests, DoorMove(r)
  PROVE  ArrivalInv'
<1> SUFFICES ASSUME NEW p \in Requests
             PROVE  /\ pc'[p] = "idle" => /\ local'[p].op = "none"
                                          /\ entries'[p] = None /\ before'[p] = {}
                    /\ \A q \in before'[p] : pc'[q] \in Final
  BY DEF ArrivalInv, Asked
<1>1. \A q \in Requests : pc[q] \in Final => pc'[q] = pc[q]
  BY DEF DoorMove, OneMoves
<1>2. CASE p = r
  <2>1. \A q \in before'[r] : q \in Requests /\ pc[q] \in Final
    BY DEF DoorMove, OneMoves, DoorInv, ArrivalInv, AtDoor
  <2> QED
    BY <1>1, <1>2, <2>1 DEF DoorMove, OneMoves
<1>3. CASE p # r
  BY <1>1, <1>3 DEF DoorMove, OneMoves, DoorInv, ArrivalInv, AtDoor, Asked
<1> QED
  BY <1>2, <1>3

\* of the scans in flight,
LEMMA MoveKeepsScan ==
  ASSUME DoorInv, NEW r \in Requests, DoorMove(r)
  PROVE  ScanInv'
<1> SUFFICES ASSUME NEW p \in Requests, pc'[p] \in {"scanUsed", "scanLog"}
             PROVE  /\ local'[p].op = "scan" /\ local'[p].answer = "none" /\ entries'[p] = None
                    /\ local'[p].ticket \in Tickets
  BY DEF ScanInv, Asked
<1>1. CASE p = r
  <2>1. ScanMoves(r)
    BY <1>1 DEF DoorMove, MovesElse, ScanEnters, StatsMoves, Final
  <2> QED
    BY <1>1, <2>1 DEF ScanMoves, DoorInv, ScanInv, Asked, Final
<1>2. CASE p # r
  BY <1>2 DEF DoorMove, OneMoves, DoorInv, ScanInv, Asked
<1> QED
  BY <1>1, <1>2

\* The log is finite.
LEMMA LoggedIsCounted == \A S : Cardinality(Logged(S)) \in Nat
BY RequestsAssumption, FS_Subset, FS_CardinalityType DEF Logged

\* of the counts and changes in flight,
LEMMA MoveKeepsOthers ==
  ASSUME DoorInv, NEW r \in Requests, DoorMove(r)
  PROVE  StatsInv' /\ ChangeInv'
<1>1. ASSUME NEW p \in Requests
      PROVE  /\ pc'[p] = "statsLast" => local'[p].op = "entryStats"
             /\ local'[p].op = "entryStats" => /\ {"of", "total"} \subseteq DOMAIN local'[p]
                                               /\ local'[p].total \in Nat
  <2>1. CASE p = r
    BY <2>1, LoggedIsCounted
       DEF DoorMove, MovesElse, ScanMoves, ScanEnters, StatsMoves, Final, DoorInv, StatsInv, Asked
  <2>2. CASE p # r
    BY <2>2 DEF DoorMove, OneMoves, DoorInv, StatsInv, Asked
  <2> QED
    BY <2>1, <2>2
<1>2. ASSUME NEW p \in Requests, pc'[p] = "ticketSave"
      PROVE  /\ local'[p].op = "change" /\ local'[p].ticket \in Tickets
             /\ local'[p].old \in TicketDoc /\ local'[p].new \in TicketDoc
             /\ local'[p].old.status = "active" /\ local'[p].new.status = "active"
  <2>1. CASE p = r
    BY <1>2, <2>1 DEF DoorMove, MovesElse, ScanMoves, ScanEnters, StatsMoves, Final
  <2>2. CASE p # r
    BY <1>2, <2>2 DEF DoorMove, OneMoves, DoorInv, ChangeInv, Asked
  <2> QED
    BY <2>1, <2>2
<1>3. StatsInv'
  BY <1>1 DEF StatsInv, Asked
<1>4. ChangeInv'
  BY <1>2 DEF ChangeInv, Asked, TicketDoc
<1> QED
  BY <1>3, <1>4

\* Who was let in is on record, so a scan that finds no entry is of a ticket
\* nobody was let in with.
LEMMA MoveKeepsFresh ==
  ASSUME DoorInv, NEW r \in Requests, DoorMove(r)
  PROVE  FreshInv' /\ EnteredOnce'
<1>1. ASSUME NEW p \in Requests, NEW q \in before[p]
      PROVE  q \in Requests /\ q # r /\ local'[q] = local[q] /\ (Allowed(q)' <=> Allowed(q))
  <2>1. q \in Requests /\ q # r
    BY DEF DoorInv, AtDoor, ArrivalInv, DoorMove, OneMoves
  <2> QED
    BY <2>1 DEF DoorMove, OneMoves, Allowed, Asked
<1>2. ASSUME NEW p \in Requests, p # r
      PROVE  /\ pc'[p] = pc[p] /\ local'[p] = local[p] /\ before'[p] = before[p]
             /\ Allowed(p)' <=> Allowed(p)
  BY <1>2 DEF DoorMove, OneMoves, Allowed, Asked
<1>3. pc[r] # "idle" => before'[r] = before[r]
  BY DEF DoorMove, OneMoves
<1>4. ASSUME NEW p \in Requests, pc'[p] = "scanLog", NEW q \in before'[p], Allowed(q)'
      PROVE  local'[q].ticket # local'[p].ticket
  <2>1. CASE p = r
    <3>1. /\ pc[r] = "scanUsed" /\ local'[r] = local[r]
          /\ \A s \in Requests : entries[s] # local[r].ticket
      BY <1>4, <2>1 DEF DoorMove, MovesElse, ScanMoves, ScanEnters, StatsMoves, Final
    <3>2. q \in Requests /\ Allowed(q) /\ local'[q] = local[q]
      BY <1>1, <1>3, <1>4, <2>1, <3>1
    <3>3. entries[q] = local[q].ticket
      BY <3>2 DEF DoorInv, AllowedIsLogged
    <3> QED
      BY <2>1, <3>1, <3>2, <3>3
  <2>2. CASE p # r
    BY <1>1, <1>2, <1>4, <2>2 DEF DoorInv, FreshInv
  <2> QED
    BY <2>1, <2>2
<1>5. ASSUME NEW p \in Requests, NEW q \in before'[p], Allowed(q)', Allowed(p)'
      PROVE  local'[q].ticket # local'[p].ticket
  <2>1. CASE p = r
    <3>1. pc[r] = "scanLog" /\ local'[r].ticket = local[r].ticket
      BY <1>5, <2>1 DEF DoorMove, MovesElse, ScanMoves, ScanEnters, StatsMoves, Allowed, Asked,
         DoorInv, ScanInv
    <3>2. q \in before[r] /\ Allowed(q) /\ local'[q] = local[q]
      BY <1>1, <1>3, <1>5, <2>1, <3>1
    <3> QED
      BY <2>1, <3>1, <3>2 DEF DoorInv, FreshInv
  <2>2. CASE p # r
    BY <1>1, <1>2, <1>5, <2>2 DEF DoorInv, EnteredOnce
  <2> QED
    BY <2>1, <2>2
<1>6. FreshInv'
  BY <1>4 DEF FreshInv
<1>7. EnteredOnce'
  BY <1>5 DEF EnteredOnce
<1> QED
  BY <1>6, <1>7

\* A scan logs before it lets in.
LEMMA MoveKeepsLog ==
  ASSUME DoorInv, NEW r \in Requests, DoorMove(r)
  PROVE  AllowedIsLogged'
<1> SUFFICES ASSUME NEW p \in Requests
             PROVE  /\ Allowed(p)' => entries'[p] = local'[p].ticket
                    /\ entries'[p] # None =>
                         /\ local'[p].op = "scan" /\ entries'[p] = local'[p].ticket
                         /\ local'[p].answer \in {"allowed", "invalid_ticket"}
  BY DEF AllowedIsLogged, Asked
<1>1. CASE p = r
  BY <1>1 DEF DoorMove, MovesElse, ScanMoves, ScanEnters, StatsMoves, Allowed, Asked, DoorInv, ScanInv
<1>2. CASE p # r
  BY <1>2 DEF DoorMove, OneMoves, DoorInv, AllowedIsLogged, Allowed, Asked
<1> QED
  BY <1>1, <1>2

\* The scans of the tickets `of`, and those among them let in before r.
TicketScans(of) == {q \in Requests : Asked(q, "scan") /\ local[q].ticket \in of}
LetIn(of, r) == {q \in TicketScans(of) \cap before[r] : Allowed(q)}

\* The statistics that were answered still hold.
LEMMA MoveKeepsStats ==
  ASSUME DoorInv, NEW r \in Requests, DoorMove(r)
  PROVE  StatsCountEntries'
<1> SUFFICES ASSUME NEW p \in Requests, local'[p].op = "entryStats", pc'[p] # "failed"
             PROVE  /\ Cardinality(LetIn(local[p].of, p)') <= local'[p].total
                    /\ local'[p].total <= Cardinality(TicketScans(local[p].of)')
  BY DEF StatsCountEntries, Asked, TicketScans, LetIn
\* A scan stays a scan of its ticket.
<1>1. \A q \in Requests : local[q].op = "scan" =>
            local'[q].op = "scan" /\ local'[q].ticket = local[q].ticket
  <2>1. local[r].op = "scan" => local'[r].op = "scan" /\ local'[r].ticket = local[r].ticket
    BY DEF DoorMove, OneMoves, MovesElse, ScanMoves, ScanEnters, StatsMoves, DoorInv, ArrivalInv, Asked
  <2> QED
    BY <2>1 DEF DoorMove, OneMoves
<1>2. ASSUME NEW of PROVE TicketScans(of) \subseteq TicketScans(of)' /\ TicketScans(of)' \subseteq Requests
  BY <1>1 DEF TicketScans, Asked
<1>3. ASSUME NEW S, NEW T, S \subseteq T, T \subseteq Requests
      PROVE  Cardinality(S) <= Cardinality(T) /\ Cardinality(S) \in Nat /\ Cardinality(T) \in Nat
  <2>1. IsFiniteSet(T) /\ IsFiniteSet(S)
    BY <1>3, RequestsAssumption, FS_Subset
  <2> QED
    BY <1>3, <2>1, FS_Subset, FS_CardinalityType
\* A count that goes on keeps its result.
<1>4. ASSUME pc[p] # "idle", pc[p] # "failed", local[p].op = "entryStats", before'[p] = before[p],
             local'[p].of = local[p].of, local'[p].total = local[p].total
      PROVE  /\ Cardinality(LetIn(local[p].of, p)') <= local'[p].total
             /\ local'[p].total <= Cardinality(TicketScans(local[p].of)')
  <2> DEFINE of == local[p].of
  <2>1. /\ Cardinality(LetIn(of, p)) <= local[p].total
        /\ local[p].total <= Cardinality(TicketScans(of)) /\ local[p].total \in Nat
    BY <1>4 DEF DoorInv, StatsCountEntries, StatsInv, Asked, TicketScans, LetIn
  <2>2. \A q \in before[p] : q \in Requests /\ q # r
    BY DEF DoorInv, AtDoor, ArrivalInv, DoorMove, OneMoves
  <2>3. LetIn(of, p)' = LetIn(of, p)
    BY <1>4, <2>2 DEF LetIn, TicketScans, Allowed, Asked, DoorMove, OneMoves
  <2>4. Cardinality(TicketScans(of)) <= Cardinality(TicketScans(of)')
        /\ Cardinality(TicketScans(of)) \in Nat /\ Cardinality(TicketScans(of)') \in Nat
    BY <1>2, <1>3, <1>4
  <2> QED
    BY <1>4, <2>1, <2>3, <2>4
<1>5. CASE p # r
  BY <1>4, <1>5 DEF DoorMove, OneMoves, DoorInv, ArrivalInv, Asked
<1>6. ASSUME p = r PROVE StatsMoves(r)
  BY <1>6 DEF DoorMove, MovesElse, ScanMoves, ScanEnters
<1>7. CASE p = r /\ pc[r] # "idle"
  BY <1>4, <1>6, <1>7 DEF DoorMove, OneMoves, StatsMoves, Final
\* A new count: who was let in is logged, and who is logged was scanned.
<1>8. CASE p = r /\ pc[r] = "idle"
  <2> DEFINE of == local'[r].of
  <2>1. of \in SUBSET Tickets /\ local'[r].total = Cardinality(Logged(of)) /\ entries[r] = None
    BY <1>6, <1>8 DEF StatsMoves
  <2>2. \A q \in before'[r] : q \in Requests /\ q # r
    BY <1>8 DEF DoorMove, OneMoves, Final
  <2>3. LetIn(local[r].of, r)' \subseteq Logged(of)
    <3> SUFFICES ASSUME NEW q \in LetIn(local[r].of, r)' PROVE q \in Logged(of)
      OBVIOUS
    <3>1. q \in Requests /\ q # r /\ local'[q].ticket \in of /\ Allowed(q)'
      BY <2>2 DEF LetIn, TicketScans
    <3>2. Allowed(q) /\ local[q].ticket \in of
      BY <3>1 DEF DoorMove, OneMoves, Allowed, Asked
    <3> QED
      BY <3>1, <3>2 DEF Logged, DoorInv, AllowedIsLogged
  <2>4. Logged(of) \subseteq TicketScans(local[r].of)'
    <3> SUFFICES ASSUME NEW q \in Logged(of) PROVE q \in TicketScans(local[r].of)'
      OBVIOUS
    <3>1. q \in Requests /\ entries[q] \in of /\ entries[q] # None
      BY <2>1, TicketsAssumption DEF Logged
    <3>2. local[q].op = "scan" /\ local[q].ticket = entries[q]
      BY <3>1 DEF DoorInv, AllowedIsLogged, Asked
    <3>3. local'[q].op = "scan" /\ local'[q].ticket \in of
      BY <1>1, <3>1, <3>2
    <3> QED
      BY <3>1, <3>3 DEF TicketScans, Asked
  <2>5. Logged(of) \subseteq Requests /\ TicketScans(local[r].of)' \subseteq Requests
    BY DEF Logged, TicketScans
  <2> HIDE DEF of
  <2>6. Cardinality(LetIn(local[r].of, r)') <= Cardinality(Logged(of))
    BY <1>3, <2>3, <2>5
  <2>7. Cardinality(Logged(of)) <= Cardinality(TicketScans(local[r].of)')
    BY <1>3, <2>4, <2>5
  <2> QED
    BY <1>8, <2>1, <2>6, <2>7
<1> QED
  BY <1>5, <1>7, <1>8

(***************************************************************************)
(* The theorems.                                                            *)
(***************************************************************************)
LEMMA DoorInit == OfficeInit /\ scope = "door" => DoorInv
<1> SUFFICES ASSUME OfficeInit, scope = "door" PROVE DoorInv
  OBVIOUS
<1> USE DEF OfficeInit, HandlersInit, EntryInit
<1>1. AtDoor
  BY DEF AtDoor, DoorLabels, NewTicket, TicketDoc, NoLocal
<1>2. ArrivalInv /\ ScanInv /\ FreshInv /\ StatsInv /\ ChangeInv
  BY DEF ArrivalInv, ScanInv, FreshInv, StatsInv, ChangeInv, NoLocal, Asked, Final
<1>3. EnteredOnce /\ AllowedIsLogged /\ StatsCountEntries
  BY DEF EnteredOnce, AllowedIsLogged, StatsCountEntries, Allowed, NoLocal, Asked
<1> QED
  BY <1>1, <1>2, <1>3 DEF DoorInv

\* Every step keeps the invariant, and a cancelled ticket cancelled.
LEMMA DoorNext ==
  ASSUME DoorInv, [OfficeNext]_officeVars
  PROVE  /\ DoorInv'
         /\ \A t \in Tickets : ticket[t].status = "cancelled" => ticket'[t].status = "cancelled"
<1>0. AtDoor
  BY DEF DoorInv
<1>1. scope' = "door"
  BY <1>0, DoorStep DEF AtDoor
<1>2. ASSUME NEW r \in Requests,
             \/ EntryArrive(r) \/ EntryStep(r)
             \/ ~Asked(r, "scan") /\ Fails(r) /\ UNCHANGED entryVars
      PROVE  /\ DoorInv'
             /\ \A t \in Tickets : ticket[t].status = "cancelled" => ticket'[t].status = "cancelled"
  <2>1. DoorMove(r)
    BY <1>2, ArrivalsMove, StepsMove
  <2>2. /\ ticket' \in [Tickets -> TicketDoc]
        /\ \A t \in Tickets : ticket[t].status = "cancelled" => ticket'[t].status = "cancelled"
    BY <1>2, TicketsKept
  <2>3. AtDoor'
    BY <1>0, <1>1, <2>1, <2>2 DEF AtDoor, DoorMove, OneMoves, DoorLabels, TicketDoc, EntryLabels, Final
  <2>4. ArrivalInv' /\ ScanInv' /\ StatsInv' /\ ChangeInv'
    BY <2>1, MoveKeepsArrival, MoveKeepsScan, MoveKeepsOthers
  <2>5. FreshInv' /\ EnteredOnce' /\ AllowedIsLogged' /\ StatsCountEntries'
    BY <2>1, MoveKeepsFresh, MoveKeepsLog, MoveKeepsStats
  <2> QED
    BY <2>2, <2>3, <2>4, <2>5 DEF DoorInv
\* Time passes, or nothing happens.
<1>3. CASE UNCHANGED <<ticket, entries, handlerVars>>
  <2> USE <1>3 DEF handlerVars
  <2>1. AtDoor' /\ ticket' = ticket
    BY <1>0, <1>1 DEF AtDoor, TicketDoc, DoorLabels, EntryLabels, Final
  <2>2. ArrivalInv' /\ ScanInv' /\ FreshInv' /\ StatsInv' /\ ChangeInv'
    BY DEF DoorInv, ArrivalInv, ScanInv, FreshInv, StatsInv, ChangeInv, Asked, Allowed, TicketDoc
  <2>3. EnteredOnce' /\ AllowedIsLogged' /\ StatsCountEntries'
    BY DEF DoorInv, EnteredOnce, AllowedIsLogged, StatsCountEntries, Allowed, Asked
  <2> QED
    BY <2>1, <2>2, <2>3 DEF DoorInv
<1> QED
  BY <1>0, <1>2, <1>3, DoorStep DEF TimePasses, entryVars, handlerVars

\* DoorInv is inductive at the door.
THEOREM DoorInvariance == OfficeSpec /\ scope = "door" => []DoorInv
<1>1. OfficeInit /\ scope = "door" => DoorInv
  BY DoorInit
<1>2. DoorInv /\ [OfficeNext]_officeVars => DoorInv'
  BY DoorNext
<1> QED
  BY <1>1, <1>2, PTL DEF OfficeSpec

\* Whatever the interleaving of scans and rejected calls, a ticket let in
\* before another scan of it arrives is not let in again, who is let in is
\* logged, and the statistics count them.
THEOREM DoorAdmitsOnce == OfficeSpec /\ scope = "door" => []AdmittedOnceAndLogged
<1>1. DoorInv => AdmittedOnceAndLogged
  BY DEF DoorInv, AdmittedOnceAndLogged
<1> QED
  BY <1>1, DoorInvariance, PTL

\* No change of a ticket that was read before undoes its cancellation.
THEOREM CancelledTicketStays == OfficeSpec /\ scope = "door" => CancelledStays
<1>1. DoorInv /\ [OfficeNext]_officeVars
        => [\A t \in Tickets : ticket[t].status = "cancelled"
              => ticket'[t].status = "cancelled"]_entryVars
  BY DoorNext
<1> QED
  BY <1>1, DoorInvariance, PTL DEF OfficeSpec, CancelledStays

(***************************************************************************)
(* The handlers of each scope.                                              *)
(***************************************************************************)
\* A call that is made is one of its module's.
LEMMA StepLabels ==
  ASSUME NEW r
  PROVE  /\ EventStep(r) => pc[r] \in EventLabels
         /\ ReadStep(r) => pc[r] \in ReadLabels
         /\ InsertSystemTypes(r) => pc[r] = "systemTypes"
         /\ TypeStep(r) => pc[r] \in TypeLabels
         /\ CertificateStep(r) => pc[r] \in CertificateLabels
         /\ DocumentStep(r) => pc[r] \in DocumentLabels
         /\ RosterStep(r) => pc[r] \in RosterLabels
         /\ EntryStep(r) => pc[r] \in EntryLabels
         /\ StandStep(r) => pc[r] \in StandLabels
<1>1. EventStep(r) => pc[r] \in EventLabels
  BY DEF EventLabels, EventStep, LookUpSlug, GenerateSlug, InsertEvent, CheckSlug, SetEvent,
     SaveSubmitted, SetPublished
<1>2. ReadStep(r) => pc[r] \in ReadLabels
  BY DEF ReadLabels, ReadStep, ReadPage, CountMatching, FeaturedUpcoming, FeaturedOngoing,
     Featured, SumTypes, CountCompany
<1>3. /\ InsertSystemTypes(r) => pc[r] = "systemTypes"
      /\ TypeStep(r) => pc[r] \in TypeLabels
  BY DEF InsertSystemTypes, TypeLabels, TypeStep, InsertType, SetType, RemoveType
<1>4. CertificateStep(r) => pc[r] \in CertificateLabels
  BY DEF CertificateLabels, CertificateStep, CountTypes, CheckConflict, DeleteOldFile,
     UploadTemplate, SaveTemplate, DrawCertificate
<1>5. DocumentStep(r) => pc[r] \in DocumentLabels
  BY DEF DocumentLabels, DocumentStep, ResolveSponsor, UploadDocument, InsertSubmission, SaveReview
<1>6. RosterStep(r) => pc[r] \in RosterLabels
  BY DEF RosterLabels, RosterStep, RemoveSpeakers, LookUpSpeaker, SaveSpeaker
<1>7. EntryStep(r) => pc[r] \in EntryLabels
  BY DEF EntryLabels, EntryStep, SaveTicketChange, ScanUsed, ScanLog, ScanCallFails, StatsLast
<1>8. StandStep(r) => pc[r] \in StandLabels
  BY DEF StandLabels, StandStep, FindVisit, SaveVisit
<1> QED
  BY <1>1, <1>2, <1>3, <1>4, <1>5, <1>6, <1>7, <1>8

\* The calls of the events, of their ticket types and of what is read of them.
EventScopeLabels == EventLabels \cup ReadLabels \cup TypeLabels
CatalogLabels == TypeLabels \cup CertificateLabels

\* Which calls there are in scope s; the door has its own invariant.
LabelsOf(s) ==
    CASE s = "events" -> EventScopeLabels
      [] s = "catalog" -> CatalogLabels
      [] s = "documents" -> DocumentLabels
      [] s = "roster" -> RosterLabels
      [] s = "door" -> EntryLabels
      [] s = "stand" -> StandLabels

\* No two modules share a call, and no call is an end.
LEMMA LabelsAreApart ==
  /\ EventLabels \cap (TypeLabels \cup CertificateLabels \cup DocumentLabels \cup RosterLabels
        \cup EntryLabels \cup StandLabels \cup Final \cup {"idle"}) = {}
  /\ ReadLabels \cap (TypeLabels \cup CertificateLabels \cup DocumentLabels \cup RosterLabels
        \cup EntryLabels \cup StandLabels \cup Final \cup {"idle"}) = {}
  /\ TypeLabels \cap (CertificateLabels \cup DocumentLabels \cup RosterLabels
        \cup EntryLabels \cup StandLabels \cup Final \cup {"idle"}) = {}
  /\ CertificateLabels \cap (DocumentLabels \cup RosterLabels
        \cup EntryLabels \cup StandLabels \cup Final \cup {"idle"}) = {}
  /\ DocumentLabels \cap (RosterLabels \cup EntryLabels \cup StandLabels \cup Final \cup {"idle"}) = {}
  /\ RosterLabels \cap (EntryLabels \cup StandLabels \cup Final \cup {"idle"}) = {}
  /\ EntryLabels \cap (StandLabels \cup Final \cup {"idle"}) = {}
  /\ StandLabels \cap (Final \cup {"idle"}) = {}
BY DEF EventLabels, ReadLabels, TypeLabels, CertificateLabels, DocumentLabels, RosterLabels,
   EntryLabels, StandLabels, Final

\* What the requests of one scope leave as it was.
Untouched ==
    /\ scope \in Scopes /\ repaired \in BOOLEAN
    /\ scope # "events" => EventInit
    /\ scope \notin {"events", "catalog"} => TypeInit
    /\ scope # "catalog" => CertificateInit
    /\ scope \notin {"catalog", "documents"} => StorageInit
    /\ scope # "documents" => DocumentInit
    /\ scope # "roster" => RosterInit
    /\ scope # "door" => EntryInit
    /\ scope # "stand" => StandInit

\* What a step of a behaviour is, in each scope.
ScopeStep ==
    \/ /\ scope = "events"
       /\ \E r \in Requests : \/ (EventArrive(r) \/ EventStep(r)) /\ UNCHANGED typeVars
                              \/ ReadArrive(r) \/ ReadStep(r) \/ InsertSystemTypes(r)
                              \/ TypeArrive(r) \/ TypeStep(r)
                              \/ Fails(r) /\ UNCHANGED <<events, typeVars>>
       /\ UNCHANGED <<templates, paperVars, dayVars, fixedVars>>
    \/ /\ scope = "catalog"
       /\ \/ \E r \in Requests : \/ (TypeArrive(r) \/ TypeStep(r)) /\ UNCHANGED <<templates, files>>
                                 \/ CertificateArrive(r) \/ CertificateStep(r)
                                 \/ Fails(r) /\ UNCHANGED certificateVars
          \/ (\E t \in EarlierTypes : IssueTicket(t)) /\ UNCHANGED <<templates, files>>
       /\ UNCHANGED <<events, requirements, submissions, presence, dayVars, fixedVars>>
    \/ /\ scope = "documents"
       /\ \E r \in Requests : \/ DocumentArrive(r) \/ DocumentStep(r)
                              \/ Fails(r) /\ UNCHANGED documentVars
       /\ UNCHANGED <<catalogVars, presence, dayVars, fixedVars>>
    \/ /\ scope = "roster"
       /\ \E r \in Requests : \/ BeginSync(r) \/ RosterStep(r)
                              \/ Fails(r) /\ UNCHANGED presence
       /\ UNCHANGED <<catalogVars, files, requirements, submissions, dayVars, fixedVars>>
    \/ /\ scope = "door"
       /\ UNCHANGED <<catalogVars, paperVars, visit, fixedVars>>
    \/ /\ scope = "stand"
       /\ \E r \in Requests : \/ StandArrive(r) \/ StandStep(r)
                              \/ Fails(r) /\ UNCHANGED visit
       /\ UNCHANGED <<catalogVars, paperVars, entryVars, fixedVars>>
    \/ UNCHANGED officeVars

\* A handler of another scope is not there to take a step.
LEMMA NextIsScoped ==
  ASSUME scope \in Scopes, Here(LabelsOf(scope)), OfficeNext
  PROVE  ScopeStep
<1> USE DEF Open, fixedVars, dayVars, paperVars, catalogVars
<1>a. /\ \A r \in Requests : pc[r] \in LabelsOf(scope) \cup Final \cup {"idle"}
      /\ scope \in {"events", "catalog", "documents", "roster", "door", "stand"}
  BY DEF Here, Scopes
<1>0. ASSUME NEW r \in Requests
      PROVE  /\ EventStep(r) \/ ReadStep(r) \/ InsertSystemTypes(r) => scope = "events"
             /\ TypeStep(r) => scope \in {"events", "catalog"}
             /\ CertificateStep(r) => scope = "catalog"
             /\ DocumentStep(r) => scope = "documents"
             /\ RosterStep(r) => scope = "roster"
             /\ EntryStep(r) => scope = "door"
             /\ StandStep(r) => scope = "stand"
  BY <1>a, StepLabels, LabelsAreApart
     DEF LabelsOf, EventScopeLabels, CatalogLabels, EventLabels
<1>1. ASSUME NEW r \in Requests, InEvents(r) PROVE ScopeStep
  BY <1>0, <1>1 DEF InEvents, ScopeStep
<1>2. ASSUME NEW r \in Requests, InCatalog(r) PROVE ScopeStep
  <2>1. ASSUME (Open("events") \/ Open("catalog")) /\ TypeArrive(r) /\ UNCHANGED <<templates, files>>
        PROVE  ScopeStep
    BY <1>2, <2>1 DEF InCatalog, ScopeStep, TypeArrive, CreateType, UpdateType, DeleteType, ChooseType
  <2>2. ASSUME TypeStep(r), UNCHANGED <<templates, files>> PROVE ScopeStep
    BY <1>0, <1>2, <2>2 DEF InCatalog, ScopeStep, TypeStep, InsertType, SetType, RemoveType
  <2>3. ASSUME Open("catalog"), CertificateArrive(r) PROVE ScopeStep
    BY <1>2, <2>3 DEF InCatalog, ScopeStep, CertificateArrive, CreateTemplate, UpdateTemplate,
       RemoveTemplate, Download, Preview, certificateVars
  <2>4. ASSUME CertificateStep(r) PROVE ScopeStep
    BY <1>0, <1>2, <2>4 DEF InCatalog, ScopeStep, CertificateStep, CountTypes, CheckConflict,
       DeleteOldFile, UploadTemplate, SaveTemplate, DrawCertificate, certificateVars, catalogUnchanged
  <2> QED
    BY <1>2, <2>1, <2>2, <2>3, <2>4 DEF InCatalog
<1>3. ASSUME NEW r \in Requests, InDocuments(r) PROVE ScopeStep
  BY <1>0, <1>3 DEF InDocuments, ScopeStep
<1>4. ASSUME NEW r \in Requests, InRoster(r) PROVE ScopeStep
  BY <1>0, <1>4 DEF InRoster, ScopeStep
<1>5. ASSUME NEW r \in Requests, AtTheDoor(r) PROVE ScopeStep
  BY <1>0, <1>5 DEF AtTheDoor, ScopeStep
<1>6. ASSUME NEW r \in Requests, AtTheStand(r) PROVE ScopeStep
  BY <1>0, <1>6 DEF AtTheStand, ScopeStep
<1>7. ASSUME NEW r \in Requests, OfficeCallFails(r) PROVE ScopeStep
  BY <1>a, <1>7 DEF OfficeCallFails, ScopeStep, certificateVars, documentVars, typeVars, entryVars
<1>8. ASSUME scope = "catalog", NEW t \in EarlierTypes, IssueTicket(t),
             UNCHANGED <<templates, paperVars, dayVars, fixedVars>>
      PROVE  ScopeStep
  BY <1>8 DEF ScopeStep, IssueTicket
<1>9. ASSUME scope = "door", TimePasses, UNCHANGED <<catalogVars, paperVars, visit, fixedVars>>
      PROVE  ScopeStep
  BY <1>9 DEF ScopeStep
<1> QED
  BY <1>1, <1>2, <1>3, <1>4, <1>5, <1>6, <1>7, <1>8, <1>9 DEF OfficeNext, OfficeQuiet, ScopeStep

\* At first nothing is touched,
LEMMA UntouchedInit == OfficeInit => Untouched
BY DEF OfficeInit, Untouched

\* and a scope leaves what is not its own.
LEMMA UntouchedStays ==
  ASSUME Untouched, Here(LabelsOf(scope)), [OfficeNext]_officeVars
  PROVE  Untouched'
<1> USE DEF fixedVars, dayVars, paperVars, catalogVars, entryVars, typeVars
<1>1. CASE UNCHANGED officeVars
  BY <1>1 DEF Untouched, officeVars, EventInit, TypeInit, CertificateInit, StorageInit, DocumentInit,
     RosterInit, EntryInit, StandInit
<1>2. CASE OfficeNext
  <2>1. ScopeStep
    BY <1>2, NextIsScoped DEF Untouched
  <2>2. /\ scope' = scope /\ repaired' = repaired
        /\ scope # "events" => events' = events
        /\ scope \notin {"events", "catalog"} => UNCHANGED <<types, issued>>
        /\ scope # "catalog" => UNCHANGED templates
        /\ scope \notin {"catalog", "documents"} => UNCHANGED files
        /\ scope # "documents" => UNCHANGED <<requirements, submissions>>
        /\ scope # "roster" => UNCHANGED presence
        /\ scope # "door" => UNCHANGED entryVars
        /\ scope # "stand" => UNCHANGED visit
    BY <2>1 DEF ScopeStep, officeVars
  <2> QED
    BY <2>2 DEF Untouched, EventInit, TypeInit, CertificateInit, StorageInit, DocumentInit,
       RosterInit, EntryInit, StandInit
<1> QED
  BY <1>1, <1>2

(***************************************************************************)
(* What the requests of each module ask.                                    *)
(***************************************************************************)
EventOps == {"createEvent", "updateEvent", "status", "submit", "publish"}
ReadOps == {"listEvents", "findEvent", "showEvent", "featured", "eventStats", "companyStats"}
TypeOps == {"createType", "updateType", "deleteType", "chooseType"}
CertificateOps == {"createTemplate", "updateTemplate", "removeTemplate", "download", "preview"}
DocumentOps == {"createRequirement", "updateRequirement", "deleteRequirement", "submitDocument",
                "review", "summary"}
RosterOps == {"syncSpeakers"}
EntryOps == {"change", "cancelTickets", "generate", "scan", "entryStats"}
StandOps == {"standLink", "visit"}

OpsOf(s) ==
    CASE s = "events" -> EventOps \cup ReadOps \cup TypeOps
      [] s = "catalog" -> TypeOps \cup CertificateOps
      [] s = "documents" -> DocumentOps
      [] s = "roster" -> RosterOps
      [] s = "door" -> EntryOps
      [] s = "stand" -> StandOps

\* Calls that are a module's, and what may be asked.
Fit(Labels, Ops) ==
    Labels \cap (Final \cup {"idle"}) = {} /\ "none" \notin Ops /\ Here(Labels) /\ AsksOnly(Ops)

\* The handlers of the events ask what is theirs, and make their calls,
LEMMA EventAsks ==
  ASSUME NEW Labels, NEW Ops, Fit(Labels, Ops), EventLabels \subseteq Labels, EventOps \subseteq Ops,
         NEW r \in Requests, EventArrive(r) \/ EventStep(r)
  PROVE  Here(Labels)' /\ AsksOnly(Ops)'
<1> USE DEF Fit, EventOps
<1>0. EventLabels \cap (Final \cup {"idle"}) = {} /\ Final \subseteq Labels \cup Final
  BY DEF Final, EventLabels
<1> DEFINE L == Labels \cup Final
<1>a. /\ {"slugLookup", "eventInsert", "systemTypes", "slugCheck", "eventSet",
           "submitSave", "publishSet", "ok", "error", "failed"} \subseteq L
  BY DEF EventLabels, Final
<1> HIDE DEF L
<1>b. \A label \in L : label \in Labels \cup Final
  BY DEF L
<1>c. EventStep(r) => InFlight(r)
  BY DEF EventStep, LookUpSlug, GenerateSlug, InsertEvent, CheckSlug, SetEvent, SaveSubmitted,
     SetPublished, InFlight, Final
<1>1. CASE CreateEvent(r)
  <2>1. PICK i \in CreateInputs, active \in BOOLEAN :
        Start(r, IF active THEN "slugLookup" ELSE "error",
              [op |-> "createEvent", generated |-> i.slug = None, new |-> Drafted(i)])
    BY <1>1 DEF CreateEvent
  <2> QED
    BY <1>a, <1>b, <2>1, StartAsks
<1>2. CASE UpdateEvent(r)
  <2>1. PICK e \in Events, changes \in UpdateInputs, label \in {"error", "slugCheck", "eventSet"} :
        Start(r, label, [op |-> "updateEvent", event |-> e, changes |-> changes,
                         new |-> With(events[e], changes)])
    BY <1>2 DEF UpdateEvent, UpdateChecked
  <2> QED
    BY <1>a, <1>b, <2>1, StartAsks
<1>3. ASSUME NEW e \in Events, NEW s, NEW refused, MoveTo(r, e, s, refused)
      PROVE  Here(Labels)' /\ AsksOnly(Ops)'
  <2>1. PICK label \in {"ok", "failed", "error"} : Start(r, label, StatusRequest(e, s))
    BY <1>3 DEF MoveTo
  <2>2. "op" \in DOMAIN StatusRequest(e, s) /\ StatusRequest(e, s).op = "status"
    BY DEF StatusRequest
  <2> QED
    BY <1>a, <1>b, <2>1, <2>2, StartAsks
<1>4. CASE Submit(r)
  <2>1. PICK e \in Events, label \in {"submitSave", "error"} :
        Start(r, label,
              [op |-> "submit", event |-> e, old |-> events[e],
               new |-> [events[e] EXCEPT !.status = "pending_approval", !.explained = FALSE]])
    BY <1>4 DEF Submit
  <2> QED
    BY <1>a, <1>b, <2>1, StartAsks
<1>5. CASE Publish(r)
  <2>1. PICK e \in Events, label \in {"publishSet", "error"} :
        Start(r, label, [op |-> "publish", event |-> e])
    BY <1>5 DEF Publish
  <2> QED
    BY <1>a, <1>b, <2>1, StartAsks
<1>6. CASE GenerateSlug(r) /\ Continue(r, "slugLookup", [local[r] EXCEPT !.new.slug = @ + 1])
  <2>1. "op" \in DOMAIN local[r] /\ local[r].op \in Ops
    BY <1>c, <1>6 DEF AsksOnly, Here, InFlight, Asked, EventStep
  <2>2. /\ "op" \in DOMAIN [local[r] EXCEPT !.new.slug = @ + 1]
        /\ [local[r] EXCEPT !.new.slug = @ + 1].op = local[r].op
    BY <2>1
  <2> QED
    BY <1>a, <1>b, <1>c, <1>6, <2>1, <2>2, ContinueAsks DEF EventStep
<1>7. ASSUME NEW label \in L, EventStep(r), Goto(r, label)
      PROVE  Here(Labels)' /\ AsksOnly(Ops)'
  BY <1>b, <1>c, <1>7, GotoAsks
<1>8. CASE EventStep(r)
  <2>1. \/ \E label \in L : Goto(r, label)
        \/ GenerateSlug(r) /\ Continue(r, "slugLookup", [local[r] EXCEPT !.new.slug = @ + 1])
    <3>1. CASE LookUpSlug(r) \/ InsertEvent(r) \/ CheckSlug(r)
      BY <1>a, <3>1 DEF LookUpSlug, InsertEvent, CheckSlug, UpdateChecked
    <3>2. CASE SetEvent(r) \/ SaveSubmitted(r) \/ SetPublished(r)
      BY <1>a, <3>2 DEF SetEvent, SaveSubmitted, SetPublished, Ends
    <3>3. CASE GenerateSlug(r)
      BY <1>a, <3>3 DEF GenerateSlug
    <3> QED
      BY <1>8, <3>1, <3>2, <3>3 DEF EventStep
  <2> QED
    BY <1>6, <1>7, <1>8, <2>1
<1> QED
  BY <1>1, <1>2, <1>3, <1>4, <1>5, <1>8 DEF EventArrive, ChangeStatus, CancelEvent, DeleteEvent

\* those of the documents,
LEMMA DocumentAsks ==
  ASSUME NEW Labels, NEW Ops, Fit(Labels, Ops), DocumentLabels \subseteq Labels, DocumentOps \subseteq Ops,
         NEW r \in Requests, DocumentArrive(r) \/ DocumentStep(r)
  PROVE  Here(Labels)' /\ AsksOnly(Ops)'
<1> USE DEF Fit, DocumentOps
<1> DEFINE L == Labels \cup Final
<1>a. /\ {"sponsorLookup", "documentUpload", "submissionSave", "reviewSave",
           "ok", "error", "failed"} \subseteq L
  BY DEF DocumentLabels, Final
<1> HIDE DEF L
<1>b. \A label \in L : label \in Labels \cup Final
  BY DEF L
<1>c. DocumentStep(r) => InFlight(r)
  BY DEF DocumentStep, ResolveSponsor, UploadDocument, InsertSubmission, SaveReview, InFlight, Final
<1>1. CASE CreateRequirement(r)
  BY <1>a, <1>b, <1>1, StartAsks DEF CreateRequirement
<1>2. CASE UpdateRequirement(r) \/ DeleteRequirement(r)
  <2>1. PICK op \in {"updateRequirement", "deleteRequirement"} : \E changes : SetRequirement(r, op, changes)
    BY <1>2 DEF UpdateRequirement, DeleteRequirement
  <2> QED
    BY <1>a, <1>b, <2>1, StartAsks DEF SetRequirement
<1>3. CASE SubmitDocument(r)
  <2>1. PICK q \in Requirements, p \in EventSponsors \cup {None}, label \in {"sponsorLookup", "error"} :
            Start(r, label, [op |-> "submitDocument", requirement |-> q, sponsor |-> p])
    BY <1>3 DEF SubmitDocument
  <2> QED
    BY <1>a, <1>b, <2>1, StartAsks
<1>4. CASE ReviewDocument(r)
  <2>1. PICK s \in Requests, v \in Verdicts, label \in {"reviewSave", "error"} :
            Start(r, label, [op |-> "review", document |-> s, verdict |-> v, old |-> submissions[s],
                             new |-> [submissions[s] EXCEPT !.status = v, !.reviewer = r]])
    BY <1>4 DEF ReviewDocument
  <2> QED
    BY <1>a, <1>b, <2>1, StartAsks
<1>5. CASE SummaryRead(r)
  BY <1>a, <1>b, <1>5, StartAsks DEF SummaryRead
<1>6. CASE DocumentStep(r)
  <2>1. PICK label \in L : Goto(r, label)
    BY <1>a, <1>6 DEF DocumentStep, ResolveSponsor, UploadDocument, InsertSubmission, SaveReview, Ends
  <2> QED
    BY <1>b, <1>c, <1>6, <2>1, GotoAsks
<1> QED
  BY <1>1, <1>2, <1>3, <1>4, <1>5, <1>6 DEF DocumentArrive

\* of the stand,
LEMMA StandAsks ==
  ASSUME NEW Labels, NEW Ops, Fit(Labels, Ops), StandLabels \subseteq Labels, StandOps \subseteq Ops,
         NEW r \in Requests, StandArrive(r) \/ StandStep(r)
  PROVE  Here(Labels)' /\ AsksOnly(Ops)'
<1> USE DEF Fit, StandOps
<1> DEFINE L == Labels \cup Final
<1>a. {"visitFind", "visitSave", "ok", "error", "failed"} \subseteq L
  BY DEF StandLabels, Final
<1> HIDE DEF L
<1>b. \A label \in L : label \in Labels \cup Final
  BY DEF L
<1>c. StandStep(r) => InFlight(r)
  BY DEF StandStep, FindVisit, SaveVisit, InFlight, Final
<1>d. \A v, d, old, new : LET l == Visiting(v, d, old, new) IN "op" \in DOMAIN l /\ l.op = "visit"
  BY DEF Visiting
<1>1. CASE StandLink(r)
  BY <1>a, <1>b, <1>1, StartAsks DEF StandLink
<1>2. ASSUME NEW v, NEW by, NEW mode, NEW refused, Arrives(r, refused, v, by, mode)
      PROVE  Here(Labels)' /\ AsksOnly(Ops)'
  BY <1>a, <1>b, <1>d, <1>2, StartAsks DEF Arrives
<1>3. CASE FindVisit(r)
  <2>1. PICK v, d, old, new : Continue(r, "visitSave", Visiting(v, d, old, new))
    BY <1>3 DEF FindVisit
  <2> QED
    BY <1>a, <1>b, <1>c, <1>d, <1>3, <2>1, ContinueAsks DEF StandStep
<1>4. CASE SaveVisit(r)
  <2>1. PICK label \in {"ok", "failed"} : Goto(r, label)
    BY <1>4 DEF SaveVisit, Ends
  <2> QED
    BY <1>a, <1>b, <1>c, <1>4, <2>1, GotoAsks DEF StandStep
<1> QED
  BY <1>1, <1>2, <1>3, <1>4 DEF StandArrive, StandStep, VisitByUser, VisitByStaff

\* of what is read of events,
LEMMA ReadAsks ==
  ASSUME NEW Labels, NEW Ops, Fit(Labels, Ops), ReadLabels \subseteq Labels, ReadOps \subseteq Ops,
         NEW r \in Requests, ReadArrive(r) \/ ReadStep(r)
  PROVE  Here(Labels)' /\ AsksOnly(Ops)'
<1> USE DEF Fit, ReadOps
<1> DEFINE L == Labels \cup Final
<1>a. {"listing", "featuredUpcoming", "featuredOngoing", "statsTypes", "statsCompany",
       "ok", "error", "failed"} \subseteq L
  BY DEF ReadLabels, Final
<1> HIDE DEF L
<1>b. \A label \in L : label \in Labels \cup Final
  BY DEF L
<1>c. ReadStep(r) => InFlight(r)
  BY DEF ReadStep, ReadPage, CountMatching, FeaturedUpcoming, FeaturedOngoing, Featured, SumTypes,
     CountCompany, InFlight, Final
<1>d. InFlight(r) => "op" \in DOMAIN local[r] /\ local[r].op \in Ops
  BY DEF AsksOnly, Here, InFlight, Asked
<1>1. CASE ListEvents(r)
  <2>1. PICK v, S, C : Start(r, "listing", [op |-> "listEvents", viewer |-> v, page |-> None,
                                            total |-> None, statuses |-> S, companies |-> C])
    BY <1>1 DEF ListEvents
  <2> QED
    BY <1>a, <1>b, <2>1, StartAsks
<1>2. ASSUME NEW op \in ReadOps, NEW e, Shows(r, op, e)
      PROVE  Here(Labels)' /\ AsksOnly(Ops)'
  BY <1>a, <1>b, <1>2, StartAsks DEF Shows
<1>3. CASE FindEvent(r)
  <2>1. CASE \E e \in Events : Shows(r, "findEvent", e)
    BY <1>2, <2>1
  <2>2. CASE Start(r, "error", [op |-> "findEvent"])
    BY <1>a, <1>b, <2>2, StartAsks
  <2> QED
    BY <1>3, <2>1, <2>2 DEF FindEvent
<1>4. CASE FindBySlug(r)
  <2>1. CASE \E e \in Events : Shows(r, "showEvent", e)
    BY <1>2, <2>1
  <2>2. CASE Start(r, "error", [op |-> "showEvent"])
    BY <1>a, <1>b, <2>2, StartAsks
  <2> QED
    BY <1>4, <2>1, <2>2 DEF FindBySlug
<1>5. CASE FeaturedMarked(r)
  <2>1. CASE \E e \in OnHomepage : Shows(r, "showEvent", e)
    BY <1>2, <2>1 DEF OnHomepage, Published
  <2>2. CASE Start(r, "featuredUpcoming", [op |-> "featured"])
    BY <1>a, <1>b, <2>2, StartAsks
  <2> QED
    BY <1>5, <2>1, <2>2 DEF FeaturedMarked
<1>6. CASE EventStats(r)
  <2>1. PICK e \in Events, label \in {"statsTypes", "error"} :
            Start(r, label, [op |-> "eventStats", event |-> e])
    BY <1>6 DEF EventStats
  <2> QED
    BY <1>a, <1>b, <2>1, StartAsks
<1>7. CASE CompanyStats(r)
  <2>1. PICK c \in Companies :
            Start(r, "statsCompany", [op |-> "companyStats", company |-> c,
              counts |-> [s \in EventStatus \ {"deleted"} |-> Cardinality(OfCompany(c, s))]])
    BY <1>7 DEF CompanyStats
  <2> QED
    BY <1>a, <1>b, <2>1, StartAsks
<1>8. CASE ReadPage(r)
  <2>1. PICK page \in SUBSET Matching(local[r]), label \in {"listing", "ok"} : Continue(r, label, [local[r] EXCEPT !.page = page])
    BY <1>8 DEF ReadPage
  <2>2. /\ "op" \in DOMAIN [local[r] EXCEPT !.page = page]
        /\ [local[r] EXCEPT !.page = page].op \in Ops
    BY <1>c, <1>d, <1>8 DEF ReadStep
  <2> QED
    BY <1>a, <1>b, <1>c, <1>8, <2>1, <2>2, ContinueAsks DEF ReadStep
<1>9. CASE CountMatching(r)
  <2>1. PICK label \in {"listing", "ok"} : Continue(r, label, [local[r] EXCEPT !.total = Cardinality(Matching(local[r]))])
    BY <1>9 DEF CountMatching
  <2>2. /\ "op" \in DOMAIN [local[r] EXCEPT !.total = Cardinality(Matching(local[r]))]
        /\ [local[r] EXCEPT !.total = Cardinality(Matching(local[r]))].op \in Ops
    BY <1>c, <1>d, <1>9 DEF ReadStep
  <2> QED
    BY <1>a, <1>b, <1>c, <1>9, <2>1, <2>2, ContinueAsks DEF ReadStep
<1>10. ASSUME NEW label, NEW found, NEW next \in {"featuredOngoing", "error"},
              Featured(r, label, found, next), InFlight(r)
       PROVE  Here(Labels)' /\ AsksOnly(Ops)'
  <2>1. CASE \E e \in found : Continue(r, "ok", [op |-> "showEvent", page |-> {e}])
    BY <1>a, <1>b, <1>10, <2>1, ContinueAsks
  <2>2. CASE Goto(r, next)
    BY <1>a, <1>b, <1>10, <2>2, GotoAsks
  <2> QED
    BY <1>10, <2>1, <2>2 DEF Featured
<1>11. CASE SumTypes(r)
  <2>1. PICK e, total : Continue(r, "ok", [op |-> "eventStats", event |-> e, total |-> total])
    BY <1>11 DEF SumTypes
  <2> QED
    BY <1>a, <1>b, <1>c, <1>11, <2>1, ContinueAsks DEF ReadStep
<1>12. CASE CountCompany(r)
  <2>1. PICK counts, total :
            Continue(r, "ok", [op |-> "companyStats", counts |-> counts, total |-> total])
    BY <1>12 DEF CountCompany
  <2> QED
    BY <1>a, <1>b, <1>c, <1>12, <2>1, ContinueAsks DEF ReadStep
<1>13. CASE FeaturedUpcoming(r) \/ FeaturedOngoing(r)
  BY <1>c, <1>10, <1>13 DEF FeaturedUpcoming, FeaturedOngoing, ReadStep
<1> QED
  BY <1>1, <1>3, <1>4, <1>5, <1>6, <1>7, <1>8, <1>9, <1>11, <1>12, <1>13 DEF ReadArrive, ReadStep

\* of the ticket types,
LEMMA TypeAsks ==
  ASSUME NEW Labels, NEW Ops, Fit(Labels, Ops), TypeLabels \subseteq Labels, TypeOps \subseteq Ops,
         NEW r \in Requests, TypeArrive(r) \/ TypeStep(r)
  PROVE  Here(Labels)' /\ AsksOnly(Ops)'
<1> USE DEF Fit, TypeOps
<1> DEFINE L == Labels \cup Final
<1>a. {"typeInsert", "typeSet", "typeDelete", "ok", "error", "failed"} \subseteq L
  BY DEF TypeLabels, Final
<1> HIDE DEF L
<1>b. \A label \in L : label \in Labels \cup Final
  BY DEF L
<1>c. TypeStep(r) => InFlight(r)
  BY DEF TypeStep, InsertType, SetType, RemoveType, InFlight, Final
<1>1. CASE CreateType(r)
  <2>1. PICK e \in Events, free \in BOOLEAN, label \in {"typeInsert", "error"} :
            Start(r, label, [op |-> "createType", event |-> e, free |-> free])
    BY <1>1 DEF CreateType
  <2> QED
    BY <1>a, <1>b, <2>1, StartAsks
<1>2. CASE UpdateType(r)
  <2>1. PICK t \in Types, s \in {"available", "paused"}, label \in {"typeSet", "error"} :
            Start(r, label, [op |-> "updateType", type |-> t, status |-> s])
    BY <1>2 DEF UpdateType
  <2> QED
    BY <1>a, <1>b, <2>1, StartAsks
<1>3. CASE DeleteType(r)
  <2>1. PICK t \in Types, label \in {"typeDelete", "error"} :
            Start(r, label, [op |-> "deleteType", type |-> t])
    BY <1>3 DEF DeleteType
  <2> QED
    BY <1>a, <1>b, <2>1, StartAsks
<1>4. CASE ChooseType(r)
  <2>1. PICK e \in Events, role \in SystemRoles \cup {"scholarship"} :
            LET chosen(t) == [op |-> "chooseType", event |-> e, role |-> role, type |-> t]
            IN  (\E t \in BestTypes(e, role) : Start(r, "ok", chosen(t))) \/ Start(r, "error", chosen(None))
    BY <1>4 DEF ChooseType
  <2>2. ASSUME NEW t, NEW label \in {"ok", "error"},
               Start(r, label, [op |-> "chooseType", event |-> e, role |-> role, type |-> t])
        PROVE  Here(Labels)' /\ AsksOnly(Ops)'
    BY <1>a, <1>b, <2>2, StartAsks
  <2> QED
    BY <2>1, <2>2
<1>5. CASE TypeStep(r)
  <2>1. PICK label \in L : Goto(r, label)
    BY <1>a, <1>5 DEF TypeStep, InsertType, SetType, RemoveType, Ends
  <2> QED
    BY <1>b, <1>c, <1>5, <2>1, GotoAsks
<1> QED
  BY <1>1, <1>2, <1>3, <1>4, <1>5 DEF TypeArrive

\* The insertion of the system types is a call of the creation of an event.
LEMMA SystemTypesAsk ==
  ASSUME NEW Labels, NEW Ops, Fit(Labels, Ops), NEW r \in Requests, InsertSystemTypes(r)
  PROVE  Here(Labels)' /\ AsksOnly(Ops)'
<1>1. InFlight(r)
  BY DEF InsertSystemTypes, InFlight, Final
<1>2. PICK label \in Final : Goto(r, label)
  BY DEF InsertSystemTypes, AnswerCreation, Ends, Final
<1> QED
  BY <1>1, <1>2, GotoAsks DEF Fit

\* of the certificates,
LEMMA CertificateAsks ==
  ASSUME NEW Labels, NEW Ops, Fit(Labels, Ops), CertificateLabels \subseteq Labels,
         CertificateOps \subseteq Ops, NEW r \in Requests, CertificateArrive(r) \/ CertificateStep(r)
  PROVE  Here(Labels)' /\ AsksOnly(Ops)'
<1> USE DEF Fit, CertificateOps
<1> DEFINE L == Labels \cup Final
<1>a. {"templateTypes", "templateConflict", "templateDelete", "templateUpload", "templateSave",
       "certificateDraw", "ok", "error", "failed"} \subseteq L
  BY DEF CertificateLabels, Final
<1> HIDE DEF L
<1>b. \A label \in L : label \in Labels \cup Final
  BY DEF L
<1>c. CertificateStep(r) => InFlight(r)
  BY DEF CertificateStep, CountTypes, CheckConflict, DeleteOldFile, UploadTemplate, SaveTemplate,
     DrawCertificate, InFlight, Final
<1>d. InFlight(r) => "op" \in DOMAIN local[r] /\ local[r].op \in Ops
  BY DEF AsksOnly, Here, InFlight, Asked
<1>e. \A op, k, changes, withFile, old :
         LET l == TemplateRequest(op, k, changes, withFile, old) IN "op" \in DOMAIN l /\ l.op = op
  BY DEF TemplateRequest
<1>f. \A op, k : LET l == Drawing(op, k) IN "op" \in DOMAIN l /\ l.op = op
  BY DEF Drawing
<1>1. CASE CreateTemplate(r)
  <2>1. PICK e \in EarlierEvents, T \in GivenTypes, label \in L :
            Start(r, label, TemplateRequest("createTemplate", r, [event |-> e, types |-> T],
                                            TRUE, NoTemplate))
    BY <1>1, <1>a DEF CreateTemplate
  <2>2. LET l == TemplateRequest("createTemplate", r, [event |-> e, types |-> T], TRUE, NoTemplate)
        IN  "op" \in DOMAIN l /\ l.op = "createTemplate"
    BY DEF TemplateRequest
  <2> QED
    BY <1>b, <2>1, <2>2, StartAsks
<1>2. CASE UpdateTemplate(r)
  <2>1. PICK k \in Templates, changes \in TemplateChanges, withFile \in BOOLEAN, label \in L :
            Start(r, label, TemplateRequest("updateTemplate", k, changes, withFile, templates[k]))
    BY <1>2, <1>a DEF UpdateTemplate, AfterChecks
  <2> QED
    BY <1>b, <1>e, <2>1, StartAsks
<1>3. CASE RemoveTemplate(r)
  <2>1. PICK k \in Templates, label \in L :
            Start(r, label, TemplateRequest("removeTemplate", k, [active |-> FALSE], FALSE, templates[k]))
    BY <1>3, <1>a DEF RemoveTemplate
  <2>2. LET l == TemplateRequest("removeTemplate", k, [active |-> FALSE], FALSE, templates[k])
        IN  "op" \in DOMAIN l /\ l.op = "removeTemplate"
    BY DEF TemplateRequest
  <2> QED
    BY <1>b, <2>1, <2>2, StartAsks
<1>4. CASE Download(r)
  <2>1. CASE \E k \in Templates : Start(r, "certificateDraw", Drawing("download", k))
    BY <1>a, <1>b, <1>f, <2>1, StartAsks
  <2>2. CASE Start(r, "error", [op |-> "download"])
    BY <1>a, <1>b, <2>2, StartAsks
  <2> QED
    BY <1>4, <2>1, <2>2 DEF Download
<1>5. CASE Preview(r)
  <2>1. PICK k \in Templates, label \in L : Start(r, label, Drawing("preview", k))
    BY <1>5, <1>a DEF Preview
  <2> QED
    BY <1>b, <1>f, <2>1, StartAsks
<1>6. CASE UploadTemplate(r)
  <2>1. /\ "op" \in DOMAIN [local[r] EXCEPT !.new.file = r]
        /\ [local[r] EXCEPT !.new.file = r].op \in Ops
    BY <1>c, <1>d, <1>6 DEF CertificateStep
  <2> QED
    BY <1>a, <1>b, <1>c, <1>6, <2>1, ContinueAsks DEF UploadTemplate, CertificateStep
<1>7. CASE CountTypes(r) \/ CheckConflict(r) \/ DeleteOldFile(r) \/ SaveTemplate(r) \/ DrawCertificate(r)
  <2>1. PICK label \in L : Goto(r, label)
    BY <1>a, <1>7 DEF CountTypes, CheckConflict, DeleteOldFile, SaveTemplate, DrawCertificate, Ends,
       AfterChecks
  <2> QED
    BY <1>b, <1>c, <1>7, <2>1, GotoAsks DEF CertificateStep
<1> QED
  BY <1>1, <1>2, <1>3, <1>4, <1>5, <1>6, <1>7 DEF CertificateArrive, CertificateStep

\* of the speakers,
LEMMA RosterAsks ==
  ASSUME NEW Labels, NEW Ops, Fit(Labels, Ops), RosterLabels \subseteq Labels, RosterOps \subseteq Ops,
         NEW r \in Requests, BeginSync(r) \/ RosterStep(r)
  PROVE  Here(Labels)' /\ AsksOnly(Ops)'
<1> USE DEF Fit, RosterOps
<1> DEFINE L == Labels \cup Final
<1>a. {"rosterRemove", "rosterAdd", "ok", "error", "failed"} \subseteq L
  BY DEF RosterLabels, Final
<1> HIDE DEF L
<1>b. \A label \in L : label \in Labels \cup Final
  BY DEF L
<1>c. RosterStep(r) => InFlight(r)
  BY DEF RosterStep, RemoveSpeakers, LookUpSpeaker, SaveSpeaker, InFlight, Final
<1>d. InFlight(r) => "op" \in DOMAIN local[r] /\ local[r].op \in Ops
  BY DEF AsksOnly, Here, InFlight, Asked
<1>1. CASE BeginSync(r)
  <2> DEFINE current == {s \in EventSpeakers : Active(s)}
  <2>1. PICK list \in SUBSET EventSpeakers, label \in L :
                Start(r, label, Sync(list, current \ list, list \ current, {}))
    BY <1>a, <1>1 DEF BeginSync
  <2>2. LET l == Sync(list, current \ list, list \ current, {}) IN "op" \in DOMAIN l /\ l.op = "syncSpeakers"
    BY DEF Sync
  <2> QED
    BY <1>b, <2>1, <2>2, StartAsks
<1>2. CASE RemoveSpeakers(r)
  <2>1. PICK label \in L : Goto(r, label)
    BY <1>a, <1>2 DEF RemoveSpeakers
  <2> QED
    BY <1>b, <1>c, <1>2, <2>1, GotoAsks DEF RosterStep
<1>3. CASE LookUpSpeaker(r)
  <2>1. PICK s \in local[r].look, d \in Participants, label \in L :
            \E save \in {local[r].save, local[r].save \cup {d}} :
                Continue(r, label, [local[r] EXCEPT !.look = local[r].look \ {s}, !.save = save])
    BY <1>a, <1>3 DEF LookUpSpeaker, LeftAfter
  <2>2. PICK save \in {local[r].save, local[r].save \cup {d}} :
            Continue(r, label, [local[r] EXCEPT !.look = local[r].look \ {s}, !.save = save])
    BY <2>1
  <2>3. LET l == [local[r] EXCEPT !.look = local[r].look \ {s}, !.save = save]
        IN  "op" \in DOMAIN l /\ l.op \in Ops
    BY <1>c, <1>d, <1>3 DEF RosterStep
  <2> QED
    BY <1>b, <1>c, <1>3, <2>2, <2>3, ContinueAsks DEF RosterStep
<1>4. CASE SaveSpeaker(r)
  <2>1. PICK d \in local[r].save, label \in L :
                Continue(r, label, [local[r] EXCEPT !.save = local[r].save \ {d}])
    BY <1>a, <1>4 DEF SaveSpeaker, LeftAfter
  <2>2. LET l == [local[r] EXCEPT !.save = local[r].save \ {d}] IN "op" \in DOMAIN l /\ l.op \in Ops
    BY <1>c, <1>d, <1>4 DEF RosterStep
  <2> QED
    BY <1>b, <1>c, <1>4, <2>1, <2>2, ContinueAsks DEF RosterStep
<1> QED
  BY <1>1, <1>2, <1>3, <1>4 DEF RosterStep

\* and of the door.
LEMMA EntryAsks ==
  ASSUME NEW Labels, NEW Ops, Fit(Labels, Ops), EntryLabels \subseteq Labels, EntryOps \subseteq Ops,
         NEW r \in Requests, EntryArrive(r) \/ EntryStep(r)
  PROVE  Here(Labels)' /\ AsksOnly(Ops)'
<1> USE DEF Fit, EntryOps
<1> DEFINE L == Labels \cup Final
<1>a. {"ticketSave", "scanUsed", "scanLog", "statsLast", "ok", "error", "failed"} \subseteq L
  BY DEF EntryLabels, Final
<1> HIDE DEF L
<1>b. \A label \in L : label \in Labels \cup Final
  BY DEF L
<1>c. EntryStep(r) => InFlight(r)
  BY DEF EntryStep, SaveTicketChange, ScanUsed, ScanLog, ScanCallFails, StatsLast, InFlight, Final
<1>d. InFlight(r) => "op" \in DOMAIN local[r] /\ local[r].op \in Ops
  BY DEF AsksOnly, Here, InFlight, Asked
<1>e. \A t, answer : LET l == Scan(t, answer) IN "op" \in DOMAIN l /\ l.op = "scan"
  BY DEF Scan
<1>1. ASSUME NEW t, NEW new, ReadForChange(r, t, new)
      PROVE  Here(Labels)' /\ AsksOnly(Ops)'
  <2>1. PICK label \in L : Start(r, label, [op |-> "change", ticket |-> t, old |-> ticket[t], new |-> new])
    BY <1>a, <1>1 DEF ReadForChange
  <2> QED
    BY <1>b, <2>1, StartAsks
<1>2. CASE CancelOrderTickets(r)
  BY <1>a, <1>b, <1>2, StartAsks DEF CancelOrderTickets
<1>3. CASE GenerateQR(r)
  <2>1. PICK t \in Tickets, u \in Users, label \in L : Start(r, label, [op |-> "generate", ticket |-> t, user |-> u])
    BY <1>a, <1>3 DEF GenerateQR
  <2> QED
    BY <1>b, <2>1, StartAsks
<1>4. CASE ScanArrives(r)
  <2>1. PICK t \in Tickets \cup {None}, label \in L,
             answer \in {"none", "invalid_signature", "invalid_ticket"} :
                Start(r, label, Scan(t, answer))
    BY <1>a, <1>4 DEF ScanArrives
  <2> QED
    BY <1>b, <1>e, <2>1, StartAsks
<1>5. CASE EntryStats(r) \/ EntryHistory(r)
  <2>1. CASE EntryStats(r)
    BY <1>a, <1>b, <2>1, StartAsks DEF EntryStats
  <2>2. CASE EntryHistory(r)
    <3>1. PICK t \in Tickets, label \in {"failed", "ok"} :
            Start(r, label, [op |-> "entryStats", of |-> {t}, total |-> Cardinality(Logged({t}))])
      BY <2>2 DEF EntryHistory
    <3> QED
      BY <1>a, <1>b, <3>1, StartAsks
  <2> QED
    BY <1>5, <2>1, <2>2
<1>6. ASSUME NEW t, NEW answer, NEW label \in L, EntryStep(r), Continue(r, label, Scan(t, answer))
      PROVE  Here(Labels)' /\ AsksOnly(Ops)'
  BY <1>b, <1>c, <1>e, <1>6, ContinueAsks
<1>7. ASSUME NEW label \in L, EntryStep(r), Goto(r, label)
      PROVE  Here(Labels)' /\ AsksOnly(Ops)'
  BY <1>b, <1>c, <1>7, GotoAsks
<1>8. CASE EntryStep(r)
  <2>1. \/ \E label \in L : Goto(r, label)
        \/ \E t, answer : \E label \in {"ok", "failed"} : Continue(r, label, Scan(t, answer))
    <3>1. CASE SaveTicketChange(r) \/ StatsLast(r)
      BY <1>a, <3>1 DEF SaveTicketChange, StatsLast, Ends
    <3>2. CASE ScanUsed(r)
      BY <1>a, <3>2 DEF ScanUsed, Goto
    <3>3. CASE ScanLog(r) \/ ScanCallFails(r)
      BY <3>3 DEF ScanLog, ScanCallFails, ScanFails
    <3> QED
      BY <1>8, <3>1, <3>2, <3>3 DEF EntryStep
  <2> QED
    BY <1>a, <1>6, <1>7, <1>8, <2>1
<1> QED
  BY <1>1, <1>2, <1>3, <1>4, <1>5, <1>8 DEF EntryArrive, UpdateAttendee, Transfer

(***************************************************************************)
(* The requests of every scope.                                             *)
(***************************************************************************)
OfficeHere ==
    /\ scope \in Scopes /\ Here(LabelsOf(scope)) /\ AsksOnly(OpsOf(scope))

\* At first nobody has arrived,
LEMMA OfficeHereInit == OfficeInit => OfficeHere
BY HereInit, AsksInit DEF OfficeInit, OfficeHere

\* and whoever arrives is of the scope.
LEMMA OfficeHereStays ==
  ASSUME OfficeHere, [OfficeNext]_officeVars
  PROVE  OfficeHere'
<1>0. PICK Labels, Ops : Labels = LabelsOf(scope) /\ Ops = OpsOf(scope)
  OBVIOUS
<1>1. scope \in {"events", "catalog", "documents", "roster", "door", "stand"}
  BY DEF OfficeHere, Scopes
<1>2. Fit(Labels, Ops)
  <2>1. Labels \cap (Final \cup {"idle"}) = {}
    BY <1>0, <1>1, LabelsAreApart DEF LabelsOf, EventScopeLabels, CatalogLabels
  <2>2. "none" \notin Ops
    BY <1>0, <1>1 DEF OpsOf, EventOps, ReadOps, TypeOps, CertificateOps, DocumentOps, RosterOps, EntryOps,
       StandOps
  <2> QED
    BY <1>0, <2>1, <2>2 DEF OfficeHere, Fit
<1>3. /\ scope = "events" => /\ EventLabels \cup ReadLabels \cup TypeLabels \subseteq Labels
                             /\ EventOps \cup ReadOps \cup TypeOps \subseteq Ops
      /\ scope = "catalog" => /\ TypeLabels \cup CertificateLabels \subseteq Labels
                              /\ TypeOps \cup CertificateOps \subseteq Ops
      /\ scope = "documents" => DocumentLabels \subseteq Labels /\ DocumentOps \subseteq Ops
      /\ scope = "roster" => RosterLabels \subseteq Labels /\ RosterOps \subseteq Ops
      /\ scope = "door" => EntryLabels \subseteq Labels /\ EntryOps \subseteq Ops
      /\ scope = "stand" => StandLabels \subseteq Labels /\ StandOps \subseteq Ops
  BY <1>0, <1>1 DEF LabelsOf, OpsOf, EventScopeLabels, CatalogLabels
<1>4. ASSUME UNCHANGED handlerVars
      PROVE  Here(Labels)' /\ AsksOnly(Ops)'
  BY <1>2, <1>4 DEF Fit, handlerVars, Here, AsksOnly, Asked
<1>5. ASSUME NEW r \in Requests, Fails(r)
      PROVE  Here(Labels)' /\ AsksOnly(Ops)'
  BY <1>2, <1>5, GotoAsks DEF Fails, Fit, Final
<1>6. Here(Labels)' /\ AsksOnly(Ops)'
  <2>1. CASE UNCHANGED officeVars
    BY <1>4, <2>1 DEF officeVars, handlerVars
  <2>2. CASE OfficeNext
    <3>1. CASE \E r \in Requests : \/ InEvents(r) \/ InCatalog(r) \/ InDocuments(r) \/ InRoster(r)
                                   \/ AtTheDoor(r) \/ AtTheStand(r) \/ OfficeCallFails(r)
      <4>1. PICK r \in Requests : \/ InEvents(r) \/ InCatalog(r) \/ InDocuments(r) \/ InRoster(r)
                                  \/ AtTheDoor(r) \/ AtTheStand(r) \/ OfficeCallFails(r)
        BY <3>1
      <4>2. /\ EventStep(r) \/ ReadStep(r) \/ InsertSystemTypes(r) => scope = "events"
            /\ TypeStep(r) => scope \in {"events", "catalog"}
            /\ CertificateStep(r) => scope = "catalog"
            /\ DocumentStep(r) => scope = "documents"
            /\ RosterStep(r) => scope = "roster"
            /\ EntryStep(r) => scope = "door"
            /\ StandStep(r) => scope = "stand"
        <5>1. pc[r] \in Labels \cup Final \cup {"idle"}
          BY <1>2 DEF Fit, Here
        <5> QED
          BY <1>0, <1>1, <5>1, StepLabels, LabelsAreApart
             DEF LabelsOf, EventScopeLabels, CatalogLabels, EventLabels
      <4>3. CASE InEvents(r)
        BY <1>2, <1>3, <4>2, <4>3, EventAsks, ReadAsks, SystemTypesAsk DEF InEvents, Open
      <4>4. CASE InCatalog(r)
        BY <1>2, <1>3, <4>2, <4>4, TypeAsks, CertificateAsks DEF InCatalog, Open
      <4>5. CASE InDocuments(r)
        BY <1>2, <1>3, <4>2, <4>5, DocumentAsks DEF InDocuments, Open
      <4>6. CASE InRoster(r)
        BY <1>2, <1>3, <4>2, <4>6, RosterAsks DEF InRoster, Open
      <4>7. CASE AtTheDoor(r)
        BY <1>2, <1>3, <4>2, <4>7, EntryAsks DEF AtTheDoor, Open
      <4>8. CASE AtTheStand(r)
        BY <1>2, <1>3, <4>2, <4>8, StandAsks DEF AtTheStand, Open
      <4>9. CASE OfficeCallFails(r)
        BY <1>5, <4>9 DEF OfficeCallFails
      <4> QED
        BY <4>1, <4>3, <4>4, <4>5, <4>6, <4>7, <4>8, <4>9
    <3>2. CASE scope = "catalog" /\ \E t \in EarlierTypes : IssueTicket(t)
      BY <1>4, <3>2 DEF IssueTicket
    <3>3. CASE scope = "door" /\ TimePasses
      BY <1>4, <3>3 DEF TimePasses
    <3>4. CASE OfficeQuiet
      BY <1>4, <3>4 DEF OfficeQuiet, officeVars, handlerVars
    <3> QED
      BY <2>2, <3>1, <3>2, <3>3, <3>4 DEF OfficeNext
  <2> QED
    BY <2>1, <2>2
<1>7. scope' = scope
  BY DEF OfficeNext, InEvents, InCatalog, InDocuments, InRoster, AtTheDoor, AtTheStand, OfficeCallFails,
     OfficeQuiet, officeVars, fixedVars
<1>8. LabelsOf(scope)' = Labels /\ OpsOf(scope)' = Ops
  BY <1>0, <1>7 DEF LabelsOf, OpsOf
<1> QED
  BY <1>1, <1>6, <1>7, <1>8 DEF OfficeHere

(***************************************************************************)
(* The stand of a sponsor.                                                  *)
(***************************************************************************)
\* What a scan knows of its visitor and of the visit it counts.
StandShape ==
    \A r \in Requests :
        /\ pc[r] \in StandLabels => Asked(r, "visit")
        /\ Asked(r, "visit") =>
            /\ {"visitor", "doc"} \subseteq DOMAIN local[r]
            /\ local[r].visitor \in Visitors /\ local[r].doc \in Requests
            /\ local[r].doc # r => visit[local[r].doc].visitor = local[r].visitor
            /\ pc[r] = "ok" => visit[local[r].doc].visitor = local[r].visitor
        /\ pc[r] \in StandLabels =>
            /\ local[r] = Visiting(local[r].visitor, local[r].doc, local[r].old, local[r].new)
            /\ local[r].old \in VisitDoc /\ local[r].new \in VisitDoc
            /\ local[r].new.visitor = local[r].visitor /\ local[r].visitor \notin StandStaff
        /\ pc[r] = "visitFind" => local[r].doc = r /\ local[r].old = NoVisit
        /\ pc[r] = "visitSave" =>
            /\ local[r].new.count = local[r].old.count + 1
            /\ local[r].doc = r => local[r].old = NoVisit
            /\ local[r].doc # r => local[r].old.visitor = local[r].visitor

\* A visit that is stored was stored for a scan that has ended.
StandStored ==
    \A r \in Requests :
        \/ visit[r] = NoVisit
        \/ /\ pc[r] \in Final /\ Asked(r, "visit") /\ local[r].visitor = visit[r].visitor
           /\ visit[r].visitor \in Visitors \ StandStaff /\ visit[r].count > 0

\* The scans that have ended and were about the visit d.
ScansOf(d) == {q \in Requests : pc[q] \in Final /\ Asked(q, "visit") /\ local[q].doc = d}

\* A visit counts no more than the scans that were about it, now and when it
\* was read.
StandBacked ==
    /\ \A d \in Requests : visit[d].count <= Cardinality(ScansOf(d))
    /\ \A r \in Requests : pc[r] = "visitSave" =>
            local[r].old.count <= Cardinality(ScansOf(local[r].doc))

\* As long as the scans do not overlap, a visitor has one visit, which counts
\* them, and what a scan has read of it is what is stored.
StandSerial ==
    SerialSoFar =>
        /\ \A v \in Visitors : VisitsOf(v) = {} => Scans(v, {"ok"}) = {}
        /\ \A d, e \in Requests : visit[d].visitor # None /\ visit[d].visitor = visit[e].visitor => d = e
        /\ \A d \in Requests : visit[d].visitor # None =>
                visit[d].count = Cardinality(Scans(visit[d].visitor, {"ok"}))
        /\ \A r \in Requests : pc[r] = "visitSave" =>
                /\ local[r].doc = r => VisitsOf(local[r].visitor) = {}
                /\ local[r].doc # r => local[r].old = visit[local[r].doc]

StandInv ==
    /\ Here(StandLabels) /\ visit \in [Requests -> VisitDoc]
    /\ StandShape /\ StandStored /\ StandBacked /\ StandSerial

(***************************************************************************)
(* What a scan does.                                                        *)
(***************************************************************************)
\* A request for the link of the stand.
LinkMoves(r) ==
    /\ \E label \in Final : Went(r, label, [op |-> "standLink"])
    /\ pc[r] = "idle" /\ UNCHANGED visit

\* A scan arrives.
ScanComes(r) ==
    /\ pc[r] = "idle" /\ UNCHANGED visit
    /\ \E label \in {"error", "visitFind"}, v, by \in Visitors, mode \in {"user", "staff"} :
        /\ label = "visitFind" => v \notin StandStaff
        /\ Went(r, label, Visiting(v, r, NoVisit, [visitor |-> v, scannedBy |-> by,
                                                   mode |-> mode, count |-> 0]))

\* A scan finds a visit, or none.
ScanFinds(r) ==
    /\ pc[r] = "visitFind" /\ UNCHANGED visit
    /\ \E d \in Requests, old \in VisitDoc :
        /\ Went(r, "visitSave", Visiting(local[r].visitor, d, old,
                                         [local[r].new EXCEPT !.count = old.count + 1]))
        /\ \/ d = r /\ old = NoVisit /\ VisitsOf(local[r].visitor) = {}
           \/ d \in VisitsOf(local[r].visitor) /\ old = visit[d]

\* A scan writes the visit, and ends.
ScanSaves(r) ==
    /\ pc[r] = "visitSave"
    /\ visit' = [visit EXCEPT ![local[r].doc] =
            [f \in DOMAIN @ |-> IF local[r].new[f] = local[r].old[f] THEN @[f] ELSE local[r].new[f]]]
    /\ \E label \in {"ok", "failed"} : Went(r, label, local[r])

\* A call of a scan is rejected.
ScanIsCut(r) == pc[r] \in StandLabels /\ Went(r, "failed", local[r]) /\ UNCHANGED visit

StandMove(r) == LinkMoves(r) \/ ScanComes(r) \/ ScanFinds(r) \/ ScanSaves(r) \/ ScanIsCut(r)

\* What a request at the stand does.
LEMMA StandMoves ==
  ASSUME StandInv, NEW r \in Requests,
         StandArrive(r) \/ StandStep(r) \/ (Fails(r) /\ UNCHANGED visit)
  PROVE  StandMove(r) /\ Here(StandLabels)'
<1> USE DEF Final, StandLabels
<1>a. ASSUME pc[r] \in StandLabels
      PROVE  "op" \in DOMAIN local[r] /\ local[r].op # "none"
  <2>1. local[r] = Visiting(local[r].visitor, local[r].doc, local[r].old, local[r].new)
    BY <1>a DEF StandInv, StandShape
  <2>2. \A v, d, old, new : "op" \in DOMAIN Visiting(v, d, old, new)
                             /\ Visiting(v, d, old, new).op = "visit"
    BY DEF Visiting
  <2> QED
    BY <2>1, <2>2
<1>0. /\ Here(StandLabels) /\ StandLabels \cap (Final \cup {"idle"}) = {}
      /\ pc[r] \in StandLabels => "op" \in DOMAIN local[r] /\ local[r].op # "none"
  BY <1>a DEF StandInv
<1>1. CASE StandLink(r)
  <2>1. PICK label \in {"ok", "error"} : Start(r, label, [op |-> "standLink"])
    BY <1>1 DEF StandLink
  <2> QED
    BY <1>0, <1>1, <2>1, Starts DEF StandLink, StandMove, LinkMoves
<1>2. ASSUME NEW v \in Visitors, NEW by \in Visitors, NEW mode \in {"user", "staff"},
             NEW refused \in BOOLEAN, ~refused => v \notin StandStaff, Arrives(r, refused, v, by, mode)
      PROVE  StandMove(r) /\ Here(StandLabels)'
  <2> DEFINE l == Visiting(v, r, NoVisit, [visitor |-> v, scannedBy |-> by, mode |-> mode, count |-> 0])
             label == IF refused THEN "error" ELSE "visitFind"
  <2>1. "op" \in DOMAIN l /\ l.op # "none" /\ label \in StandLabels \cup Final
    BY DEF Visiting
  <2>2. Start(r, label, l) /\ UNCHANGED visit
    BY <1>2 DEF Arrives
  <2> HIDE DEF l
  <2>3. Here(StandLabels)' /\ Went(r, label, l) /\ pc[r] = "idle"
    BY <1>0, <2>1, <2>2, Starts
  <2> QED
    BY <1>2, <2>2, <2>3 DEF StandMove, ScanComes, l
<1>3. CASE VisitByUser(r)
  <2>1. PICK v \in Visitors, active \in BOOLEAN : Arrives(r, ~active \/ v \in StandStaff, v, v, "user")
    BY <1>3 DEF VisitByUser
  <2> QED
    BY <1>2, <2>1
<1>4. CASE VisitByStaff(r)
  <2>1. PICK v \in Visitors, by \in Visitors, active \in BOOLEAN, genuine \in BOOLEAN :
            Arrives(r, ~active \/ ~genuine \/ v = by \/ v \in StandStaff, v, by, "staff")
    BY <1>4 DEF VisitByStaff
  <2> QED
    BY <1>2, <2>1
<1>5. CASE FindVisit(r)
  <2> DEFINE v == local[r].visitor
             new(old) == [local[r].new EXCEPT !.count = old.count + 1]
  <2>1. InFlight(r)
    BY <1>5 DEF FindVisit, InFlight
  <2>2. PICK d \in Requests, old \in VisitDoc :
            /\ Continue(r, "visitSave", Visiting(v, d, old, new(old)))
            /\ \/ d = r /\ old = NoVisit /\ VisitsOf(v) = {}
               \/ d \in VisitsOf(v) /\ old = visit[d]
    <3>1. CASE VisitsOf(v) = {} /\ Continue(r, "visitSave", Visiting(v, r, NoVisit, new(NoVisit)))
      BY <3>1 DEF NoVisit, VisitDoc
    <3>2. ASSUME NEW d \in VisitsOf(v), Continue(r, "visitSave", Visiting(v, d, visit[d], new(visit[d])))
          PROVE  \E e \in Requests, old \in VisitDoc :
                    /\ Continue(r, "visitSave", Visiting(v, e, old, new(old)))
                    /\ e \in VisitsOf(v) /\ old = visit[e]
      BY <3>2 DEF VisitsOf, StandInv
    <3> QED
      BY <1>5, <3>1, <3>2 DEF FindVisit, FoundVisit, CountVisit
  <2>3. Here(StandLabels)' /\ Went(r, "visitSave", Visiting(v, d, old, new(old)))
    BY <1>0, <2>1, <2>2, Continues DEF Visiting
  <2> QED
    BY <1>5, <2>2, <2>3 DEF FindVisit, StandMove, ScanFinds
<1>6. CASE SaveVisit(r)
  <2>1. InFlight(r) /\ pc[r] \in StandLabels
    BY <1>6 DEF SaveVisit, InFlight
  <2>2. PICK label \in {"ok", "failed"} : Continue(r, label, local[r])
    BY <1>6 DEF SaveVisit, Ends, Goto
  <2>3. Here(StandLabels)' /\ Went(r, label, local[r])
    BY <1>0, <2>1, <2>2, Continues
  <2> QED
    BY <1>6, <2>3 DEF SaveVisit, StandMove, ScanSaves
<1>7. CASE Fails(r) /\ UNCHANGED visit
  <2>1. pc[r] \in StandLabels
    BY <1>0, <1>7 DEF Fails, InFlight, Here
  <2>2. Here(StandLabels)' /\ Went(r, "failed", local[r])
    BY <1>0, <1>7, <2>1, Continues DEF Fails, Goto
  <2> QED
    BY <1>7, <2>1, <2>2 DEF StandMove, ScanIsCut
<1> QED
  BY <1>1, <1>3, <1>4, <1>5, <1>6, <1>7 DEF StandArrive, StandStep

\* What r is after its move, field by field.
ScanKnown(r) ==
    /\ Asked(r, "visit")' /\ {"visitor", "doc"} \subseteq DOMAIN local'[r]

ScanCame(r) ==
    /\ pc[r] = "idle" /\ pc'[r] \in {"error", "visitFind"} /\ UNCHANGED visit
    /\ ScanKnown(r) /\ local'[r].visitor \in Visitors /\ local'[r].doc = r
    /\ pc'[r] = "visitFind" =>
        /\ local'[r] = Visiting(local'[r].visitor, r, NoVisit, local'[r].new)
        /\ local'[r].new \in VisitDoc /\ local'[r].new.visitor = local'[r].visitor
        /\ local'[r].old = NoVisit /\ local'[r].visitor \notin StandStaff

ScanFound(r) ==
    /\ pc[r] = "visitFind" /\ pc'[r] = "visitSave" /\ UNCHANGED visit
    /\ ScanKnown(r) /\ local'[r].visitor = local[r].visitor /\ local'[r].doc \in Requests
    /\ local'[r] = Visiting(local[r].visitor, local'[r].doc, local'[r].old, local'[r].new)
    /\ local'[r].old \in VisitDoc /\ local'[r].new \in VisitDoc
    /\ local'[r].new.visitor = local[r].visitor
    /\ local'[r].new.count = local'[r].old.count + 1
    /\ \/ local'[r].doc = r /\ local'[r].old = NoVisit /\ VisitsOf(local[r].visitor) = {}
       \/ local'[r].doc \in VisitsOf(local[r].visitor) /\ local'[r].old = visit[local'[r].doc]

ScanEnded(r) ==
    /\ pc[r] \in StandLabels /\ pc'[r] \in {"ok", "failed"}
    /\ ScanKnown(r) /\ local'[r].visitor = local[r].visitor /\ local'[r].doc = local[r].doc
    /\ \/ pc'[r] = "failed" /\ UNCHANGED visit
       \/ /\ pc[r] = "visitSave"
          /\ \A d \in Requests \ {local[r].doc} : visit'[d] = visit[d]
          /\ visit' \in [Requests -> VisitDoc]
          /\ visit'[local[r].doc].visitor = local[r].visitor
          /\ visit'[local[r].doc].count = local[r].old.count + 1

StandEffect(r) ==
    /\ \A q \in Requests \ {r} : pc'[q] = pc[q] /\ local'[q] = local[q] /\ before'[q] = before[q]
    /\ \/ pc[r] = "idle" /\ pc'[r] \in Final /\ ~Asked(r, "visit")' /\ UNCHANGED visit
       \/ ScanCame(r) \/ ScanFound(r) \/ ScanEnded(r)

\* What that does to the visits.
LEMMA StandEffects ==
  ASSUME StandInv, NEW r \in Requests, StandMove(r)
  PROVE  StandEffect(r)
<1> USE DEF Final, StandLabels, ScanKnown, Asked
<1>0. \A label, l : Went(r, label, l) =>
        \A q \in Requests \ {r} : pc'[q] = pc[q] /\ local'[q] = local[q] /\ before'[q] = before[q]
  BY DEF Went
<1>1. CASE LinkMoves(r)
  BY <1>0, <1>1 DEF LinkMoves, StandEffect, Went
<1>2. CASE ScanComes(r)
  <2>1. PICK label \in {"error", "visitFind"}, v \in Visitors, by \in Visitors,
             mode \in {"user", "staff"} :
        /\ label = "visitFind" => v \notin StandStaff
        /\ Went(r, label, Visiting(v, r, NoVisit, [visitor |-> v, scannedBy |-> by,
                                                   mode |-> mode, count |-> 0]))
    BY <1>2 DEF ScanComes
  <2> DEFINE new == [visitor |-> v, scannedBy |-> by, mode |-> mode, count |-> 0]
  <2>2. new \in VisitDoc /\ new.visitor = v
    BY DEF VisitDoc
  <2> HIDE DEF new
  <2>3. /\ pc'[r] = label /\ local'[r].op = "visit" /\ {"visitor", "doc"} \subseteq DOMAIN local'[r]
        /\ local'[r].visitor = v /\ local'[r].doc = r
        /\ label = "visitFind" => local'[r] = Visiting(v, r, NoVisit, new)
    BY <2>1 DEF Went, Visiting, new
  <2>4. label = "visitFind" => local'[r].new = new /\ local'[r].old = NoVisit
    BY <2>3 DEF Visiting
  <2>5. ScanCame(r)
    BY <1>2, <2>1, <2>2, <2>3, <2>4 DEF ScanCame, ScanComes
  <2> QED
    BY <1>0, <2>1, <2>5 DEF StandEffect
<1>3. CASE ScanFinds(r)
  <2>1. PICK d \in Requests, old \in VisitDoc :
        /\ Went(r, "visitSave", Visiting(local[r].visitor, d, old,
                                         [local[r].new EXCEPT !.count = old.count + 1]))
        /\ \/ d = r /\ old = NoVisit /\ VisitsOf(local[r].visitor) = {}
           \/ d \in VisitsOf(local[r].visitor) /\ old = visit[d]
    BY <1>3 DEF ScanFinds
  <2> DEFINE new == [local[r].new EXCEPT !.count = old.count + 1]
  <2>2. /\ local[r].new \in VisitDoc /\ local[r].new.visitor = local[r].visitor
    BY <1>3 DEF ScanFinds, StandInv, StandShape
  <2>3. new \in VisitDoc /\ new.visitor = local[r].visitor /\ new.count = old.count + 1
    BY <2>2 DEF VisitDoc
  <2> HIDE DEF new
  <2>4. pc'[r] = "visitSave" /\ local'[r] = Visiting(local[r].visitor, d, old, new)
    BY <2>1 DEF Went, new
  <2>5. /\ local'[r].op = "visit" /\ {"visitor", "doc"} \subseteq DOMAIN local'[r]
        /\ local'[r].visitor = local[r].visitor /\ local'[r].doc = d
        /\ local'[r].old = old /\ local'[r].new = new
    BY <2>4 DEF Visiting
  <2>6. ScanFound(r)
    BY <1>3, <2>1, <2>3, <2>4, <2>5 DEF ScanFound, ScanFinds
  <2> QED
    BY <1>0, <2>1, <2>6 DEF StandEffect
<1>4. ASSUME NEW label \in {"ok", "failed"}, pc[r] \in StandLabels, Went(r, label, local[r])
      PROVE  /\ pc'[r] = label /\ ScanKnown(r)
             /\ local'[r].visitor = local[r].visitor /\ local'[r].doc = local[r].doc
  <2>1. /\ local[r].op = "visit" /\ {"visitor", "doc"} \subseteq DOMAIN local[r]
        /\ local[r] = Visiting(local[r].visitor, local[r].doc, local[r].old, local[r].new)
    BY <1>4 DEF StandInv, StandShape
  <2>2. "op" \in DOMAIN local[r]
    BY <2>1 DEF Visiting
  <2> QED
    BY <1>4, <2>1, <2>2 DEF Went
<1>5. CASE ScanSaves(r)
  <2>1. PICK label \in {"ok", "failed"} : Went(r, label, local[r])
    BY <1>5 DEF ScanSaves
  <2> DEFINE d == local[r].doc
             old == local[r].old
             new == local[r].new
             saved == [f \in DOMAIN visit[d] |-> IF new[f] = old[f] THEN visit[d][f] ELSE new[f]]
  <2>2. /\ Asked(r, "visit") /\ d \in Requests /\ old \in VisitDoc /\ new \in VisitDoc
        /\ new.visitor = local[r].visitor /\ new.count = old.count + 1
        /\ d = r => old = NoVisit
        /\ d # r => old.visitor = local[r].visitor
        /\ d # r => visit[d].visitor = local[r].visitor
        /\ local[r].visitor \in Visitors
    BY <1>5 DEF ScanSaves, StandInv, StandShape
  <2>3. visit[d] \in VisitDoc /\ old.count \in Nat
    BY <2>2 DEF StandInv, VisitDoc
  <2>4. None \notin Visitors
    BY StaffAssumption
  <2>5. saved \in VisitDoc /\ saved.count = old.count + 1
    BY <2>2, <2>3 DEF VisitDoc
  <2>6. saved.visitor = local[r].visitor
    <3>1. CASE d = r
      BY <2>2, <2>3, <2>4, <3>1 DEF VisitDoc, NoVisit
    <3>2. CASE d # r
      BY <2>2, <2>3, <2>4, <3>2 DEF VisitDoc
    <3> QED
      BY <3>1, <3>2
  <2>7. visit' = [visit EXCEPT ![d] = saved]
    BY <1>5 DEF ScanSaves
  <2> HIDE DEF saved
  <2>8. /\ \A e \in Requests \ {d} : visit'[e] = visit[e]
        /\ visit'[d] = saved /\ visit' \in [Requests -> VisitDoc]
    BY <2>2, <2>5, <2>7 DEF StandInv
  <2>9. ScanEnded(r)
    BY <1>4, <1>5, <2>1, <2>5, <2>6, <2>8 DEF ScanEnded, ScanSaves
  <2> QED
    BY <1>0, <2>1, <2>9 DEF StandEffect
<1>6. CASE ScanIsCut(r)
  <2>1. ScanEnded(r)
    BY <1>4, <1>6 DEF ScanEnded, ScanIsCut
  <2> QED
    BY <1>0, <1>6, <2>1 DEF StandEffect, ScanIsCut
<1> QED
  BY <1>1, <1>2, <1>3, <1>5, <1>6 DEF StandMove

\* A visit stays its visitor's.
LEMMA VisitorsStay ==
  ASSUME StandInv, NEW r \in Requests, StandEffect(r)
  PROVE  /\ \A d \in Requests : visit[d].visitor # None => visit'[d].visitor = visit[d].visitor
         /\ visit' \in [Requests -> VisitDoc]
         /\ NoVisit.visitor = None /\ NoVisit.count = 0
<1>1. NoVisit.visitor = None /\ NoVisit.count = 0
  BY DEF NoVisit
<1>2. CASE UNCHANGED visit
  BY <1>1, <1>2 DEF StandInv
<1>3. CASE /\ pc[r] = "visitSave"
           /\ \A d \in Requests \ {local[r].doc} : visit'[d] = visit[d]
           /\ visit' \in [Requests -> VisitDoc]
           /\ visit'[local[r].doc].visitor = local[r].visitor
  <2>1. local[r].doc # r => visit[local[r].doc].visitor = local[r].visitor
    BY <1>3 DEF StandInv, StandShape, StandLabels
  <2>2. visit[r] = NoVisit
    BY <1>3 DEF StandInv, StandStored, Final
  <2> QED
    BY <1>1, <1>3, <2>1, <2>2
<1> QED
  BY <1>2, <1>3 DEF StandEffect, ScanCame, ScanFound, ScanEnded

\* Each part of the invariant is kept: what a scan knows,
LEMMA StandKeepsShape ==
  ASSUME StandInv, NEW r \in Requests, StandEffect(r)
  PROVE  StandShape'
<1> USE DEF Final, StandLabels, Asked, ScanKnown
<1>0. /\ \A d \in Requests : visit[d].visitor # None => visit'[d].visitor = visit[d].visitor
      /\ None \notin Visitors /\ NoVisit \in VisitDoc
  BY VisitorsStay, StaffAssumption DEF NoVisit, VisitDoc
<1>1. ASSUME NEW p \in Requests
      PROVE  /\ pc'[p] \in StandLabels => local'[p].op = "visit"
             /\ local'[p].op = "visit" =>
                 /\ {"visitor", "doc"} \subseteq DOMAIN local'[p]
                 /\ local'[p].visitor \in Visitors /\ local'[p].doc \in Requests
                 /\ local'[p].doc # p => visit'[local'[p].doc].visitor = local'[p].visitor
                 /\ pc'[p] = "ok" => visit'[local'[p].doc].visitor = local'[p].visitor
             /\ pc'[p] \in StandLabels =>
                 /\ local'[p] = Visiting(local'[p].visitor, local'[p].doc, local'[p].old, local'[p].new)
                 /\ local'[p].old \in VisitDoc /\ local'[p].new \in VisitDoc
                 /\ local'[p].new.visitor = local'[p].visitor /\ local'[p].visitor \notin StandStaff
             /\ pc'[p] = "visitFind" => local'[p].doc = p /\ local'[p].old = NoVisit
             /\ pc'[p] = "visitSave" =>
                 /\ local'[p].new.count = local'[p].old.count + 1
                 /\ local'[p].doc = p => local'[p].old = NoVisit
                 /\ local'[p].doc # p => local'[p].old.visitor = local'[p].visitor
  <2>1. CASE p # r
    <3>1. pc'[p] = pc[p] /\ local'[p] = local[p]
      BY <2>1 DEF StandEffect
    <3>2. local[p].op = "visit" =>
                 /\ {"visitor", "doc"} \subseteq DOMAIN local[p]
                 /\ local[p].visitor \in Visitors /\ local[p].doc \in Requests
                 /\ local[p].doc # p => visit'[local[p].doc].visitor = local[p].visitor
                 /\ pc[p] = "ok" => visit'[local[p].doc].visitor = local[p].visitor
      BY <1>0 DEF StandInv, StandShape
    <3> QED
      BY <3>1, <3>2 DEF StandInv, StandShape
  <2>2. CASE p = r /\ pc[r] = "idle" /\ pc'[r] \in Final /\ ~Asked(r, "visit")'
    BY <2>2
  <2>3. CASE p = r /\ ScanCame(r)
    BY <1>0, <2>3 DEF ScanCame
  <2>4. CASE p = r /\ ScanFound(r)
    <3>1. /\ local[r].visitor \in Visitors /\ local[r].visitor \notin StandStaff
          /\ visit[r] = NoVisit /\ NoVisit.visitor = None
      BY <2>4, VisitorsStay DEF ScanFound, StandInv, StandShape, StandStored
    <3>2. /\ local'[r].doc # r => /\ visit'[local'[r].doc].visitor = local'[r].visitor
                                  /\ local'[r].old.visitor = local'[r].visitor
          /\ local'[r].doc = r => local'[r].old = NoVisit
      BY <1>0, <2>4, <3>1 DEF ScanFound, VisitsOf
    <3> QED
      BY <2>4, <3>1, <3>2 DEF ScanFound
  <2>5. CASE p = r /\ ScanEnded(r)
    <3>1. /\ local[r].visitor \in Visitors /\ local[r].doc \in Requests
          /\ local[r].doc # r => visit[local[r].doc].visitor = local[r].visitor
      BY <2>5 DEF ScanEnded, StandInv, StandShape
    <3> QED
      BY <1>0, <2>5, <3>1 DEF ScanEnded
  <2> QED
    BY <2>1, <2>2, <2>3, <2>4, <2>5 DEF StandEffect
<1> QED
  BY <1>1 DEF StandShape

\* what is stored,
LEMMA StandKeepsStored ==
  ASSUME StandInv, NEW r \in Requests, StandEffect(r)
  PROVE  StandStored'
<1> USE DEF Final, StandLabels, Asked, ScanKnown
<1>1. ASSUME NEW p \in Requests
      PROVE  \/ visit'[p] = NoVisit
             \/ /\ pc'[p] \in Final /\ local'[p].op = "visit" /\ local'[p].visitor = visit'[p].visitor
                /\ visit'[p].visitor \in Visitors \ StandStaff /\ visit'[p].count > 0
  <2>1. CASE visit'[p] = visit[p]
    <3>1. CASE p # r
      BY <2>1, <3>1 DEF StandEffect, StandInv, StandStored
    <3>2. CASE p = r
      <4>1. pc[r] \notin Final
        BY DEF StandEffect, ScanCame, ScanFound, ScanEnded
      <4> QED
        BY <2>1, <3>2, <4>1 DEF StandInv, StandStored
    <3> QED
      BY <3>1, <3>2
  <2>2. CASE visit'[p] # visit[p]
    <3>1. /\ ScanEnded(r) /\ pc[r] = "visitSave" /\ p = local[r].doc
          /\ visit'[p].visitor = local[r].visitor /\ visit'[p].count = local[r].old.count + 1
      BY <2>2 DEF StandEffect, ScanCame, ScanFound, ScanEnded
    <3>2. /\ local[r].visitor \in Visitors \ StandStaff /\ local[r].old.count \in Nat
          /\ p # r => visit[p].visitor = local[r].visitor
      BY <3>1 DEF StandInv, StandShape, VisitDoc
    <3>3. CASE p = r
      BY <3>1, <3>2, <3>3 DEF ScanEnded
    <3>4. CASE p # r
      <4>1. visit[p] # NoVisit
        BY <3>2, <3>4, StaffAssumption DEF NoVisit
      <4>2. pc[p] \in Final /\ local[p].op = "visit" /\ local[p].visitor = visit[p].visitor
        BY <4>1 DEF StandInv, StandStored
      <4> QED
        BY <3>1, <3>2, <3>4, <4>2 DEF StandEffect
    <3> QED
      BY <3>3, <3>4
  <2> QED
    BY <2>1, <2>2
<1> QED
  BY <1>1 DEF StandStored, Asked

\* The scans about a visit become more.
LEMMA ScansGrow ==
  ASSUME StandInv, NEW r \in Requests, StandEffect(r), NEW d \in Requests
  PROVE  /\ Cardinality(ScansOf(d)) \in Nat /\ Cardinality(ScansOf(d)') \in Nat
         /\ Cardinality(ScansOf(d)) <= Cardinality(ScansOf(d)')
         /\ ScanEnded(r) /\ d = local[r].doc
              => Cardinality(ScansOf(d)') = Cardinality(ScansOf(d)) + 1
<1> USE DEF Final, StandLabels, Asked, ScanKnown
<1>1. r \notin ScansOf(d)
  BY DEF StandEffect, ScanCame, ScanFound, ScanEnded, ScansOf
<1>2. ScansOf(d) \subseteq ScansOf(d)' /\ ScansOf(d)' \subseteq ScansOf(d) \cup {r}
  BY <1>1 DEF StandEffect, ScansOf
<1>3. IsFiniteSet(ScansOf(d)) /\ IsFiniteSet(ScansOf(d)')
  <2>1. ScansOf(d) \subseteq Requests /\ ScansOf(d)' \subseteq Requests
    BY DEF ScansOf
  <2> QED
    BY <2>1, FS_Subset, RequestsAssumption
<1>4. ScanEnded(r) /\ d = local[r].doc => ScansOf(d)' = ScansOf(d) \cup {r}
  BY <1>2 DEF ScanEnded, ScansOf
<1>5. Cardinality(ScansOf(d) \cup {r}) = Cardinality(ScansOf(d)) + 1
  BY <1>1, <1>3, FS_AddElement
<1> QED
  BY <1>2, <1>3, <1>4, <1>5, FS_CardinalityType, FS_Subset

\* what the scans back,
LEMMA StandKeepsBacked ==
  ASSUME StandInv, NEW r \in Requests, StandEffect(r)
  PROVE  StandBacked'
<1> USE DEF Final, StandLabels, Asked, ScanKnown
<1>0. /\ \A d \in Requests : visit[d].count \in Nat /\ visit'[d].count \in Nat
      /\ NoVisit.count = 0
  BY VisitorsStay DEF StandInv, VisitDoc
<1>1. ASSUME NEW d \in Requests
      PROVE  visit'[d].count <= Cardinality(ScansOf(d)')
  <2>1. CASE visit'[d] = visit[d]
    BY <1>0, <2>1, ScansGrow DEF StandInv, StandBacked
  <2>2. CASE visit'[d] # visit[d]
    <3>1. /\ ScanEnded(r) /\ pc[r] = "visitSave" /\ d = local[r].doc
          /\ visit'[d].count = local[r].old.count + 1
      BY <2>2 DEF StandEffect, ScanCame, ScanFound, ScanEnded
    <3>2. local[r].old.count <= Cardinality(ScansOf(d)) /\ local[r].old.count \in Nat
      BY <3>1 DEF StandInv, StandBacked, StandShape, VisitDoc
    <3> QED
      BY <3>1, <3>2, ScansGrow
  <2> QED
    BY <2>1, <2>2
<1>2. ASSUME NEW p \in Requests, pc'[p] = "visitSave", NEW d \in Requests, d = local'[p].doc
      PROVE  local'[p].old.count <= Cardinality(ScansOf(d)')
  <2>1. CASE p = r
    <3>1. ScanFound(r)
      BY <1>2, <2>1 DEF StandEffect, ScanCame, ScanEnded
    <3>2. local'[r].old = NoVisit \/ local'[r].old = visit[d]
      BY <1>2, <2>1, <3>1 DEF ScanFound
    <3>3. local'[r].old.count <= Cardinality(ScansOf(d)) /\ local'[r].old.count \in Nat
      BY <1>0, <3>2, ScansGrow DEF StandInv, StandBacked
    <3> QED
      BY <2>1, <3>3, ScansGrow
  <2>2. CASE p # r
    <3>1. pc[p] = "visitSave" /\ local'[p] = local[p]
      BY <1>2, <2>2 DEF StandEffect
    <3>2. local[p].old.count <= Cardinality(ScansOf(d)) /\ local[p].old.count \in Nat
      BY <1>2, <3>1 DEF StandInv, StandBacked, StandShape, VisitDoc
    <3> QED
      BY <3>1, <3>2, ScansGrow
  <2> QED
    BY <2>1, <2>2
<1>3. StandShape'
  BY StandKeepsShape
<1>4. ASSUME NEW p \in Requests, pc'[p] = "visitSave"
      PROVE  local'[p].doc \in Requests
  BY <1>3, <1>4 DEF StandShape
<1> QED
  BY <1>1, <1>2, <1>4 DEF StandBacked

\* A scan that moves while none overlapped is alone.
LEMMA StandAlone ==
  ASSUME StandInv, NEW r \in Requests, StandMove(r), Here(StandLabels)', SerialSoFar'
  PROVE  /\ SerialSoFar /\ pc'[r] # "failed"
         /\ \A q \in Requests \ {r} : ~InFlight(q)
<1>a. \E label, l : Went(r, label, l) /\ label # "idle"
  <2>1. CASE LinkMoves(r)
    BY <2>1 DEF LinkMoves, Final
  <2>2. CASE ScanComes(r)
    BY <2>2 DEF ScanComes
  <2>3. CASE ScanFinds(r)
    BY <2>3 DEF ScanFinds
  <2>4. CASE ScanSaves(r)
    BY <2>4 DEF ScanSaves
  <2>5. CASE ScanIsCut(r)
    BY <2>5 DEF ScanIsCut
  <2> QED
    BY <2>1, <2>2, <2>3, <2>4, <2>5 DEF StandMove
<1>1. PICK label, l : Went(r, label, l) /\ label # "idle"
  BY <1>a
<1>2. Here(StandLabels)
  BY DEF StandInv
<1>3. MoveOf(r)
  BY <1>1, WentMoved
<1> QED
  BY <1>2, <1>3, MovesAlone

\* Scans alone count exactly.
LEMMA StandKeepsSerial ==
  ASSUME StandInv, NEW r \in Requests, StandMove(r), Here(StandLabels)'
  PROVE  StandSerial'
<1> USE DEF Final, StandLabels, Asked, ScanKnown
<1> SUFFICES ASSUME SerialSoFar'
             PROVE  /\ \A v \in Visitors : VisitsOf(v)' = {} => Scans(v, {"ok"})' = {}
                    /\ \A d, e \in Requests : visit'[d].visitor # None
                          /\ visit'[d].visitor = visit'[e].visitor => d = e
                    /\ \A d \in Requests, v \in Visitors : visit'[d].visitor = v =>
                            visit'[d].count = Cardinality(Scans(v, {"ok"})')
                    /\ \A p \in Requests : pc'[p] = "visitSave" =>
                        /\ local'[p].doc = p => \A v : v = local'[p].visitor => VisitsOf(v)' = {}
                        /\ local'[p].doc # p => local'[p].old = visit'[local'[p].doc]
  <2>1. \A d \in Requests : visit'[d].visitor # None => visit'[d].visitor \in Visitors
    <3>1. StandEffect(r)
      BY StandEffects
    <3>2. visit' \in [Requests -> VisitDoc]
      BY <3>1, VisitorsStay
    <3> QED
      BY <3>2 DEF VisitDoc
  <2> QED
    BY <2>1 DEF StandSerial
<1>1. /\ SerialSoFar /\ pc'[r] # "failed"
      /\ \A q \in Requests \ {r} : ~InFlight(q)
  BY StandAlone
<1>2. /\ \A v \in Visitors : VisitsOf(v) = {} => Scans(v, {"ok"}) = {}
      /\ \A d, e \in Requests : visit[d].visitor # None /\ visit[d].visitor = visit[e].visitor => d = e
      /\ \A d \in Requests : visit[d].visitor # None =>
                visit[d].count = Cardinality(Scans(visit[d].visitor, {"ok"}))
      /\ pc[r] = "visitSave" =>
                /\ local[r].doc = r => VisitsOf(local[r].visitor) = {}
                /\ local[r].doc # r => local[r].old = visit[local[r].doc]
  BY <1>1 DEF StandInv, StandSerial
<1>3. StandEffect(r) /\ None \notin Visitors
  BY StandEffects, StaffAssumption
<1>4. ASSUME NEW p \in Requests \ {r} PROVE pc'[p] # "visitSave"
  BY <1>1, <1>3 DEF StandEffect, InFlight
<1>5. ASSUME UNCHANGED visit, ~(pc'[r] = "ok" /\ local'[r].op = "visit"), NEW v \in Visitors
      PROVE  VisitsOf(v)' = VisitsOf(v) /\ Scans(v, {"ok"})' = Scans(v, {"ok"})
  <2>1. r \notin Scans(v, {"ok"})
    BY <1>3 DEF Scans, StandEffect, ScanCame, ScanFound, ScanEnded
  <2> QED
    BY <1>3, <1>5, <2>1 DEF Scans, StandEffect, VisitsOf
<1>6. CASE UNCHANGED visit /\ ~(pc'[r] = "ok" /\ local'[r].op = "visit")
  <2>2. \A v \in Visitors : VisitsOf(v)' = VisitsOf(v) /\ Scans(v, {"ok"})' = Scans(v, {"ok"})
    BY <1>5, <1>6
  <2>3. ASSUME pc'[r] = "visitSave"
        PROVE  /\ local'[r].doc = r => \A v : v = local'[r].visitor => VisitsOf(v)' = {}
               /\ local'[r].doc # r => local'[r].old = visit'[local'[r].doc]
    <3>1. ScanFound(r)
      BY <1>3, <2>3 DEF StandEffect, ScanCame, ScanEnded
    <3>2. local[r].visitor \in Visitors /\ visit[r] = NoVisit /\ NoVisit.visitor = None
      BY <3>1, VisitorsStay, <1>3 DEF ScanFound, StandInv, StandShape, StandStored
    <3>3. CASE local'[r].doc = r
      <4>1. VisitsOf(local[r].visitor) = {} /\ local'[r].visitor = local[r].visitor
        BY <1>3, <3>1, <3>2, <3>3 DEF ScanFound, VisitsOf
      <4>2. VisitsOf(local[r].visitor) = VisitsOf(local'[r].visitor)
        BY <4>1
      <4>3. \A v : v = local'[r].visitor => VisitsOf(v) = {}
        BY <4>1
      <4>4. \A v \in Visitors : VisitsOf(v)' = VisitsOf(v)
        BY <2>2
      <4> QED
        BY <3>2, <3>3, <4>1, <4>3, <4>4
    <3>4. CASE local'[r].doc # r
      BY <1>6, <3>1, <3>4 DEF ScanFound
    <3> QED
      BY <3>3, <3>4
  <2>4. \A v \in Visitors : VisitsOf(v)' = {} => Scans(v, {"ok"})' = {}
    BY <1>2, <2>2
  <2>5. \A d, e \in Requests : visit'[d].visitor # None
                          /\ visit'[d].visitor = visit'[e].visitor => d = e
    BY <1>2, <1>6
  <2>6. \A d \in Requests, v \in Visitors : visit'[d].visitor = v =>
                            visit'[d].count = Cardinality(Scans(v, {"ok"})')
    BY <1>2, <1>3, <1>6, <2>2
  <2> QED
    BY <1>4, <2>3, <2>4, <2>5, <2>6
<1>7. CASE ScanEnded(r) /\ pc'[r] = "ok"
  <2>0. PICK v, d : v = local[r].visitor /\ d = local[r].doc
    OBVIOUS
  <2>1. /\ pc[r] = "visitSave" /\ v \in Visitors /\ d \in Requests
        /\ visit'[d].visitor = v /\ visit'[d].count = local[r].old.count + 1
        /\ \A e \in Requests \ {d} : visit'[e] = visit[e]
        /\ d = r => local[r].old = NoVisit
        /\ d # r => visit[d].visitor = v
        /\ visit[r] = NoVisit
    BY <1>7, <2>0 DEF ScanEnded, StandInv, StandShape, StandStored
  <2>2. /\ Scans(v, {"ok"})' = Scans(v, {"ok"}) \cup {r} /\ r \notin Scans(v, {"ok"})
        /\ \A u \in Visitors \ {v} : Scans(u, {"ok"})' = Scans(u, {"ok"})
    <3>1. /\ pc'[r] = "ok" /\ local'[r].op = "visit" /\ local'[r].visitor = v /\ pc[r] # "ok"
      BY <1>7, <2>0, <2>1 DEF ScanEnded
    <3>2. \A q \in Requests \ {r} : pc'[q] = pc[q] /\ local'[q] = local[q]
      BY <1>3 DEF StandEffect
    <3>3. ~(pc[r] \in {"ok"})
      BY <3>1
    <3>4. \A u : \A q \in Requests \ {r} : q \in Scans(u, {"ok"})' <=> q \in Scans(u, {"ok"})
      BY <3>2 DEF Scans
    <3>5. \A u : r \notin Scans(u, {"ok"}) /\ (r \in Scans(u, {"ok"})' <=> u = v)
      BY <3>1 DEF Scans
    <3>6. \A u : Scans(u, {"ok"}) \subseteq Requests /\ Scans(u, {"ok"})' \subseteq Requests
      BY DEF Scans
    <3> QED
      BY <3>4, <3>5, <3>6
  <2>3. /\ IsFiniteSet(Scans(v, {"ok"}))
        /\ Cardinality(Scans(v, {"ok"})') = Cardinality(Scans(v, {"ok"})) + 1
    <3>1. Scans(v, {"ok"}) \subseteq Requests
      BY DEF Scans
    <3>2. IsFiniteSet(Scans(v, {"ok"}))
      BY <3>1, FS_Subset, RequestsAssumption
    <3> QED
      BY <2>2, <3>2, FS_AddElement
  <2>4. local[r].old.count = Cardinality(Scans(v, {"ok"}))
    <3>1. CASE d = r
      <4>1. Scans(v, {"ok"}) = {}
        BY <1>2, <2>0, <2>1, <3>1
      <4> QED
        BY <2>1, <3>1, <4>1, FS_EmptySet, VisitorsStay, <1>3
    <3>2. CASE d # r
      BY <1>2, <1>3, <2>0, <2>1, <3>2
    <3> QED
      BY <3>1, <3>2
  <2>5. \A u \in Visitors : d \in VisitsOf(u)' <=> u = v
    BY <2>1 DEF VisitsOf
  <2>6. ASSUME NEW e \in Requests, e # d PROVE visit[e].visitor # v
    <3>1. CASE d = r
      BY <1>2, <2>0, <2>1, <2>6, <3>1 DEF VisitsOf
    <3>2. CASE d # r
      BY <1>2, <1>3, <2>1, <2>6, <3>2
    <3> QED
      BY <3>1, <3>2
  <2>7. \A u \in Visitors : VisitsOf(u)' = {} => VisitsOf(u) = {} /\ u # v
    <3>1. ASSUME NEW u \in Visitors, VisitsOf(u)' = {}, NEW e \in VisitsOf(u) PROVE FALSE
      <4>1. e \in Requests /\ visit[e].visitor = u
        BY <3>1 DEF VisitsOf
      <4>2. u # v
        BY <2>5, <3>1
      <4>3. e # d
        BY <1>3, <2>1, <4>1, <4>2, VisitorsStay
      <4> QED
        BY <2>1, <3>1, <4>1, <4>3 DEF VisitsOf
    <3> QED
      BY <2>5, <3>1
  <2>8. \A u \in Visitors : VisitsOf(u)' = {} => Scans(u, {"ok"})' = {}
    BY <1>2, <2>2, <2>7
  <2>9. \A e, f \in Requests : visit'[e].visitor # None
                          /\ visit'[e].visitor = visit'[f].visitor => e = f
    BY <1>2, <2>1, <2>6
  <2>10. \A e \in Requests, u \in Visitors : visit'[e].visitor = u =>
                            visit'[e].count = Cardinality(Scans(u, {"ok"})')
    <3> TAKE e \in Requests, u \in Visitors
    <3>1. CASE e = d /\ visit'[e].visitor = u
      BY <2>1, <2>3, <2>4, <3>1
    <3>2. CASE e # d /\ visit'[e].visitor = u
      <4>1. visit'[e] = visit[e] /\ u # v
        BY <2>1, <2>6, <3>2
      <4> QED
        BY <1>2, <1>3, <2>2, <3>2, <4>1
    <3> QED
      BY <3>1, <3>2
  <2> QED
    BY <1>4, <1>7, <2>8, <2>9, <2>10
<1>8. CASE ScanCame(r) \/ ScanFound(r)
  BY <1>6, <1>8 DEF ScanCame, ScanFound
<1> QED
  BY <1>1, <1>3, <1>6, <1>7, <1>8 DEF StandEffect, ScanEnded

\* A step elsewhere keeps the invariant,
LEMMA StandStutters ==
  ASSUME StandInv, UNCHANGED <<visit, handlerVars>>
  PROVE  StandInv'
<1> USE DEF handlerVars
<1>1. Here(StandLabels)'
  BY DEF StandInv, Here, Asked
<1>2. StandShape' /\ StandStored' /\ StandBacked'
  BY DEF StandInv, StandShape, StandStored, StandBacked, ScansOf, Asked
<1>3. StandSerial' /\ visit' \in [Requests -> VisitDoc]
  BY DEF StandInv, StandSerial, SerialSoFar, VisitsOf, Scans, Asked
<1> QED
  BY <1>1, <1>2, <1>3 DEF StandInv

\* so does every step at the stand,
LEMMA StandNext ==
  ASSUME StandInv, NEW r \in Requests,
         StandArrive(r) \/ StandStep(r) \/ (Fails(r) /\ UNCHANGED visit)
  PROVE  StandInv'
<1>1. StandMove(r) /\ Here(StandLabels)'
  BY StandMoves
<1>2. StandEffect(r)
  BY <1>1, StandEffects
<1> QED
  BY <1>1, <1>2, VisitorsStay, StandKeepsShape, StandKeepsStored, StandKeepsBacked, StandKeepsSerial
     DEF StandInv

\* and it holds at first.
LEMMA StandStarts ==
  ASSUME HandlersInit, StandInit
  PROVE  StandInv
<1> USE DEF HandlersInit, StandInit, NoVisit, NoLocal, StandLabels, Final, Asked
<1>1. Here(StandLabels)
  BY HereInit
<1>2. \A d \in Requests : Cardinality(ScansOf(d)) \in Nat
  BY FS_Subset, FS_CardinalityType, RequestsAssumption DEF ScansOf
<1>3. visit \in [Requests -> VisitDoc] /\ StandShape /\ StandStored
  BY DEF VisitDoc, StandShape, StandStored
<1>4. StandBacked
  BY <1>2 DEF StandBacked
<1>5. StandSerial
  BY DEF StandSerial, Scans
<1> QED
  BY <1>1, <1>3, <1>4, <1>5 DEF StandInv

\* Where no visit is stored, nobody has visited.
LEMMA NoVisitsCounted ==
  ASSUME StandInit, NEW v \in Visitors
  PROVE  VisitsOf(v) = {} /\ Visits(v) = 0
<1>1. VisitsOf(v) = {}
  BY StaffAssumption DEF VisitsOf, StandInit, NoVisit
<1>2. Visits(v) = SumOf(Counts, VisitsOf(v))
  BY DEF Visits, SumOf
<1>3. SumOf(Counts, {}) = 0
  BY SumEmpty
<1> QED
  BY <1>1, <1>2, <1>3

\* What the visits of one visitor add up to.
LEMMA VisitsSum ==
  ASSUME StandInv, NEW v \in Visitors
  PROVE  /\ IsFiniteSet(VisitsOf(v)) /\ Visits(v) = SumOf(Counts, VisitsOf(v))
         /\ \A d \in VisitsOf(v) : /\ d \in Requests /\ Counts[d] = visit[d].count
                                   /\ Counts[d] \in Nat \ {0}
         /\ Visits(v) <= Cardinality(Scans(v, Final))
<1>1. IsFiniteSet(VisitsOf(v)) /\ VisitsOf(v) \subseteq Requests
  <2>1. VisitsOf(v) \subseteq Requests
    BY DEF VisitsOf
  <2> QED
    BY <2>1, FS_Subset, RequestsAssumption
<1>2. Visits(v) = SumOf(Counts, VisitsOf(v))
  BY DEF Visits, SumOf
<1>3. ASSUME NEW d \in VisitsOf(v)
      PROVE  /\ d \in Requests /\ Counts[d] = visit[d].count
             /\ Counts[d] \in Nat \ {0}
             /\ local[d].visitor = v
  <2>1. d \in Requests /\ visit[d].visitor = v /\ visit[d] # NoVisit
    BY StaffAssumption DEF VisitsOf, NoVisit
  <2>2. visit[d].count \in Nat /\ visit[d].count > 0 /\ local[d].visitor = v
    BY <2>1 DEF StandInv, StandStored, VisitDoc
  <2> QED
    BY <2>1, <2>2 DEF Counts
<1> DEFINE F == [d \in VisitsOf(v) |-> ScansOf(d)]
           h == [d \in VisitsOf(v) |-> Cardinality(ScansOf(d))]
           All == UNION {F[d] : d \in VisitsOf(v)}
<1>4. \A d \in VisitsOf(v) : IsFiniteSet(F[d]) /\ h[d] = Cardinality(F[d]) /\ h[d] \in Nat
  <2> TAKE d \in VisitsOf(v)
  <2>1. ScansOf(d) \subseteq Requests
    BY DEF ScansOf
  <2> QED
    BY <2>1, FS_Subset, FS_CardinalityType, RequestsAssumption
<1>5. \A d, e \in VisitsOf(v) : d # e => F[d] \cap F[e] = {}
  BY DEF ScansOf
<1>6. \A d \in VisitsOf(v) : Counts[d] \in Nat /\ Counts[d] <= h[d]
  BY <1>3 DEF StandInv, StandBacked
<1>7. All \subseteq Scans(v, Final)
  <2> SUFFICES ASSUME NEW d \in VisitsOf(v), NEW q \in ScansOf(d) PROVE q \in Scans(v, Final)
    OBVIOUS
  <2>1. q \in Requests /\ pc[q] \in Final /\ Asked(q, "visit") /\ local[q].doc = d
    BY DEF ScansOf
  <2>2. visit[d].visitor = v
    BY DEF VisitsOf
  <2>3. local[q].visitor = v
    BY <1>3, <2>1, <2>2 DEF StandInv, StandShape
  <2> QED
    BY <2>1, <2>3 DEF Scans
<1>8. IsFiniteSet(Scans(v, Final))
  <2>1. Scans(v, Final) \subseteq Requests
    BY DEF Scans
  <2> QED
    BY <2>1, FS_Subset, RequestsAssumption
<1> HIDE DEF F, h
<1>9. SumOf(Counts, VisitsOf(v)) <= SumOf(h, VisitsOf(v))
  BY <1>1, <1>4, <1>6, SumAtMost
<1>10. SumOf(h, VisitsOf(v)) = Cardinality(All)
  <2>1. \A z : z \in All <=> \E x \in VisitsOf(v) : z \in F[x]
    OBVIOUS
  <2>2. ArePartsOf(All, VisitsOf(v), F, h)
    BY <1>1, <1>4, <1>5, <2>1 DEF ArePartsOf
  <2> HIDE DEF All
  <2> QED
    BY <2>2, SumOfParts
<1> HIDE DEF All
<1>11. Cardinality(All) <= Cardinality(Scans(v, Final)) /\ Cardinality(Scans(v, Final)) \in Nat
       /\ Cardinality(All) \in Nat
  BY <1>7, <1>8, FS_Subset, FS_CardinalityType
<1>12. SumOf(Counts, VisitsOf(v)) \in Nat
  BY <1>1, <1>6, SumType
<1> QED
  BY <1>1, <1>2, <1>3, <1>9, <1>10, <1>11, <1>12

\* What it says of the counts.
LEMMA StandCounts ==
  ASSUME StandInv
  PROVE  VisitsAreCounted
<1>1. ASSUME NEW v \in Visitors
      PROVE  /\ Visits(v) <= Cardinality(Scans(v, Final))
             /\ Scans(v, {"ok"}) # {} => Visits(v) > 0
             /\ v \in StandStaff => Visits(v) = 0
  <2>1. /\ IsFiniteSet(VisitsOf(v)) /\ Visits(v) = SumOf(Counts, VisitsOf(v))
        /\ \A d \in VisitsOf(v) : d \in Requests /\ Counts[d] \in Nat \ {0}
        /\ Visits(v) <= Cardinality(Scans(v, Final))
    BY VisitsSum
  <2>2. Visits(v) \in Nat /\ (Visits(v) = 0 <=> VisitsOf(v) = {})
    BY <2>1, SumType, SumIsZero
  <2>3. Scans(v, {"ok"}) # {} => VisitsOf(v) # {}
    BY DEF Scans, VisitsOf, StandInv, StandShape
  <2>4. v \in StandStaff => VisitsOf(v) = {}
    BY StaffAssumption DEF VisitsOf, StandInv, StandStored, NoVisit
  <2> QED
    BY <2>1, <2>2, <2>3, <2>4
<1>2. ASSUME Serial, NEW v \in Visitors
      PROVE  /\ Cardinality(VisitsOf(v)) <= 1
             /\ Visits(v) = Cardinality(Scans(v, {"ok"}))
  <2>1. SerialSoFar
    BY <1>2, SerialIsSoFar
  <2>2. Visits(v) = SumOf(Counts, VisitsOf(v))
        /\ \A d \in VisitsOf(v) : Counts[d] = visit[d].count /\ Counts[d] \in Nat
    BY VisitsSum
  <2>3. CASE VisitsOf(v) = {}
    <3>1. Scans(v, {"ok"}) = {}
      BY <2>1, <2>3 DEF StandInv, StandSerial
    <3> QED
      BY <2>2, <2>3, <3>1, SumEmpty, FS_EmptySet
  <2>4. ASSUME NEW d \in VisitsOf(v)
        PROVE  /\ Cardinality(VisitsOf(v)) <= 1
               /\ Visits(v) = Cardinality(Scans(v, {"ok"}))
    <3>1. /\ d \in Requests /\ visit[d].visitor = v /\ v # None
          /\ \A e \in VisitsOf(v) : e \in Requests /\ visit[e].visitor = v
      BY StaffAssumption DEF VisitsOf
    <3>2. VisitsOf(v) = {d}
      BY <2>1, <3>1 DEF StandInv, StandSerial
    <3>3. Visits(v) = Counts[d] /\ Counts[d] = visit[d].count
      BY <2>2, <3>2, SumOfOne
    <3>4. visit[d].count = Cardinality(Scans(v, {"ok"}))
      BY <2>1, <3>1 DEF StandInv, StandSerial
    <3> QED
      BY <3>2, <3>3, <3>4, FS_Singleton
  <2> QED
    BY <2>3, <2>4
<1> QED
  BY <1>1, <1>2 DEF VisitsAreCounted, VisitsAreBacked, SerialVisitsAreExact

(***************************************************************************)
(* The documents of the sponsors.                                           *)
(***************************************************************************)
\* What a submission and a review know.
Submitting(q, p) == [op |-> "submitDocument", requirement |-> q, sponsor |-> p]
Reviewing(r, s, v, old) ==
    [op |-> "review", document |-> s, verdict |-> v, old |-> old,
     new |-> [old EXCEPT !.status = v, !.reviewer = r]]

SubmitLabels == {"sponsorLookup", "documentUpload", "submissionSave"}
Reviewed(r) == Asked(r, "review") /\ pc[r] # "error"

DocumentShape ==
    \A r \in Requests :
        /\ pc[r] \in SubmitLabels =>
            /\ local[r] = Submitting(local[r].requirement, local[r].sponsor)
            /\ local[r].requirement \in Requirements
            /\ local[r].sponsor \in EventSponsors \cup {None}
        /\ pc[r] \in {"documentUpload", "submissionSave"} => local[r].sponsor # None
        /\ pc[r] = "submissionSave" => r \in files
        /\ pc[r] = "reviewSave" =>
            /\ local[r] = Reviewing(r, local[r].document, local[r].verdict, local[r].old)
            /\ local[r].old \in SubmissionDoc
        /\ Reviewed(r) =>
            /\ {"document", "verdict"} \subseteq DOMAIN local[r]
            /\ local[r].document \in Requests /\ local[r].verdict \in Verdicts
            /\ Submitted(local[r].document)

\* What is stored was submitted by a request that has ended, with its file.
DocumentStored ==
    \A s \in Requests : \/ submissions[s] = NoSubmission
                        \/ Submitted(s) /\ s \in files /\ pc[s] \in Final

\* A verdict was given.
DocumentBacked ==
    \A s \in Requests : submissions[s].status # "pending" =>
        \E r \in Requests : Reviewed(r) /\ local[r].document = s
                              /\ local[r].verdict = submissions[s].status

\* As long as no requests overlap, a review has read what is stored, and the
\* last verdict is the one stored.
ReviewEnded(r, s) == pc[r] = "ok" /\ Asked(r, "review") /\ local[r].document = s

DocumentSerial ==
    SerialSoFar =>
        /\ \A r \in Requests : pc[r] = "reviewSave" => local[r].old = submissions[local[r].document]
        /\ \A r, s \in Requests :
            ReviewEnded(r, s) /\ (\A q \in Requests \ {r} : ReviewEnded(q, s) => q \in before[r])
                => submissions[s].status = local[r].verdict /\ submissions[s].reviewer = r

DocumentInv ==
    /\ Here(DocumentLabels) /\ AsksOnly(DocumentOps)
    /\ requirements \in [Requirements -> RequirementDoc]
    /\ submissions \in [Requests -> SubmissionDoc]
    /\ files \subseteq Requests \cup EarlierFiles
    /\ DocumentShape /\ DocumentStored /\ DocumentBacked /\ DocumentSerial

(***************************************************************************)
(* What a request about documents does.                                     *)
(***************************************************************************)
\* It is answered at once, or refused, and stores no document.
DocumentAnswered(r) ==
    /\ pc[r] # "reviewSave" /\ pc'[r] \in Final
    /\ ~Reviewed(r)' /\ UNCHANGED <<submissions, files>>

SubmitCame(r) ==
    /\ pc[r] = "idle" /\ pc'[r] = "sponsorLookup" /\ UNCHANGED <<submissions, files>>
    /\ \E q \in Requirements, p \in EventSponsors \cup {None} : local'[r] = Submitting(q, p)

\* It goes on with the sponsor, and with the file.
SubmitWent(r) ==
    /\ pc[r] \in SubmitLabels /\ local'[r] = local[r] /\ UNCHANGED submissions
    /\ \/ pc'[r] = "documentUpload" /\ local[r].sponsor # None /\ UNCHANGED files
       \/ pc'[r] = "submissionSave" /\ pc[r] = "documentUpload" /\ files' = files \cup {r}

SubmitEnded(r) ==
    /\ pc[r] = "submissionSave" /\ pc'[r] \in {"ok", "failed"} /\ ~Reviewed(r)' /\ UNCHANGED files
    /\ \E doc \in SubmissionDoc : /\ submissions' = [submissions EXCEPT ![r] = doc]
                                  /\ doc.requirement # None /\ doc.status = "pending"

ReviewCame(r) ==
    /\ pc[r] = "idle" /\ pc'[r] = "reviewSave" /\ UNCHANGED <<submissions, files>>
    /\ \E s \in Requests, v \in Verdicts :
        Submitted(s) /\ local'[r] = Reviewing(r, s, v, submissions[s])

ReviewKnown(r) ==
    /\ pc[r] = "reviewSave" /\ UNCHANGED files
    /\ Asked(r, "review")' /\ {"document", "verdict"} \subseteq DOMAIN local'[r]
    /\ local'[r].document = local[r].document /\ local'[r].verdict = local[r].verdict

AfterReview(doc, r, v, old) ==
    [doc EXCEPT !.status = IF v = old.status THEN @ ELSE v,
                !.reviewer = IF r = old.reviewer THEN @ ELSE r]

ReviewSaved(r) ==
    /\ ReviewKnown(r) /\ pc'[r] \in {"ok", "failed"}
    /\ submissions' = [submissions EXCEPT ![local[r].document] =
            AfterReview(@, r, local[r].verdict, local[r].old)]

ReviewCut(r) == ReviewKnown(r) /\ pc'[r] = "failed" /\ UNCHANGED submissions

DocumentEffect(r) ==
    /\ MoveOf(r)
    /\ \/ DocumentAnswered(r) \/ SubmitCame(r) \/ SubmitWent(r) \/ SubmitEnded(r)
       \/ ReviewCame(r) \/ ReviewSaved(r) \/ ReviewCut(r)

\* A requirement that is created or changed.
LEMMA RequirementsKept ==
  ASSUME DocumentInv, NEW r \in Requests,
         CreateRequirement(r) \/ UpdateRequirement(r) \/ DeleteRequirement(r)
  PROVE  requirements' \in [Requirements -> RequirementDoc]
<1>1. CASE CreateRequirement(r)
  BY <1>1 DEF CreateRequirement, DocumentInv, RequirementDoc, Requirements
<1>2. ASSUME NEW op, NEW changes \in [active : BOOLEAN] \cup [required : BOOLEAN],
             SetRequirement(r, op, changes)
      PROVE  requirements' \in [Requirements -> RequirementDoc]
  <2>1. \A doc \in RequirementDoc :
            [f \in DOMAIN doc |-> IF f \in DOMAIN changes THEN changes[f] ELSE doc[f]] \in RequirementDoc
    BY DEF RequirementDoc
  <2> QED
    BY <1>2, <2>1 DEF SetRequirement, DocumentInv
<1>3. [active |-> FALSE] \in [active : BOOLEAN] \cup [required : BOOLEAN]
  OBVIOUS
<1> QED
  BY <1>1, <1>2, <1>3 DEF UpdateRequirement, DeleteRequirement, RequirementChanges

\* A request about documents is one of these moves.
LEMMA DocumentEffects ==
  ASSUME DocumentInv, NEW r \in Requests,
         DocumentArrive(r) \/ DocumentStep(r) \/ (Fails(r) /\ UNCHANGED documentVars)
  PROVE  DocumentEffect(r) /\ Here(DocumentLabels)' /\ AsksOnly(DocumentOps)'
         /\ requirements' \in [Requirements -> RequirementDoc]
<1> USE DEF documentVars
<1>a. /\ Here(DocumentLabels) /\ DocumentLabels \cap (Final \cup {"idle"}) = {}
      /\ {"sponsorLookup", "documentUpload", "submissionSave", "reviewSave"} = DocumentLabels
      /\ Final = {"ok", "error", "failed"} /\ AsksOnly(DocumentOps) /\ "none" \notin DocumentOps
      /\ \A q \in Requests : "op" \in DOMAIN local[q]
  BY DEF DocumentInv, DocumentLabels, Final, DocumentOps, AsksOnly
<1>b. ASSUME NEW label \in DocumentLabels \cup Final, NEW l, "op" \in DOMAIN l, l.op \in DocumentOps,
             Start(r, label, l) \/ (InFlight(r) /\ Continue(r, label, l))
      PROVE  MoveOf(r) /\ Here(DocumentLabels)' /\ AsksOnly(DocumentOps)' /\ Went(r, label, l)
             /\ (Start(r, label, l) => pc[r] = "idle")
  <2>1. l.op # "none" /\ label # "idle"
    BY <1>a, <1>b
  <2>2. Here(DocumentLabels)' /\ Went(r, label, l)
    BY <1>a, <1>b, <2>1, Starts, Continues
  <2> QED
    BY <1>a, <1>b, <2>1, <2>2, MoveAsks, WentMoved DEF Start
<1>c. ASSUME InFlight(r) PROVE local[r].op \in DocumentOps /\ pc[r] \in DocumentLabels
  BY <1>a, <1>c DEF InFlight, Here, AsksOnly, Asked
<1>1. ASSUME NEW op \in DocumentOps \ {"review"}, NEW l, "op" \in DOMAIN l, l.op = op,
             NEW label \in Final, Start(r, label, l), UNCHANGED <<submissions, files>>
      PROVE  DocumentEffect(r) /\ Here(DocumentLabels)' /\ AsksOnly(DocumentOps)'
  <2>1. MoveOf(r) /\ Here(DocumentLabels)' /\ AsksOnly(DocumentOps)' /\ Went(r, label, l) /\ pc[r] = "idle"
    BY <1>b, <1>1
  <2>2. pc'[r] \in Final /\ local'[r].op = op
    BY <1>1, <2>1 DEF Went
  <2> QED
    BY <1>1, <2>1, <2>2 DEF DocumentEffect, DocumentAnswered, Reviewed, Asked
<1>2. CASE CreateRequirement(r)
  <2>1. PICK label \in {"ok", "failed"} : Start(r, label, [op |-> "createRequirement"])
    BY <1>2 DEF CreateRequirement
  <2>2. UNCHANGED <<submissions, files>>
    BY <1>2 DEF CreateRequirement
  <2> QED
    BY <1>a, <1>1, <1>2, <2>1, <2>2, RequirementsKept DEF DocumentOps
<1>3. CASE UpdateRequirement(r) \/ DeleteRequirement(r)
  <2>1. ASSUME NEW op \in {"updateRequirement", "deleteRequirement"}, NEW changes,
               SetRequirement(r, op, changes)
        PROVE  DocumentEffect(r) /\ Here(DocumentLabels)' /\ AsksOnly(DocumentOps)'
    <3>1. PICK q \in Requirements, label \in {"ok", "failed", "error"} :
                Start(r, label, [op |-> op, requirement |-> q]) /\ UNCHANGED <<submissions, files>>
      BY <2>1 DEF SetRequirement
    <3> QED
      BY <1>a, <1>1, <3>1 DEF DocumentOps
  <2> QED
    BY <1>3, <2>1, RequirementsKept DEF UpdateRequirement, DeleteRequirement
<1>4. CASE SummaryRead(r)
  <2>1. PICK p \in EventSponsors :
            Start(r, "ok", [op |-> "summary", sponsor |-> p, missing |-> Missing(p)])
    BY <1>4 DEF SummaryRead
  <2> QED
    BY <1>a, <1>1, <1>4, <2>1 DEF DocumentOps, SummaryRead, DocumentInv
<1>5. CASE SubmitDocument(r)
  <2>1. PICK q \in Requirements, p \in EventSponsors \cup {None}, label \in {"sponsorLookup", "error"} :
            Start(r, label, Submitting(q, p))
    BY <1>5 DEF SubmitDocument, Submitting
  <2>2. "op" \in DOMAIN Submitting(q, p) /\ Submitting(q, p).op = "submitDocument"
        /\ "submitDocument" \in DocumentOps \ {"review"}
    BY DEF Submitting, DocumentOps
  <2>3. CASE label = "error"
    BY <1>a, <1>1, <1>5, <2>1, <2>2, <2>3 DEF SubmitDocument, DocumentInv
  <2>4. CASE label = "sponsorLookup"
    <3>1. /\ MoveOf(r) /\ Here(DocumentLabels)' /\ AsksOnly(DocumentOps)' /\ pc[r] = "idle"
          /\ Went(r, "sponsorLookup", Submitting(q, p))
      BY <1>a, <1>b, <2>1, <2>2, <2>4
    <3>2. SubmitCame(r)
      BY <1>5, <3>1 DEF SubmitDocument, SubmitCame, Went, Final
    <3> QED
      BY <1>5, <3>1, <3>2 DEF DocumentEffect, SubmitDocument, DocumentInv
  <2> QED
    BY <2>1, <2>3, <2>4
<1>6. CASE ReviewDocument(r)
  <2>1. PICK s \in Requests, v \in Verdicts :
            Start(r, IF Submitted(s) THEN "reviewSave" ELSE "error", Reviewing(r, s, v, submissions[s]))
    BY <1>6 DEF ReviewDocument, Reviewing
  <2> DEFINE l == Reviewing(r, s, v, submissions[s])
             label == IF Submitted(s) THEN "reviewSave" ELSE "error"
  <2>2. "op" \in DOMAIN l /\ l.op = "review" /\ "review" \in DocumentOps
    BY DEF Reviewing, DocumentOps
  <2>3. label \in DocumentLabels \cup Final /\ Start(r, label, l)
    BY <1>a, <2>1
  <2> HIDE DEF l
  <2>4. MoveOf(r) /\ Here(DocumentLabels)' /\ AsksOnly(DocumentOps)' /\ Went(r, label, l) /\ pc[r] = "idle"
    BY <1>b, <2>2, <2>3
  <2>5. CASE Submitted(s)
    <3>1. ReviewCame(r)
      BY <1>6, <2>4, <2>5 DEF ReviewCame, Went, Final, l, ReviewDocument
    <3> QED
      BY <1>6, <2>4, <3>1 DEF DocumentEffect, ReviewDocument, DocumentInv
  <2>6. CASE ~Submitted(s)
    <3>1. DocumentAnswered(r)
      BY <1>6, <2>4, <2>6 DEF DocumentAnswered, Went, Final, ReviewDocument, Reviewed
    <3> QED
      BY <1>6, <2>4, <3>1 DEF DocumentEffect, ReviewDocument, DocumentInv
  <2> QED
    BY <2>5, <2>6
<1>7. ASSUME NEW label \in DocumentLabels \cup Final, InFlight(r), Goto(r, label)
      PROVE  /\ MoveOf(r) /\ Here(DocumentLabels)' /\ AsksOnly(DocumentOps)' /\ pc'[r] = label
             /\ label \notin Final => local'[r] = local[r]
             /\ local'[r].op = local[r].op
             /\ pc[r] = "reviewSave" =>
                    /\ local[r].op = "review" /\ {"document", "verdict"} \subseteq DOMAIN local'[r]
                    /\ local'[r].document = local[r].document /\ local'[r].verdict = local[r].verdict
             /\ pc[r] \in SubmitLabels => local[r].op = "submitDocument"
  <2>1. /\ MoveOf(r) /\ Here(DocumentLabels)' /\ AsksOnly(DocumentOps)' /\ Went(r, label, local[r])
    BY <1>a, <1>b, <1>c, <1>7 DEF Goto
  <2>2. pc[r] = "reviewSave" => local[r].op = "review" /\ {"document", "verdict"} \subseteq DOMAIN local[r]
    <3>1. \A s, v, old : LET l == Reviewing(r, s, v, old)
                         IN  l.op = "review" /\ {"document", "verdict"} \subseteq DOMAIN l
      BY DEF Reviewing
    <3> QED
      BY <3>1 DEF DocumentInv, DocumentShape
  <2>3. pc[r] \in SubmitLabels => local[r].op = "submitDocument"
    <3>1. \A q, p : Submitting(q, p).op = "submitDocument"
      BY DEF Submitting
    <3> QED
      BY <3>1 DEF DocumentInv, DocumentShape
  <2> QED
    BY <1>a, <2>1, <2>2, <2>3 DEF Went
<1>8. DocumentStep(r) => InFlight(r)
  BY <1>a DEF DocumentStep, ResolveSponsor, UploadDocument, InsertSubmission, SaveReview, InFlight
<1>9. CASE ResolveSponsor(r)
  <2>1. PICK label \in {"documentUpload", "error"} :
            Goto(r, label) /\ (label = "documentUpload" => local[r].sponsor # None)
    BY <1>9 DEF ResolveSponsor
  <2>2. pc[r] \in SubmitLabels /\ UNCHANGED <<requirements, submissions, files>>
    BY <1>9 DEF ResolveSponsor, SubmitLabels
  <2> QED
    BY <1>a, <1>7, <1>8, <1>9, <2>1, <2>2
       DEF DocumentStep, DocumentEffect, SubmitWent, DocumentAnswered, Reviewed, Asked, DocumentInv
<1>10. CASE UploadDocument(r)
  <2>1. Goto(r, "submissionSave") /\ files' = files \cup {r} /\ UNCHANGED <<requirements, submissions>>
        /\ pc[r] = "documentUpload" /\ pc[r] \in SubmitLabels
    BY <1>10 DEF UploadDocument, Upload, SubmitLabels
  <2> QED
    BY <1>a, <1>7, <1>8, <1>10, <2>1 DEF DocumentStep, DocumentEffect, SubmitWent, DocumentInv
<1>11. CASE InsertSubmission(r)
  <2>1. PICK label \in {"ok", "failed"} : Goto(r, label)
    BY <1>11 DEF InsertSubmission, Ends
  <2> DEFINE doc == [NoSubmission EXCEPT !.requirement = local[r].requirement,
                                 !.sponsor = local[r].sponsor,
                                 !.nth = Cardinality({s \in Requests : Submitted(s)}) + 1]
  <2>2. /\ pc[r] = "submissionSave" /\ submissions' = [submissions EXCEPT ![r] = doc]
        /\ UNCHANGED <<requirements, files>>
    BY <1>11 DEF InsertSubmission
  <2>3. Cardinality({s \in Requests : Submitted(s)}) \in Nat
    BY FS_Subset, FS_CardinalityType, RequestsAssumption
  <2>4. local[r].requirement \in Requirements /\ local[r].sponsor \in EventSponsors
    BY <2>2 DEF DocumentInv, DocumentShape, SubmitLabels
  <2>5. doc \in SubmissionDoc /\ doc.requirement # None /\ doc.status = "pending"
    <3>1. \A q \in Requirements, t \in EventSponsors, n \in Nat :
            [NoSubmission EXCEPT !.requirement = q, !.sponsor = t, !.nth = n] \in SubmissionDoc
      BY DEF NoSubmission, SubmissionDoc, Verdicts
    <3>2. \A q \in Requirements, t \in EventSponsors, n \in Nat :
            LET new == [NoSubmission EXCEPT !.requirement = q, !.sponsor = t, !.nth = n]
            IN  new.requirement = q /\ new.status = "pending"
      BY DEF NoSubmission
    <3>3. local[r].requirement # None /\ Cardinality({s \in Requests : Submitted(s)}) + 1 \in Nat
      BY <2>3, <2>4, RequestsAssumption, RequirementsAssumption DEF Requirements
    <3>4. doc \in SubmissionDoc
      BY <2>4, <3>1, <3>3
    <3>5. doc.requirement = local[r].requirement /\ doc.status = "pending"
      BY <2>4, <3>2, <3>3
    <3> QED
      BY <3>3, <3>4, <3>5
  <2> HIDE DEF doc
  <2>6. /\ MoveOf(r) /\ Here(DocumentLabels)' /\ AsksOnly(DocumentOps)' /\ pc'[r] = label
        /\ local'[r].op = "submitDocument"
    BY <1>a, <1>7, <1>8, <1>11, <2>1, <2>2 DEF DocumentStep, SubmitLabels
  <2>7. SubmitEnded(r)
    BY <2>2, <2>5, <2>6 DEF SubmitEnded, Reviewed, Asked
  <2> QED
    BY <2>2, <2>6, <2>7 DEF DocumentEffect, DocumentInv
<1>12. CASE SaveReview(r)
  <2>1. PICK label \in {"ok", "failed"} : Goto(r, label)
    BY <1>12 DEF SaveReview, Ends
  <2>2. /\ pc[r] = "reviewSave" /\ UNCHANGED <<requirements, files>>
        /\ submissions' = [submissions EXCEPT ![local[r].document] =
                SavedReview(@, local[r].old, local[r].new)]
    BY <1>12 DEF SaveReview
  <2> DEFINE s == local[r].document
             v == local[r].verdict
             old == local[r].old
  <2>3. /\ s \in Requests /\ v \in Verdicts /\ old \in SubmissionDoc /\ submissions[s] \in SubmissionDoc
        /\ local[r] = Reviewing(r, s, v, old)
    <3>1. Reviewed(r)
      BY <1>a, <1>7, <1>8, <1>12, <2>1, <2>2 DEF Reviewed, Asked, DocumentStep
    <3> QED
      BY <2>2, <3>1 DEF DocumentInv, DocumentShape
  <2>4. local[r].new = [old EXCEPT !.status = v, !.reviewer = r]
    BY <2>3 DEF Reviewing
  <2>5. SavedReview(submissions[s], old, local[r].new) = AfterReview(submissions[s], r, v, old)
    BY <2>3, <2>4 DEF SavedReview, SubmissionDoc, AfterReview
  <2>6. /\ MoveOf(r) /\ Here(DocumentLabels)' /\ AsksOnly(DocumentOps)' /\ pc'[r] = label
        /\ local'[r].op = "review" /\ {"document", "verdict"} \subseteq DOMAIN local'[r]
        /\ local'[r].document = s /\ local'[r].verdict = v
    BY <1>a, <1>7, <1>8, <1>12, <2>1, <2>2 DEF DocumentStep
  <2>7. submissions' = [submissions EXCEPT ![s] = AfterReview(submissions[s], r, v, old)]
    BY <2>2, <2>5
  <2>8. ReviewSaved(r)
    BY <2>2, <2>6, <2>7 DEF ReviewSaved, ReviewKnown, Asked
  <2> QED
    BY <2>2, <2>6, <2>8 DEF DocumentEffect, DocumentInv
<1>13. CASE Fails(r) /\ UNCHANGED documentVars
  <2>1. InFlight(r) /\ Goto(r, "failed") /\ UNCHANGED <<requirements, submissions, files>>
    BY <1>13 DEF Fails
  <2>2. pc[r] \in SubmitLabels \/ pc[r] = "reviewSave"
    BY <1>a, <1>c, <2>1 DEF SubmitLabels
  <2> QED
    BY <1>a, <1>7, <2>1, <2>2
       DEF DocumentEffect, DocumentAnswered, ReviewCut, ReviewKnown, Reviewed, Asked, DocumentInv
<1> QED
  BY <1>2, <1>3, <1>4, <1>5, <1>6, <1>9, <1>10, <1>11, <1>12, <1>13 DEF DocumentArrive, DocumentStep

\* What the records of a submission and of a review hold.
LEMMA DocumentRecords ==
  /\ \A q, p : LET l == Submitting(q, p)
               IN  l.op = "submitDocument" /\ l.requirement = q /\ l.sponsor = p
  /\ \A r, s, v, old : LET l == Reviewing(r, s, v, old)
                       IN  /\ l.op = "review" /\ l.document = s /\ l.verdict = v /\ l.old = old
                           /\ {"document", "verdict"} \subseteq DOMAIN l
BY DEF Submitting, Reviewing

\* A stored document stays stored, and a review that was not refused counts on.
LEMMA DocumentsStay ==
  ASSUME DocumentInv, NEW r \in Requests, DocumentEffect(r)
  PROVE  /\ submissions' \in [Requests -> SubmissionDoc]
         /\ files \subseteq files' /\ files' \subseteq files \cup {r}
         /\ \A s \in Requests : Submitted(s) => Submitted(s)'
         /\ \A q \in Requests \ {r} : Reviewed(q)' <=> Reviewed(q)
         /\ pc[r] \notin Final
<1> USE DEF Asked, Reviewed, Submitted
<1>1. /\ \A q \in Requests \ {r} : pc'[q] = pc[q] /\ local'[q] = local[q]
      /\ pc[r] \notin Final /\ submissions \in [Requests -> SubmissionDoc]
  BY DEF DocumentEffect, MoveOf, DocumentInv
<1>2. CASE UNCHANGED submissions
  <2>1. files \subseteq files' /\ files' \subseteq files \cup {r}
    BY <1>2 DEF DocumentEffect, DocumentAnswered, SubmitCame, SubmitWent, SubmitEnded, ReviewCame,
       ReviewSaved, ReviewCut, ReviewKnown
  <2> QED
    BY <1>1, <1>2, <2>1
<1>3. CASE SubmitEnded(r)
  BY <1>1, <1>3 DEF SubmitEnded
<1>4. CASE ReviewSaved(r)
  <2> DEFINE s == local[r].document
             v == local[r].verdict
             old == local[r].old
  <2>1. s \in Requests /\ v \in Verdicts
    <3>1. Reviewed(r)
      BY <1>4, DocumentRecords DEF ReviewSaved, ReviewKnown, DocumentInv, DocumentShape
    <3> QED
      BY <3>1 DEF DocumentInv, DocumentShape
  <2>2. \A doc \in SubmissionDoc : /\ AfterReview(doc, r, v, old) \in SubmissionDoc
                                   /\ AfterReview(doc, r, v, old).requirement = doc.requirement
    BY <2>1 DEF AfterReview, SubmissionDoc
  <2> HIDE DEF s, v, old
  <2>3. submissions' = [submissions EXCEPT ![s] = AfterReview(@, r, v, old)] /\ UNCHANGED files
    BY <1>4 DEF ReviewSaved, ReviewKnown, s, v, old
  <2>4. AfterReview(submissions[s], r, v, old) \in SubmissionDoc
    BY <1>1, <2>1, <2>2
  <2>5. submissions' \in [Requests -> SubmissionDoc]
    BY <1>1, <2>1, <2>3, <2>4
  <2>6. \A t \in Requests : submissions'[t].requirement = submissions[t].requirement
    BY <1>1, <2>1, <2>2, <2>3
  <2> QED
    BY <1>1, <2>3, <2>5, <2>6
<1> QED
  BY <1>2, <1>3, <1>4 DEF DocumentEffect, DocumentAnswered, SubmitCame, SubmitWent, ReviewCame, ReviewCut

\* Each part of the invariant is kept: what a request knows,
LEMMA DocumentKeepsShape ==
  ASSUME DocumentInv, NEW r \in Requests, DocumentEffect(r)
  PROVE  DocumentShape'
<1> USE DEF SubmitLabels, Final
<1>0. /\ \A q \in Requests \ {r} : pc'[q] = pc[q] /\ local'[q] = local[q]
      /\ files \subseteq files' /\ \A s \in Requests : Submitted(s) => Submitted(s)'
      /\ \A q \in Requests \ {r} : Reviewed(q)' <=> Reviewed(q)
      /\ submissions' \in [Requests -> SubmissionDoc] /\ submissions \in [Requests -> SubmissionDoc]
  BY DocumentsStay DEF DocumentEffect, MoveOf, DocumentInv
<1>a. /\ Here(DocumentLabels) /\ DocumentShape
  BY DEF DocumentInv
<1>1. ASSUME NEW p \in Requests
      PROVE  /\ pc'[p] \in SubmitLabels =>
                 /\ local'[p] = Submitting(local'[p].requirement, local'[p].sponsor)
                 /\ local'[p].requirement \in Requirements
                 /\ local'[p].sponsor \in EventSponsors \cup {None}
             /\ pc'[p] \in {"documentUpload", "submissionSave"} => local'[p].sponsor # None
             /\ pc'[p] = "submissionSave" => p \in files'
             /\ pc'[p] = "reviewSave" =>
                 /\ local'[p] = Reviewing(p, local'[p].document, local'[p].verdict, local'[p].old)
                 /\ local'[p].old \in SubmissionDoc
             /\ Reviewed(p)' =>
                 /\ {"document", "verdict"} \subseteq DOMAIN local'[p]
                 /\ local'[p].document \in Requests /\ local'[p].verdict \in Verdicts
                 /\ submissions'[local'[p].document].requirement # None
  <2>1. CASE p # r
    <3>1. pc'[p] = pc[p] /\ local'[p] = local[p] /\ (Reviewed(p)' <=> Reviewed(p))
          /\ (p \in files => p \in files')
      BY <1>0, <2>1
    <3>2. Reviewed(p) => /\ {"document", "verdict"} \subseteq DOMAIN local[p]
                         /\ local[p].document \in Requests /\ local[p].verdict \in Verdicts
                         /\ submissions'[local[p].document].requirement # None
      BY <1>0, <1>a DEF DocumentShape, Submitted
    <3> QED
      BY <1>a, <3>1, <3>2 DEF DocumentShape
  <2>2. CASE p = r /\ DocumentAnswered(r)
    BY <2>2 DEF DocumentAnswered
  <2>3. CASE p = r /\ SubmitCame(r)
    <3>1. pc'[r] = "sponsorLookup" /\ \E q \in Requirements, t \in EventSponsors \cup {None} :
                local'[r] = Submitting(q, t)
      BY <2>3 DEF SubmitCame
    <3>2. local'[r].op = "submitDocument"
      BY <3>1, DocumentRecords
    <3> QED
      BY <2>3, <3>1, <3>2, DocumentRecords DEF Reviewed, Asked
  <2>4. CASE p = r /\ SubmitWent(r)
    <3>1. /\ pc[r] \in SubmitLabels /\ local'[r] = local[r] /\ pc'[r] \in SubmitLabels
          /\ local[r] = Submitting(local[r].requirement, local[r].sponsor)
          /\ local[r].requirement \in Requirements /\ local[r].sponsor \in EventSponsors \cup {None}
          /\ local[r].sponsor # None /\ (pc'[r] = "submissionSave" => r \in files')
      BY <1>a, <2>4 DEF SubmitWent, DocumentShape
    <3>2. local'[r].op = "submitDocument"
      BY <3>1, DocumentRecords
    <3> QED
      BY <2>4, <3>1, <3>2 DEF Reviewed, Asked
  <2>5. CASE p = r /\ SubmitEnded(r)
    BY <2>5 DEF SubmitEnded
  <2>6. CASE p = r /\ ReviewCame(r)
    <3>1. PICK s \in Requests, v \in Verdicts :
            Submitted(s) /\ local'[r] = Reviewing(r, s, v, submissions[s])
      BY <2>6 DEF ReviewCame
    <3>2. /\ local'[r].document = s /\ local'[r].verdict = v /\ local'[r].old = submissions[s]
          /\ {"document", "verdict"} \subseteq DOMAIN local'[r] /\ pc'[r] = "reviewSave"
          /\ submissions' = submissions
      BY <2>6, <3>1, DocumentRecords DEF ReviewCame
    <3> QED
      BY <1>0, <2>6, <3>1, <3>2 DEF Submitted
  <2>7. CASE p = r /\ (ReviewSaved(r) \/ ReviewCut(r))
    <3>1. /\ pc'[r] \in {"ok", "failed"} /\ {"document", "verdict"} \subseteq DOMAIN local'[r]
          /\ local'[r].document = local[r].document /\ local'[r].verdict = local[r].verdict
          /\ pc[r] = "reviewSave"
      BY <2>7 DEF ReviewSaved, ReviewCut, ReviewKnown
    <3>2. Reviewed(r)
      BY <1>a, <3>1, DocumentRecords DEF Reviewed, Asked, DocumentShape
    <3>3. /\ local[r].document \in Requests /\ local[r].verdict \in Verdicts
          /\ Submitted(local[r].document)
      BY <1>a, <3>2 DEF DocumentShape
    <3>4. submissions'[local[r].document].requirement # None
      BY <1>0, <3>3 DEF Submitted
    <3> QED
      BY <2>7, <3>1, <3>3, <3>4
  <2> QED
    BY <2>1, <2>2, <2>3, <2>4, <2>5, <2>6, <2>7 DEF DocumentEffect
<1> QED
  BY <1>1 DEF DocumentShape, Submitted

\* what is stored,
LEMMA DocumentKeepsStored ==
  ASSUME DocumentInv, NEW r \in Requests, DocumentEffect(r)
  PROVE  DocumentStored'
<1>0. /\ \A q \in Requests \ {r} : pc'[q] = pc[q]
      /\ files \subseteq files' /\ \A s \in Requests : Submitted(s) => Submitted(s)'
      /\ pc[r] \notin Final /\ submissions \in [Requests -> SubmissionDoc] /\ DocumentStored
      /\ NoSubmission.requirement = None
  BY DocumentsStay DEF DocumentEffect, MoveOf, DocumentInv, NoSubmission
<1>1. submissions[r] = NoSubmission
  BY <1>0 DEF DocumentStored
<1>2. CASE UNCHANGED submissions
  <2>1. ASSUME NEW s \in Requests
        PROVE  submissions'[s] = NoSubmission \/ (Submitted(s)' /\ s \in files' /\ pc'[s] \in Final)
    BY <1>0, <1>1, <1>2 DEF DocumentStored
  <2> QED
    BY <2>1 DEF DocumentStored
<1>3. CASE SubmitEnded(r)
  <2>1. PICK doc \in SubmissionDoc : submissions' = [submissions EXCEPT ![r] = doc] /\ doc.requirement # None
    BY <1>3 DEF SubmitEnded
  <2>2. r \in files /\ pc'[r] \in Final
    BY <1>3 DEF SubmitEnded, DocumentInv, DocumentShape, Final
  <2>3. ASSUME NEW s \in Requests
        PROVE  submissions'[s] = NoSubmission \/ (Submitted(s)' /\ s \in files' /\ pc'[s] \in Final)
    <3>1. CASE s = r
      BY <1>0, <2>1, <2>2, <3>1 DEF Submitted
    <3>2. CASE s # r
      BY <1>0, <2>1, <3>2 DEF Submitted, DocumentStored
    <3> QED
      BY <3>1, <3>2
  <2> QED
    BY <2>3 DEF DocumentStored
<1>4. CASE ReviewSaved(r)
  <2>1. \A s \in Requests : s # local[r].document => submissions'[s] = submissions[s]
    BY <1>0, <1>4 DEF ReviewSaved
  <2>2. Submitted(local[r].document) /\ local[r].document \in Requests
    <3>1. Reviewed(r)
      BY <1>4, DocumentRecords DEF ReviewSaved, ReviewKnown, DocumentInv, DocumentShape, Reviewed, Asked
    <3> QED
      BY <3>1 DEF DocumentInv, DocumentShape
  <2>3. ASSUME NEW s \in Requests
        PROVE  submissions'[s] = NoSubmission \/ (Submitted(s)' /\ s \in files' /\ pc'[s] \in Final)
    <3>1. CASE submissions[s] = NoSubmission
      <4>1. s # local[r].document
        BY <1>0, <2>2, <3>1 DEF Submitted
      <4> QED
        BY <2>1, <3>1, <4>1
    <3>2. CASE Submitted(s) /\ s \in files /\ pc[s] \in Final
      BY <1>0, <3>2
    <3> QED
      BY <1>0, <3>1, <3>2 DEF DocumentStored
  <2> QED
    BY <2>3 DEF DocumentStored
<1> QED
  BY <1>2, <1>3, <1>4 DEF DocumentEffect, DocumentAnswered, SubmitCame, SubmitWent, ReviewCame, ReviewCut

\* what verdicts are backed by,
LEMMA DocumentKeepsBacked ==
  ASSUME DocumentInv, NEW r \in Requests, DocumentEffect(r)
  PROVE  DocumentBacked'
<1>0. /\ \A q \in Requests \ {r} : pc'[q] = pc[q] /\ local'[q] = local[q]
      /\ \A q \in Requests \ {r} : Reviewed(q)' <=> Reviewed(q)
      /\ pc[r] \notin Final /\ submissions \in [Requests -> SubmissionDoc] /\ DocumentBacked
  BY DocumentsStay DEF DocumentEffect, MoveOf, DocumentInv
<1>a. ASSUME Reviewed(r)
      PROVE  /\ pc[r] = "reviewSave" /\ Reviewed(r)'
             /\ local'[r].document = local[r].document /\ local'[r].verdict = local[r].verdict
  <2>1. pc[r] = "reviewSave"
    <3>1. pc[r] \in DocumentLabels \cup {"idle"}
      BY <1>0 DEF DocumentInv, Here
    <3>2. pc[r] # "idle"
      BY <1>a DEF Reviewed, DocumentInv, Here, Asked
    <3>3. pc[r] \notin SubmitLabels
      BY <1>a, DocumentRecords DEF Reviewed, DocumentInv, DocumentShape, Asked
    <3> QED
      BY <3>1, <3>2, <3>3 DEF DocumentLabels, SubmitLabels
  <2>2. ReviewSaved(r) \/ ReviewCut(r)
    BY <2>1 DEF DocumentEffect, SubmitCame, SubmitWent, SubmitEnded, ReviewCame, DocumentAnswered,
       SubmitLabels
  <2> QED
    BY <2>1, <2>2 DEF ReviewSaved, ReviewCut, ReviewKnown, Reviewed
<1>1. \A q \in Requests : Reviewed(q) =>
        Reviewed(q)' /\ local'[q].document = local[q].document /\ local'[q].verdict = local[q].verdict
  BY <1>0, <1>a
<1>2. ASSUME NEW s \in Requests, submissions'[s].status # "pending"
      PROVE  \E q \in Requests : Reviewed(q)' /\ local'[q].document = s
                                   /\ local'[q].verdict = submissions'[s].status
  <2>1. CASE submissions'[s].status = submissions[s].status
    BY <1>0, <1>1, <1>2, <2>1 DEF DocumentBacked
  <2>2. CASE submissions'[s].status # submissions[s].status
    <3>1. ReviewSaved(r)
      <4>1. ~SubmitEnded(r)
        BY <1>0, <1>2, <2>2 DEF SubmitEnded
      <4> QED
        BY <2>2, <4>1 DEF DocumentEffect, DocumentAnswered, SubmitCame, SubmitWent, ReviewCame, ReviewCut
    <3>2. Reviewed(r)
      BY <3>1, DocumentRecords DEF ReviewSaved, ReviewKnown, DocumentInv, DocumentShape, Reviewed, Asked
    <3>3. \A doc \in SubmissionDoc : \A v, old : AfterReview(doc, r, v, old).status \in {doc.status, v}
      BY DEF AfterReview, SubmissionDoc
    <3>4. submissions' = [submissions EXCEPT ![local[r].document] =
                                AfterReview(@, r, local[r].verdict, local[r].old)]
      BY <3>1 DEF ReviewSaved
    <3>5. local[r].document = s /\ submissions'[s].status = local[r].verdict
      BY <1>0, <2>2, <3>3, <3>4
    <3> QED
      BY <1>1, <3>2, <3>5
  <2> QED
    BY <2>1, <2>2
<1> QED
  BY <1>2 DEF DocumentBacked

\* and the last verdict.
LEMMA DocumentKeepsSerial ==
  ASSUME DocumentInv, NEW r \in Requests, DocumentEffect(r), Here(DocumentLabels)'
  PROVE  DocumentSerial'
<1> USE DEF Asked, ReviewEnded
<1> SUFFICES ASSUME SerialSoFar'
             PROVE  /\ \A p \in Requests : pc'[p] = "reviewSave" =>
                            local'[p].old = submissions'[local'[p].document]
                    /\ \A p, s \in Requests :
                        ReviewEnded(p, s)' /\ (\A q \in Requests \ {p} : ReviewEnded(q, s)' => q \in before'[p])
                            => submissions'[s].status = local'[p].verdict /\ submissions'[s].reviewer = p
  BY DEF DocumentSerial
<1>1. /\ SerialSoFar /\ pc'[r] # "failed"
      /\ \A q \in Requests \ {r} : ~InFlight(q)
  BY MovesAlone DEF DocumentInv, DocumentEffect
<1>2. /\ \A q \in Requests \ {r} : pc'[q] = pc[q] /\ local'[q] = local[q] /\ before'[q] = before[q]
      /\ \A q \in Requests \ {r} : pc[q] # "reviewSave"
      /\ submissions \in [Requests -> SubmissionDoc]
      /\ pc[r] \notin Final
      /\ \A q \in Requests : r \notin before[q]
  <2>1. "reviewSave" \notin Final \cup {"idle"}
    BY DEF Final
  <2>2. pc[r] \notin Final
    BY DEF DocumentEffect, MoveOf
  <2> QED
    BY <1>1, <2>1, <2>2 DEF DocumentEffect, MoveOf, DocumentInv, InFlight, Here
<1>3. /\ \A p \in Requests : pc[p] = "reviewSave" => local[p].old = submissions[local[p].document]
      /\ \A p, s \in Requests :
            ReviewEnded(p, s) /\ (\A q \in Requests \ {p} : ReviewEnded(q, s) => q \in before[p])
                => submissions[s].status = local[p].verdict /\ submissions[s].reviewer = p
  BY <1>1 DEF DocumentInv, DocumentSerial
<1>a. ~ReviewEnded(r, r) /\ \A s \in Requests : ~ReviewEnded(r, s)
  BY <1>2 DEF Final
<1>b. \A q, s \in Requests : q # r => (ReviewEnded(q, s)' <=> ReviewEnded(q, s))
  BY <1>2
\* A move that saves no review and no document changes neither.
<1>4. ASSUME \A s \in Requests : ~ReviewEnded(r, s)',
             \A s \in Requests : submissions'[s] # submissions[s] =>
                    s = r /\ \A q \in Requests : ~ReviewEnded(q, s)
      PROVE  \A p, s \in Requests :
                ReviewEnded(p, s)' /\ (\A q \in Requests \ {p} : ReviewEnded(q, s)' => q \in before'[p])
                    => submissions'[s].status = local'[p].verdict /\ submissions'[s].reviewer = p
  <2> SUFFICES ASSUME NEW p \in Requests, NEW s \in Requests, ReviewEnded(p, s)',
                      \A q \in Requests \ {p} : ReviewEnded(q, s)' => q \in before'[p]
               PROVE  submissions'[s].status = local'[p].verdict /\ submissions'[s].reviewer = p
    OBVIOUS
  <2>1. p # r /\ ReviewEnded(p, s)
    BY <1>4, <1>b
  <2>2. \A q \in Requests \ {p} : ReviewEnded(q, s) => q \in before[p]
    BY <1>2, <1>a, <1>b, <2>1
  <2>3. submissions'[s] = submissions[s]
    BY <1>4, <2>1
  <2> QED
    BY <1>2, <1>3, <2>1, <2>2, <2>3
<1>5. CASE DocumentAnswered(r) \/ SubmitCame(r) \/ SubmitWent(r) \/ ReviewCame(r)
  <2>1. UNCHANGED submissions
    BY <1>5 DEF DocumentAnswered, SubmitCame, SubmitWent, ReviewCame
  <2>2. \A s \in Requests : ~ReviewEnded(r, s)'
    BY <1>5 DEF DocumentAnswered, SubmitCame, SubmitWent, ReviewCame, Reviewed
  <2>3. ASSUME NEW p \in Requests, pc'[p] = "reviewSave"
        PROVE  local'[p].old = submissions'[local'[p].document]
    <3>1. CASE p # r
      BY <1>2, <2>3, <3>1
    <3>2. CASE p = r
      <4>1. ReviewCame(r)
        BY <1>5, <2>3, <3>2 DEF DocumentAnswered, SubmitCame, SubmitWent, ReviewCame, Final
      <4> QED
        BY <2>1, <3>2, <4>1, DocumentRecords DEF ReviewCame
    <3> QED
      BY <3>1, <3>2
  <2> QED
    BY <1>4, <2>1, <2>2, <2>3
<1>6. CASE SubmitEnded(r)
  <2>1. \A s \in Requests : ~ReviewEnded(r, s)'
    BY <1>6 DEF SubmitEnded, Reviewed
  <2>2. \A s \in Requests : s # r => submissions'[s] = submissions[s]
    BY <1>2, <1>6 DEF SubmitEnded
  <2>3. ~Submitted(r)
    BY <1>2 DEF DocumentInv, DocumentStored, NoSubmission, Submitted
  <2>4. \A q \in Requests : ~ReviewEnded(q, r)
    <3>1. \A q \in Requests : ReviewEnded(q, r) => Reviewed(q)
      BY DEF Reviewed
    <3> QED
      BY <2>3, <3>1 DEF DocumentInv, DocumentShape
  <2>5. \A p \in Requests : pc'[p] # "reviewSave"
    BY <1>2, <1>6 DEF SubmitEnded
  <2> QED
    BY <1>4, <2>1, <2>2, <2>4, <2>5
<1>7. CASE ReviewSaved(r)
  <2>0. Reviewed(r)
    BY <1>7, DocumentRecords DEF ReviewSaved, ReviewKnown, DocumentInv, DocumentShape, Reviewed
  <2>1. PICK t \in Requests, v \in Verdicts : t = local[r].document /\ v = local[r].verdict
    BY <2>0 DEF DocumentInv, DocumentShape
  <2>2. local[r].old = submissions[t] /\ submissions[t] \in SubmissionDoc /\ v \in Verdicts
    BY <1>2, <1>3, <1>7, <2>1 DEF ReviewSaved, ReviewKnown
  <2>3. \A doc \in SubmissionDoc : /\ AfterReview(doc, r, v, doc).status = v
                                   /\ AfterReview(doc, r, v, doc).reviewer = r
    BY DEF AfterReview, SubmissionDoc
  <2>4. submissions' = [submissions EXCEPT ![t] = AfterReview(@, r, v, submissions[t])]
    BY <1>7, <2>1, <2>2 DEF ReviewSaved
  <2>5. submissions'[t].status = v /\ submissions'[t].reviewer = r
    BY <1>2, <2>2, <2>3, <2>4
  <2>6. \A s \in Requests : s # t => submissions'[s] = submissions[s]
    BY <1>2, <2>4
  <2>7. pc'[r] = "ok" /\ local'[r].op = "review" /\ local'[r].document = t /\ local'[r].verdict = v
    BY <1>1, <1>7, <2>1 DEF ReviewSaved, ReviewKnown
  <2>8. ASSUME NEW p \in Requests, NEW s \in Requests, ReviewEnded(p, s)',
               \A q \in Requests \ {p} : ReviewEnded(q, s)' => q \in before'[p]
        PROVE  submissions'[s].status = local'[p].verdict /\ submissions'[s].reviewer = p
    <3>1. CASE p = r
      BY <2>5, <2>7, <2>8, <3>1
    <3>2. CASE p # r
      <4>1. s # t
        <5>1. r \notin before'[p]
          BY <1>2, <3>2
        <5> QED
          BY <2>7, <2>8, <3>2, <5>1
      <4>2. ReviewEnded(p, s) /\ submissions'[s] = submissions[s]
        BY <1>b, <2>6, <2>8, <3>2, <4>1
      <4>3. \A q \in Requests \ {p} : ReviewEnded(q, s) => q \in before[p]
        BY <1>2, <1>a, <1>b, <2>8, <3>2
      <4> QED
        BY <1>2, <1>3, <3>2, <4>2, <4>3
    <3> QED
      BY <3>1, <3>2
  <2>9. \A p \in Requests : pc'[p] # "reviewSave"
    BY <1>2, <2>7
  <2> QED
    BY <2>8, <2>9
<1>8. CASE ReviewCut(r)
  BY <1>1, <1>8 DEF ReviewCut
<1> QED
  BY <1>5, <1>6, <1>7, <1>8 DEF DocumentEffect

\* Every step of the documents keeps the invariant,
LEMMA DocumentNext ==
  ASSUME DocumentInv, NEW r \in Requests,
         DocumentArrive(r) \/ DocumentStep(r) \/ (Fails(r) /\ UNCHANGED documentVars)
  PROVE  DocumentInv'
<1>1. DocumentEffect(r) /\ Here(DocumentLabels)' /\ AsksOnly(DocumentOps)'
      /\ requirements' \in [Requirements -> RequirementDoc]
  BY DocumentEffects
<1>2. /\ submissions' \in [Requests -> SubmissionDoc]
      /\ files' \subseteq Requests \cup EarlierFiles
  BY <1>1, DocumentsStay DEF DocumentInv
<1>3. DocumentShape' /\ DocumentStored' /\ DocumentBacked' /\ DocumentSerial'
  BY <1>1, DocumentKeepsShape, DocumentKeepsStored, DocumentKeepsBacked, DocumentKeepsSerial
<1> QED
  BY <1>1, <1>2, <1>3 DEF DocumentInv

\* so does a step elsewhere,
LEMMA DocumentStutters ==
  ASSUME DocumentInv, UNCHANGED <<documentVars, handlerVars>>
  PROVE  DocumentInv'
<1> USE DEF handlerVars, documentVars, Asked
<1>1. Here(DocumentLabels)' /\ AsksOnly(DocumentOps)'
  BY DEF DocumentInv, Here, AsksOnly
<1>2. DocumentShape' /\ DocumentStored'
  BY DEF DocumentInv, DocumentShape, DocumentStored, Reviewed, Submitted
<1>3. DocumentBacked'
  BY DEF DocumentInv, DocumentBacked, Reviewed
<1>4. DocumentSerial'
  BY DEF DocumentInv, DocumentSerial, SerialSoFar, ReviewEnded
<1> QED
  BY <1>1, <1>2, <1>3, <1>4 DEF DocumentInv

\* and it holds at first.
LEMMA DocumentStarts ==
  ASSUME HandlersInit, DocumentInit, StorageInit
  PROVE  DocumentInv
<1> USE DEF HandlersInit, DocumentInit, StorageInit
<1>1. Here(DocumentLabels) /\ AsksOnly(DocumentOps)
  BY HereInit, AsksInit
<1>2. NoSubmission \in SubmissionDoc /\ NoSubmission.status = "pending"
  BY DEF NoSubmission, SubmissionDoc, Verdicts
<1>3. requirements \in [Requirements -> RequirementDoc]
  BY DEF RequirementDoc, NoRequirement
<1>4. \A r \in Requests : pc[r] = "idle" /\ local[r].op = "none"
  BY DEF NoLocal
<1>5. DocumentShape
  BY <1>4 DEF DocumentShape, SubmitLabels, Reviewed, Asked
<1>6. DocumentStored /\ DocumentBacked
  BY <1>2 DEF DocumentStored, DocumentBacked
<1>7. DocumentSerial
  BY <1>4 DEF DocumentSerial, ReviewEnded
<1> QED
  BY <1>1, <1>2, <1>3, <1>5, <1>6, <1>7 DEF DocumentInv

\* What is true of the documents whenever the invariant is.
LEMMA DocumentsAreRight ==
  ASSUME DocumentInv
  PROVE  DocumentTypeOK /\ StorageTypeOK /\ SubmissionFilesExist /\ VerdictsStand
<1>1. DocumentTypeOK /\ StorageTypeOK
  BY DEF DocumentInv, DocumentTypeOK, StorageTypeOK
<1>2. SubmissionFilesExist
  BY DEF DocumentInv, DocumentStored, SubmissionFilesExist, Submitted, NoSubmission
<1>3. ASSUME NEW s \in Requests
      PROVE  LET reviews == {r \in Requests : /\ Asked(r, "review") /\ local[r].document = s
                                              /\ pc[r] # "error"}
             IN  /\ submissions[s].status # "pending" =>
                        \E r \in reviews : local[r].verdict = submissions[s].status
                 /\ Serial => \A r \in LastOf(reviews) :
                        submissions[s].status = local[r].verdict /\ submissions[s].reviewer = r
  <2> DEFINE reviews == {r \in Requests : /\ Asked(r, "review") /\ local[r].document = s
                                          /\ pc[r] # "error"}
  <2>1. ASSUME submissions[s].status # "pending"
        PROVE  \E r \in reviews : local[r].verdict = submissions[s].status
    BY <2>1 DEF DocumentInv, DocumentBacked, Reviewed
  <2>2. ASSUME Serial, NEW r \in LastOf(reviews)
        PROVE  submissions[s].status = local[r].verdict /\ submissions[s].reviewer = r
    <3>1. r \in reviews /\ reviews \ {r} \subseteq before[r]
      BY <2>2 DEF LastOf
    <3>2. SerialSoFar /\ \A q \in Requests : pc[q] # "failed" /\ ~InFlight(q)
      BY <2>2, SerialIsSoFar
    <3>3. \A q \in reviews : pc[q] = "ok"
      BY <3>2 DEF InFlight, Final, DocumentInv, Here, Asked
    <3>4. ReviewEnded(r, s) /\ \A q \in Requests \ {r} : ReviewEnded(q, s) => q \in before[r]
      BY <3>1, <3>3 DEF ReviewEnded
    <3> QED
      BY <3>1, <3>2, <3>4 DEF DocumentInv, DocumentSerial
  <2> QED
    BY <2>1, <2>2
<1>4. VerdictsStand
  BY <1>3 DEF VerdictsStand
<1> QED
  BY <1>1, <1>2, <1>4


(***************************************************************************)
(* The speakers of an event.                                                *)
(***************************************************************************)
\* A synchronisation as it was asked for and as far as it has come.
IsSync(l, list, removed, look, save) ==
    /\ {"op", "list", "removed", "look", "save"} \subseteq DOMAIN l
    /\ l.op = "syncSpeakers" /\ l.list = list /\ l.removed = removed
    /\ l.look = look /\ l.save = save

\* The speakers a synchronisation has still to look up or to save.
Awaited(r) == local[r].look \cup {d[2] : d \in local[r].save}

RosterShape ==
    \A r \in Requests : Asked(r, "syncSpeakers") =>
        /\ IsSync(local[r], local[r].list, local[r].removed, local[r].look, local[r].save)
        /\ pc[r] # "error" /\ local[r].list \subseteq EventSpeakers
        /\ local[r].look \subseteq local[r].list
        /\ local[r].save \subseteq Participants /\ \A d \in local[r].save : d[2] \in local[r].list
        /\ pc[r] = "rosterRemove" => local[r].save = {}

\* A speaker who participates did so before, or is on somebody's list.
RosterBacked ==
    \A d \in Participants : presence[d] = "active" =>
        \/ d[2] \in EarlierSpeakers
        \/ \E r \in Requests : Asked(r, "syncSpeakers") /\ d[2] \in local[r].list

\* A synchronisation that is alone has removed whom it was to remove, and all
\* others on its list participate but those it awaits, each with one document.
Halfway(r) ==
    /\ pc[r] = "rosterRemove" => \A s \in EventSpeakers : Active(s) <=>
            s \in local[r].removed \/ s \in local[r].list \ local[r].look
    /\ pc[r] = "rosterRemove" => local[r].removed \cap local[r].list = {}
    /\ pc[r] = "rosterAdd" => \A s \in EventSpeakers :
            Active(s) <=> s \in local[r].list \ Awaited(r)
    /\ pc[r] = "rosterAdd" => \A d \in local[r].save : ParticipantsOf(d[2]) \subseteq {d}
    /\ pc[r] = "rosterAdd" => \A d \in local[r].save : d[2] \notin local[r].look
    /\ pc[r] = "rosterAdd" => \A d, e \in local[r].save : d[2] = e[2] => d = e

\* As long as the lists do not overlap, a speaker has one document, and the last
\* list is who participates.
OneEach ==
    \A d, e \in Participants :
        presence[d] # "none" /\ presence[e] # "none" /\ d[2] = e[2] => d = e

RosterSerial ==
    SerialSoFar =>
        /\ OneEach
        /\ \A r \in Requests : Halfway(r)
        /\ \A r \in Requests :
            pc[r] = "ok" /\ (\A q \in Requests \ {r} : pc[q] # "idle" => q \in before[r])
                => \A s \in EventSpeakers : Active(s) <=> s \in local[r].list

RosterInv ==
    /\ Here(RosterLabels) /\ AsksOnly(RosterOps)
    /\ presence \in [Participants -> {"none", "active", "inactive"}]
    /\ RosterShape /\ RosterBacked /\ RosterSerial

(***************************************************************************)
(* What a synchronisation does.                                             *)
(***************************************************************************)
SyncCame(r) ==
    /\ pc[r] = "idle" /\ UNCHANGED presence
    /\ \E list \in SUBSET EventSpeakers :
        LET current == {s \in EventSpeakers : Active(s)}
        IN  /\ IsSync(local'[r], list, current \ list, list \ current, {})
            /\ pc'[r] \in {"rosterRemove", "rosterAdd", "ok"}
            /\ pc'[r] = "ok" => current = list
            /\ pc'[r] = "rosterAdd" => current \subseteq list

SyncRemoved(r) ==
    /\ pc[r] = "rosterRemove" /\ pc'[r] \in {"ok", "rosterAdd", "failed"}
    /\ pc'[r] = "ok" => local[r].look = {}
    /\ IsSync(local'[r], local[r].list, local[r].removed, local[r].look, local[r].save)
    /\ presence' = [d \in Participants |->
            IF d \in Cancelled(local[r].removed) THEN "inactive" ELSE presence[d]]

SyncLooked(r) ==
    /\ pc[r] = "rosterAdd" /\ UNCHANGED presence
    /\ \E s \in local[r].look, d \in Participants :
        /\ d[2] = s /\ (ParticipantsOf(s) = {} \/ d \in ParticipantsOf(s))
        /\ LET look == local[r].look \ {s}
               save == IF presence[d] = "active" THEN local[r].save ELSE local[r].save \cup {d}
           IN  /\ pc'[r] = IF look \cup save = {} THEN "ok" ELSE "rosterAdd"
               /\ IsSync(local'[r], local[r].list, local[r].removed, look, save)

SyncSaved(r) ==
    /\ pc[r] = "rosterAdd"
    /\ \E d \in local[r].save :
        /\ presence' = [presence EXCEPT ![d] = "active"]
        /\ pc'[r] \in {"ok", "rosterAdd", "failed"}
        /\ pc'[r] = "ok" => local[r].look \cup (local[r].save \ {d}) = {}
        /\ IsSync(local'[r], local[r].list, local[r].removed, local[r].look, local[r].save \ {d})

SyncCut(r) ==
    /\ pc[r] \in RosterLabels /\ pc'[r] = "failed" /\ UNCHANGED presence
    /\ IsSync(local'[r], local[r].list, local[r].removed, local[r].look, local[r].save)

RosterEffect(r) ==
    MoveOf(r) /\ (SyncCame(r) \/ SyncRemoved(r) \/ SyncLooked(r) \/ SyncSaved(r) \/ SyncCut(r))

\* What is asked of a synchronisation stays with it when it goes on, and ends.
LEMMA SyncWent ==
  ASSUME NEW r \in Requests, NEW label, NEW l, NEW list, NEW removed, NEW look, NEW save,
         IsSync(l, list, removed, look, save), Went(r, label, l)
  PROVE  IsSync(local'[r], list, removed, look, save) /\ pc'[r] = label
BY DEF IsSync, Went

\* A step of a synchronisation is one of these moves.
LEMMA RosterEffects ==
  ASSUME RosterInv, NEW r \in Requests,
         BeginSync(r) \/ RosterStep(r) \/ (Fails(r) /\ UNCHANGED presence)
  PROVE  RosterEffect(r) /\ Here(RosterLabels)' /\ AsksOnly(RosterOps)'
<1>a. /\ Here(RosterLabels) /\ RosterLabels \cap (Final \cup {"idle"}) = {}
      /\ {"rosterRemove", "rosterAdd"} = RosterLabels /\ Final = {"ok", "error", "failed"}
      /\ AsksOnly(RosterOps)
  BY DEF RosterInv, RosterLabels, Final
<1>b. ASSUME NEW label \in RosterLabels \cup Final, NEW l, "op" \in DOMAIN l, l.op = "syncSpeakers",
             Start(r, label, l) \/ (InFlight(r) /\ Continue(r, label, l))
      PROVE  MoveOf(r) /\ Here(RosterLabels)' /\ AsksOnly(RosterOps)' /\ Went(r, label, l)
             /\ (Start(r, label, l) => pc[r] = "idle")
  <2>1. l.op # "none" /\ label # "idle" /\ l.op \in RosterOps
    BY <1>a, <1>b DEF RosterOps
  <2>2. Here(RosterLabels)' /\ Went(r, label, l)
    BY <1>a, <1>b, <2>1, Starts, Continues
  <2> QED
    BY <1>a, <1>b, <2>1, <2>2, MoveAsks, WentMoved DEF Start
<1>c. ASSUME InFlight(r)
      PROVE  /\ pc[r] \in RosterLabels /\ local[r].op = "syncSpeakers"
             /\ IsSync(local[r], local[r].list, local[r].removed, local[r].look, local[r].save)
  BY <1>a, <1>c DEF InFlight, Here, AsksOnly, Asked, RosterOps, RosterInv, RosterShape
<1>1. CASE BeginSync(r)
  <2> DEFINE current == {s \in EventSpeakers : Active(s)}
  <2>1. PICK list \in SUBSET EventSpeakers, label \in {"rosterRemove", "rosterAdd", "ok"} :
            /\ Start(r, label, Sync(list, current \ list, list \ current, {}))
            /\ label = "ok" => current = list
            /\ label = "rosterAdd" => current \ list = {}
    BY <1>1 DEF BeginSync
  <2>2. PICK now : now = current
    OBVIOUS
  <2> HIDE DEF current
  <2>3. IsSync(Sync(list, now \ list, list \ now, {}), list, now \ list, list \ now, {})
    BY DEF IsSync, Sync
  <2>4. /\ MoveOf(r) /\ Here(RosterLabels)' /\ AsksOnly(RosterOps)' /\ pc[r] = "idle"
        /\ Went(r, label, Sync(list, now \ list, list \ now, {}))
    BY <1>a, <1>b, <2>1, <2>2, <2>3 DEF IsSync
  <2>5. IsSync(local'[r], list, now \ list, list \ now, {}) /\ pc'[r] = label
    BY <2>3, <2>4, SyncWent
  <2>6. SyncCame(r)
    <3>1. now = {s \in EventSpeakers : Active(s)}
      BY <2>2 DEF current
    <3> QED
      BY <1>1, <2>1, <2>2, <2>4, <2>5, <3>1 DEF SyncCame, BeginSync
  <2> QED
    BY <2>4, <2>6 DEF RosterEffect
<1>2. ASSUME NEW label \in {"ok", "rosterAdd", "failed"}, InFlight(r), NEW look, NEW save,
             Continue(r, label, [local[r] EXCEPT !.look = look, !.save = save])
      PROVE  /\ MoveOf(r) /\ Here(RosterLabels)' /\ AsksOnly(RosterOps)' /\ pc'[r] = label
             /\ IsSync(local'[r], local[r].list, local[r].removed, look, save)
  <2>1. IsSync([local[r] EXCEPT !.look = look, !.save = save], local[r].list, local[r].removed, look, save)
    BY <1>2, <1>c DEF IsSync
  <2>2. MoveOf(r) /\ Here(RosterLabels)' /\ AsksOnly(RosterOps)'
        /\ Went(r, label, [local[r] EXCEPT !.look = look, !.save = save])
    BY <1>a, <1>b, <1>2, <2>1 DEF IsSync
  <2> QED
    BY <2>1, <2>2, SyncWent
<1>3. ASSUME NEW label \in {"ok", "rosterAdd", "failed"}, InFlight(r), Goto(r, label)
      PROVE  /\ MoveOf(r) /\ Here(RosterLabels)' /\ AsksOnly(RosterOps)' /\ pc'[r] = label
             /\ IsSync(local'[r], local[r].list, local[r].removed, local[r].look, local[r].save)
  <2>1. MoveOf(r) /\ Here(RosterLabels)' /\ AsksOnly(RosterOps)' /\ Went(r, label, local[r])
    BY <1>a, <1>b, <1>c, <1>3 DEF IsSync, Goto
  <2> QED
    BY <1>c, <1>3, <2>1, SyncWent
<1>4. CASE RemoveSpeakers(r)
  <2>1. pc[r] = "rosterRemove" /\ InFlight(r)
    BY <1>4 DEF RemoveSpeakers, InFlight, Final
  <2>2. PICK label \in {"ok", "rosterAdd", "failed"} : Goto(r, label) /\ (label = "ok" => local[r].look = {})
    BY <1>4 DEF RemoveSpeakers
  <2>3. /\ MoveOf(r) /\ Here(RosterLabels)' /\ AsksOnly(RosterOps)' /\ pc'[r] = label
        /\ IsSync(local'[r], local[r].list, local[r].removed, local[r].look, local[r].save)
    BY <1>3, <2>1, <2>2
  <2>4. SyncRemoved(r)
    BY <1>4, <2>1, <2>2, <2>3 DEF SyncRemoved, RemoveSpeakers
  <2> QED
    BY <2>3, <2>4 DEF RosterEffect
<1>5. CASE LookUpSpeaker(r)
  <2>1. pc[r] = "rosterAdd" /\ InFlight(r)
    BY <1>5 DEF LookUpSpeaker, InFlight, Final
  <2>2. PICK s \in local[r].look, d \in Participants :
            /\ IF ParticipantsOf(s) = {} THEN d = <<r, s>> ELSE d \in ParticipantsOf(s)
            /\ LET look == local[r].look \ {s}
                   save == IF presence[d] = "active" THEN local[r].save ELSE local[r].save \cup {d}
               IN  Continue(r, LeftAfter(look, save), [local[r] EXCEPT !.look = look, !.save = save])
    BY <1>5 DEF LookUpSpeaker
  <2>3. d[2] = s /\ (ParticipantsOf(s) = {} \/ d \in ParticipantsOf(s))
    BY <2>2 DEF ParticipantsOf
  <2>4. PICK look, save : /\ look = local[r].look \ {s}
                          /\ save = IF presence[d] = "active" THEN local[r].save ELSE local[r].save \cup {d}
    OBVIOUS
  <2>5. Continue(r, LeftAfter(look, save), [local[r] EXCEPT !.look = look, !.save = save])
    BY <2>2, <2>4
  <2>6. LeftAfter(look, save) \in {"ok", "rosterAdd", "failed"}
    BY DEF LeftAfter
  <2>7. /\ MoveOf(r) /\ Here(RosterLabels)' /\ AsksOnly(RosterOps)' /\ pc'[r] = LeftAfter(look, save)
        /\ IsSync(local'[r], local[r].list, local[r].removed, look, save)
    BY <1>2, <2>1, <2>5, <2>6
  <2>8. SyncLooked(r)
    <3>1. UNCHANGED presence
      BY <1>5 DEF LookUpSpeaker
    <3>2. /\ pc'[r] = IF look \cup save = {} THEN "ok" ELSE "rosterAdd"
          /\ IsSync(local'[r], local[r].list, local[r].removed, look, save)
      BY <2>7 DEF LeftAfter
    <3> QED
      BY <2>1, <2>3, <2>4, <3>1, <3>2 DEF SyncLooked
  <2> QED
    BY <2>7, <2>8 DEF RosterEffect
<1>6. CASE SaveSpeaker(r)
  <2>1. pc[r] = "rosterAdd" /\ InFlight(r)
    BY <1>6 DEF SaveSpeaker, InFlight, Final
  <2>2. PICK d \in local[r].save :
            /\ presence' = [presence EXCEPT ![d] = "active"]
            /\ \E label \in {LeftAfter(local[r].look, local[r].save \ {d}), "failed"} :
                    Continue(r, label, [local[r] EXCEPT !.save = local[r].save \ {d}])
    BY <1>6 DEF SaveSpeaker
  <2>3. PICK label \in {"ok", "rosterAdd", "failed"} :
            /\ Continue(r, label, [local[r] EXCEPT !.save = local[r].save \ {d}])
            /\ label = "ok" => local[r].look \cup (local[r].save \ {d}) = {}
    BY <2>2 DEF LeftAfter
  <2>4. [local[r] EXCEPT !.save = local[r].save \ {d}]
            = [local[r] EXCEPT !.look = local[r].look, !.save = local[r].save \ {d}]
    BY <1>c, <2>1 DEF IsSync
  <2>5. /\ MoveOf(r) /\ Here(RosterLabels)' /\ AsksOnly(RosterOps)' /\ pc'[r] = label
        /\ IsSync(local'[r], local[r].list, local[r].removed, local[r].look, local[r].save \ {d})
    BY <1>2, <2>1, <2>3, <2>4
  <2>6. SyncSaved(r)
    BY <2>1, <2>2, <2>3, <2>5 DEF SyncSaved
  <2> QED
    BY <2>5, <2>6 DEF RosterEffect
<1>7. CASE Fails(r) /\ UNCHANGED presence
  <2>1. /\ MoveOf(r) /\ Here(RosterLabels)' /\ AsksOnly(RosterOps)' /\ pc'[r] = "failed"
        /\ IsSync(local'[r], local[r].list, local[r].removed, local[r].look, local[r].save)
    BY <1>3, <1>7 DEF Fails
  <2> QED
    BY <1>c, <1>7, <2>1 DEF RosterEffect, SyncCut, Fails
<1> QED
  BY <1>1, <1>4, <1>5, <1>6, <1>7 DEF RosterStep

\* What is known of the synchronisations that do not move.
LEMMA RosterOthers ==
  ASSUME RosterInv, NEW r \in Requests, RosterEffect(r)
  PROVE  /\ \A q \in Requests \ {r} : pc'[q] = pc[q] /\ local'[q] = local[q] /\ before'[q] = before[q]
         /\ pc[r] \notin Final
         /\ presence' \in [Participants -> {"none", "active", "inactive"}]
         /\ IsSync(local'[r], local'[r].list, local'[r].removed, local'[r].look, local'[r].save)
         /\ pc[r] # "idle" => /\ Asked(r, "syncSpeakers") /\ local'[r].list = local[r].list
                              /\ local'[r].removed = local[r].removed
<1>1. /\ \A q \in Requests \ {r} : pc'[q] = pc[q] /\ local'[q] = local[q] /\ before'[q] = before[q]
      /\ pc[r] \notin Final
  BY DEF RosterEffect, MoveOf
<1>2. presence' \in [Participants -> {"none", "active", "inactive"}]
  BY DEF RosterEffect, SyncCame, SyncRemoved, SyncLooked, SyncSaved, SyncCut, RosterInv
<1>3. IsSync(local'[r], local'[r].list, local'[r].removed, local'[r].look, local'[r].save)
  BY DEF RosterEffect, SyncCame, SyncRemoved, SyncLooked, SyncSaved, SyncCut, IsSync
<1>4. ASSUME pc[r] # "idle"
      PROVE  /\ Asked(r, "syncSpeakers") /\ local'[r].list = local[r].list
             /\ local'[r].removed = local[r].removed
  <2>1. Asked(r, "syncSpeakers")
    BY <1>4 DEF RosterInv, Here, AsksOnly, RosterOps, Asked
  <2> QED
    BY <1>4, <2>1 DEF RosterEffect, SyncCame, SyncRemoved, SyncLooked, SyncSaved, SyncCut, IsSync
<1> QED
  BY <1>1, <1>2, <1>3, <1>4

\* Each part of the invariant is kept: what a list in work knows,
LEMMA RosterKeepsShape ==
  ASSUME RosterInv, NEW r \in Requests, RosterEffect(r)
  PROVE  RosterShape'
<1>1. ASSUME pc[r] # "idle"
      PROVE  /\ local[r].list \subseteq EventSpeakers /\ local[r].look \subseteq local[r].list
             /\ local[r].save \subseteq Participants /\ \A d \in local[r].save : d[2] \in local[r].list
             /\ pc[r] = "rosterRemove" => local[r].save = {}
  BY <1>1, RosterOthers DEF RosterInv, RosterShape
<1>2. /\ IsSync(local'[r], local'[r].list, local'[r].removed, local'[r].look, local'[r].save)
      /\ pc'[r] # "error" /\ local'[r].list \subseteq EventSpeakers
      /\ local'[r].look \subseteq local'[r].list
      /\ local'[r].save \subseteq Participants /\ \A d \in local'[r].save : d[2] \in local'[r].list
      /\ pc'[r] = "rosterRemove" => local'[r].save = {}
  <2>1. CASE SyncCame(r)
    BY <2>1, RosterOthers DEF SyncCame, IsSync
  <2>2. CASE SyncRemoved(r)
    BY <1>1, <2>2, RosterOthers DEF SyncRemoved, IsSync
  <2>3. CASE SyncLooked(r)
    <3>1. PICK s \in local[r].look, d \in Participants :
            \E save \in {local[r].save, local[r].save \cup {d}} :
                /\ d[2] = s /\ pc'[r] \in {"ok", "rosterAdd"}
                /\ IsSync(local'[r], local[r].list, local[r].removed, local[r].look \ {s}, save)
      BY <2>3 DEF SyncLooked
    <3>2. PICK save \in {local[r].save, local[r].save \cup {d}} :
            /\ d[2] = s /\ pc'[r] \in {"ok", "rosterAdd"}
            /\ IsSync(local'[r], local[r].list, local[r].removed, local[r].look \ {s}, save)
      BY <3>1
    <3> QED
      BY <1>1, <2>3, <3>2, RosterOthers DEF SyncLooked, IsSync
  <2>4. CASE SyncSaved(r)
    BY <1>1, <2>4, RosterOthers DEF SyncSaved, IsSync
  <2>5. CASE SyncCut(r)
    BY <1>1, <2>5, RosterOthers DEF SyncCut, IsSync, RosterLabels
  <2> QED
    BY <2>1, <2>2, <2>3, <2>4, <2>5 DEF RosterEffect
<1>3. ASSUME NEW q \in Requests, Asked(q, "syncSpeakers")'
      PROVE  /\ IsSync(local'[q], local'[q].list, local'[q].removed, local'[q].look, local'[q].save)
             /\ pc'[q] # "error" /\ local'[q].list \subseteq EventSpeakers
             /\ local'[q].look \subseteq local'[q].list
             /\ local'[q].save \subseteq Participants /\ \A d \in local'[q].save : d[2] \in local'[q].list
             /\ pc'[q] = "rosterRemove" => local'[q].save = {}
  <2>1. CASE q = r
    BY <1>2, <2>1
  <2>2. CASE q # r
    BY <1>3, <2>2, RosterOthers DEF RosterInv, RosterShape, Asked
  <2> QED
    BY <2>1, <2>2
<1> QED
  BY <1>3 DEF RosterShape

\* who may participate,
LEMMA RosterKeepsBacked ==
  ASSUME RosterInv, NEW r \in Requests, RosterEffect(r)
  PROVE  RosterBacked'
<1>1. ASSUME NEW s, \E q \in Requests : Asked(q, "syncSpeakers") /\ s \in local[q].list
      PROVE  \E q \in Requests : Asked(q, "syncSpeakers")' /\ s \in local'[q].list
  <2>1. PICK q \in Requests : Asked(q, "syncSpeakers") /\ s \in local[q].list
    BY <1>1
  <2>2. CASE q = r
    <3>1. pc[r] # "idle"
      BY <2>1, <2>2 DEF RosterInv, Here, NoLocal, Asked
    <3> QED
      BY <2>1, <2>2, <3>1, RosterOthers DEF IsSync, RosterEffect, SyncCame, SyncRemoved, SyncLooked,
         SyncSaved, SyncCut, Asked
  <2>3. CASE q # r
    BY <2>1, <2>3, RosterOthers DEF Asked
  <2> QED
    BY <2>2, <2>3
<1>2. ASSUME NEW d \in Participants, presence'[d] = "active", presence[d] # "active"
      PROVE  Asked(r, "syncSpeakers") /\ d[2] \in local[r].list
  <2>1. SyncSaved(r)
    BY <1>2 DEF RosterEffect, SyncCame, SyncRemoved, SyncLooked, SyncCut, RosterInv
  <2>2. d \in local[r].save
    BY <1>2, <2>1 DEF SyncSaved, RosterInv
  <2> QED
    BY <2>1, <2>2, RosterOthers DEF SyncSaved, RosterInv, RosterShape
<1> QED
  BY <1>1, <1>2 DEF RosterInv, RosterBacked

\* Who participates, in terms of the documents.
LEMMA ActiveMeans ==
  /\ \A s : Active(s) <=> \E d \in Participants : d[2] = s /\ presence[d] = "active"
  /\ \A s, d : d \in ParticipantsOf(s) <=> d \in Participants /\ d[2] = s /\ presence[d] # "none"
BY DEF Active, ParticipantsOf

\* The same after a step.
LEMMA ActiveMeansNext ==
  /\ \A s : Active(s)' <=> \E d \in Participants : d[2] = s /\ presence'[d] = "active"
  /\ \A s, d : d \in ParticipantsOf(s)' <=> d \in Participants /\ d[2] = s /\ presence'[d] # "none"
BY DEF Active, ParticipantsOf, Participants

\* The removed speakers no longer participate, and nobody else changes.
LEMMA RemovalRemoves ==
  ASSUME RosterInv, NEW r \in Requests, SyncRemoved(r), RosterEffect(r)
  PROVE  /\ \A s : Active(s)' <=> Active(s) /\ s \notin local[r].removed
         /\ \A d \in Participants : presence'[d] # "none" <=> presence[d] # "none"
<1>1. \A d \in Participants : presence'[d] =
            IF d[2] \in local[r].removed /\ presence[d] # "none" THEN "inactive" ELSE presence[d]
  BY DEF SyncRemoved, Cancelled, ParticipantsOf
<1>2. \A d \in Participants :
            presence'[d] = "active" <=> presence[d] = "active" /\ d[2] \notin local[r].removed
  BY <1>1 DEF RosterInv
<1>3. \A d \in Participants : presence'[d] # "none" <=> presence[d] # "none"
  BY <1>1 DEF RosterInv
<1> QED
  BY <1>2, <1>3, ActiveMeans, ActiveMeansNext

\* Lists alone are the speakers.
LEMMA RosterKeepsSerial ==
  ASSUME RosterInv, NEW r \in Requests, RosterEffect(r), Here(RosterLabels)'
  PROVE  RosterSerial'
<1> SUFFICES ASSUME SerialSoFar'
             PROVE  /\ OneEach' /\ \A q \in Requests : Halfway(q)'
                    /\ \A q \in Requests :
                        pc'[q] = "ok" /\ (\A p \in Requests \ {q} : pc'[p] # "idle" => p \in before'[q])
                            => \A s \in EventSpeakers : Active(s)' <=> s \in local'[q].list
  BY DEF RosterSerial
<1>1. /\ SerialSoFar /\ pc'[r] # "failed"
      /\ \A q \in Requests \ {r} : ~InFlight(q)
  BY MovesAlone DEF RosterInv, RosterEffect
<1>2. OneEach /\ Halfway(r)
  BY <1>1 DEF RosterInv, RosterSerial
<1>3. ASSUME NEW q \in Requests \ {r}
      PROVE  Halfway(q)' /\ r \notin before'[q] /\ pc'[r] # "idle"
  <2>1. pc'[q] \notin RosterLabels
    BY <1>1, RosterOthers DEF InFlight, RosterInv, Here, RosterLabels, Final
  <2>2. r \notin before'[q]
    BY RosterOthers DEF RosterInv, Here
  <2> QED
    BY <2>1, <2>2 DEF Halfway, RosterLabels, RosterEffect, MoveOf
<1>4. \A d \in Participants : d[2] \in EventSpeakers
  BY DEF Participants
<1>5. ASSUME OneEach', Halfway(r)',
             pc'[r] = "ok" => \A s \in EventSpeakers : Active(s)' <=> s \in local'[r].list
      PROVE  /\ OneEach' /\ \A q \in Requests : Halfway(q)'
             /\ \A q \in Requests :
                 pc'[q] = "ok" /\ (\A p \in Requests \ {q} : pc'[p] # "idle" => p \in before'[q])
                     => \A s \in EventSpeakers : Active(s)' <=> s \in local'[q].list
  BY <1>3, <1>5
<1>6. /\ Halfway(r)' <=>
            /\ pc'[r] = "rosterRemove" => \A s \in EventSpeakers : Active(s)' <=>
                    s \in local'[r].removed \/ s \in local'[r].list \ local'[r].look
            /\ pc'[r] = "rosterRemove" => local'[r].removed \cap local'[r].list = {}
            /\ pc'[r] = "rosterAdd" => \A s \in EventSpeakers :
                    Active(s)' <=> s \in local'[r].list \ (local'[r].look \cup {d[2] : d \in local'[r].save})
            /\ pc'[r] = "rosterAdd" => \A d \in local'[r].save :
                    \A e \in Participants : e[2] = d[2] /\ presence'[e] # "none" => e = d
            /\ pc'[r] = "rosterAdd" => \A d \in local'[r].save : d[2] \notin local'[r].look
            /\ pc'[r] = "rosterAdd" => \A d, e \in local'[r].save : d[2] = e[2] => d = e
  <2>1. \A d : ParticipantsOf(d[2])' \subseteq {d} <=>
            \A e \in Participants : e[2] = d[2] /\ presence'[e] # "none" => e = d
    BY ActiveMeansNext
  <2>2. (pc'[r] = "rosterAdd" => \A d \in local'[r].save : ParticipantsOf(d[2])' \subseteq {d})
            <=> (pc'[r] = "rosterAdd" => \A d \in local'[r].save :
                    \A e \in Participants : e[2] = d[2] /\ presence'[e] # "none" => e = d)
    BY <2>1
  <2> QED
    BY <2>2 DEF Halfway, Awaited
<1>7. CASE SyncCame(r)
  <2>0. PICK current : current = {s \in EventSpeakers : Active(s)}
    OBVIOUS
  <2>1. PICK list \in SUBSET EventSpeakers :
            /\ IsSync(local'[r], list, current \ list, list \ current, {})
            /\ pc'[r] \in {"rosterRemove", "rosterAdd", "ok"}
            /\ pc'[r] = "ok" => current = list
            /\ pc'[r] = "rosterAdd" => current \subseteq list
    BY <1>7, <2>0 DEF SyncCame
  <2>2. /\ \A s \in EventSpeakers : Active(s)' <=> s \in current
        /\ OneEach'
    BY <1>2, <1>7, <2>0, <2>1, ActiveMeans, ActiveMeansNext DEF SyncCame, OneEach
  <2>3. Halfway(r)'
    BY <1>6, <2>1, <2>2 DEF IsSync
  <2> QED
    BY <1>5, <2>1, <2>2, <2>3 DEF IsSync
<1>8. CASE SyncRemoved(r)
  <2>1. OneEach'
    BY <1>2, <1>8, RemovalRemoves DEF OneEach
  <2>2. /\ local[r].save = {}
        /\ \A s \in EventSpeakers : Active(s) <=>
                s \in local[r].removed \/ s \in local[r].list \ local[r].look
        /\ local[r].removed \cap local[r].list = {}
    BY <1>2, <1>8, RosterOthers DEF SyncRemoved, RosterInv, RosterShape, Halfway
  <2>3. \A s \in EventSpeakers : Active(s)' <=> s \in local[r].list \ local[r].look
    BY <1>8, <2>2, RemovalRemoves
  <2>4. Halfway(r)'
    BY <1>6, <1>8, <2>2, <2>3 DEF SyncRemoved, IsSync
  <2> QED
    BY <1>5, <1>8, <2>1, <2>3, <2>4 DEF SyncRemoved, IsSync
<1>9. CASE SyncLooked(r)
  <2>0. PICK s \in local[r].look, d \in Participants : \E save :
            /\ d[2] = s /\ (ParticipantsOf(s) = {} \/ d \in ParticipantsOf(s))
            /\ save = IF presence[d] = "active" THEN local[r].save ELSE local[r].save \cup {d}
            /\ pc'[r] = IF (local[r].look \ {s}) \cup save = {} THEN "ok" ELSE "rosterAdd"
            /\ IsSync(local'[r], local[r].list, local[r].removed, local[r].look \ {s}, save)
    BY <1>9 DEF SyncLooked
  <2>1. PICK save :
            /\ d[2] = s /\ (ParticipantsOf(s) = {} \/ d \in ParticipantsOf(s))
            /\ save = IF presence[d] = "active" THEN local[r].save ELSE local[r].save \cup {d}
            /\ pc'[r] = IF (local[r].look \ {s}) \cup save = {} THEN "ok" ELSE "rosterAdd"
            /\ IsSync(local'[r], local[r].list, local[r].removed, local[r].look \ {s}, save)
    BY <2>0
  <2>2. presence[d] # "active"
    <3>1. ~Active(s)
      BY <1>2, <1>4, <1>9, <2>1 DEF Halfway, SyncLooked, Awaited
    <3> QED
      BY <2>1, <3>1, ActiveMeans
  <2>3. save = local[r].save \cup {d} /\ pc'[r] = "rosterAdd"
    BY <2>1, <2>2
  <2>4. local'[r].look \cup {e[2] : e \in local'[r].save} = local[r].look \cup {e[2] : e \in local[r].save}
    BY <2>1, <2>3 DEF IsSync
  <2>5. (\A t : Active(t)' <=> Active(t)) /\ OneEach'
    BY <1>2, <1>9, ActiveMeans, ActiveMeansNext DEF SyncLooked, OneEach
  <2>6. \A t \in EventSpeakers :
            Active(t)' <=> t \in local'[r].list \ (local'[r].look \cup {e[2] : e \in local'[r].save})
    BY <1>2, <1>9, <2>1, <2>4, <2>5 DEF Halfway, Awaited, SyncLooked, IsSync
  <2>7. \A e \in Participants : e[2] = d[2] /\ presence[e] # "none" => e = d
    BY <1>2, <2>1, ActiveMeans DEF OneEach
  <2>8. /\ \A e \in local[r].save : ParticipantsOf(e[2]) \subseteq {e}
        /\ \A e \in local[r].save : e[2] \notin local[r].look
        /\ \A c, e \in local[r].save : c[2] = e[2] => c = e
    BY <1>2, <1>9 DEF Halfway, SyncLooked
  <2>9. \A c \in local'[r].save :
            \A e \in Participants : e[2] = c[2] /\ presence'[e] # "none" => e = c
    BY <1>9, <2>1, <2>3, <2>7, <2>8, ActiveMeans DEF SyncLooked, IsSync
  <2>10. /\ \A e \in local'[r].save : e[2] \notin local'[r].look
         /\ \A c, e \in local'[r].save : c[2] = e[2] => c = e
    BY <2>1, <2>3, <2>8 DEF IsSync
  <2>11. Halfway(r)'
    BY <1>6, <2>3, <2>6, <2>9, <2>10
  <2> QED
    BY <1>5, <2>3, <2>5, <2>11
<1>10. CASE SyncSaved(r)
  <2>1. PICK d \in local[r].save :
            /\ presence' = [presence EXCEPT ![d] = "active"]
            /\ pc'[r] \in {"ok", "rosterAdd", "failed"}
            /\ pc'[r] = "ok" => local[r].look \cup (local[r].save \ {d}) = {}
            /\ IsSync(local'[r], local[r].list, local[r].removed, local[r].look, local[r].save \ {d})
    BY <1>10 DEF SyncSaved
  <2>2. d \in Participants /\ d[2] \in local[r].list /\ local[r].save \subseteq Participants
    BY <1>10, RosterOthers DEF RosterInv, RosterShape, SyncSaved
  <2>3. /\ \A e \in local[r].save : ParticipantsOf(e[2]) \subseteq {e}
        /\ \A e \in local[r].save : e[2] \notin local[r].look
        /\ \A c, e \in local[r].save : c[2] = e[2] => c = e
        /\ \A s \in EventSpeakers : Active(s) <=> s \in local[r].list \ Awaited(r)
    BY <1>2, <1>10 DEF Halfway, SyncSaved
  <2>4. /\ presence'[d] = "active" /\ \A e \in Participants : e # d => presence'[e] = presence[e]
    BY <2>1, <2>2 DEF RosterInv
  <2>5. OneEach'
    <3>1. \A e \in Participants : e[2] = d[2] /\ presence[e] # "none" => e = d
      BY <2>3, ActiveMeans
    <3> QED
      BY <1>2, <2>4, <3>1 DEF OneEach
  <2>6. \A s : Active(s)' <=> Active(s) \/ s = d[2]
    <3>1. \A s : s # d[2] => (Active(s)' <=> Active(s))
      BY <2>4, ActiveMeans, ActiveMeansNext
    <3>2. Active(d[2])'
      BY <2>2, <2>4, ActiveMeansNext
    <3> QED
      BY <3>1, <3>2
  <2>7. \A s : s \in local'[r].look \cup {e[2] : e \in local'[r].save} <=> s \in Awaited(r) /\ s # d[2]
    <3>1. \A s : s \in {e[2] : e \in local[r].save \ {d}} <=> s \in {e[2] : e \in local[r].save} /\ s # d[2]
      BY <2>3
    <3> QED
      BY <2>1, <2>3, <3>1 DEF IsSync, Awaited
  <2>8. d[2] \in Awaited(r)
    BY DEF Awaited
  <2>9. \A s \in EventSpeakers :
            Active(s)' <=> s \in local'[r].list \ (local'[r].look \cup {e[2] : e \in local'[r].save})
    BY <2>1, <2>2, <2>3, <2>6, <2>7, <2>8 DEF IsSync
  <2>10. \A c \in local'[r].save :
            \A e \in Participants : e[2] = c[2] /\ presence'[e] # "none" => e = c
    <3> SUFFICES ASSUME NEW c \in local'[r].save, NEW e \in Participants, e[2] = c[2],
                        presence'[e] # "none"
                 PROVE  e = c
      OBVIOUS
    <3>1. c \in local[r].save /\ c # d /\ c[2] # d[2]
      BY <2>1, <2>3 DEF IsSync
    <3>2. presence[e] # "none"
      BY <2>4, <3>1
    <3> QED
      BY <2>3, <3>1, <3>2, ActiveMeans
  <2>11. /\ \A e \in local'[r].save : e[2] \notin local'[r].look
         /\ \A c, e \in local'[r].save : c[2] = e[2] => c = e
    BY <2>1, <2>3 DEF IsSync
  <2>12. Halfway(r)'
    BY <1>6, <2>1, <2>9, <2>10, <2>11
  <2>13. pc'[r] = "ok" => \A s \in EventSpeakers : Active(s)' <=> s \in local'[r].list
    BY <2>1, <2>9 DEF IsSync
  <2> QED
    BY <1>5, <2>5, <2>12, <2>13
<1>11. CASE SyncCut(r)
  BY <1>1, <1>11 DEF SyncCut
<1> QED
  BY <1>7, <1>8, <1>9, <1>10, <1>11 DEF RosterEffect

\* The invariant of the speakers holds after every step, and at first.
LEMMA RosterNext ==
  ASSUME RosterInv, NEW r \in Requests,
         BeginSync(r) \/ RosterStep(r) \/ (Fails(r) /\ UNCHANGED presence)
  PROVE  RosterInv'
<1>1. RosterEffect(r) /\ Here(RosterLabels)' /\ AsksOnly(RosterOps)'
  BY RosterEffects
<1> QED
  BY <1>1, RosterOthers, RosterKeepsShape, RosterKeepsBacked, RosterKeepsSerial DEF RosterInv

\* A step elsewhere keeps the invariant,
LEMMA RosterStutters ==
  ASSUME RosterInv, UNCHANGED <<presence, handlerVars>>
  PROVE  RosterInv'
<1> USE DEF handlerVars, Asked
<1>1. Here(RosterLabels)' /\ AsksOnly(RosterOps)'
  BY DEF RosterInv, Here, AsksOnly
<1>2. RosterShape' /\ RosterBacked'
  BY DEF RosterInv, RosterShape, RosterBacked
<1>3. RosterSerial'
  <2>1. \A s : (Active(s)' <=> Active(s)) /\ ParticipantsOf(s)' = ParticipantsOf(s)
    BY DEF Active, ParticipantsOf
  <2> QED
    BY <2>1 DEF RosterInv, RosterSerial, SerialSoFar, OneEach, Halfway, Awaited
<1> QED
  BY <1>1, <1>2, <1>3 DEF RosterInv

\* and it holds at first.
LEMMA RosterStarts ==
  ASSUME HandlersInit, RosterInit
  PROVE  RosterInv
<1>1. Here(RosterLabels) /\ AsksOnly(RosterOps)
  BY HereInit, AsksInit
<1>2. \A r \in Requests : pc[r] = "idle" /\ ~Asked(r, "syncSpeakers")
  BY DEF HandlersInit, NoLocal, Asked
<1>3. RosterShape
  BY <1>2 DEF RosterShape
<1>4. \A d \in Participants : presence[d] =
            IF d[1] = None /\ d[2] \in EarlierSpeakers THEN "active" ELSE "none"
  BY DEF RosterInit
<1>5. RosterBacked
  BY <1>4 DEF RosterBacked
<1>6. OneEach
  <2>1. \A d \in Participants : d = <<d[1], d[2]>>
    BY DEF Participants
  <2> QED
    BY <1>4, <2>1 DEF OneEach
<1>7. RosterSerial
  BY <1>2, <1>6 DEF RosterSerial, Halfway
<1>8. presence \in [Participants -> {"none", "active", "inactive"}]
  BY DEF RosterInit
<1> QED
  BY <1>1, <1>3, <1>5, <1>7, <1>8 DEF RosterInv

\* What is true of the speakers whenever the invariant is.
LEMMA RosterIsRight ==
  ASSUME RosterInv
  PROVE  RosterTypeOK /\ RosterIsTheList
<1> DEFINE syncs == {r \in Requests : Asked(r, "syncSpeakers")}
<1>1. ASSUME Serial, NEW r \in LastOf(syncs), NEW s \in EventSpeakers
      PROVE  Cardinality({d \in ParticipantsOf(s) : presence[d] = "active"})
                = IF s \in local[r].list THEN 1 ELSE 0
  <2>1. r \in syncs /\ syncs \ {r} \subseteq before[r]
    BY <1>1 DEF LastOf
  <2>2. SerialSoFar /\ \A q \in Requests : pc[q] # "failed" /\ ~InFlight(q)
    BY <1>1, SerialIsSoFar
  <2>3. \A q \in Requests : pc[q] # "idle" => q \in syncs
    BY DEF RosterInv, Here, AsksOnly, RosterOps, Asked
  <2>4. pc[r] = "ok"
    BY <2>1, <2>2 DEF RosterInv, RosterShape, InFlight, Final, Here, Asked
  <2>5. Active(s) <=> s \in local[r].list
    BY <2>1, <2>2, <2>3, <2>4 DEF RosterInv, RosterSerial
  <2>6. \A d, e \in ParticipantsOf(s) : d = e
    BY <2>2, ActiveMeans DEF RosterInv, RosterSerial, OneEach
  <2>7. CASE Active(s)
    <3>1. PICK d \in ParticipantsOf(s) : presence[d] = "active"
      BY <2>7 DEF Active
    <3>2. {e \in ParticipantsOf(s) : presence[e] = "active"} = {d}
      BY <2>6, <3>1
    <3> QED
      BY <2>5, <2>7, <3>2, FS_Singleton
  <2>8. CASE ~Active(s)
    <3>1. {e \in ParticipantsOf(s) : presence[e] = "active"} = {}
      BY <2>8 DEF Active
    <3> QED
      BY <2>5, <2>8, <3>1, FS_EmptySet
  <2> QED
    BY <2>7, <2>8
<1>2. ASSUME NEW s \in EventSpeakers \ EarlierSpeakers, Active(s)
      PROVE  \E r \in syncs : s \in local[r].list
  BY <1>2, ActiveMeans DEF RosterInv, RosterBacked
<1> QED
  BY <1>1, <1>2 DEF RosterIsTheList, RosterTypeOK, RosterInv

(***************************************************************************)
(* The ticket types of events.                                              *)
(***************************************************************************)
TypeDeleted(t) == \E q \in Requests : Asked(q, "deleteType") /\ local[q].type = t

\* What a request about a type knows.
TypeShape ==
    \A r \in Requests :
        /\ pc[r] = "typeInsert" => /\ Asked(r, "createType") /\ local[r].event \in Events
                                   /\ EventIsStored(local[r].event) /\ local[r].free \in BOOLEAN
        /\ pc[r] = "typeSet" => /\ Asked(r, "updateType") /\ local[r].type \in Types
                                /\ local[r].status \in {"available", "paused"}
        /\ pc[r] = "typeDelete" => Asked(r, "deleteType") /\ local[r].type \in Types
        /\ Asked(r, "deleteType") => "type" \in DOMAIN local[r]
        /\ pc[r] \in TypeLabels => /\ {"event", "free"} \subseteq DOMAIN local[r]
                                   \/ {"type", "status"} \subseteq DOMAIN local[r]
                                   \/ {"type"} \subseteq DOMAIN local[r]

\* A type belongs to a stored event; a system type to the event it was made for.
TypesBacked ==
    /\ \A t \in Types : TypeIsStored(t) => EventIsStored(types[t].event)
    /\ \A r \in Requests, role \in SystemRoles : types[<<r, role>>].event \in {None, r}

\* The system types of an event that was answered are there, or were deleted.
CreatedHave ==
    \A r \in Requests : pc[r] = "ok" /\ Asked(r, "createEvent") =>
        \A role \in SystemRoles : types[<<r, role>>].event = r \/ TypeDeleted(<<r, role>>)

\* An invitation to such an event has the type of its role, or it was deleted.
ChosenIs ==
    \A r \in Requests : \A q \in before[r] :
        Asked(r, "chooseType") /\ pc[q] = "ok" /\ Asked(q, "createEvent")
          /\ local[r].event = q /\ local[r].role \in SystemRoles =>
            local[r].type = <<q, local[r].role>> \/ TypeDeleted(<<q, local[r].role>>)

TypeInv ==
    /\ types \in [Types -> TypeDoc] /\ issued \subseteq Types
    /\ TypeShape /\ TypesBacked /\ CreatedHave /\ ChosenIs

(***************************************************************************)
(* What a request does to the types.                                        *)
(***************************************************************************)
\* A request that has nothing to do with them.
TypesAside(r) ==
    /\ UNCHANGED types /\ pc'[r] \notin TypeLabels
    /\ local'[r].op \notin {"chooseType"} /\ (local'[r].op = "createEvent" => pc'[r] # "ok")
    /\ local[r].op # "deleteType"
    /\ local'[r].op = "deleteType" => "type" \in DOMAIN local'[r]

TypeCame(r) ==
    /\ pc[r] = "idle" /\ UNCHANGED types
    /\ \/ /\ local'[r].op = "createType" /\ pc'[r] \in {"typeInsert", "error"}
          /\ {"event", "free"} \subseteq DOMAIN local'[r]
          /\ local'[r].event \in Events /\ local'[r].free \in BOOLEAN
          /\ pc'[r] = "typeInsert" => EventIsStored(local'[r].event)
       \/ /\ local'[r].op = "updateType" /\ pc'[r] \in {"typeSet", "error"}
          /\ {"type", "status"} \subseteq DOMAIN local'[r]
          /\ local'[r].type \in Types /\ local'[r].status \in {"available", "paused"}
       \/ /\ local'[r].op = "deleteType" /\ pc'[r] \in {"typeDelete", "error"}
          /\ {"type"} \subseteq DOMAIN local'[r] /\ local'[r].type \in Types
       \/ /\ local'[r].op = "chooseType" /\ pc'[r] \in {"ok", "error"}
          /\ local'[r].event \in Events /\ local'[r].role \in SystemRoles \cup {"scholarship"}
          /\ \/ pc'[r] = "ok" /\ local'[r].type \in BestTypes(local'[r].event, local'[r].role)
             \/ pc'[r] = "error" /\ TypesOf(local'[r].event) = {}

\* A request of a type ends.
TypeEnds(r) ==
    /\ pc[r] \in TypeLabels /\ pc'[r] \in Final /\ local'[r].op = local[r].op
    /\ Asked(r, "deleteType") => "type" \in DOMAIN local'[r] /\ local'[r].type = local[r].type
    /\ \/ UNCHANGED types
       \/ /\ pc[r] = "typeInsert"
          /\ types' = [types EXCEPT ![<<r, "buyer">>] = TypeOf(local[r].event, local[r].free)]
       \/ /\ pc[r] = "typeSet" /\ types' = [types EXCEPT ![local[r].type].status = local[r].status]
       \/ pc[r] = "typeDelete" /\ types' = [types EXCEPT ![local[r].type] = NoType]

\* The system types of an event are inserted, all of them if it is answered.
TypesInserted(r) ==
    /\ pc[r] = "systemTypes" /\ pc'[r] \in {"ok", "failed"}
    /\ local'[r].op = local[r].op /\ Asked(r, "createEvent") /\ EventIsStored(r)
    /\ \E done \in SUBSET SystemRoles :
        /\ types' = [t \in Types |-> IF t \in {r} \X done THEN TypeOf(r, TRUE) ELSE types[t]]
        /\ pc'[r] = "ok" => done = SystemRoles

TypeEffect(r) ==
    /\ MoveOf(r) /\ issued' = issued
    /\ \A e \in Events : EventIsStored(e) => EventIsStored(e)'
    /\ TypesAside(r) \/ TypeCame(r) \/ TypeEnds(r) \/ TypesInserted(r)

\* Who names a type, and which documents are types.
LEMMA TypeNames ==
  /\ \A r \in Requests, role \in SystemRoles \cup {"buyer"} : <<r, role>> \in Types
  /\ \A t \in Types : RoleOf(t) \in SystemRoles => \E r \in Requests : t = <<r, RoleOf(t)>>
  /\ \A r \in Requests, role \in SystemRoles : RoleOf(<<r, role>>) = role
  /\ \A e \in Events, free \in BOOLEAN : TypeOf(e, free) \in TypeDoc /\ TypeOf(e, free).event = e
  /\ NoType \in TypeDoc /\ NoType.event = None /\ None \notin Events
<1>1. EarlierTypes \cap (Requests \X (SystemRoles \cup {"buyer"})) = {}
  BY TypesAssumption
<1>2. "buyer" \notin SystemRoles
  BY DEF SystemRoles
<1>3. None \notin Events
  BY RequestsAssumption, EventsAssumption DEF Events
<1>4. \A r \in Requests, role \in SystemRoles \cup {"buyer"} :
        <<r, role>> \in Types /\ <<r, role>> \notin EarlierTypes /\ <<r, role>>[2] = role
  BY <1>1 DEF Types
<1>5. \A r \in Requests, role \in SystemRoles : RoleOf(<<r, role>>) = role
  BY <1>4 DEF RoleOf
<1>6. ASSUME NEW t \in Types, RoleOf(t) \in SystemRoles
      PROVE  \E r \in Requests : t = <<r, RoleOf(t)>>
  <2>1. t \notin EarlierTypes
    BY <1>2, <1>6 DEF RoleOf
  <2>2. PICK r \in Requests, role \in SystemRoles \cup {"buyer"} : t = <<r, role>>
    BY <2>1 DEF Types
  <2> QED
    BY <2>1, <2>2 DEF RoleOf
<1>7. NoType \in TypeDoc /\ NoType.event = None
  BY DEF NoType, TypeDoc
<1>8. \A e \in Events, free \in BOOLEAN : TypeOf(e, free) \in TypeDoc /\ TypeOf(e, free).event = e
  BY DEF TypeOf, NoType, TypeDoc
<1> QED
  BY <1>3, <1>4, <1>5, <1>6, <1>7, <1>8

\* What a move does to the types that are stored.
LEMMA TypesMoved ==
  ASSUME TypeInv, NEW r \in Requests, TypeEffect(r)
  PROVE  /\ types' \in [Types -> TypeDoc] /\ TypesBacked'
         /\ \A t \in Types, e \in Events : types[t].event = e =>
                types'[t].event = e \/ (pc[r] = "typeDelete" /\ local[r].type = t)
                    \/ (pc[r] = "typeInsert" /\ t = <<r, "buyer">>)
<1> USE TypeNames DEF EventIsStored
<1>0. types \in [Types -> TypeDoc] /\ TypesBacked /\ \A e \in Events : EventIsStored(e) => EventIsStored(e)'
  BY DEF TypeInv, TypeEffect
<1>a. \A t \in Types : types[t] \in TypeDoc /\ (types[t].event # None => types[t].event \in Events)
  BY <1>0 DEF TypeDoc
<1>b. "buyer" \notin SystemRoles
  BY DEF SystemRoles
<1>1. CASE UNCHANGED types
  BY <1>0, <1>1, <1>a DEF TypesBacked, TypeIsStored
<1>2. CASE pc[r] = "typeInsert" /\ types' = [types EXCEPT ![<<r, "buyer">>] = TypeOf(local[r].event, local[r].free)]
  <2>1. /\ local[r].event \in Events /\ EventIsStored(local[r].event) /\ local[r].free \in BOOLEAN
        /\ <<r, "buyer">> \in Types
    BY <1>2 DEF TypeInv, TypeShape
  <2>2. /\ types'[<<r, "buyer">>] = TypeOf(local[r].event, local[r].free)
        /\ \A t \in Types : t # <<r, "buyer">> => types'[t] = types[t]
        /\ types' \in [Types -> TypeDoc]
    BY <1>0, <1>2, <2>1
  <2>3. \A t \in Types : types'[t].event # None => events'[types'[t].event].company # None
    BY <1>0, <1>a, <2>1, <2>2 DEF TypesBacked, TypeIsStored
  <2>4. \A p \in Requests, role \in SystemRoles : types'[<<p, role>>].event \in {None, p}
    BY <1>0, <1>b, <2>2 DEF TypesBacked
  <2> QED
    BY <1>2, <2>2, <2>3, <2>4 DEF TypesBacked, TypeIsStored
<1>3. CASE pc[r] = "typeSet" /\ types' = [types EXCEPT ![local[r].type].status = local[r].status]
  <2>1. local[r].type \in Types /\ local[r].status \in {"available", "paused"}
    BY <1>3 DEF TypeInv, TypeShape
  <2>2. \A doc \in TypeDoc, s \in {"available", "paused"} :
            [doc EXCEPT !.status = s] \in TypeDoc /\ [doc EXCEPT !.status = s].event = doc.event
    BY DEF TypeDoc
  <2>3. types' \in [Types -> TypeDoc] /\ \A t \in Types : types'[t].event = types[t].event
    <3>1. types' = [types EXCEPT ![local[r].type] = [types[local[r].type] EXCEPT !.status = local[r].status]]
      BY <1>3
    <3> QED
      BY <1>0, <2>1, <2>2, <3>1
  <2> QED
    BY <1>0, <1>a, <2>3 DEF TypesBacked, TypeIsStored
<1>4. CASE pc[r] = "typeDelete" /\ types' = [types EXCEPT ![local[r].type] = NoType]
  <2>1. local[r].type \in Types
    BY <1>4 DEF TypeInv, TypeShape
  <2>2. /\ types'[local[r].type] = NoType /\ types' \in [Types -> TypeDoc]
        /\ \A t \in Types : t # local[r].type => types'[t] = types[t]
    BY <1>0, <1>4, <2>1
  <2> QED
    BY <1>0, <1>a, <1>4, <2>2 DEF TypesBacked, TypeIsStored
<1>5. CASE TypesInserted(r)
  <2>1. PICK done \in SUBSET SystemRoles :
            types' = [t \in Types |-> IF t \in {r} \X done THEN TypeOf(r, TRUE) ELSE types[t]]
    BY <1>5 DEF TypesInserted
  <2>2. r \in Events /\ EventIsStored(r)
    BY <1>5 DEF TypesInserted, Events
  <2>3. \A t \in Types : t \in {r} \X done =>
            types'[t] \in TypeDoc /\ types'[t].event = r /\ types[t].event \in {None, r}
    <3> SUFFICES ASSUME NEW t \in Types, t \in {r} \X done
                 PROVE  types'[t] \in TypeDoc /\ types'[t].event = r /\ types[t].event \in {None, r}
      OBVIOUS
    <3>1. PICK role \in SystemRoles : t = <<r, role>>
      OBVIOUS
    <3>2. types[t].event \in {None, r}
      BY <1>0, <3>1 DEF TypesBacked
    <3>3. types'[t] = TypeOf(r, TRUE)
      BY <2>1
    <3> QED
      BY <2>2, <3>2, <3>3
  <2>4. \A t \in Types : t \notin {r} \X done => types'[t] = types[t]
    BY <2>1
  <2>5. types' \in [Types -> TypeDoc]
    BY <1>a, <2>1, <2>3, <2>4
  <2>6. \A t \in Types : types'[t].event # None => events'[types'[t].event].company # None
    BY <1>0, <1>a, <2>2, <2>3, <2>4 DEF TypesBacked, TypeIsStored
  <2>7. \A p \in Requests, role \in SystemRoles : types'[<<p, role>>].event \in {None, p}
    <3> SUFFICES ASSUME NEW p \in Requests, NEW role \in SystemRoles
                 PROVE  types'[<<p, role>>].event \in {None, p}
      OBVIOUS
    <3>1. CASE <<p, role>> \in {r} \X done
      BY <2>3, <3>1
    <3>2. CASE <<p, role>> \notin {r} \X done
      BY <1>0, <2>4, <3>2 DEF TypesBacked
    <3> QED
      BY <3>1, <3>2
  <2>8. \A t \in Types, e \in Events : types[t].event = e => types'[t].event = e
    BY <2>3, <2>4
  <2> QED
    BY <2>5, <2>6, <2>7, <2>8 DEF TypesBacked, TypeIsStored
<1> QED
  BY <1>1, <1>2, <1>3, <1>4, <1>5 DEF TypeEffect, TypesAside, TypeCame, TypeEnds

\* A type that was to be deleted stays one that was.
LEMMA DeletionsStay ==
  ASSUME TypeInv, NEW r \in Requests, TypeEffect(r), NEW Labels, Here(Labels)
  PROVE  /\ \A t : TypeDeleted(t) => TypeDeleted(t)'
         /\ \A q \in Requests \ {r} : pc'[q] = pc[q] /\ local'[q] = local[q] /\ before'[q] = before[q]
         /\ pc[r] \notin Final /\ \A q \in Requests : r \notin before[q]
<1>1. /\ \A q \in Requests \ {r} : pc'[q] = pc[q] /\ local'[q] = local[q] /\ before'[q] = before[q]
      /\ pc[r] \notin Final
  BY DEF TypeEffect, MoveOf
<1>2. Asked(r, "deleteType") => local'[r].op = "deleteType" /\ local'[r].type = local[r].type
  <2>1. pc[r] = "idle" => ~Asked(r, "deleteType")
    BY DEF Here, Asked
  <2>2. pc[r] = "systemTypes" /\ Asked(r, "createEvent") => ~Asked(r, "deleteType")
    BY DEF Asked
  <2> QED
    BY <2>1, <2>2 DEF TypeEffect, TypesAside, TypeCame, TypeEnds, TypesInserted, Asked
<1>3. ASSUME NEW t, TypeDeleted(t)
      PROVE  \E q \in Requests : local'[q].op = "deleteType" /\ local'[q].type = t
  BY <1>1, <1>2, <1>3 DEF TypeDeleted, Asked
<1> QED
  BY <1>1, <1>3 DEF TypeDeleted, Asked, Here

\* Each part of the invariant is kept: what a request knows,
LEMMA TypesKeepShape ==
  ASSUME TypeInv, NEW r \in Requests, TypeEffect(r), NEW Labels, Here(Labels)
  PROVE  TypeShape'
<1> USE DEF EventIsStored, Asked, TypeDeleted
<1>1. /\ \A q \in Requests \ {r} : pc'[q] = pc[q] /\ local'[q] = local[q]
      /\ \A e \in Events : EventIsStored(e) => EventIsStored(e)'
  BY DeletionsStay DEF TypeEffect
<1>2. ASSUME NEW q \in Requests
      PROVE  /\ pc'[q] = "typeInsert" => /\ local'[q].op = "createType" /\ local'[q].event \in Events
                                         /\ events'[local'[q].event].company # None /\ local'[q].free \in BOOLEAN
             /\ pc'[q] = "typeSet" => /\ local'[q].op = "updateType" /\ local'[q].type \in Types
                                      /\ local'[q].status \in {"available", "paused"}
             /\ pc'[q] = "typeDelete" => local'[q].op = "deleteType" /\ local'[q].type \in Types
             /\ local'[q].op = "deleteType" => "type" \in DOMAIN local'[q]
             /\ pc'[q] \in TypeLabels => \/ {"event", "free"} \subseteq DOMAIN local'[q]
                                         \/ {"type", "status"} \subseteq DOMAIN local'[q]
                                         \/ {"type"} \subseteq DOMAIN local'[q]
  <2>1. CASE q # r
    BY <1>1, <2>1 DEF TypeInv, TypeShape, Asked
  <2>2. CASE q = r
    <3>1. CASE TypesAside(r)
      BY <2>2, <3>1 DEF TypesAside, TypeLabels
    <3>2. CASE TypeCame(r)
      BY <1>1, <2>2, <3>2 DEF TypeCame, TypeLabels
    <3>3. CASE TypeEnds(r)
      BY <2>2, <3>3 DEF TypeEnds, TypeLabels, Final, Asked
    <3>4. CASE TypesInserted(r)
      BY <2>2, <3>4 DEF TypesInserted, TypeLabels, Asked
    <3> QED
      BY <3>1, <3>2, <3>3, <3>4 DEF TypeEffect
  <2> QED
    BY <2>1, <2>2
<1> QED
  BY <1>2 DEF TypeShape, Asked

\* the system types of an answered creation,
LEMMA TypesKeepCreated ==
  ASSUME TypeInv, NEW r \in Requests, TypeEffect(r), NEW Labels, Here(Labels)
  PROVE  CreatedHave'
<1> USE DEF Asked
<1>1. /\ \A q \in Requests \ {r} : pc'[q] = pc[q] /\ local'[q] = local[q]
      /\ \A t : TypeDeleted(t) => TypeDeleted(t)'
  BY DeletionsStay
<1>2. ASSUME NEW q \in Requests, NEW role \in SystemRoles, types[<<q, role>>].event = q
      PROVE  types'[<<q, role>>].event = q \/ TypeDeleted(<<q, role>>)'
  <2>1. <<q, role>> \in Types /\ q \in Events /\ role # "buyer"
    BY TypeNames DEF Events, SystemRoles
  <2>2. pc[r] = "typeDelete" /\ local[r].type = <<q, role>> => TypeDeleted(<<q, role>>)
    BY DEF TypeDeleted, TypeInv, TypeShape
  <2>3. \/ types'[<<q, role>>].event = q
        \/ pc[r] = "typeDelete" /\ local[r].type = <<q, role>>
        \/ <<q, role>> = <<r, "buyer">>
    <3>1. \A t \in Types, e \in Events : types[t].event = e =>
            types'[t].event = e \/ (pc[r] = "typeDelete" /\ local[r].type = t)
                \/ (pc[r] = "typeInsert" /\ t = <<r, "buyer">>)
      BY TypesMoved
    <3>2. PICK t \in Types : t = <<q, role>>
      BY <2>1
    <3>3. types[t].event = q
      BY <1>2, <3>2
    <3>4. \/ types'[t].event = q
          \/ pc[r] = "typeDelete" /\ local[r].type = t
          \/ t = <<r, "buyer">>
      BY <2>1, <3>1, <3>3
    <3> QED
      BY <3>2, <3>4
  <2>4. <<q, role>> # <<r, "buyer">>
    BY <2>1
  <2> QED
    BY <1>1, <2>2, <2>3, <2>4
<1>3. ASSUME NEW q \in Requests, pc'[q] = "ok", local'[q].op = "createEvent", NEW role \in SystemRoles
      PROVE  types'[<<q, role>>].event = q \/ TypeDeleted(<<q, role>>)'
  <2>1. CASE q # r
    BY <1>1, <1>2, <1>3, <2>1 DEF TypeInv, CreatedHave, Asked
  <2>2. CASE q = r
    <3>1. TypesInserted(r)
      <4>1. ~TypesAside(r) /\ ~TypeCame(r)
        BY <1>3, <2>2 DEF TypesAside, TypeCame
      <4>2. ~TypeEnds(r)
        BY <1>3, <2>2 DEF TypeEnds, TypeInv, TypeShape, TypeLabels, Asked
      <4> QED
        BY <4>1, <4>2 DEF TypeEffect
    <3>2. types' = [t \in Types |-> IF t \in {r} \X SystemRoles THEN TypeOf(r, TRUE) ELSE types[t]]
      BY <1>3, <2>2, <3>1 DEF TypesInserted
    <3>3. <<r, role>> \in Types /\ <<r, role>> \in {r} \X SystemRoles /\ r \in Events
      BY TypeNames DEF Events
    <3>4. TypeOf(r, TRUE).event = r
      BY <3>3, TypeNames
    <3>5. types'[<<r, role>>] = TypeOf(r, TRUE)
      BY <3>2, <3>3
    <3> QED
      BY <2>2, <3>4, <3>5
  <2> QED
    BY <2>1, <2>2
<1> QED
  BY <1>3 DEF CreatedHave, Asked

\* the types invitations chose.
LEMMA TypesKeepChosen ==
  ASSUME TypeInv, NEW r \in Requests, TypeEffect(r), NEW Labels, Here(Labels)
  PROVE  ChosenIs'
<1> USE DEF Asked
<1>1. /\ \A q \in Requests \ {r} : pc'[q] = pc[q] /\ local'[q] = local[q] /\ before'[q] = before[q]
      /\ \A t : TypeDeleted(t) => TypeDeleted(t)'
      /\ pc[r] \notin Final /\ \A q \in Requests : r \notin before[q]
  BY DeletionsStay
<1>2. ASSUME NEW p \in Requests, NEW q \in before'[p], local'[p].op = "chooseType", pc'[q] = "ok",
             local'[q].op = "createEvent", local'[p].event = q, local'[p].role \in SystemRoles
      PROVE  \/ local'[p].type = <<q, local'[p].role>>
             \/ \E d \in Requests : local'[d].op = "deleteType" /\ local'[d].type = <<q, local'[p].role>>
  <2>1. q \in Requests
    BY <1>2 DEF TypeEffect, MoveOf, Here
  <2>2. CASE p # r
    <3>1. q # r /\ q \in before[p]
      BY <1>1, <1>2, <2>2
    <3>2. local[p].type = <<q, local[p].role>> \/ TypeDeleted(<<q, local[p].role>>)
      BY <1>1, <1>2, <2>1, <2>2, <3>1 DEF TypeInv, ChosenIs
    <3>3. TypeDeleted(<<q, local[p].role>>) =>
            \E d \in Requests : local'[d].op = "deleteType" /\ local'[d].type = <<q, local[p].role>>
      BY <1>1 DEF TypeDeleted
    <3> QED
      BY <1>1, <2>2, <3>2, <3>3
  <2>3. CASE p = r
    <3>1. TypeCame(r)
      BY <1>2, <2>3 DEF TypeEffect, TypesAside, TypeEnds, TypesInserted, TypeInv, TypeShape, TypeLabels, Asked
    <3>2. before'[r] = {c \in Requests : pc[c] \in Final}
      BY <3>1 DEF TypeCame, TypeEffect, MoveOf
    <3>3. q # r
      BY <1>1, <1>2, <2>3, <3>2
    <3>4. pc[q] = "ok" /\ Asked(q, "createEvent")
      BY <1>1, <1>2, <2>1, <3>3 DEF Asked
    <3> DEFINE role == local'[r].role
    <3>5. types[<<q, role>>].event = q \/ TypeDeleted(<<q, role>>)
      BY <1>2, <2>1, <2>3, <3>4 DEF TypeInv, CreatedHave
    <3>6. CASE TypeDeleted(<<q, role>>)
      <4>1. \E d \in Requests : local'[d].op = "deleteType" /\ local'[d].type = <<q, role>>
        BY <1>1, <3>6 DEF TypeDeleted
      <4> QED
        BY <2>3, <4>1
    <3>7. CASE types[<<q, role>>].event = q
      <4>1. role \in SystemRoles /\ <<q, role>> \in Types /\ RoleOf(<<q, role>>) = role
        BY <1>2, <2>1, <2>3, TypeNames
      <4>2. <<q, role>> \in TypesOf(q)
        BY <3>7, <4>1 DEF TypesOf
      <4>3. local'[r].type \in BestTypes(q, role)
        BY <1>2, <2>3, <3>1, <4>2 DEF TypeCame
      <4>4. local'[r].type \in {t \in TypesOf(q) : RoleOf(t) = role}
        BY <4>1, <4>2, <4>3 DEF BestTypes
      <4>5. local'[r].type \in Types /\ types[local'[r].type].event = q /\ RoleOf(local'[r].type) = role
        BY <4>4 DEF TypesOf
      <4>6. PICK c \in Requests : local'[r].type = <<c, role>>
        BY <4>1, <4>5, TypeNames
      <4>7. c = q
        <5>1. types[<<c, role>>].event \in {None, c}
          BY <4>1 DEF TypeInv, TypesBacked
        <5> QED
          BY <2>1, <4>5, <4>6, <5>1, RequestsAssumption
      <4> QED
        BY <2>3, <4>6, <4>7
    <3> QED
      BY <3>5, <3>6, <3>7
  <2> QED
    BY <2>2, <2>3
<1> QED
  BY <1>2 DEF ChosenIs, TypeDeleted

\* Every move keeps the invariant,
LEMMA TypesKept ==
  ASSUME TypeInv, NEW r \in Requests, TypeEffect(r), NEW Labels, Here(Labels)
  PROVE  TypeInv'
<1>1. issued' \subseteq Types
  BY DEF TypeInv, TypeEffect
<1> QED
  BY <1>1, TypesMoved, TypesKeepShape, TypesKeepCreated, TypesKeepChosen DEF TypeInv

\* What is true of the types whenever the invariant is.
LEMMA TypesAreRight ==
  ASSUME TypeInv
  PROVE  TypesTypeOK /\ EventsHaveTypes
BY DEF TypeInv, TypesTypeOK, EventsHaveTypes, ChosenIs, CreatedHave, TypesBacked, TypeDeleted

\* Whichever type the request is about, an action of TicketTypes is one of
\* these moves.
LEMMA TypeEffects ==
  ASSUME TypeInv, NEW r \in Requests, NEW Labels, Labels \cap (Final \cup {"idle"}) = {},
         TypeLabels \subseteq Labels, Here(Labels),
         \A q \in Requests : "op" \in DOMAIN local[q],
         TypeArrive(r) \/ TypeStep(r) \/ (Fails(r) /\ pc[r] \in TypeLabels /\ UNCHANGED <<events, typeVars>>)
  PROVE  TypeEffect(r) /\ (TypeCame(r) \/ TypeEnds(r)) /\ UNCHANGED events
<1> USE DEF typeVars
<1>a. /\ {"typeInsert", "typeSet", "typeDelete"} = TypeLabels /\ Final = {"ok", "error", "failed"}
      /\ {"typeInsert", "typeSet", "typeDelete", "ok", "error", "failed"} \subseteq Labels \cup Final
  BY DEF TypeLabels, Final
<1>b. ASSUME NEW label \in {"typeInsert", "typeSet", "typeDelete", "ok", "error", "failed"},
             NEW l, "op" \in DOMAIN l, l.op # "none", Start(r, label, l) \/ (InFlight(r) /\ Continue(r, label, l))
      PROVE  MoveOf(r) /\ Went(r, label, l) /\ (Start(r, label, l) => pc[r] = "idle")
  <2>1. label # "idle" /\ label \in Labels \cup Final
    BY <1>a, <1>b
  <2>2. Went(r, label, l)
    BY <1>a, <1>b, <2>1, Starts, Continues
  <2> QED
    BY <2>1, <2>2, WentMoved, <1>b DEF Start
<1>c. UNCHANGED events /\ issued' = issued /\ \A e \in Events : EventIsStored(e) => EventIsStored(e)'
  <2>1. UNCHANGED events /\ issued' = issued
    BY DEF TypeArrive, CreateType, UpdateType, DeleteType, ChooseType, TypeStep, InsertType, SetType, RemoveType
  <2> QED
    BY <2>1 DEF EventIsStored
<1>1. CASE CreateType(r)
  <2>1. PICK e \in Events, free \in BOOLEAN, label \in {"typeInsert", "error"} :
            /\ Start(r, label, [op |-> "createType", event |-> e, free |-> free])
            /\ label = "typeInsert" => EventIsStored(e)
    BY <1>1 DEF CreateType, Live
  <2>2. MoveOf(r) /\ Went(r, label, [op |-> "createType", event |-> e, free |-> free]) /\ pc[r] = "idle"
    BY <1>b, <2>1
  <2>3. /\ local'[r].op = "createType" /\ local'[r].event = e /\ local'[r].free = free /\ pc'[r] = label
        /\ {"event", "free"} \subseteq DOMAIN local'[r]
    BY <2>2 DEF Went
  <2>4. TypeCame(r)
    BY <1>1, <2>1, <2>2, <2>3 DEF TypeCame, CreateType
  <2> QED
    BY <1>c, <2>2, <2>4 DEF TypeEffect
<1>2. CASE UpdateType(r)
  <2>1. PICK t \in Types, s \in {"available", "paused"}, label \in {"typeSet", "error"} :
            Start(r, label, [op |-> "updateType", type |-> t, status |-> s])
    BY <1>2 DEF UpdateType
  <2>2. MoveOf(r) /\ Went(r, label, [op |-> "updateType", type |-> t, status |-> s]) /\ pc[r] = "idle"
    BY <1>b, <2>1
  <2>3. /\ local'[r].op = "updateType" /\ local'[r].type = t /\ local'[r].status = s /\ pc'[r] = label
        /\ {"type", "status"} \subseteq DOMAIN local'[r]
    BY <2>2 DEF Went
  <2>4. TypeCame(r)
    BY <1>2, <2>1, <2>2, <2>3 DEF TypeCame, UpdateType
  <2> QED
    BY <1>c, <2>2, <2>4 DEF TypeEffect
<1>3. CASE DeleteType(r)
  <2>1. PICK t \in Types, label \in {"typeDelete", "error"} :
            Start(r, label, [op |-> "deleteType", type |-> t])
    BY <1>3 DEF DeleteType
  <2>2. MoveOf(r) /\ Went(r, label, [op |-> "deleteType", type |-> t]) /\ pc[r] = "idle"
    BY <1>b, <2>1
  <2>3. /\ local'[r].op = "deleteType" /\ local'[r].type = t /\ pc'[r] = label
        /\ {"type"} \subseteq DOMAIN local'[r]
    BY <2>2 DEF Went
  <2>4. TypeCame(r)
    BY <1>3, <2>1, <2>2, <2>3 DEF TypeCame, DeleteType
  <2> QED
    BY <1>c, <2>2, <2>4 DEF TypeEffect
<1>4. CASE ChooseType(r)
  <2>1. PICK e \in Events, role \in SystemRoles \cup {"scholarship"} :
            \/ \E t \in BestTypes(e, role) :
                    Start(r, "ok", [op |-> "chooseType", event |-> e, role |-> role, type |-> t])
            \/ /\ TypesOf(e) = {}
               /\ Start(r, "error", [op |-> "chooseType", event |-> e, role |-> role, type |-> None])
    BY <1>4 DEF ChooseType
  <2>2. ASSUME NEW t, NEW label \in {"ok", "error"},
               Start(r, label, [op |-> "chooseType", event |-> e, role |-> role, type |-> t])
        PROVE  /\ MoveOf(r) /\ pc[r] = "idle" /\ local'[r].op = "chooseType" /\ local'[r].event = e
               /\ local'[r].role = role /\ local'[r].type = t /\ pc'[r] = label
    <3>1. MoveOf(r) /\ Went(r, label, [op |-> "chooseType", event |-> e, role |-> role, type |-> t]) /\ pc[r] = "idle"
      BY <1>b, <2>2
    <3> QED
      BY <3>1 DEF Went
  <2>3. MoveOf(r) /\ TypeCame(r)
    <3>1. CASE \E t \in BestTypes(e, role) :
                    Start(r, "ok", [op |-> "chooseType", event |-> e, role |-> role, type |-> t])
      <4>1. PICK t \in BestTypes(e, role) :
                    Start(r, "ok", [op |-> "chooseType", event |-> e, role |-> role, type |-> t])
        BY <3>1
      <4>2. /\ MoveOf(r) /\ pc[r] = "idle" /\ local'[r].op = "chooseType" /\ local'[r].event = e
            /\ local'[r].role = role /\ local'[r].type = t /\ pc'[r] = "ok"
        BY <2>2, <4>1
      <4> QED
        BY <1>4, <4>2 DEF TypeCame, ChooseType
    <3>2. CASE /\ TypesOf(e) = {}
               /\ Start(r, "error", [op |-> "chooseType", event |-> e, role |-> role, type |-> None])
      <4>1. /\ MoveOf(r) /\ pc[r] = "idle" /\ local'[r].op = "chooseType" /\ local'[r].event = e
            /\ local'[r].role = role /\ pc'[r] = "error"
        BY <2>2, <3>2
      <4> QED
        BY <1>4, <3>2, <4>1 DEF TypeCame, ChooseType
    <3> QED
      BY <2>1, <3>1, <3>2
  <2> QED
    BY <1>c, <2>3 DEF TypeEffect
<1>5. ASSUME pc[r] \in TypeLabels, NEW label \in {"ok", "error", "failed"}, Goto(r, label)
      PROVE  /\ MoveOf(r) /\ pc'[r] = label /\ label \in Final /\ local'[r].op = local[r].op
             /\ Asked(r, "deleteType") => "type" \in DOMAIN local'[r] /\ local'[r].type = local[r].type
  <2>1. InFlight(r) /\ local[r].op # "none"
    BY <1>a, <1>5 DEF InFlight, TypeInv, TypeShape, Asked
  <2>2. MoveOf(r) /\ Went(r, label, local[r])
    BY <1>b, <1>5, <2>1 DEF Goto
  <2> QED
    BY <1>a, <2>2 DEF Went, TypeInv, TypeShape, Asked
<1>6. CASE InsertType(r)
  <2>1. PICK label \in {"ok", "error", "failed"} : Goto(r, label)
    BY <1>6 DEF InsertType, Ends
  <2> QED
    BY <1>a, <1>c, <1>5, <1>6, <2>1 DEF InsertType, TypeEnds, TypeEffect
<1>7. CASE SetType(r)
  <2>1. PICK label \in {"ok", "error", "failed"} : Goto(r, label)
    BY <1>7 DEF SetType, Ends
  <2> QED
    BY <1>a, <1>c, <1>5, <1>7, <2>1 DEF SetType, TypeEnds, TypeEffect
<1>8. CASE RemoveType(r)
  <2>1. PICK label \in {"ok", "error", "failed"} : Goto(r, label)
    BY <1>8 DEF RemoveType, Ends
  <2> QED
    BY <1>a, <1>c, <1>5, <1>8, <2>1 DEF RemoveType, TypeEnds, TypeEffect
<1>9. CASE Fails(r) /\ pc[r] \in TypeLabels /\ UNCHANGED <<events, typeVars>>
  BY <1>c, <1>5, <1>9 DEF Fails, TypeEnds, TypeEffect
<1> QED
  BY <1>c, <1>1, <1>2, <1>3, <1>4, <1>6, <1>7, <1>8, <1>9 DEF TypeArrive, TypeStep

\* What the types know at first, and of what else happens.
LEMMA TypesStart ==
  ASSUME HandlersInit, EventInit, TypeInit
  PROVE  TypeInv
<1> USE DEF HandlersInit
<1>0. \A r \in Requests : pc[r] = "idle" /\ local[r] = NoLocal /\ before[r] = {}
  OBVIOUS
<1>1. /\ \A t \in Types : types[t] = IF t \in EarlierTypes THEN TypeOf(TypeEvent[t], FALSE) ELSE NoType
      /\ DOMAIN types = Types /\ types = [t \in Types |-> types[t]]
  BY DEF TypeInit
<1>2. \A t \in EarlierTypes : TypeEvent[t] \in Events /\ TypeEvent[t] \in EarlierEvents
  BY TypesAssumption DEF Events
<1>3. \A t \in Types : types[t] \in TypeDoc
  <2>1. \A t \in EarlierTypes : TypeOf(TypeEvent[t], FALSE) \in TypeDoc
    BY <1>2, TypeNames
  <2>2. NoType \in TypeDoc
    BY TypeNames
  <2> QED
    BY <1>1, <2>1, <2>2
<1>4. \A e \in EarlierEvents : EventIsStored(e)
  BY PlacedAssumption DEF EventInit, EventIsStored, Events
<1>5. TypesBacked
  <2>0. NoType.event = None /\ \A t \in EarlierTypes : TypeOf(TypeEvent[t], FALSE).event = TypeEvent[t]
    BY <1>2, TypeNames
  <2>1. \A t \in Types : TypeIsStored(t) => EventIsStored(types[t].event)
    BY <1>1, <1>2, <1>4, <2>0 DEF TypeIsStored
  <2>2. \A r \in Requests, role \in SystemRoles : <<r, role>> \in Types /\ <<r, role>> \notin EarlierTypes
    <3>1. EarlierTypes \cap (Requests \X (SystemRoles \cup {"buyer"})) = {}
      BY TypesAssumption
    <3> QED
      BY <3>1 DEF Types
  <2> QED
    BY <1>1, <2>0, <2>1, <2>2 DEF TypesBacked
<1>6. TypeShape /\ CreatedHave /\ ChosenIs
  BY <1>0 DEF TypeShape, CreatedHave, ChosenIs, TypeLabels, NoLocal, Asked
<1> QED
  BY <1>1, <1>3, <1>5, <1>6 DEF TypeInv, TypeInit

\* and so does a step elsewhere.
LEMMA TypesStutter ==
  ASSUME TypeInv, UNCHANGED <<events, types, handlerVars>>, issued' \subseteq Types
  PROVE  TypeInv'
<1> USE DEF handlerVars, Asked, EventIsStored
<1>1. \A t : TypeDeleted(t)' <=> TypeDeleted(t)
  BY DEF TypeDeleted
<1>2. CreatedHave' /\ ChosenIs'
  BY <1>1 DEF TypeInv, CreatedHave, ChosenIs
<1>3. TypeShape'
  BY DEF TypeInv, TypeShape
<1>4. TypesBacked'
  BY DEF TypeInv, TypesBacked, TypeIsStored
<1> QED
  BY <1>2, <1>3, <1>4 DEF TypeInv

(***************************************************************************)
(* The certificate templates of events.                                     *)
(***************************************************************************)
TemplateOps == {"createTemplate", "updateTemplate", "removeTemplate"}
TemplateLabels == CertificateLabels \ {"certificateDraw"}

\* The file of template k: as it was, or uploaded by a request that has ended.
Owns(k, f) ==
    \/ f \in EarlierTemplates /\ f = k
    \/ /\ f \in Requests /\ pc[f] \in Final
       /\ local[f].op \in {"createTemplate", "updateTemplate"} /\ local[f].template = k

\* A request that is going to write a template.
Writing(r) ==
    LET l == local[r]
    IN  /\ {"old", "new"} \subseteq DOMAIN l /\ l.old \in TemplateDoc /\ l.new \in TemplateDoc
        /\ l.new.event # None
        /\ l.op = "createTemplate" => l.template = r /\ l.old = NoTemplate
        /\ l.op # "createTemplate" => /\ TemplateIsStored(l.template) /\ l.old.event # None
                                      /\ Owns(l.template, l.old.file)
        /\ pc[r] = "templateDelete" => l.op = "updateTemplate" /\ l.withFile
        /\ pc[r] = "templateUpload" => l.op # "removeTemplate" /\ l.withFile
        /\ l.op = "removeTemplate" => pc[r] = "templateSave" /\ ~l.withFile
        /\ pc[r] # "templateSave" => l.new.file = l.old.file
        /\ pc[r] = "templateSave" => IF l.withFile THEN l.new.file = r /\ r \in files
                                     ELSE l.new.file = l.old.file

TemplateShape ==
    \A r \in Requests :
        /\ pc[r] \in CertificateLabels => local[r].op \in CertificateOps
        /\ pc[r] \in TemplateLabels => local[r].op \in TemplateOps /\ Writing(r)
        /\ pc[r] = "certificateDraw" => local[r].op \notin TemplateOps
        /\ local[r].op \in TemplateOps =>
            /\ {"template", "withFile", "changes"} \subseteq DOMAIN local[r]
            /\ local[r].template \in Templates /\ local[r].withFile \in BOOLEAN
            /\ local[r].op = "createTemplate" => local[r].withFile

\* Every stored template has a file of its own; a new one is not stored before
\* the request that creates it ends.
TemplatesStored ==
    /\ \A k \in Templates : TemplateIsStored(k) => Owns(k, templates[k].file)
    /\ \A r \in Requests : templates[r] = NoTemplate \/ (pc[r] \in Final /\ TemplateIsStored(r))
    /\ ~repaired => \A r \in Requests : ~TemplateIsStored(r)

\* A template whose file is gone was given to an update that has deleted it.
TemplatesBacked ==
    \A k \in Templates : TemplateIsStored(k) /\ templates[k].file \notin files =>
        \E r \in Requests : /\ Asked(r, "updateTemplate") /\ local[r].template = k
                            /\ local[r].withFile
                            /\ pc[r] \in {"templateUpload", "templateSave", "failed"}

\* No update moves a template to another event.
NoneMoves ==
    \A r \in Requests : Asked(r, "updateTemplate") => "event" \notin DOMAIN local[r].changes

\* No active template of event e other than k has a type of T; the templates
\* are those of `stored`.
Exclusive(stored, k, e, T) ==
    \A d \in Templates \ {k} :
        stored[d].event = e /\ stored[d].active => stored[d].types \cap T = {}

\* As long as the requests do not overlap and no template moves, the active
\* templates of an event share no type, and what a request has read is stored.
TemplatesSerial ==
    SerialSoFar /\ NoneMoves =>
        /\ \A k \in Templates :
                templates[k].active => Exclusive(templates, k, templates[k].event, templates[k].types)
        /\ \A r \in Requests : pc[r] \in TemplateLabels =>
            /\ local[r].old = templates[local[r].template]
            /\ local[r].op = "updateTemplate" => local[r].old.active /\ local[r].new.event = local[r].old.event
            /\ local[r].op = "removeTemplate" => ~local[r].new.active
            /\ local[r].op # "removeTemplate" /\ pc[r] \notin {"templateTypes", "templateConflict"}
                => Exclusive(templates, local[r].template, local[r].new.event, local[r].new.types)

CertificateInv ==
    /\ EventInit /\ TypeInv /\ templates \in [Templates -> TemplateDoc]
    /\ files \subseteq Requests \cup EarlierFiles
    /\ TemplateShape /\ TemplatesStored /\ TemplatesBacked /\ TemplatesSerial

CatalogInv ==
    /\ Here(CatalogLabels) /\ AsksOnly(TypeOps \cup CertificateOps) /\ CertificateInv

(***************************************************************************)
(* What a request does to the templates.                                    *)
(***************************************************************************)
\* The parts of a template request stay as they are.
SameTemplate(r) ==
    /\ {"op", "template", "withFile", "changes"} \subseteq DOMAIN local'[r]
    /\ local'[r].op = local[r].op /\ local'[r].template = local[r].template
    /\ local'[r].withFile = local[r].withFile /\ local'[r].changes = local[r].changes

\* A request that writes no template: about a type, or a certificate drawn.
TemplateAside(r) ==
    /\ UNCHANGED <<templates, files>> /\ local[r].op \notin TemplateOps
    /\ local'[r].op \notin TemplateOps /\ pc'[r] \notin TemplateLabels
    /\ pc'[r] \in CertificateLabels => local'[r].op \in CertificateOps

\* A request to create, update or remove arrives.
CameAs(r, op, k, withFile, old, changes) ==
    /\ {"op", "template", "withFile", "changes"} \subseteq DOMAIN local'[r]
    /\ local'[r].op = op /\ local'[r].template = k /\ local'[r].withFile = withFile
    /\ local'[r].changes = changes
    /\ op = "createTemplate" => k = r /\ withFile /\ old = NoTemplate
    /\ op # "createTemplate" => old = templates[k]
    /\ \/ pc'[r] = "error"
       \/ /\ pc'[r] \in TemplateLabels /\ local'[r] = TemplateRequest(op, k, changes, withFile, old)
          /\ \/ /\ op = "createTemplate"
                /\ \E e \in EarlierEvents, T \in GivenTypes :
                    /\ changes = [event |-> e, types |-> T]
                    /\ pc'[r] = IF T = {} THEN "templateUpload" ELSE "templateTypes"
             \/ /\ op = "updateTemplate" /\ TemplateIsStored(k) /\ templates[k].active
                /\ changes \in TemplateChanges
                /\ pc'[r] = IF "types" \in DOMAIN changes THEN "templateTypes" ELSE AfterChecks(withFile)
             \/ /\ op = "removeTemplate" /\ TemplateIsStored(k) /\ pc'[r] = "templateSave"
                /\ changes = [active |-> FALSE] /\ ~withFile

TemplateCame(r) ==
    /\ pc[r] = "idle" /\ UNCHANGED <<templates, files>>
    /\ \E op \in TemplateOps, k \in Templates, withFile \in BOOLEAN, old \in TemplateDoc :
        \E changes : CameAs(r, op, k, withFile, old, changes)

\* A request goes on to its next check, or ends before it has written anything.
TemplateChecked(r) ==
    /\ pc[r] \in TemplateLabels /\ SameTemplate(r) /\ UNCHANGED templates
    /\ \/ /\ UNCHANGED files
          /\ \/ pc'[r] = "failed"
             \/ pc'[r] = "error" /\ (pc[r] \in {"templateTypes", "templateConflict"}
                                        \/ local[r].op = "createTemplate")
       \/ /\ pc[r] = "templateTypes" /\ pc'[r] = "templateConflict" /\ local'[r] = local[r]
          /\ UNCHANGED files
       \/ /\ pc[r] = "templateConflict" /\ local'[r] = local[r] /\ UNCHANGED files
          /\ Conflicting(local[r].template, EventChecked(local[r]), local[r].new.types) = {}
          /\ pc'[r] = IF local[r].op = "createTemplate" THEN "templateUpload"
                      ELSE AfterChecks(local[r].withFile)
       \/ /\ pc[r] = "templateDelete" /\ pc'[r] = "templateUpload" /\ local'[r] = local[r]
          /\ DeleteFile(local[r].old.file)
       \/ /\ pc[r] = "templateUpload" /\ pc'[r] = "templateSave" /\ files' = files \cup {r}
          /\ local'[r] = [local[r] EXCEPT !.new.file = r]

\* A request saves the template, and ends.
TemplateSaved(r) ==
    /\ pc[r] = "templateSave" /\ SameTemplate(r) /\ UNCHANGED files
    /\ pc'[r] \in {"ok", "failed"} /\ (local[r].op = "createTemplate" => repaired)
    /\ templates' = [templates EXCEPT ![local[r].template] =
            SavedTemplate(@, local[r].old, local[r].new)]

TemplateEffect(r) ==
    /\ MoveOf(r) /\ TypeInv' /\ UNCHANGED <<events, repaired>>
    /\ TemplateAside(r) \/ TemplateCame(r) \/ TemplateChecked(r) \/ TemplateSaved(r)

\* What the records of a template request hold.
LEMMA TemplateRecords ==
  /\ \A op, k, changes, withFile, old :
        LET l == TemplateRequest(op, k, changes, withFile, old)
        IN  /\ {"op", "template", "withFile", "changes", "old", "new"} \subseteq DOMAIN l
            /\ l.op = op /\ l.template = k /\ l.withFile = withFile /\ l.changes = changes
            /\ l.old = old /\ l.new = With(old, changes)
  /\ \A old \in TemplateDoc, changes \in TemplateChanges :
        LET new == With(old, changes)
        IN  /\ new \in TemplateDoc /\ new.file = old.file /\ new.active = old.active
            /\ old.event # None => new.event # None
            /\ "event" \notin DOMAIN changes => new.event = old.event
            /\ "types" \notin DOMAIN changes => new.types = old.types
  /\ NoTemplate \in TemplateDoc /\ NoTemplate.event = None /\ NoTemplate.file = None
  /\ NoTemplate.types = {}
  /\ \A e \in EarlierEvents, T \in GivenTypes :
        LET new == With(NoTemplate, [event |-> e, types |-> T])
        IN  /\ new \in TemplateDoc /\ new.file = None /\ new.event = e /\ new.types = T /\ e # None
  /\ \A old \in TemplateDoc :
        LET new == With(old, [active |-> FALSE])
        IN  /\ new \in TemplateDoc /\ new.file = old.file /\ new.event = old.event
            /\ new.types = old.types /\ ~new.active
  /\ \A stored, old, new \in TemplateDoc :
        LET saved == SavedTemplate(stored, old, new)
        IN  /\ saved \in TemplateDoc
            /\ saved.event = IF new.event = old.event THEN stored.event ELSE new.event
            /\ saved.types = IF new.types = old.types THEN stored.types ELSE new.types
            /\ saved.active = IF new.active = old.active THEN stored.active ELSE new.active
            /\ saved.file = IF new.file = old.file THEN stored.file ELSE new.file
<1>0. None \notin EarlierEvents /\ EarlierEvents \subseteq Events /\ GivenTypes \subseteq SUBSET Types
  BY EventsAssumption DEF Events, GivenTypes, Types
<1>1. \A op, k, changes, withFile, old :
        LET l == TemplateRequest(op, k, changes, withFile, old)
        IN  /\ {"op", "template", "withFile", "changes", "old", "new"} \subseteq DOMAIN l
            /\ l.op = op /\ l.template = k /\ l.withFile = withFile /\ l.changes = changes
            /\ l.old = old /\ l.new = With(old, changes)
  BY DEF TemplateRequest
<1>2. /\ NoTemplate \in TemplateDoc /\ NoTemplate.event = None /\ NoTemplate.file = None
      /\ NoTemplate.types = {}
  BY DEF NoTemplate, TemplateDoc
\* One field after the other.
<1>3. ASSUME NEW old \in TemplateDoc, NEW changes
      PROVE  LET new == With(old, changes)
             IN  /\ DOMAIN new = {"event", "types", "active", "file"}
                 /\ \A f \in {"event", "types", "active", "file"} :
                        new[f] = IF f \in DOMAIN changes THEN changes[f] ELSE old[f]
                 /\ new = [event |-> new.event, types |-> new.types, active |-> new.active, file |-> new.file]
  BY DEF With, TemplateDoc
<1>4. ASSUME NEW old \in TemplateDoc, NEW changes \in TemplateChanges
      PROVE  LET new == With(old, changes)
             IN  /\ new \in TemplateDoc /\ new.file = old.file /\ new.active = old.active
                 /\ old.event # None => new.event # None
                 /\ "event" \notin DOMAIN changes => new.event = old.event
                 /\ "types" \notin DOMAIN changes => new.types = old.types
  <2> DEFINE new == With(old, changes)
  <2>1. /\ new = [event |-> new.event, types |-> new.types, active |-> new.active, file |-> new.file]
        /\ \A f \in {"event", "types", "active", "file"} :
                new[f] = IF f \in DOMAIN changes THEN changes[f] ELSE old[f]
    BY <1>3
  <2>2. /\ "file" \notin DOMAIN changes /\ "active" \notin DOMAIN changes
        /\ "event" \in DOMAIN changes => changes.event \in EarlierEvents
        /\ "types" \in DOMAIN changes => changes.types \in GivenTypes
    BY DEF TemplateChanges
  <2>3. /\ old.event \in Events \cup {None} /\ old.types \in SUBSET Types /\ old.active \in BOOLEAN
        /\ old.file \in Requests \cup EarlierFiles \cup {None}
    BY DEF TemplateDoc
  <2>4. /\ new.event = IF "event" \in DOMAIN changes THEN changes.event ELSE old.event
        /\ new.types = IF "types" \in DOMAIN changes THEN changes.types ELSE old.types
        /\ new.active = old.active /\ new.file = old.file
    BY <2>1, <2>2
  <2> HIDE DEF new
  <2>5. /\ new.event \in Events \cup {None} /\ new.types \in SUBSET Types
        /\ (old.event # None => new.event # None)
    BY <1>0, <2>2, <2>3, <2>4
  <2>6. new \in TemplateDoc
    BY <2>1, <2>3, <2>4, <2>5 DEF TemplateDoc
  <2> QED
    BY <2>4, <2>5, <2>6 DEF new
<1>5. ASSUME NEW e \in EarlierEvents, NEW T \in GivenTypes
      PROVE  LET new == With(NoTemplate, [event |-> e, types |-> T])
             IN  new \in TemplateDoc /\ new.file = None /\ new.event = e /\ new.types = T /\ e # None
  <2> DEFINE changes == [event |-> e, types |-> T]
  <2> DEFINE new == With(NoTemplate, changes)
  <2>1. DOMAIN changes = {"event", "types"} /\ changes.event = e /\ changes.types = T
    OBVIOUS
  <2> HIDE DEF changes
  <2>2. /\ new = [event |-> new.event, types |-> new.types, active |-> new.active, file |-> new.file]
        /\ \A f \in {"event", "types", "active", "file"} :
                new[f] = IF f \in DOMAIN changes THEN changes[f] ELSE NoTemplate[f]
    BY <1>2, <1>3
  <2>3. new.event = e /\ new.types = T /\ new.active = NoTemplate.active /\ new.file = NoTemplate.file
    BY <2>1, <2>2
  <2>4. e \in Events \cup {None} /\ T \in SUBSET Types /\ e # None
    BY <1>0
  <2> HIDE DEF new
  <2>5. new \in TemplateDoc
    BY <1>2, <2>2, <2>3, <2>4 DEF TemplateDoc
  <2> QED
    BY <1>2, <2>3, <2>4, <2>5 DEF new, changes
<1>6. ASSUME NEW old \in TemplateDoc
      PROVE  LET new == With(old, [active |-> FALSE])
             IN  /\ new \in TemplateDoc /\ new.file = old.file /\ new.event = old.event
                 /\ new.types = old.types /\ ~new.active
  BY DEF With, TemplateDoc
<1>7. ASSUME NEW stored \in TemplateDoc, NEW old \in TemplateDoc, NEW new \in TemplateDoc
      PROVE  LET saved == SavedTemplate(stored, old, new)
             IN  /\ saved \in TemplateDoc
                 /\ saved.event = IF new.event = old.event THEN stored.event ELSE new.event
                 /\ saved.types = IF new.types = old.types THEN stored.types ELSE new.types
                 /\ saved.active = IF new.active = old.active THEN stored.active ELSE new.active
                 /\ saved.file = IF new.file = old.file THEN stored.file ELSE new.file
  BY DEF SavedTemplate, TemplateDoc
<1> QED
  BY <1>1, <1>2, <1>4, <1>5, <1>6, <1>7

\* What a request about templates leaves as it was.
LEMMA TemplatesGrow ==
  ASSUME CertificateInv, NEW r \in Requests, TemplateEffect(r), NEW Labels, Here(Labels)
  PROVE  /\ templates' \in [Templates -> TemplateDoc] /\ files' \subseteq Requests \cup EarlierFiles
         /\ \A k \in Templates : TemplateIsStored(k) => TemplateIsStored(k)'
         /\ \A k, f : Owns(k, f) => Owns(k, f)'
         /\ \A q \in Requests \ {r} : pc'[q] = pc[q] /\ local'[q] = local[q] /\ before'[q] = before[q]
         /\ pc[r] \notin Final /\ \A q \in Requests : r \notin before[q]
         /\ \A q \in Requests : pc[q] \notin Final /\ q \in files => q \in files'
         /\ pc[r] \in TemplateLabels => Writing(r) /\ local[r].op \in TemplateOps /\ local[r].template \in Templates
<1>1. /\ \A q \in Requests \ {r} : pc'[q] = pc[q] /\ local'[q] = local[q] /\ before'[q] = before[q]
      /\ pc[r] \notin Final /\ \A q \in Requests : r \notin before[q]
  BY DEF TemplateEffect, MoveOf, Here
<1>2. \A k, f : Owns(k, f) => Owns(k, f)'
  BY <1>1 DEF Owns
<1>3. templates \in [Templates -> TemplateDoc] /\ files \subseteq Requests \cup EarlierFiles
  BY DEF CertificateInv
<1>4. ASSUME pc[r] \in TemplateLabels
      PROVE  Writing(r) /\ local[r].op \in TemplateOps /\ local[r].template \in Templates
  BY <1>4 DEF CertificateInv, TemplateShape
<1>5. /\ templates' \in [Templates -> TemplateDoc]
      /\ \A k \in Templates : TemplateIsStored(k) => TemplateIsStored(k)'
  <2>1. CASE UNCHANGED templates
    BY <1>3, <2>1 DEF TemplateIsStored
  <2>2. CASE TemplateSaved(r)
    <3>1. Writing(r) /\ local[r].template \in Templates
      BY <1>4, <2>2 DEF TemplateSaved, TemplateLabels, CertificateLabels
    <3>2. PICK k \in Templates, old \in TemplateDoc, new \in TemplateDoc :
            /\ k = local[r].template /\ old = local[r].old /\ new = local[r].new /\ new.event # None
      BY <3>1 DEF Writing
    <3>3. templates' = [templates EXCEPT ![k] = SavedTemplate(templates[k], old, new)]
      BY <2>2, <3>2 DEF TemplateSaved
    <3>4. /\ SavedTemplate(templates[k], old, new) \in TemplateDoc
          /\ templates[k].event # None => SavedTemplate(templates[k], old, new).event # None
      BY <1>3, <3>2, TemplateRecords
    <3> QED
      BY <1>3, <3>3, <3>4 DEF TemplateIsStored
  <2> QED
    BY <2>1, <2>2 DEF TemplateEffect, TemplateAside, TemplateCame, TemplateChecked
<1>6. /\ files' \subseteq Requests \cup EarlierFiles
      /\ \A q \in Requests : pc[q] \notin Final /\ q \in files => q \in files'
  <2>1. CASE UNCHANGED files \/ files' = files \cup {r}
    BY <1>3, <2>1
  <2>2. CASE pc[r] = "templateDelete" /\ DeleteFile(local[r].old.file)
    <3>1. Owns(local[r].template, local[r].old.file)
      BY <1>4, <2>2 DEF Writing, TemplateLabels, CertificateLabels
    <3>2. \A q \in Requests : q = local[r].old.file => pc[q] \in Final
      <4>1. EarlierTemplates \cap Requests = {}
        BY TemplatesAssumption
      <4> QED
        BY <3>1, <4>1 DEF Owns
    <3> QED
      BY <1>3, <2>2, <3>2 DEF DeleteFile
  <2> QED
    BY <2>1, <2>2 DEF TemplateEffect, TemplateAside, TemplateCame, TemplateChecked, TemplateSaved
<1> QED
  BY <1>1, <1>2, <1>4, <1>5, <1>6

\* What a request that arrives is going to write.
LEMMA TemplateCameWrites ==
  ASSUME CertificateInv, NEW r \in Requests, TemplateEffect(r), NEW Labels, Here(Labels),
         TemplateCame(r), pc'[r] \in TemplateLabels
  PROVE  Writing(r)'
<1>1. PICK op \in TemplateOps, k \in Templates, withFile \in BOOLEAN, old \in TemplateDoc : \E changes :
        /\ op = "createTemplate" => k = r /\ withFile /\ old = NoTemplate
        /\ op # "createTemplate" => old = templates[k]
        /\ local'[r] = TemplateRequest(op, k, changes, withFile, old)
        /\ \/ /\ op = "createTemplate"
              /\ \E e \in EarlierEvents, T \in GivenTypes :
                  /\ changes = [event |-> e, types |-> T]
                  /\ pc'[r] = IF T = {} THEN "templateUpload" ELSE "templateTypes"
           \/ /\ op = "updateTemplate" /\ TemplateIsStored(k) /\ templates[k].active
              /\ changes \in TemplateChanges
              /\ pc'[r] = IF "types" \in DOMAIN changes THEN "templateTypes" ELSE AfterChecks(withFile)
           \/ /\ op = "removeTemplate" /\ TemplateIsStored(k) /\ pc'[r] = "templateSave"
              /\ changes = [active |-> FALSE] /\ ~withFile
  BY DEF TemplateCame, CameAs, TemplateLabels, CertificateLabels
<1>2. PICK changes :
        /\ local'[r] = TemplateRequest(op, k, changes, withFile, old)
        /\ \/ /\ op = "createTemplate"
              /\ \E e \in EarlierEvents, T \in GivenTypes :
                  /\ changes = [event |-> e, types |-> T]
                  /\ pc'[r] = IF T = {} THEN "templateUpload" ELSE "templateTypes"
           \/ /\ op = "updateTemplate" /\ TemplateIsStored(k) /\ templates[k].active
              /\ changes \in TemplateChanges
              /\ pc'[r] = IF "types" \in DOMAIN changes THEN "templateTypes" ELSE AfterChecks(withFile)
           \/ /\ op = "removeTemplate" /\ TemplateIsStored(k) /\ pc'[r] = "templateSave"
              /\ changes = [active |-> FALSE] /\ ~withFile
  BY <1>1
<1>3. PICK new : new = With(old, changes)
  OBVIOUS
<1>4. /\ {"op", "template", "withFile", "changes", "old", "new"} \subseteq DOMAIN local'[r]
      /\ local'[r].op = op /\ local'[r].template = k /\ local'[r].withFile = withFile
      /\ local'[r].old = old /\ local'[r].new = new
  BY <1>2, <1>3, TemplateRecords
<1>5. ASSUME op # "createTemplate", TemplateIsStored(k)
      PROVE  /\ old.event # None /\ Owns(k, old.file)' /\ TemplateIsStored(k)'
  BY <1>1, <1>5, TemplatesGrow DEF CertificateInv, TemplatesStored, TemplateIsStored
<1>6. CASE op = "createTemplate"
  <2>1. PICK e \in EarlierEvents, T \in GivenTypes :
            changes = [event |-> e, types |-> T] /\ pc'[r] \in {"templateUpload", "templateTypes"}
    BY <1>2, <1>6
  <2>2. new \in TemplateDoc /\ new.file = None /\ new.event # None /\ old.file = None
    BY <1>1, <1>3, <1>6, <2>1, TemplateRecords
  <2> QED
    BY <1>1, <1>4, <1>6, <2>1, <2>2 DEF Writing
<1>7. CASE op = "updateTemplate"
  <2>1. /\ TemplateIsStored(k) /\ changes \in TemplateChanges
        /\ pc'[r] \in {"templateTypes", IF withFile THEN "templateDelete" ELSE "templateSave"}
    BY <1>2, <1>7 DEF AfterChecks
  <2>2. new \in TemplateDoc /\ new.file = old.file /\ new.event # None
    BY <1>3, <1>5, <1>7, <2>1, TemplateRecords
  <2>3. /\ pc'[r] = "templateDelete" => withFile
        /\ pc'[r] = "templateSave" => ~withFile
        /\ pc'[r] # "templateUpload"
    BY <2>1
  <2> QED
    BY <1>4, <1>5, <1>7, <2>1, <2>2, <2>3 DEF Writing
<1>8. CASE op = "removeTemplate"
  <2>1. /\ TemplateIsStored(k) /\ changes = [active |-> FALSE] /\ pc'[r] = "templateSave" /\ ~withFile
    BY <1>2, <1>8
  <2>2. new \in TemplateDoc /\ new.file = old.file /\ new.event # None
    BY <1>3, <1>5, <1>8, <2>1, TemplateRecords
  <2> QED
    BY <1>4, <1>5, <1>8, <2>1, <2>2 DEF Writing
<1> QED
  BY <1>6, <1>7, <1>8 DEF TemplateOps

\* Each part of the invariant is kept: what a request knows,
LEMMA TemplateKeepsShape ==
  ASSUME CertificateInv, NEW r \in Requests, TemplateEffect(r), NEW Labels, Here(Labels)
  PROVE  TemplateShape'
<1>1. /\ \A q \in Requests \ {r} : pc'[q] = pc[q] /\ local'[q] = local[q]
      /\ \A k, f : Owns(k, f) => Owns(k, f)'
      /\ \A k \in Templates : TemplateIsStored(k) => TemplateIsStored(k)'
      /\ \A q \in Requests : pc[q] \notin Final /\ q \in files => q \in files'
  BY TemplatesGrow
<1>2. ASSUME NEW q \in Requests \ {r}, pc[q] \in TemplateLabels
      PROVE  Writing(q)'
  <2>1. Writing(q) /\ local[q].op \in TemplateOps /\ local[q].template \in Templates
    BY <1>2 DEF CertificateInv, TemplateShape
  <2>2. pc[q] \notin Final
    BY <1>2 DEF Final, TemplateLabels, CertificateLabels
  <2> QED
    BY <1>1, <2>1, <2>2 DEF Writing
<1>3. ASSUME pc'[r] \in TemplateLabels
      PROVE  Writing(r)' /\ local'[r].op \in TemplateOps
  <2>1. CASE TemplateAside(r)
    BY <1>3, <2>1 DEF TemplateAside
  <2>2. CASE TemplateCame(r)
    BY <1>3, <2>2, TemplateCameWrites DEF TemplateCame, CameAs
  <2>3. CASE TemplateSaved(r)
    BY <1>3, <2>3 DEF TemplateSaved, TemplateLabels, CertificateLabels
  <2>4. CASE TemplateChecked(r)
    <3>1. Writing(r) /\ local[r].op \in TemplateOps /\ local[r].template \in Templates
      BY <2>4, TemplatesGrow DEF TemplateChecked
    <3>2. local'[r].op \in TemplateOps
      BY <2>4, <3>1 DEF TemplateChecked, SameTemplate
    <3>3. local[r].op = "createTemplate" => local[r].withFile
      BY <3>1 DEF CertificateInv, TemplateShape
    <3>4. CASE local'[r] = local[r]
      <4>1. \/ pc[r] = "templateTypes" /\ pc'[r] = "templateConflict"
            \/ /\ pc[r] = "templateConflict"
               /\ pc'[r] = IF local[r].op = "createTemplate" THEN "templateUpload"
                           ELSE AfterChecks(local[r].withFile)
            \/ pc[r] = "templateDelete" /\ pc'[r] = "templateUpload"
            \/ pc[r] = "templateUpload" /\ pc'[r] = "templateSave" /\ files' = files \cup {r}
               /\ local'[r] = [local[r] EXCEPT !.new.file = r]
        BY <1>3, <2>4 DEF TemplateChecked, TemplateLabels, CertificateLabels
      <4>2. CASE pc[r] = "templateTypes" /\ pc'[r] = "templateConflict"
        BY <1>1, <3>1, <3>4, <4>2 DEF Writing
      <4>3. CASE /\ pc[r] = "templateConflict"
                 /\ pc'[r] = IF local[r].op = "createTemplate" THEN "templateUpload"
                             ELSE AfterChecks(local[r].withFile)
        BY <1>1, <3>1, <3>3, <3>4, <4>3 DEF Writing, AfterChecks, TemplateOps
      <4>4. CASE pc[r] = "templateDelete" /\ pc'[r] = "templateUpload"
        BY <1>1, <3>1, <3>4, <4>4 DEF Writing
      <4>5. CASE pc[r] = "templateUpload" /\ pc'[r] = "templateSave" /\ files' = files \cup {r}
                 /\ local'[r] = [local[r] EXCEPT !.new.file = r]
        <5>1. local'[r].new.file = r
          BY <3>1, <4>5 DEF Writing, TemplateDoc
        <5> QED
          BY <1>1, <3>1, <3>4, <4>5, <5>1 DEF Writing
      <4> QED
        BY <4>1, <4>2, <4>3, <4>4, <4>5
    <3>5. CASE pc[r] = "templateUpload" /\ pc'[r] = "templateSave" /\ files' = files \cup {r}
               /\ local'[r] = [local[r] EXCEPT !.new.file = r]
      <4>1. /\ local'[r].op = local[r].op /\ local'[r].template = local[r].template
            /\ local'[r].withFile = local[r].withFile /\ local[r].withFile
        BY <2>4, <3>1, <3>5 DEF TemplateChecked, SameTemplate, Writing
      <4>2. /\ {"old", "new"} \subseteq DOMAIN local'[r] /\ local'[r].old = local[r].old
            /\ local'[r].new = [local[r].new EXCEPT !.file = r]
        BY <3>1, <3>5 DEF Writing
      <4>3. \A doc \in TemplateDoc : LET new == [doc EXCEPT !.file = r]
                                     IN  new \in TemplateDoc /\ new.file = r /\ new.event = doc.event
        BY DEF TemplateDoc
      <4>4. local'[r].new \in TemplateDoc /\ local'[r].new.file = r /\ local'[r].new.event # None
        BY <3>1, <4>2, <4>3 DEF Writing
      <4> QED
        BY <1>1, <3>1, <3>5, <4>1, <4>2, <4>4 DEF Writing
    <3> QED
      BY <1>3, <2>4, <3>2, <3>4, <3>5 DEF TemplateChecked, TemplateLabels, CertificateLabels
  <2> QED
    BY <2>1, <2>2, <2>3, <2>4 DEF TemplateEffect
<1>4. /\ pc'[r] \in CertificateLabels => local'[r].op \in CertificateOps
      /\ pc'[r] = "certificateDraw" => local'[r].op \notin TemplateOps
      /\ local'[r].op \in TemplateOps =>
            /\ {"template", "withFile", "changes"} \subseteq DOMAIN local'[r]
            /\ local'[r].template \in Templates /\ local'[r].withFile \in BOOLEAN
            /\ local'[r].op = "createTemplate" => local'[r].withFile
  <2>0. TemplateOps \subseteq CertificateOps /\ "certificateDraw" \notin TemplateLabels
    BY DEF TemplateOps, CertificateOps, TemplateLabels
  <2>1. CASE TemplateAside(r)
    BY <2>0, <2>1 DEF TemplateAside
  <2>2. CASE TemplateCame(r)
    <3>1. pc'[r] # "certificateDraw"
      BY <2>0, <2>2 DEF TemplateCame, CameAs
    <3> QED
      BY <2>0, <2>2, <3>1 DEF TemplateCame, CameAs
  <2>3. CASE TemplateChecked(r) \/ TemplateSaved(r)
    <3>1. /\ SameTemplate(r) /\ pc[r] \in TemplateLabels /\ pc'[r] # "certificateDraw"
      BY <2>3 DEF TemplateChecked, TemplateSaved, TemplateLabels, CertificateLabels, AfterChecks
    <3>2. local[r].op \in TemplateOps
      BY <3>1, TemplatesGrow
    <3> QED
      BY <2>0, <3>1, <3>2 DEF SameTemplate, CertificateInv, TemplateShape
  <2> QED
    BY <2>1, <2>2, <2>3 DEF TemplateEffect
<1> QED
  BY <1>1, <1>2, <1>3, <1>4 DEF TemplateShape, CertificateInv

\* A file has one owner.
LEMMA OneOwner ==
  ASSUME NEW j, NEW k, NEW f, Owns(j, f), Owns(k, f)
  PROVE  j = k
BY TemplatesAssumption DEF Owns

\* What a save leaves of the template.
LEMMA SavedIs ==
  ASSUME CertificateInv, NEW r \in Requests, TemplateEffect(r), NEW Labels, Here(Labels), TemplateSaved(r)
  PROVE  \E k \in Templates, old \in TemplateDoc, new \in TemplateDoc :
            /\ k = local[r].template /\ old = local[r].old /\ new = local[r].new
            /\ templates' = [templates EXCEPT ![k] = SavedTemplate(templates[k], old, new)]
            /\ \A d \in Templates : d # k => templates'[d] = templates[d]
            /\ templates'[k].event = IF new.event = old.event THEN templates[k].event ELSE new.event
            /\ templates'[k].types = IF new.types = old.types THEN templates[k].types ELSE new.types
            /\ templates'[k].active = IF new.active = old.active THEN templates[k].active ELSE new.active
            /\ local[r].withFile =>
                    templates'[k].file = r /\ r \in files /\ local[r].op \in {"createTemplate", "updateTemplate"}
            /\ ~local[r].withFile => templates'[k].file = templates[k].file /\ local[r].op # "createTemplate"
<1>1. Writing(r) /\ local[r].op \in TemplateOps /\ local[r].template \in Templates /\ pc[r] = "templateSave"
  BY TemplatesGrow DEF TemplateSaved, TemplateLabels, CertificateLabels
<1>2. PICK k \in Templates, old \in TemplateDoc, new \in TemplateDoc :
        /\ k = local[r].template /\ old = local[r].old /\ new = local[r].new
  BY <1>1 DEF Writing
<1>3. /\ templates' = [templates EXCEPT ![k] = SavedTemplate(templates[k], old, new)]
      /\ templates \in [Templates -> TemplateDoc]
  BY <1>2 DEF TemplateSaved, CertificateInv
<1>4. templates'[k] = SavedTemplate(templates[k], old, new) /\ templates[k] \in TemplateDoc
  BY <1>3
<1>5. /\ templates'[k].event = IF new.event = old.event THEN templates[k].event ELSE new.event
      /\ templates'[k].types = IF new.types = old.types THEN templates[k].types ELSE new.types
      /\ templates'[k].active = IF new.active = old.active THEN templates[k].active ELSE new.active
      /\ templates'[k].file = IF new.file = old.file THEN templates[k].file ELSE new.file
  BY <1>2, <1>4, TemplateRecords
<1>6. ASSUME local[r].withFile
      PROVE  templates'[k].file = r /\ r \in files /\ local[r].op \in {"createTemplate", "updateTemplate"}
  <2>1. new.file = r /\ r \in files /\ local[r].op \in {"createTemplate", "updateTemplate"}
    BY <1>1, <1>2, <1>6 DEF Writing, TemplateOps
  <2>2. old.file # r
    <3>1. CASE local[r].op = "createTemplate"
      BY <1>1, <1>2, <3>1, TemplateRecords, RequestsAssumption DEF Writing
    <3>2. CASE local[r].op # "createTemplate"
      BY <1>1, <1>2, <3>2, TemplatesGrow, TemplatesAssumption DEF Writing, Owns
    <3> QED
      BY <3>1, <3>2
  <2> QED
    BY <1>5, <2>1, <2>2
<1>7. ASSUME ~local[r].withFile
      PROVE  templates'[k].file = templates[k].file /\ local[r].op # "createTemplate"
  BY <1>1, <1>2, <1>5, <1>7 DEF Writing, CertificateInv, TemplateShape
<1>8. \A d \in Templates : d # k => templates'[d] = templates[d]
  BY <1>3
<1> QED
  BY <1>2, <1>3, <1>5, <1>6, <1>7, <1>8

\* what is stored,
LEMMA TemplateKeepsStored ==
  ASSUME CertificateInv, NEW r \in Requests, TemplateEffect(r), NEW Labels, Here(Labels)
  PROVE  TemplatesStored'
<1>1. /\ \A k, f : Owns(k, f) => Owns(k, f)'
      /\ \A q \in Requests \ {r} : pc'[q] = pc[q] /\ local'[q] = local[q]
      /\ pc[r] \notin Final
  BY TemplatesGrow
<1>2. /\ \A k \in Templates : TemplateIsStored(k) => Owns(k, templates[k].file)
      /\ \A p \in Requests : templates[p] = NoTemplate \/ (pc[p] \in Final /\ TemplateIsStored(p))
      /\ ~repaired => \A p \in Requests : ~TemplateIsStored(p)
      /\ repaired' = repaired /\ NoTemplate.event = None
  BY TemplateRecords DEF CertificateInv, TemplatesStored, TemplateEffect
<1>3. CASE UNCHANGED templates
  BY <1>1, <1>2, <1>3 DEF TemplatesStored, TemplateIsStored
<1>4. CASE TemplateSaved(r)
  <2>1. PICK k \in Templates, old \in TemplateDoc, new \in TemplateDoc :
            /\ k = local[r].template /\ old = local[r].old /\ new = local[r].new
            /\ \A d \in Templates : d # k => templates'[d] = templates[d]
            /\ templates'[k].event = IF new.event = old.event THEN templates[k].event ELSE new.event
            /\ local[r].withFile =>
                    templates'[k].file = r /\ r \in files /\ local[r].op \in {"createTemplate", "updateTemplate"}
            /\ ~local[r].withFile => templates'[k].file = templates[k].file /\ local[r].op # "createTemplate"
    BY <1>4, SavedIs
  <2>2. Writing(r) /\ local[r].op \in TemplateOps
    BY <1>4, TemplatesGrow DEF TemplateSaved, TemplateLabels, CertificateLabels
  <2>3. /\ pc'[r] \in Final /\ local'[r].op = local[r].op /\ local'[r].template = k
        /\ local[r].op = "createTemplate" => repaired /\ k = r
        /\ local[r].op # "createTemplate" => TemplateIsStored(k)
    BY <1>4, <2>1, <2>2 DEF TemplateSaved, SameTemplate, Writing, Final
  <2>4. templates'[k].event # None
    <3>1. old.event = new.event => local[r].op # "createTemplate"
      BY <2>1, <2>2, <1>2 DEF Writing
    <3> QED
      BY <2>1, <2>2, <2>3, <3>1 DEF Writing, TemplateIsStored
  <2>5. ASSUME NEW f, f = templates'[k].file
        PROVE  Owns(k, f)'
    <3>1. CASE local[r].withFile
      BY <2>1, <2>3, <2>5, <3>1 DEF Owns
    <3>2. CASE ~local[r].withFile
      <4>1. Owns(k, templates[k].file) /\ templates[k].file = f
        BY <1>2, <2>1, <2>3, <2>5, <3>2
      <4> QED
        BY <1>1, <4>1
    <3>3. local[r].withFile \in BOOLEAN
      BY <2>2 DEF CertificateInv, TemplateShape
    <3> QED
      BY <3>1, <3>2, <3>3
  <2>6. ASSUME NEW j \in Templates, NEW f, f = templates'[j].file, templates'[j].event # None
        PROVE  Owns(j, f)'
    <3>1. CASE j = k
      BY <2>5, <2>6, <3>1
    <3>2. CASE j # k
      <4>1. Owns(j, templates[j].file) /\ templates[j].file = f
        BY <1>2, <2>1, <2>6, <3>2 DEF TemplateIsStored
      <4> QED
        BY <1>1, <4>1
    <3> QED
      BY <3>1, <3>2
  <2>7. \A p \in Requests : templates'[p] = NoTemplate \/ (pc'[p] \in Final /\ templates'[p].event # None)
    <3> SUFFICES ASSUME NEW p \in Requests
                 PROVE  templates'[p] = NoTemplate \/ (pc'[p] \in Final /\ templates'[p].event # None)
      OBVIOUS
    <3>1. p \in Templates
      BY DEF Templates
    <3>2. CASE p = k
      <4>1. pc'[p] \in Final
        BY <1>1, <1>2, <2>3, <3>2 DEF TemplateIsStored
      <4> QED
        BY <2>4, <3>2, <4>1
    <3>3. CASE p # k
      BY <1>1, <1>2, <2>1, <3>1, <3>3 DEF TemplateIsStored
    <3> QED
      BY <3>2, <3>3
  <2>8. ~repaired' => \A p \in Requests : templates'[p].event = None
    <3> SUFFICES ASSUME ~repaired, NEW p \in Requests
                 PROVE  templates'[p].event = None
      BY <1>2
    <3>1. p \in Templates /\ ~TemplateIsStored(p) /\ p # k
      BY <1>2, <2>3 DEF Templates
    <3> QED
      BY <2>1, <3>1 DEF TemplateIsStored
  <2>9. ASSUME NEW j \in Templates, TemplateIsStored(j)'
        PROVE  Owns(j, templates[j].file)'
    <3>1. PICK f : f = templates'[j].file
      OBVIOUS
    <3>2. Owns(j, f)'
      BY <2>6, <2>9, <3>1 DEF TemplateIsStored
    <3> QED
      BY <3>1, <3>2 DEF Owns
  <2> QED
    BY <2>7, <2>8, <2>9 DEF TemplatesStored, TemplateIsStored
<1> QED
  BY <1>3, <1>4 DEF TemplateEffect, TemplateAside, TemplateCame, TemplateChecked

\* A template whose file is gone is being updated, or an update of it failed.
LEMMA TemplateKeepsBacked ==
  ASSUME CertificateInv, NEW r \in Requests, TemplateEffect(r), NEW Labels, Here(Labels)
  PROVE  TemplatesBacked'
<1> DEFINE Losing(q, k) == /\ Asked(q, "updateTemplate") /\ local[q].template = k /\ local[q].withFile
                           /\ pc[q] \in {"templateUpload", "templateSave", "failed"}
<1>1. /\ \A q \in Requests \ {r} : pc'[q] = pc[q] /\ local'[q] = local[q]
      /\ pc[r] \notin Final
      /\ pc[r] \in TemplateLabels => Writing(r) /\ local[r].op \in TemplateOps /\ local[r].template \in Templates
  BY TemplatesGrow
<1>2. /\ \A k \in Templates : TemplateIsStored(k) /\ templates[k].file \notin files =>
            \E q \in Requests : Losing(q, k)
      /\ \A k \in Templates : TemplateIsStored(k) => Owns(k, templates[k].file)
  BY DEF CertificateInv, TemplatesBacked, TemplatesStored
<1>3. ASSUME NEW q \in Requests, NEW k, Losing(q, k), q # r
      PROVE  Losing(q, k)'
  BY <1>1, <1>3 DEF Asked
<1>4. ASSUME UNCHANGED templates, NEW k, Losing(r, k)
      PROVE  Losing(r, k)'
  <2>1. pc[r] \in {"templateUpload", "templateSave"} /\ local[r].op = "updateTemplate"
    BY <1>1, <1>4 DEF Final, Asked
  <2>2. pc[r] \in TemplateLabels /\ pc[r] # "idle" /\ local[r].op \in TemplateOps
    BY <1>1, <2>1 DEF TemplateLabels, CertificateLabels
  <2>3. TemplateChecked(r) \/ TemplateSaved(r)
    BY <2>2 DEF TemplateEffect, TemplateAside, TemplateCame
  <2>4. CASE TemplateChecked(r)
    BY <1>4, <2>1, <2>4 DEF TemplateChecked, SameTemplate, Asked
  <2>5. CASE TemplateSaved(r)
    <3>1. local[r].withFile /\ local[r].template = k
      BY <1>4
    <3>2. PICK j \in Templates, old \in TemplateDoc, new \in TemplateDoc :
            /\ j = local[r].template
            /\ local[r].withFile => templates'[j].file = r /\ r \in files
      BY <2>5, SavedIs
    <3>3. templates[k].file = r /\ k \in Templates /\ TemplateIsStored(k)
      BY <1>1, <1>4, <2>1, <2>2, <3>1, <3>2 DEF Writing
    <3>4. Owns(k, r)
      BY <1>2, <3>3
    <3> QED
      BY <1>1, <3>4, TemplatesAssumption DEF Owns
  <2> QED
    BY <2>3, <2>4, <2>5
<1>5. ASSUME NEW k \in Templates, TemplateIsStored(k)', templates'[k].file \notin files'
      PROVE  \E q \in Requests : Losing(q, k)'
  <2>1. CASE UNCHANGED templates
    <3>1. TemplateIsStored(k) /\ templates[k].file \notin files'
      BY <1>5, <2>1 DEF TemplateIsStored
    <3>2. CASE templates[k].file \notin files
      <4>1. PICK q \in Requests : Losing(q, k)
        BY <1>2, <3>1, <3>2
      <4> QED
        BY <1>3, <1>4, <2>1, <4>1
    <3>3. CASE templates[k].file \in files
      <4>1. /\ pc[r] = "templateDelete" /\ pc'[r] = "templateUpload" /\ local'[r] = local[r]
            /\ files' \in {files, files \ {local[r].old.file}}
        BY <3>1, <3>3 DEF TemplateEffect, TemplateAside, TemplateCame, TemplateChecked, TemplateSaved, DeleteFile
      <4>2. /\ local[r].op = "updateTemplate" /\ local[r].withFile
            /\ Owns(local[r].template, local[r].old.file)
        BY <1>1, <4>1 DEF Writing, TemplateLabels, CertificateLabels
      <4>3. templates[k].file = local[r].old.file /\ Owns(k, templates[k].file)
        BY <1>2, <3>1, <3>3, <4>1
      <4>4. local[r].template = k
        BY <4>2, <4>3, OneOwner
      <4> QED
        BY <4>1, <4>2, <4>4 DEF Asked
    <3> QED
      BY <3>2, <3>3
  <2>2. CASE TemplateSaved(r)
    <3>1. PICK j \in Templates, old \in TemplateDoc, new \in TemplateDoc :
            /\ j = local[r].template
            /\ \A d \in Templates : d # j => templates'[d] = templates[d]
            /\ local[r].withFile => templates'[j].file = r /\ r \in files
            /\ ~local[r].withFile => templates'[j].file = templates[j].file /\ local[r].op # "createTemplate"
      BY <2>2, SavedIs
    <3>2. files' = files /\ pc[r] = "templateSave"
      BY <2>2 DEF TemplateSaved
    <3>3. Writing(r)
      BY <1>1, <3>2 DEF TemplateLabels, CertificateLabels
    <3>4. k = j => ~local[r].withFile
      BY <1>5, <3>1, <3>2
    <3>5. TemplateIsStored(k) /\ templates[k].file \notin files
      BY <1>5, <3>1, <3>2, <3>3, <3>4 DEF TemplateIsStored, Writing
    <3>6. PICK q \in Requests : Losing(q, k)
      BY <1>2, <3>5
    <3>7. q # r
      BY <3>1, <3>4, <3>6
    <3> QED
      BY <1>3, <3>6, <3>7
  <2> QED
    BY <2>1, <2>2 DEF TemplateEffect, TemplateAside, TemplateCame, TemplateChecked
<1> QED
  BY <1>5 DEF TemplatesBacked

\* What a request that arrives has read and checked.
LEMMA TemplateCameSerial ==
  ASSUME CertificateInv, NEW r \in Requests, TemplateEffect(r), NEW Labels, Here(Labels),
         TemplateCame(r), pc'[r] \in TemplateLabels, NoneMoves',
         \A k \in Templates :
            templates[k].active => Exclusive(templates, k, templates[k].event, templates[k].types)
  PROVE  /\ local'[r].old = templates[local'[r].template]
         /\ local'[r].op = "updateTemplate" =>
                local'[r].old.active /\ local'[r].new.event = local'[r].old.event
         /\ local'[r].op = "removeTemplate" => ~local'[r].new.active
         /\ local'[r].op # "removeTemplate" /\ pc'[r] \notin {"templateTypes", "templateConflict"} =>
                Exclusive(templates, local'[r].template, local'[r].new.event, local'[r].new.types)
<1>1. PICK op \in TemplateOps, k \in Templates, withFile \in BOOLEAN, old \in TemplateDoc : \E changes :
        /\ local'[r].changes = changes
        /\ op = "createTemplate" => k = r /\ withFile /\ old = NoTemplate
        /\ op # "createTemplate" => old = templates[k]
        /\ local'[r] = TemplateRequest(op, k, changes, withFile, old)
        /\ \/ /\ op = "createTemplate"
              /\ \E e \in EarlierEvents, T \in GivenTypes :
                  /\ changes = [event |-> e, types |-> T]
                  /\ pc'[r] = IF T = {} THEN "templateUpload" ELSE "templateTypes"
           \/ /\ op = "updateTemplate" /\ templates[k].active
              /\ changes \in TemplateChanges
              /\ pc'[r] = IF "types" \in DOMAIN changes THEN "templateTypes" ELSE AfterChecks(withFile)
           \/ /\ op = "removeTemplate"
              /\ changes = [active |-> FALSE]
  BY DEF TemplateCame, CameAs, TemplateLabels, CertificateLabels
<1>2. PICK changes :
        /\ local'[r].changes = changes
        /\ local'[r] = TemplateRequest(op, k, changes, withFile, old)
        /\ \/ /\ op = "createTemplate"
              /\ \E e \in EarlierEvents, T \in GivenTypes :
                  /\ changes = [event |-> e, types |-> T]
                  /\ pc'[r] = IF T = {} THEN "templateUpload" ELSE "templateTypes"
           \/ /\ op = "updateTemplate" /\ templates[k].active
              /\ changes \in TemplateChanges
              /\ pc'[r] = IF "types" \in DOMAIN changes THEN "templateTypes" ELSE AfterChecks(withFile)
           \/ /\ op = "removeTemplate"
              /\ changes = [active |-> FALSE]
  BY <1>1
<1>3. PICK new : new = With(old, changes)
  OBVIOUS
<1>4. /\ local'[r].op = op /\ local'[r].template = k /\ local'[r].old = old /\ local'[r].new = new
  BY <1>2, <1>3, TemplateRecords
<1>5. CASE op = "createTemplate"
  <2>1. PICK e \in EarlierEvents, T \in GivenTypes :
            /\ changes = [event |-> e, types |-> T]
            /\ pc'[r] = IF T = {} THEN "templateUpload" ELSE "templateTypes"
    BY <1>2, <1>5
  <2>2. new.types = T
    BY <1>1, <1>3, <1>5, <2>1, TemplateRecords
  <2>3. templates[r] = NoTemplate
    BY TemplatesGrow DEF CertificateInv, TemplatesStored
  <2>4. pc'[r] \notin {"templateTypes", "templateConflict"} => Exclusive(templates, k, new.event, new.types)
    BY <2>1, <2>2 DEF Exclusive
  <2> QED
    BY <1>1, <1>4, <1>5, <2>3, <2>4
<1>6. CASE op = "updateTemplate"
  <2>1. "event" \notin DOMAIN changes
    BY <1>2, <1>4, <1>6 DEF NoneMoves, Asked
  <2>2. /\ templates[k].active /\ old = templates[k] /\ changes \in TemplateChanges
        /\ pc'[r] = "templateTypes" \/ "types" \notin DOMAIN changes
    BY <1>1, <1>2, <1>6
  <2>3. new.event = old.event /\ ("types" \notin DOMAIN changes => new.types = old.types)
    BY <1>1, <1>3, <2>1, <2>2, TemplateRecords
  <2>4. Exclusive(templates, k, templates[k].event, templates[k].types)
    BY <2>2
  <2> QED
    BY <1>4, <1>6, <2>2, <2>3, <2>4
<1>7. CASE op = "removeTemplate"
  <2>1. ~new.active
    BY <1>1, <1>2, <1>3, <1>7, TemplateRecords
  <2> QED
    BY <1>1, <1>4, <1>7, <2>1
<1> QED
  BY <1>5, <1>6, <1>7 DEF TemplateOps

\* and that requests alone leave a type one template.
LEMMA TemplateKeepsSerial ==
  ASSUME CertificateInv, NEW r \in Requests, TemplateEffect(r), NEW Labels, Here(Labels), Here(Labels)'
  PROVE  TemplatesSerial'
<1> SUFFICES ASSUME SerialSoFar', NoneMoves'
             PROVE  /\ \A k \in Templates : templates'[k].active =>
                            Exclusive(templates', k, templates'[k].event, templates'[k].types)
                    /\ \A q \in Requests : pc'[q] \in TemplateLabels =>
                        /\ local'[q].old = templates'[local'[q].template]
                        /\ local'[q].op = "updateTemplate" =>
                                local'[q].old.active /\ local'[q].new.event = local'[q].old.event
                        /\ local'[q].op = "removeTemplate" => ~local'[q].new.active
                        /\ local'[q].op # "removeTemplate" /\ pc'[q] \notin {"templateTypes", "templateConflict"} =>
                            Exclusive(templates', local'[q].template, local'[q].new.event, local'[q].new.types)
  BY DEF TemplatesSerial
<1>0. MoveOf(r)
  BY DEF TemplateEffect
<1>1. SerialSoFar /\ \A q \in Requests \ {r} : ~InFlight(q)
  BY <1>0, MovesAlone
<1>2. /\ \A q \in Requests \ {r} : pc'[q] = pc[q] /\ local'[q] = local[q]
      /\ pc[r] \in TemplateLabels => Writing(r) /\ local[r].op \in TemplateOps /\ local[r].template \in Templates
  BY TemplatesGrow
<1>3. \A q \in Requests \ {r} : pc'[q] \notin TemplateLabels
  BY <1>1, <1>2 DEF InFlight, Final, TemplateLabels, CertificateLabels
<1>4. NoneMoves
  <2>1. ASSUME NEW q \in Requests, Asked(q, "updateTemplate"), q # r
        PROVE  "event" \notin DOMAIN local[q].changes
    BY <1>2, <2>1 DEF NoneMoves, Asked
  <2>2. ASSUME Asked(r, "updateTemplate")
        PROVE  "event" \notin DOMAIN local[r].changes
    <3>1. pc[r] # "idle" /\ local[r].op \in TemplateOps
      BY <2>2 DEF Here, Asked, TemplateOps
    <3>2. SameTemplate(r)
      BY <3>1 DEF TemplateEffect, TemplateAside, TemplateCame, TemplateChecked, TemplateSaved
    <3> QED
      BY <2>2, <3>2 DEF SameTemplate, NoneMoves, Asked
  <2> QED
    BY <2>1, <2>2 DEF NoneMoves
<1>5. /\ \A k \in Templates :
            templates[k].active => Exclusive(templates, k, templates[k].event, templates[k].types)
      /\ pc[r] \in TemplateLabels =>
            /\ local[r].old = templates[local[r].template]
            /\ local[r].op = "updateTemplate" => local[r].old.active /\ local[r].new.event = local[r].old.event
            /\ local[r].op = "removeTemplate" => ~local[r].new.active
            /\ local[r].op # "removeTemplate" /\ pc[r] \notin {"templateTypes", "templateConflict"}
                => Exclusive(templates, local[r].template, local[r].new.event, local[r].new.types)
  BY <1>1, <1>4 DEF CertificateInv, TemplatesSerial
<1>6. CASE TemplateAside(r)
  BY <1>3, <1>5, <1>6 DEF TemplateAside
<1>7. CASE TemplateCame(r)
  <2>1. templates' = templates
    BY <1>7 DEF TemplateCame
  <2>2. pc'[r] \in TemplateLabels =>
            /\ local'[r].old = templates[local'[r].template]
            /\ local'[r].op = "updateTemplate" =>
                    local'[r].old.active /\ local'[r].new.event = local'[r].old.event
            /\ local'[r].op = "removeTemplate" => ~local'[r].new.active
            /\ local'[r].op # "removeTemplate" /\ pc'[r] \notin {"templateTypes", "templateConflict"} =>
                Exclusive(templates, local'[r].template, local'[r].new.event, local'[r].new.types)
    BY <1>5, <1>7, TemplateCameSerial
  <2> QED
    BY <1>3, <1>5, <2>1, <2>2
<1>8. CASE TemplateChecked(r)
  <2>1. templates' = templates /\ pc[r] \in TemplateLabels
    BY <1>8 DEF TemplateChecked
  <2>2. ASSUME pc'[r] \in TemplateLabels
        PROVE  /\ local'[r].op = local[r].op /\ local'[r].template = local[r].template
               /\ local'[r].old = local[r].old /\ local'[r].new.event = local[r].new.event
               /\ local'[r].new.types = local[r].new.types /\ local'[r].new.active = local[r].new.active
               /\ \/ pc'[r] = "templateConflict"
                  \/ pc[r] \notin {"templateTypes", "templateConflict"}
                  \/ Conflicting(local[r].template, EventChecked(local[r]), local[r].new.types) = {}
    <3>1. CASE local'[r] = local[r]
      BY <1>8, <2>2, <3>1 DEF TemplateChecked, TemplateLabels, CertificateLabels
    <3>2. CASE pc[r] = "templateUpload" /\ local'[r] = [local[r] EXCEPT !.new.file = r]
      <4>1. /\ local'[r].op = local[r].op /\ local'[r].template = local[r].template
        BY <1>8 DEF TemplateChecked, SameTemplate
      <4>2. /\ local'[r].old = local[r].old
            /\ local'[r].new = [local[r].new EXCEPT !.file = r]
        BY <1>2, <2>1, <3>2 DEF Writing
      <4>3. \A doc \in TemplateDoc : LET new == [doc EXCEPT !.file = r]
                                     IN  new.event = doc.event /\ new.types = doc.types /\ new.active = doc.active
        BY DEF TemplateDoc
      <4>4. /\ local'[r].new.event = local[r].new.event /\ local'[r].new.types = local[r].new.types
            /\ local'[r].new.active = local[r].new.active
        <5>1. PICK doc \in TemplateDoc : doc = local[r].new
          BY <1>2, <2>1 DEF Writing
        <5>2. local'[r].new = [doc EXCEPT !.file = r]
          BY <4>2, <5>1
        <5> QED
          BY <4>3, <5>1, <5>2
      <4> QED
        BY <3>2, <4>1, <4>2, <4>4
    <3> QED
      BY <1>8, <2>2, <3>1, <3>2 DEF TemplateChecked, TemplateLabels, CertificateLabels
  <2>3. ASSUME Conflicting(local[r].template, EventChecked(local[r]), local[r].new.types) = {},
               local[r].op # "removeTemplate"
        PROVE  Exclusive(templates, local[r].template, local[r].new.event, local[r].new.types)
    <3>1. EventChecked(local[r]) = local[r].new.event
      BY <1>2, <1>5, <2>1, <2>3 DEF EventChecked, TemplateOps
    <3> QED
      BY <2>3, <3>1 DEF Exclusive, Conflicting
  <2>4. ASSUME pc'[r] \in TemplateLabels, local'[r].op # "removeTemplate",
               pc'[r] \notin {"templateTypes", "templateConflict"}
        PROVE  Exclusive(templates, local'[r].template, local'[r].new.event, local'[r].new.types)
    BY <1>5, <2>1, <2>2, <2>3, <2>4
  <2> QED
    BY <1>3, <1>5, <2>1, <2>2, <2>4
<1>9. CASE TemplateSaved(r)
  <2>1. PICK k \in Templates, old \in TemplateDoc, new \in TemplateDoc :
            /\ k = local[r].template /\ old = local[r].old /\ new = local[r].new
            /\ \A d \in Templates : d # k => templates'[d] = templates[d]
            /\ templates'[k].event = IF new.event = old.event THEN templates[k].event ELSE new.event
            /\ templates'[k].types = IF new.types = old.types THEN templates[k].types ELSE new.types
            /\ templates'[k].active = IF new.active = old.active THEN templates[k].active ELSE new.active
    BY <1>9, SavedIs
  <2>2. pc[r] = "templateSave" /\ pc[r] \in TemplateLabels /\ pc'[r] \notin TemplateLabels
    BY <1>9 DEF TemplateSaved, TemplateLabels, CertificateLabels
  <2>3. templates'[k].event = new.event /\ templates'[k].types = new.types /\ templates'[k].active = new.active
    BY <1>5, <2>1, <2>2
  <2>4. new.active => Exclusive(templates, k, new.event, new.types)
    BY <1>5, <2>1, <2>2
  <2>5. ASSUME NEW j \in Templates, templates'[j].active, NEW d \in Templates \ {j},
               templates'[d].event = templates'[j].event, templates'[d].active
        PROVE  templates'[d].types \cap templates'[j].types = {}
    <3>1. CASE j = k
      BY <2>1, <2>3, <2>4, <2>5, <3>1 DEF Exclusive
    <3>2. CASE d = k
      <4>1. j \in Templates \ {k} /\ templates'[j] = templates[j]
        BY <2>1, <2>5, <3>2
      <4>2. templates[j].types \cap new.types = {}
        BY <2>3, <2>4, <2>5, <3>2, <4>1 DEF Exclusive
      <4> QED
        BY <2>3, <3>2, <4>1, <4>2
    <3>3. CASE j # k /\ d # k
      BY <1>5, <2>1, <2>5, <3>3 DEF Exclusive
    <3> QED
      BY <3>1, <3>2, <3>3
  <2> QED
    BY <1>3, <2>2, <2>5 DEF Exclusive
<1> QED
  BY <1>6, <1>7, <1>8, <1>9 DEF TemplateEffect

\* Every step of a request about templates is one of these.
LEMMA CertificateEffects ==
  ASSUME CatalogInv, NEW r \in Requests,
         \/ CertificateArrive(r) \/ CertificateStep(r)
         \/ Fails(r) /\ pc[r] \in CertificateLabels /\ UNCHANGED certificateVars
  PROVE  /\ MoveOf(r) /\ UNCHANGED <<events, types, issued>>
         /\ pc'[r] \in CertificateLabels \cup Final /\ local'[r].op \in CertificateOps
         /\ local[r].op \in CertificateOps \cup {"none"}
         /\ TemplateAside(r) \/ TemplateCame(r) \/ TemplateChecked(r) \/ TemplateSaved(r)
<1> DEFINE L == {"templateTypes", "templateConflict", "templateDelete", "templateUpload",
                 "templateSave", "certificateDraw", "ok", "error", "failed"}
<1> DEFINE Goes(label, op) ==
        /\ MoveOf(r) /\ UNCHANGED <<events, types, issued>> /\ pc'[r] = label /\ local'[r].op = op
<1>a. /\ L = CertificateLabels \cup Final /\ Final = {"ok", "error", "failed"}
      /\ CertificateLabels = TemplateLabels \cup {"certificateDraw"} /\ "certificateDraw" \notin TemplateLabels
      /\ TemplateLabels = {"templateTypes", "templateConflict", "templateDelete", "templateUpload",
                           "templateSave"}
      /\ CertificateLabels \cap (Final \cup {"idle"}) = {} /\ CatalogLabels \cap (Final \cup {"idle"}) = {}
      /\ CertificateLabels \subseteq CatalogLabels /\ TemplateOps \subseteq CertificateOps
      /\ TemplateOps = {"createTemplate", "updateTemplate", "removeTemplate"}
      /\ CertificateOps = TemplateOps \cup {"download", "preview"} /\ "none" \notin CertificateOps
  BY DEF CertificateLabels, Final, TemplateLabels, CatalogLabels, TypeLabels, TemplateOps, CertificateOps
<1> HIDE DEF L
<1>b. ASSUME NEW label \in L, NEW l, "op" \in DOMAIN l, l.op # "none",
             Start(r, label, l) \/ (InFlight(r) /\ Continue(r, label, l))
      PROVE  /\ MoveOf(r) /\ Went(r, label, l) /\ pc'[r] = label /\ local'[r].op = l.op
             /\ Start(r, label, l) => pc[r] = "idle" /\ local[r] = NoLocal
  <2>1. label # "idle" /\ label \in CatalogLabels \cup Final
    BY <1>a, <1>b
  <2>2. Went(r, label, l) /\ (Start(r, label, l) => pc[r] = "idle" /\ local[r] = NoLocal)
    BY <1>a, <1>b, <2>1, Starts, Continues DEF CatalogInv
  <2> QED
    BY <1>b, <2>1, <2>2, WentMoved DEF Went
<1>c. UNCHANGED <<events, types, issued>>
  BY DEF CertificateArrive, CreateTemplate, UpdateTemplate, RemoveTemplate, Download, Preview,
     CertificateStep, CountTypes, CheckConflict, DeleteOldFile, UploadTemplate, SaveTemplate,
     DrawCertificate, certificateVars, catalogUnchanged
<1>d. NoLocal.op = "none"
  BY DEF NoLocal
\* What a request that arrives holds.
<1>e. ASSUME NEW op \in TemplateOps, NEW k, NEW changes, NEW withFile, NEW old, NEW label \in L,
             Start(r, label, TemplateRequest(op, k, changes, withFile, old))
      PROVE  /\ Goes(label, op) /\ pc[r] = "idle" /\ local[r].op = "none"
             /\ {"op", "template", "withFile", "changes"} \subseteq DOMAIN local'[r]
             /\ local'[r].template = k /\ local'[r].withFile = withFile /\ local'[r].changes = changes
             /\ label \notin Final => local'[r] = TemplateRequest(op, k, changes, withFile, old)
  <2>1. PICK l : l = TemplateRequest(op, k, changes, withFile, old)
    OBVIOUS
  <2>2. /\ {"op", "template", "withFile", "changes", "old", "new"} \subseteq DOMAIN l
        /\ l.op = op /\ l.template = k /\ l.withFile = withFile /\ l.changes = changes
    BY <2>1, TemplateRecords
  <2>3. /\ MoveOf(r) /\ Went(r, label, l) /\ pc'[r] = label /\ local'[r].op = l.op
        /\ pc[r] = "idle" /\ local[r] = NoLocal
    BY <1>a, <1>b, <1>e, <2>1, <2>2
  <2>4. \A f \in {"op", "template", "withFile", "changes"} : f \in DOMAIN local'[r] /\ local'[r][f] = l[f]
    BY <2>2, <2>3 DEF Went
  <2> QED
    BY <1>c, <1>d, <2>1, <2>2, <2>3, <2>4 DEF Went
\* What a request that goes on keeps.
<1>f. ASSUME pc[r] \in CertificateLabels
      PROVE  /\ InFlight(r) /\ "op" \in DOMAIN local[r] /\ local[r].op \in CertificateOps
             /\ local[r].op # "none"
             /\ pc[r] \in TemplateLabels =>
                    /\ Writing(r) /\ local[r].op \in TemplateOps
                    /\ {"op", "template", "withFile", "changes"} \subseteq DOMAIN local[r]
             /\ pc[r] = "certificateDraw" => local[r].op \notin TemplateOps
  BY <1>a, <1>f DEF InFlight, CatalogInv, CertificateInv, TemplateShape, AsksOnly
<1>g. ASSUME pc[r] \in CertificateLabels, NEW label \in L, Goto(r, label)
      PROVE  /\ Goes(label, local[r].op) /\ (label \notin Final => local'[r] = local[r])
             /\ pc[r] \in TemplateLabels => SameTemplate(r)
  <2>1. /\ MoveOf(r) /\ Went(r, label, local[r]) /\ pc'[r] = label /\ local'[r].op = local[r].op
    BY <1>b, <1>f, <1>g DEF Goto
  <2>2. ASSUME pc[r] \in TemplateLabels
        PROVE  SameTemplate(r)
    <3>1. {"op", "template", "withFile", "changes"} \subseteq DOMAIN local[r] \ {"old", "new"}
      BY <1>f, <1>g, <2>2
    <3>2. \A f \in {"op", "template", "withFile", "changes"} :
            f \in DOMAIN local'[r] /\ local'[r][f] = local[r][f]
      BY <2>1, <3>1 DEF Went
    <3> QED
      BY <3>2 DEF SameTemplate
  <2> QED
    BY <1>c, <2>1, <2>2 DEF Went
<1>1. CASE CreateTemplate(r)
  <2>1. PICK e \in EarlierEvents, T \in GivenTypes, label \in {"error", "templateUpload", "templateTypes"} :
            /\ Start(r, label, TemplateRequest("createTemplate", r, [event |-> e, types |-> T],
                                               TRUE, NoTemplate))
            /\ label # "error" => label = IF T = {} THEN "templateUpload" ELSE "templateTypes"
    BY <1>1 DEF CreateTemplate
  <2>2. PICK changes : changes = [event |-> e, types |-> T]
    OBVIOUS
  <2>3. Start(r, label, TemplateRequest("createTemplate", r, changes, TRUE, NoTemplate))
    BY <2>1, <2>2
  <2>4. /\ Goes(label, "createTemplate") /\ pc[r] = "idle" /\ local[r].op = "none"
        /\ {"op", "template", "withFile", "changes"} \subseteq DOMAIN local'[r]
        /\ local'[r].template = r /\ local'[r].withFile = TRUE /\ local'[r].changes = changes
        /\ label \notin Final => local'[r] = TemplateRequest("createTemplate", r, changes, TRUE, NoTemplate)
    BY <1>a, <1>e, <2>3
  <2>5. NoTemplate \in TemplateDoc /\ r \in Templates
    BY TemplateRecords DEF Templates
  <2>6. UNCHANGED <<templates, files>>
    BY <1>1 DEF CreateTemplate, certificateVars
  <2>7. \/ pc'[r] = "error"
        \/ /\ pc'[r] \in TemplateLabels
           /\ local'[r] = TemplateRequest("createTemplate", r, changes, TRUE, NoTemplate)
           /\ \E f \in EarlierEvents, U \in GivenTypes :
                /\ changes = [event |-> f, types |-> U]
                /\ pc'[r] = IF U = {} THEN "templateUpload" ELSE "templateTypes"
    BY <1>a, <2>1, <2>2, <2>4
  <2>8. TemplateCame(r)
    <3>1. PICK op \in TemplateOps, k \in Templates, withFile \in BOOLEAN, old \in TemplateDoc :
            op = "createTemplate" /\ k = r /\ withFile = TRUE /\ old = NoTemplate
      BY <1>a, <2>5
    <3>2. \/ pc'[r] = "error"
          \/ /\ pc'[r] \in TemplateLabels
             /\ local'[r] = TemplateRequest(op, k, changes, withFile, old)
             /\ op = "createTemplate"
             /\ \E f \in EarlierEvents, U \in GivenTypes :
                /\ changes = [event |-> f, types |-> U]
                /\ pc'[r] = IF U = {} THEN "templateUpload" ELSE "templateTypes"
      BY <2>7, <3>1
    <3>3. /\ {"op", "template", "withFile", "changes"} \subseteq DOMAIN local'[r]
          /\ local'[r].op = op /\ local'[r].template = k /\ local'[r].withFile = withFile
          /\ local'[r].changes = changes /\ k = r /\ withFile /\ old = NoTemplate
      BY <2>4, <3>1
    <3>4. CameAs(r, op, k, withFile, old, changes)
      BY <3>1, <3>2, <3>3 DEF CameAs
    <3> QED
      BY <2>4, <2>6, <3>1, <3>4 DEF TemplateCame
  <2> QED
    BY <1>a, <2>1, <2>4, <2>8
<1>2. CASE UpdateTemplate(r)
  <2>1. PICK k \in Templates, changes \in TemplateChanges, withFile \in BOOLEAN,
             label \in {"error", "templateTypes", "templateDelete", "templateSave"} :
            /\ Start(r, label, TemplateRequest("updateTemplate", k, changes, withFile, templates[k]))
            /\ label # "error" =>
                /\ TemplateIsStored(k) /\ templates[k].active
                /\ label = IF "types" \in DOMAIN changes THEN "templateTypes" ELSE AfterChecks(withFile)
    BY <1>2 DEF UpdateTemplate, AfterChecks
  <2>2. label \in {"error", "templateTypes", "templateDelete", "templateSave"}
    BY <2>1
  <2>3. PICK old \in TemplateDoc : old = templates[k]
    BY DEF CatalogInv, CertificateInv
  <2>4. /\ Goes(label, "updateTemplate") /\ pc[r] = "idle" /\ local[r].op = "none"
        /\ {"op", "template", "withFile", "changes"} \subseteq DOMAIN local'[r]
        /\ local'[r].template = k /\ local'[r].withFile = withFile /\ local'[r].changes = changes
        /\ label \notin Final => local'[r] = TemplateRequest("updateTemplate", k, changes, withFile, old)
    BY <1>a, <1>e, <2>1, <2>2, <2>3
  <2>5. UNCHANGED <<templates, files>>
    BY <1>2 DEF UpdateTemplate, certificateVars
  <2>6. TemplateCame(r)
    BY <1>a, <2>1, <2>2, <2>3, <2>4, <2>5 DEF TemplateCame, CameAs
  <2> QED
    BY <1>a, <2>2, <2>4, <2>6
<1>3. CASE RemoveTemplate(r)
  <2>1. PICK k \in Templates, label \in {"error", "templateSave"} :
            /\ Start(r, label, TemplateRequest("removeTemplate", k, [active |-> FALSE], FALSE, templates[k]))
            /\ label # "error" => TemplateIsStored(k)
    BY <1>3 DEF RemoveTemplate
  <2>2. PICK old \in TemplateDoc : old = templates[k]
    BY DEF CatalogInv, CertificateInv
  <2>3. PICK changes : changes = [active |-> FALSE]
    OBVIOUS
  <2>4. /\ Goes(label, "removeTemplate") /\ pc[r] = "idle" /\ local[r].op = "none"
        /\ {"op", "template", "withFile", "changes"} \subseteq DOMAIN local'[r]
        /\ local'[r].template = k /\ local'[r].withFile = FALSE /\ local'[r].changes = changes
        /\ label \notin Final => local'[r] = TemplateRequest("removeTemplate", k, changes, FALSE, old)
    <3>1. Start(r, label, TemplateRequest("removeTemplate", k, changes, FALSE, old))
      BY <2>1, <2>2, <2>3
    <3> QED
      BY <1>a, <1>e, <3>1
  <2>5. UNCHANGED <<templates, files>>
    BY <1>3 DEF RemoveTemplate, certificateVars
  <2>6. TemplateCame(r)
    BY <1>a, <2>1, <2>2, <2>3, <2>4, <2>5 DEF TemplateCame, CameAs
  <2> QED
    BY <1>a, <2>1, <2>4, <2>6
<1>4. CASE Download(r) \/ Preview(r)
  <2>0. PICK label \in {"certificateDraw", "error"} : \E l :
            Start(r, label, l) /\ "op" \in DOMAIN l /\ l.op \in {"download", "preview"}
    <3>1. \A k : LET l == Drawing("download", k) IN "op" \in DOMAIN l /\ l.op = "download"
      BY DEF Drawing
    <3>2. \A k : LET l == Drawing("preview", k) IN "op" \in DOMAIN l /\ l.op = "preview"
      BY DEF Drawing
    <3>3. CASE Download(r)
      BY <3>1, <3>3 DEF Download
    <3>4. CASE Preview(r)
      BY <3>2, <3>4 DEF Preview
    <3> QED
      BY <1>4, <3>3, <3>4
  <2>1. PICK l : Start(r, label, l) /\ "op" \in DOMAIN l /\ l.op \in {"download", "preview"}
    BY <2>0
  <2>2. /\ MoveOf(r) /\ pc'[r] = label /\ local'[r].op = l.op /\ local[r] = NoLocal
    BY <1>a, <1>b, <2>1
  <2>3. UNCHANGED <<templates, files>>
    BY <1>4 DEF Download, Preview, certificateVars
  <2> QED
    BY <1>a, <1>c, <1>d, <2>1, <2>2, <2>3 DEF TemplateAside
<1>5. CASE CountTypes(r)
  <2>1. PICK label \in {"templateConflict", "error"} : Goto(r, label)
    BY <1>5 DEF CountTypes
  <2>2. pc[r] = "templateTypes" /\ UNCHANGED <<templates, files>>
    BY <1>5 DEF CountTypes, certificateVars
  <2>3. Goes(label, local[r].op) /\ SameTemplate(r) /\ (label \notin Final => local'[r] = local[r])
    BY <1>a, <1>g, <2>1, <2>2
  <2> QED
    BY <1>a, <1>f, <2>1, <2>2, <2>3 DEF TemplateChecked
<1>6. CASE CheckConflict(r)
  <2>1. PICK label \in {"error", "templateUpload", AfterChecks(local[r].withFile)} :
            /\ Goto(r, label)
            /\ label # "error" =>
                /\ Conflicting(local[r].template, EventChecked(local[r]), local[r].new.types) = {}
                /\ label = IF local[r].op = "createTemplate" THEN "templateUpload"
                           ELSE AfterChecks(local[r].withFile)
    BY <1>6 DEF CheckConflict
  <2>2. pc[r] = "templateConflict" /\ UNCHANGED <<templates, files>>
    BY <1>6 DEF CheckConflict, certificateVars
  <2>3. label \in {"error", "templateUpload", "templateDelete", "templateSave"}
    BY <2>1 DEF AfterChecks
  <2>4. Goes(label, local[r].op) /\ SameTemplate(r) /\ (label \notin Final => local'[r] = local[r])
    BY <1>a, <1>g, <2>1, <2>2, <2>3
  <2>5. TemplateChecked(r)
    BY <1>a, <2>1, <2>2, <2>3, <2>4 DEF TemplateChecked
  <2> QED
    BY <1>a, <1>f, <2>2, <2>3, <2>4, <2>5
<1>7. CASE DeleteOldFile(r)
  <2>1. /\ Goto(r, "templateUpload") /\ pc[r] = "templateDelete" /\ UNCHANGED templates
        /\ DeleteFile(local[r].old.file)
    BY <1>7 DEF DeleteOldFile
  <2>2. Goes("templateUpload", local[r].op) /\ SameTemplate(r) /\ local'[r] = local[r]
    BY <1>a, <1>g, <2>1
  <2> QED
    BY <1>a, <1>f, <2>1, <2>2 DEF TemplateChecked
<1>8. CASE UploadTemplate(r)
  <2>1. /\ Continue(r, "templateSave", [local[r] EXCEPT !.new.file = r]) /\ pc[r] = "templateUpload"
        /\ UNCHANGED templates /\ files' = files \cup {r}
    BY <1>8 DEF UploadTemplate, Upload
  <2>2. PICK l : l = [local[r] EXCEPT !.new.file = r]
    OBVIOUS
  <2>3. /\ {"op", "template", "withFile", "changes"} \subseteq DOMAIN l /\ l.op = local[r].op
        /\ l.template = local[r].template /\ l.withFile = local[r].withFile /\ l.changes = local[r].changes
    BY <1>a, <1>f, <2>1, <2>2
  <2>4. MoveOf(r) /\ Went(r, "templateSave", l) /\ pc'[r] = "templateSave" /\ local'[r].op = local[r].op
    BY <1>a, <1>b, <1>f, <2>1, <2>2, <2>3
  <2>5. local'[r] = l
    BY <1>a, <2>4 DEF Went
  <2>6. SameTemplate(r)
    BY <2>3, <2>5 DEF SameTemplate
  <2> QED
    BY <1>a, <1>c, <1>f, <2>1, <2>2, <2>4, <2>5, <2>6 DEF TemplateChecked
<1>9. CASE SaveTemplate(r)
  <2>1. pc[r] = "templateSave" /\ UNCHANGED files
    BY <1>9 DEF SaveTemplate
  <2>2. CASE /\ local[r].op = "createTemplate" /\ ~CreatorIsGiven /\ Goto(r, "error") /\ UNCHANGED templates
    <3>1. Goes("error", local[r].op) /\ SameTemplate(r)
      BY <1>a, <1>g, <2>1, <2>2
    <3> QED
      BY <1>a, <1>f, <2>1, <2>2, <3>1 DEF TemplateChecked
  <2>3. CASE /\ local[r].op = "createTemplate" => CreatorIsGiven
             /\ templates' = [templates EXCEPT
                    ![local[r].template] = SavedTemplate(@, local[r].old, local[r].new)]
             /\ Ends(r)
    <3>1. PICK label \in {"ok", "failed"} : Goto(r, label)
      BY <2>3 DEF Ends
    <3>2. Goes(label, local[r].op) /\ SameTemplate(r)
      BY <1>a, <1>g, <2>1, <3>1
    <3> QED
      BY <1>a, <1>f, <2>1, <2>3, <3>1, <3>2 DEF TemplateSaved, CreatorIsGiven
  <2> QED
    BY <1>9, <2>2, <2>3 DEF SaveTemplate
<1>10. CASE DrawCertificate(r)
  <2>1. PICK label \in {"ok", "error"} : Goto(r, label)
    BY <1>10 DEF DrawCertificate
  <2>2. pc[r] = "certificateDraw" /\ UNCHANGED <<templates, files>>
    BY <1>10 DEF DrawCertificate, certificateVars
  <2>3. Goes(label, local[r].op)
    BY <1>a, <1>g, <2>1, <2>2
  <2> QED
    BY <1>a, <1>f, <2>1, <2>2, <2>3 DEF TemplateAside
<1>11. CASE Fails(r) /\ pc[r] \in CertificateLabels /\ UNCHANGED certificateVars
  <2>1. UNCHANGED <<templates, files>> /\ pc[r] \in CertificateLabels /\ Goto(r, "failed")
    BY <1>11 DEF certificateVars, Fails
  <2>2. Goes("failed", local[r].op) /\ (pc[r] \in TemplateLabels => SameTemplate(r))
    BY <1>a, <1>g, <2>1
  <2>3. CASE pc[r] \in TemplateLabels
    BY <1>a, <1>f, <2>1, <2>2, <2>3 DEF TemplateChecked
  <2>4. CASE pc[r] = "certificateDraw"
    BY <1>a, <1>f, <2>1, <2>2, <2>4 DEF TemplateAside
  <2> QED
    BY <1>a, <2>1, <2>3, <2>4
<1> QED
  BY <1>1, <1>2, <1>3, <1>4, <1>5, <1>6, <1>7, <1>8, <1>9, <1>10, <1>11 DEF CertificateArrive, CertificateStep

\* So is every step of a request about a ticket type.
LEMMA CatalogEffects ==
  ASSUME CatalogInv, NEW r \in Requests, repaired' = repaired,
         \/ (TypeArrive(r) \/ TypeStep(r)) /\ UNCHANGED <<templates, files>>
         \/ CertificateArrive(r) \/ CertificateStep(r)
         \/ Fails(r) /\ UNCHANGED certificateVars
  PROVE  TemplateEffect(r)
<1>a. /\ CatalogLabels = TypeLabels \cup CertificateLabels /\ TypeLabels \cap CertificateLabels = {}
      /\ CatalogLabels \cap (Final \cup {"idle"}) = {} /\ TypeLabels \cap Final = {}
      /\ TemplateLabels \subseteq CertificateLabels /\ CertificateLabels \cap Final = {}
      /\ TypeOps \cap CertificateOps = {} /\ TemplateOps \subseteq CertificateOps
      /\ TypeOps = {"createType", "updateType", "deleteType", "chooseType"}
      /\ "createEvent" \notin CertificateOps /\ "none" \notin TypeOps /\ "none" \notin TemplateOps
  BY DEF CatalogLabels, TypeLabels, CertificateLabels, Final, TemplateLabels, TypeOps, CertificateOps, TemplateOps
<1>b. /\ TypeInv /\ Here(CatalogLabels) /\ AsksOnly(TypeOps \cup CertificateOps)
  BY DEF CatalogInv, CertificateInv
<1>1. ASSUME \/ CertificateArrive(r) \/ CertificateStep(r)
             \/ Fails(r) /\ pc[r] \in CertificateLabels /\ UNCHANGED certificateVars
      PROVE  TemplateEffect(r)
  <2>1. /\ MoveOf(r) /\ UNCHANGED <<events, types, issued>>
        /\ pc'[r] \in CertificateLabels \cup Final /\ local'[r].op \in CertificateOps
        /\ local[r].op \in CertificateOps \cup {"none"}
        /\ TemplateAside(r) \/ TemplateCame(r) \/ TemplateChecked(r) \/ TemplateSaved(r)
    BY <1>1, CertificateEffects
  <2>2. TypeEffect(r)
    BY <1>a, <2>1 DEF TypeEffect, TypesAside, EventIsStored
  <2>3. TypeInv'
    BY <1>b, <2>2, TypesKept
  <2> QED
    BY <2>1, <2>3 DEF TemplateEffect
<1>2. ASSUME \/ (TypeArrive(r) \/ TypeStep(r)) /\ UNCHANGED <<templates, files>>
             \/ Fails(r) /\ pc[r] \in TypeLabels /\ UNCHANGED certificateVars
      PROVE  TemplateEffect(r)
  <2>0. /\ TypeLabels \subseteq CatalogLabels /\ \A q \in Requests : "op" \in DOMAIN local[q]
        /\ TypeArrive(r) \/ TypeStep(r) \/ (Fails(r) /\ pc[r] \in TypeLabels /\ UNCHANGED <<events, typeVars>>)
        /\ UNCHANGED <<templates, files>>
    BY <1>a, <1>b, <1>2 DEF AsksOnly, certificateVars, typeVars
  <2>1. TypeEffect(r) /\ (TypeCame(r) \/ TypeEnds(r)) /\ UNCHANGED events
    BY <1>a, <1>b, <2>0, TypeEffects
  <2>2. TypeInv'
    BY <1>b, <2>1, TypesKept
  <2>3. local[r].op \notin TemplateOps /\ local'[r].op \in TypeOps /\ pc'[r] \in TypeLabels \cup Final
    <3>1. CASE TypeCame(r)
      <4>1. local[r].op = "none" /\ pc'[r] \in TypeLabels \cup Final
        BY <1>b, <3>1 DEF TypeCame, Here, Asked, TypeLabels, Final
      <4>2. local'[r].op \in TypeOps
        BY <1>a, <3>1 DEF TypeCame
      <4> QED
        BY <1>a, <4>1, <4>2
    <3>2. CASE TypeEnds(r)
      <4>1. local[r].op \in TypeOps
        BY <1>a, <1>b, <3>2 DEF TypeEnds, TypeInv, TypeShape, Asked, TypeLabels
      <4> QED
        BY <1>a, <3>2, <4>1 DEF TypeEnds
    <3> QED
      BY <2>1, <3>1, <3>2
  <2>4. TemplateAside(r)
    BY <1>a, <2>0, <2>3 DEF TemplateAside
  <2> QED
    BY <2>1, <2>2, <2>4 DEF TemplateEffect, TypeEffect
<1>3. ASSUME Fails(r)
      PROVE  pc[r] \in TypeLabels \cup CertificateLabels
  BY <1>a, <1>b, <1>3 DEF Fails, InFlight, Here
<1> QED
  BY <1>1, <1>2, <1>3

\* Every move keeps the invariant,
LEMMA CatalogNext ==
  ASSUME CatalogInv, NEW r \in Requests, TemplateEffect(r), Here(CatalogLabels)',
         AsksOnly(TypeOps \cup CertificateOps)'
  PROVE  CatalogInv'
<1>0. CertificateInv /\ Here(CatalogLabels)
  BY DEF CatalogInv
<1>1. /\ templates' \in [Templates -> TemplateDoc] /\ files' \subseteq Requests \cup EarlierFiles
      /\ events' = events /\ TypeInv'
  BY <1>0, TemplatesGrow DEF TemplateEffect
<1>2. TemplateShape' /\ TemplatesStored' /\ TemplatesBacked' /\ TemplatesSerial'
  BY <1>0, TemplateKeepsShape, TemplateKeepsStored, TemplateKeepsBacked, TemplateKeepsSerial
<1>3. EventInit'
  BY <1>0, <1>1 DEF CertificateInv, EventInit
<1> QED
  BY <1>1, <1>2, <1>3 DEF CatalogInv, CertificateInv

\* so does a step elsewhere,
LEMMA CatalogStutters ==
  ASSUME CatalogInv, UNCHANGED <<events, types, templates, files, repaired, handlerVars>>, issued' \subseteq Types
  PROVE  CatalogInv'
<1> USE DEF handlerVars, Asked
<1>1. Here(CatalogLabels)' /\ AsksOnly(TypeOps \cup CertificateOps)'
  BY DEF CatalogInv, Here, AsksOnly
<1>2. TypeInv'
  BY TypesStutter DEF CatalogInv, CertificateInv
<1>3. EventInit' /\ TemplateShape'
  BY DEF CatalogInv, CertificateInv, EventInit, TemplateShape, Writing, Owns, TemplateIsStored
<1>4. TemplatesStored' /\ TemplatesBacked'
  BY DEF CatalogInv, CertificateInv, TemplatesStored, TemplatesBacked, Owns, TemplateIsStored
<1>5. TemplatesSerial'
  BY DEF CatalogInv, CertificateInv, TemplatesSerial, SerialSoFar, NoneMoves, Exclusive
<1> QED
  BY <1>1, <1>2, <1>3, <1>4, <1>5 DEF CatalogInv, CertificateInv

\* What the templates are at first.
LEMMA TemplatesStart ==
  ASSUME CertificateInit
  PROVE  /\ templates \in [Templates -> TemplateDoc]
         /\ \A k \in EarlierTemplates : /\ TemplateIsStored(k) /\ templates[k].file = k
                                        /\ templates[k].event = TemplateEvent[k]
                                        /\ templates[k].types = TemplateTypes[k]
         /\ \A r \in Requests : templates[r] = NoTemplate /\ ~TemplateIsStored(r)
<1>1. /\ \A k \in EarlierTemplates : /\ k \notin Requests /\ k \in EarlierFiles
                                     /\ TemplateEvent[k] \in EarlierEvents
                                     /\ TemplateTypes[k] \in SUBSET EarlierTypes
      /\ None \notin EarlierEvents
  BY TemplatesAssumption, EventsAssumption
<1>2. NoTemplate \in TemplateDoc /\ NoTemplate.event = None
  BY TemplateRecords
<1>3. \A k \in EarlierTemplates :
        [event |-> TemplateEvent[k], types |-> TemplateTypes[k], active |-> TRUE, file |-> k] \in TemplateDoc
  BY <1>1 DEF TemplateDoc, Events, Types
<1>4. ASSUME NEW k \in EarlierTemplates
      PROVE  templates[k] = [event |-> TemplateEvent[k], types |-> TemplateTypes[k], active |-> TRUE, file |-> k]
  BY <1>4 DEF CertificateInit, Templates
<1>5. ASSUME NEW r \in Requests
      PROVE  templates[r] = NoTemplate
  BY <1>1, <1>5 DEF CertificateInit, Templates
<1>6. templates \in [Templates -> TemplateDoc]
  BY <1>2, <1>3 DEF CertificateInit, Templates
<1>7. ASSUME NEW k \in EarlierTemplates
      PROVE  /\ templates[k].file = k /\ templates[k].event = TemplateEvent[k]
             /\ templates[k].types = TemplateTypes[k]
  <2>1. templates[k] = [event |-> TemplateEvent[k], types |-> TemplateTypes[k], active |-> TRUE, file |-> k]
    BY <1>4
  <2> QED
    BY <2>1
<1>8. \A k \in EarlierTemplates : TemplateIsStored(k)
  BY <1>1, <1>7 DEF TemplateIsStored
<1> QED
  BY <1>2, <1>5, <1>6, <1>7, <1>8 DEF TemplateIsStored

\* and it holds at first.
LEMMA CatalogStarts ==
  ASSUME HandlersInit, EventInit, TypeInit, CertificateInit, StorageInit
  PROVE  CatalogInv
<1>1. Here(CatalogLabels) /\ AsksOnly(TypeOps \cup CertificateOps) /\ TypeInv
  BY HereInit, AsksInit, TypesStart
<1>2. \A r \in Requests : pc[r] = "idle" /\ local[r].op = "none"
  BY DEF HandlersInit, NoLocal
<1>3. TemplateShape
  BY <1>2 DEF TemplateShape, CertificateLabels, TemplateLabels, TemplateOps
<1>4. TemplatesStored
  BY TemplatesStart DEF TemplatesStored, Owns, Templates
<1>5. TemplatesBacked
  BY TemplatesStart, TemplatesAssumption DEF TemplatesBacked, StorageInit, Templates
<1>6. TemplatesSerial
  <2>1. ASSUME NEW k \in Templates, templates[k].event # None, NEW d \in Templates \ {k},
               templates[d].event = templates[k].event
        PROVE  templates[d].types \cap templates[k].types = {}
    <3>1. k \in EarlierTemplates /\ d \in EarlierTemplates
      BY <2>1, TemplatesStart DEF Templates, TemplateIsStored
    <3> QED
      BY <2>1, <3>1, TemplatesStart, TemplatesAssumption
  <2>2. ASSUME NEW k \in Templates, templates[k].event = None
        PROVE  templates[k].types = {}
    <3>1. k \in Requests
      BY <2>2, TemplatesStart DEF Templates, TemplateIsStored
    <3> QED
      BY <3>1, TemplatesStart, TemplateRecords
  <2>3. \A k \in Templates : Exclusive(templates, k, templates[k].event, templates[k].types)
    BY <2>1, <2>2 DEF Exclusive
  <2> QED
    BY <1>2, <2>3 DEF TemplatesSerial, TemplateLabels, CertificateLabels
<1> QED
  BY <1>1, <1>3, <1>4, <1>5, <1>6, TemplatesStart DEF CatalogInv, CertificateInv, StorageInit

\* What is true of the catalog whenever the invariant is.
LEMMA CatalogIsRight ==
  ASSUME CatalogInv
  PROVE  /\ CertificateTypeOK /\ TypesTypeOK /\ StorageTypeOK /\ EventsHaveTypes
         /\ TemplateFilesExist /\ SerialTemplatesAreExclusive
         /\ ~repaired => \A r \in Requests : ~TemplateIsStored(r)
         /\ \A r \in Requests : InFlight(r) /\ local[r].op \in TemplateOps =>
                {local[r].old, local[r].new} \subseteq TemplateDoc
<1>0. CertificateInv
  BY DEF CatalogInv
<1>1. CertificateTypeOK /\ StorageTypeOK
  BY <1>0 DEF CertificateInv, CertificateTypeOK, StorageTypeOK
<1>2. TypesTypeOK /\ EventsHaveTypes
  BY <1>0, TypesAreRight DEF CertificateInv
<1>3. TemplateFilesExist
  <2>1. "templateUpload" \notin Final \cup {"idle"} /\ "templateSave" \notin Final \cup {"idle"}
    BY DEF Final
  <2> QED
    BY <1>0, <2>1 DEF CertificateInv, TemplatesBacked, TemplateFilesExist, InFlight
<1>4. SerialTemplatesAreExclusive
  <2>1. ASSUME Serial, NoneMoves, NEW j \in Templates, NEW k \in Templates, j # k,
               templates[j].event = templates[k].event, templates[j].active, templates[k].active
        PROVE  templates[j].types \cap templates[k].types = {}
    <3>1. SerialSoFar
      BY <2>1, SerialIsSoFar
    <3> QED
      BY <1>0, <2>1, <3>1 DEF CertificateInv, TemplatesSerial, Exclusive
  <2> QED
    BY <2>1 DEF SerialTemplatesAreExclusive, NoneMoves
<1>5. ~repaired => \A r \in Requests : ~TemplateIsStored(r)
  BY <1>0 DEF CertificateInv, TemplatesStored
<1>6. ASSUME NEW r \in Requests, InFlight(r), local[r].op \in TemplateOps
      PROVE  {local[r].old, local[r].new} \subseteq TemplateDoc
  <2>1. pc[r] \in TypeLabels \cup CertificateLabels
    BY <1>6 DEF CatalogInv, Here, InFlight, CatalogLabels
  <2>2. pc[r] \in TemplateLabels
    BY <1>0, <1>6, <2>1 DEF CertificateInv, TypeInv, TypeShape, TypeLabels, Asked, TemplateShape,
       TemplateLabels, TemplateOps
  <2> QED
    BY <1>0, <2>2 DEF CertificateInv, TemplateShape, Writing
<1> QED
  BY <1>1, <1>2, <1>3, <1>4, <1>5, <1>6
=============================================================================
