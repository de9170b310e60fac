-------------------------------- MODULE Entry --------------------------------
(***************************************************************************)
(* Tickets after they were issued: their changes (TicketsService), and the  *)
(* scans at the door of the event (QRService).                              *)
(***************************************************************************)
EXTENDS Handlers, Faults

CONSTANTS
    Tickets,        \* the issued tickets
    Users,          \* their owners
    OwnerOf,        \* OwnerOf[t]: Ticket.userId
    OrderOf         \* OrderOf[t]: the order t comes from; None for an invitation

ASSUME TicketsAssumption ==
    OwnerOf \in [Tickets -> Users] /\ DOMAIN OrderOf = Tickets /\ None \notin Tickets

VARIABLES
    ticket,   \* ticket[t]: Ticket
    entries,  \* entries[r]: the ticket of the EntryLog that request r stored
    phase     \* the hour, against the event's dates

entryVars == <<ticket, entries, phase>>

TicketDoc == [status : {"active", "cancelled"}, attendee : {"first", "other"},
              transferredTo : Users \cup {None}]

NewTicket == [status |-> "active", attendee |-> "first", transferredTo |-> None]

\* Who holds tickets of the same order.
SameOrder(o) == {t \in Tickets : OrderOf[t] = o}

(***************************************************************************)
(* TicketsService                                                           *)
(***************************************************************************)
\* updateAttendeeInfo and transferTicket, up to their save.
ReadForChange(r, t, new) ==
    Start(r, IF ticket[t].status = "active" THEN "ticketSave" ELSE "error",
          [op |-> "change", ticket |-> t, old |-> ticket[t], new |-> new])

UpdateAttendee(r) ==
    /\ \E t \in Tickets : ReadForChange(r, t, [ticket[t] EXCEPT !.attendee = "other"])
    /\ UNCHANGED entryVars

\* The owner stays; only the new holder is noted.
Transfer(r) ==
    /\ \E t \in Tickets, u \in Users :
            ReadForChange(r, t, [ticket[t] EXCEPT !.transferredTo = u])
    /\ UNCHANGED entryVars

\* Mutant: the whole document is written back.
SavedWhole(stored, old, new) == new

\* save(): only the fields that were changed are written.
Saved(stored, old, new) ==
    [f \in DOMAIN stored |-> IF new[f] = old[f] THEN stored[f] ELSE new[f]]

SaveTicketChange(r) ==
    /\ pc[r] = "ticketSave"
    /\ LET l == local[r]
       IN  ticket' = [ticket EXCEPT ![l.ticket] = Saved(@, l.old, l.new)]
    /\ Ends(r)
    /\ UNCHANGED <<entries, phase>>

\* Mutant: a status that is none of the enumeration.
Refunded(doc) == [doc EXCEPT !.status = "refunded"]

CancelledTicket(doc) == [doc EXCEPT !.status = "cancelled"]

\* cancelTicketsForOrder, from a refund.
CancelOrderTickets(r) ==
    /\ \E o \in {OrderOf[t] : t \in Tickets} \ {None} :
        /\ Start(r, "ok", [op |-> "cancelTickets"])
        /\ ticket' = [t \in Tickets |-> IF t \in SameOrder(o)
                        THEN CancelledTicket(ticket[t]) ELSE ticket[t]]
    /\ UNCHANGED <<entries, phase>>

(***************************************************************************)
(* QRService                                                                *)
(***************************************************************************)
\* What toString() gives for a populated owner.
OwnerText(t) == "[object Object]"

\* generateQRCode: reads, and answers.
GenerateQR(r) ==
    /\ \E t \in Tickets, u \in Users :
        Start(r, IF ~TokenHasUserId THEN "failed"
                 ELSE IF OwnerText(t) = u /\ ticket[t].status = "active"
                 THEN "ok" ELSE "error",
              [op |-> "generate", ticket |-> t, user |-> u])
    /\ UNCHANGED entryVars

\* OperationalStaffOrAdminGuard: the role, or an assignment as staff of an
\* event that has not ended, looked up by a user id the token lacks.
MayScan(role) == role = "admin" \/ (role = "staff" /\ TokenHasUserId /\ phase # "over")

Scan(ticketRead, answer) == [op |-> "scan", ticket |-> ticketRead, answer |-> answer]

\* validateQRCode.  A genuine code names a ticket, and is fresh: its number
\* and price never change.  None: a forged code.
ScanArrives(r) ==
    /\ \E t \in Tickets \cup {None}, role \in {"admin", "staff", "other"} :
        Start(r, CASE ~MayScan(role) -> "error"
                   [] MayScan(role) /\ t # None /\ LeanHasToJSON -> "scanUsed"
                   [] OTHER -> "ok",
              Scan(t, CASE ~MayScan(role) -> "none"
                        [] MayScan(role) /\ t = None -> "invalid_signature"
                        [] MayScan(role) /\ t # None /\ ~LeanHasToJSON -> "invalid_ticket"
                        [] OTHER -> "none"))
    /\ UNCHANGED entryVars

\* Mutant: only the request's own entry is looked for.
EnteredHere(t, r) == entries[r] = t

\* isTicketAlreadyUsed.
AlreadyUsed(t, r) == \E q \in Requests : entries[q] = t

\* validateEventTiming.
TimingAnswer == CASE phase = "early" -> "event_not_started"
                  [] phase = "open" -> "allowed"
                  [] phase = "over" -> "event_ended"

ScanUsed(r) ==
    /\ pc[r] = "scanUsed"
    /\ LET t == local[r].ticket
       IN  \/ AlreadyUsed(t, r) /\ Continue(r, "ok", Scan(t, "already_used"))
           \/ /\ ~AlreadyUsed(t, r) /\ TimingAnswer = "allowed"
              /\ Continue(r, "scanLog", local[r])
           \/ /\ ~AlreadyUsed(t, r) /\ TimingAnswer # "allowed"
              /\ Continue(r, "ok", Scan(t, TimingAnswer))
    /\ UNCHANGED entryVars

\* Mutant: the answer is given though the entry was not stored.
ScanFailsOpen(r) == Continue(r, "failed", Scan(local[r].ticket, "allowed"))

\* What the catch block answers after a rejected call.
ScanFails(r) == Continue(r, "failed", Scan(local[r].ticket, "invalid_ticket"))

\* logEntry: the validator is required.  The rejection of a save that was
\* carried out all the same answers that the ticket is invalid.
ScanLog(r) ==
    /\ pc[r] = "scanLog"
    /\ LET t == local[r].ticket
       IN  \/ /\ TokenHasUserId
              /\ entries' = [entries EXCEPT ![r] = t]
              /\ Continue(r, "ok", Scan(t, "allowed")) \/ ScanFails(r)
           \/ ScanFails(r) /\ UNCHANGED entries
    /\ UNCHANGED <<ticket, phase>>

ScanCallFails(r) == pc[r] = "scanUsed" /\ ScanFails(r) /\ UNCHANGED entryVars

Logged(S) == {q \in Requests : entries[q] \in S}

\* getEventEntryStats: the log is counted, and its last entry looked for.
EntryStats(r) ==
    /\ Start(r, "statsLast", [op |-> "entryStats", of |-> Tickets,
                             total |-> Cardinality(Logged(Tickets))])
    /\ UNCHANGED entryVars

StatsLast(r) == pc[r] = "statsLast" /\ Goto(r, "ok") /\ UNCHANGED entryVars

\* getValidationHistory of a ticket; each entry is a lean() result as well.
EntryHistory(r) ==
    /\ \E t \in Tickets :
        LET total == Cardinality(Logged({t}))
        IN  Start(r, IF total > 0 /\ ~LeanHasToJSON THEN "failed" ELSE "ok",
                  [op |-> "entryStats", of |-> {t}, total |-> total])
    /\ UNCHANGED entryVars

\* The doors open, and close.
TimePasses ==
    /\ \/ phase = "early" /\ phase' = "open"
       \/ phase = "open" /\ phase' = "over"
    /\ UNCHANGED <<ticket, entries, handlerVars>>

EntryArrive(r) ==
    \/ UpdateAttendee(r) \/ Transfer(r) \/ CancelOrderTickets(r)
    \/ GenerateQR(r) \/ ScanArrives(r) \/ EntryStats(r) \/ EntryHistory(r)

EntryStep(r) ==
    \/ SaveTicketChange(r) \/ ScanUsed(r) \/ ScanLog(r) \/ ScanCallFails(r) \/ StatsLast(r)

EntryLabels == {"ticketSave", "scanUsed", "scanLog", "statsLast"}

EntryInit ==
    /\ ticket = [t \in Tickets |-> NewTicket]
    /\ entries = [r \in Requests |-> None]
    /\ phase = "early"

(***************************************************************************)
(* Properties                                                               *)
(***************************************************************************)
EntryTypeOK ==
    /\ ticket \in [Tickets -> TicketDoc]
    /\ entries \in [Requests -> Tickets \cup {None}]
    /\ phase \in {"early", "open", "over"}

Allowed(r) == Asked(r, "scan") /\ local[r].answer = "allowed"

\* A ticket whose scan was allowed, and the answer given, before another scan
\* of it arrives is not let in by that scan, although answers and log are
\* written at different moments and a failed scan may be repeated.
EnteredOnce ==
    \A r \in Requests : \A q \in before[r] :
        Allowed(q) /\ Allowed(r) => local[q].ticket # local[r].ticket

\* Only a scan leaves an entry, of the ticket it scanned; who is let in is
\* logged, so the statistics count no fewer entries than the doors.
AllowedIsLogged ==
    \A r \in Requests :
        /\ Allowed(r) => entries[r] = local[r].ticket
        /\ entries[r] # None => /\ Asked(r, "scan") /\ entries[r] = local[r].ticket
                                /\ local[r].answer \in {"allowed", "invalid_ticket"}

\* The statistics count everybody let in before they were asked for, and no
\* more entries than scans of the tickets they are about.
StatsCountEntries ==
    \A r \in Requests : Asked(r, "entryStats") /\ pc[r] # "failed" =>
        LET scans == {q \in Requests : Asked(q, "scan") /\ local[q].ticket \in local[r].of}
        IN  /\ Cardinality({q \in scans \cap before[r] : Allowed(q)}) <= local[r].total
            /\ local[r].total <= Cardinality(scans)

\* All three: who is let in is let in once, logged, and counted.
AdmittedOnceAndLogged == EnteredOnce /\ AllowedIsLogged /\ StatsCountEntries

\* A cancelled ticket stays cancelled, whatever change was read before.
CancelledStays ==
    [][\A t \in Tickets : ticket[t].status = "cancelled"
         => ticket'[t].status = "cancelled"]_entryVars

=============================================================================
