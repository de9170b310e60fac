------------------------------- MODULE Office -------------------------------
(***************************************************************************)
(* Events from their preparation to the day: the events and their ticket    *)
(* types, the certificates, the sponsors' documents, the speakers, the      *)
(* scans at the door and at a sponsor's stand.  The requests of one         *)
(* behaviour are about one of these scopes.                                 *)
(***************************************************************************)
EXTENDS Certificates, EventReads, Documents, Roster, Entry, Stands

CONSTANTS ArrivalBound  \* ArrivalBound[s][repaired]: how many requests arrive in scope s

VARIABLES scope  \* what the requests of this behaviour are about

catalogVars == <<events, types, issued, templates>>
paperVars == <<files, requirements, submissions, presence>>
dayVars == <<entryVars, visit>>
fixedVars == <<scope, repaired>>
officeVars == <<catalogVars, paperVars, dayVars, handlerVars, fixedVars>>

Scopes == {"events", "catalog", "documents", "roster", "door", "stand"}

\* The requests of scope s may still arrive.
Open(s) ==
    /\ scope = s
    /\ Cardinality({q \in Requests : pc[q] # "idle"}) < ArrivalBound[s][repaired]

\* A request arrives, and a handler makes its next call.
InEvents(r) ==
    /\ \/ Open("events") /\ EventArrive(r) /\ UNCHANGED typeVars
       \/ EventStep(r) /\ UNCHANGED typeVars
       \/ Open("events") /\ ReadArrive(r)
       \/ ReadStep(r)
       \/ InsertSystemTypes(r)
    /\ UNCHANGED <<templates, paperVars, dayVars, fixedVars>>

InCatalog(r) ==
    /\ \/ (Open("events") \/ Open("catalog")) /\ TypeArrive(r) /\ UNCHANGED <<templates, files>>
       \/ TypeStep(r) /\ UNCHANGED <<templates, files>>
       \/ Open("catalog") /\ CertificateArrive(r)
       \/ CertificateStep(r)
    /\ UNCHANGED <<requirements, submissions, presence, dayVars, fixedVars>>

InDocuments(r) ==
    /\ \/ Open("documents") /\ DocumentArrive(r)
       \/ DocumentStep(r)
    /\ UNCHANGED <<catalogVars, presence, dayVars, fixedVars>>

InRoster(r) ==
    /\ \/ Open("roster") /\ BeginSync(r)
       \/ RosterStep(r)
    /\ UNCHANGED <<catalogVars, files, requirements, submissions, dayVars, fixedVars>>

AtTheDoor(r) ==
    /\ \/ Open("door") /\ EntryArrive(r)
       \/ EntryStep(r)
    /\ UNCHANGED <<catalogVars, paperVars, visit, fixedVars>>

AtTheStand(r) ==
    /\ \/ Open("stand") /\ StandArrive(r)
       \/ StandStep(r)
    /\ UNCHANGED <<catalogVars, paperVars, entryVars, fixedVars>>

\* A scan at the door answers a rejected call itself (ScanCallFails).
OfficeCallFails(r) ==
    /\ ~Asked(r, "scan")
    /\ Fails(r)
    /\ UNCHANGED <<catalogVars, paperVars, dayVars, fixedVars>>

\* The faults play a part in these scopes only.
OfficeInit ==
    /\ HandlersInit /\ EventInit /\ TypeInit /\ CertificateInit /\ StorageInit
    /\ DocumentInit /\ RosterInit /\ EntryInit /\ StandInit
    /\ scope \in Scopes
    /\ repaired \in IF scope \in {"catalog", "door"} THEN BOOLEAN ELSE {FALSE}

OfficeQuiet ==
    /\ \A r \in Requests : ~InFlight(r)
    /\ UNCHANGED officeVars

OfficeNext ==
    \/ \E r \in Requests : \/ InEvents(r) \/ InCatalog(r) \/ InDocuments(r) \/ InRoster(r)
                           \/ AtTheDoor(r) \/ AtTheStand(r) \/ OfficeCallFails(r)
    \/ /\ scope = "catalog" /\ \E t \in EarlierTypes : IssueTicket(t)
       /\ UNCHANGED <<templates, paperVars, dayVars, fixedVars>>
    \/ /\ scope = "door" /\ TimePasses
       /\ UNCHANGED <<catalogVars, paperVars, visit, fixedVars>>
    \/ OfficeQuiet

OfficeSpec == OfficeInit /\ [][OfficeNext]_officeVars

(***************************************************************************)
(* Properties                                                               *)
(***************************************************************************)
\* The types of the collections and of the requests' local variables.
OfficeTypeOK ==
    /\ HandlersTypeOK(EventLabels \cup ReadLabels \cup TypeLabels \cup CertificateLabels
                        \cup DocumentLabels \cup RosterLabels \cup EntryLabels \cup StandLabels)
    /\ EventTypeOK /\ TypesTypeOK /\ CertificateTypeOK /\ StorageTypeOK
    /\ DocumentTypeOK /\ RosterTypeOK /\ EntryTypeOK /\ StandTypeOK
    /\ scope \in Scopes /\ repaired \in BOOLEAN
    /\ \A r \in Requests : InFlight(r) =>
        /\ local[r].op \in {"createTemplate", "updateTemplate", "removeTemplate"}
            => {local[r].old, local[r].new} \subseteq TemplateDoc
        /\ Asked(r, "change") => {local[r].old, local[r].new} \subseteq TicketDoc
        /\ Asked(r, "visit") => {local[r].old, local[r].new} \subseteq VisitDoc

\* What visitors saw, and what was published, can be traced to who gave the
\* status; an event rejected or cancelled says why.
StatusIsTraced == PublicationIsTraced /\ SeenWasPublic

\* A stored document whose file the storage has lost was given to an update
\* that is still running or failed.
FilesExist == TemplateFilesExist /\ SubmissionFilesExist

\* Requests that do not overlap leave what the last of them asked for: events
\* in order of their dates, one template per ticket type, the last verdict, the
\* last list of speakers, and read one state; overlapping or not, nothing
\* nobody asked for.
LastRequestStands ==
    /\ SerialTemplatesAreExclusive /\ VerdictsStand /\ RosterIsTheList /\ SerialReadsAgree
    /\ Serial => \A e \in Events : EventIsStored(e) => events[e].starts < events[e].ends
=============================================================================
