----------------------------- MODULE TicketTypes -----------------------------
(***************************************************************************)
(* The ticket types of events (EventTicketTypesService).                    *)
(***************************************************************************)
EXTENDS EventLife

CONSTANTS
    EarlierTypes,   \* types stored before the behaviour starts
    TypeEvent       \* TypeEvent[t]: their event

SystemRoles == {"operational_staff", "staff", "guest"}

\* A type is named by the request that creates it, and the role it is for.
Types == EarlierTypes \cup (Requests \X (SystemRoles \cup {"buyer"}))

TypeDoc == [event : Events \cup {None}, status : {"available", "paused"},
            free : BOOLEAN, sold : Nat]
NoType == [event |-> None, status |-> "available", free |-> TRUE, sold |-> 0]
TypeOf(e, free) == [NoType EXCEPT !.event = e, !.free = free]

ASSUME TypesAssumption ==
    /\ TypeEvent \in [EarlierTypes -> EarlierEvents]
    /\ EarlierTypes \cap (Requests \X (SystemRoles \cup {"buyer"})) = {}
    /\ None \notin Types

VARIABLES
    types,  \* types[t]: TicketType; event None: not stored
    issued  \* the types that tickets were issued of (TicketsService)

typeVars == <<types, issued>>

TypeIsStored(t) == types[t].event # None
TypesOf(e) == {t \in Types : types[t].event = e}

\* Mutant: the insertion is not awaited.
AnswerAtOnce(r, done) == Ends(r)

\* The event is answered when its types are stored.
AnswerCreation(r, done) == IF done = SystemRoles THEN Ends(r) ELSE Goto(r, "failed")

\* createDefaultSystemTickets, called by EventsService.create: an ordered
\* insertion of three, which may stop after any of them.
InsertSystemTypes(r) ==
    /\ pc[r] = "systemTypes"
    /\ \E done \in {{}, {"operational_staff"}, {"operational_staff", "staff"}, SystemRoles} :
        /\ types' = [t \in Types |-> IF t \in {r} \X done THEN TypeOf(r, TRUE) ELSE types[t]]
        /\ AnswerCreation(r, done)
    /\ UNCHANGED <<events, issued>>

\* createTicketType: the event is looked up, the type inserted.
CreateType(r) ==
    /\ \E e \in Events, free \in BOOLEAN :
        Start(r, IF Live(e) THEN "typeInsert" ELSE "error",
              [op |-> "createType", event |-> e, free |-> free])
    /\ UNCHANGED <<events, typeVars>>

InsertType(r) ==
    /\ pc[r] = "typeInsert"
    /\ types' = [types EXCEPT ![<<r, "buyer">>] = TypeOf(local[r].event, local[r].free)]
    /\ Ends(r)
    /\ UNCHANGED <<events, issued>>

UpdateType(r) ==
    /\ \E t \in Types, s \in {"available", "paused"} :
        Start(r, IF TypeIsStored(t) THEN "typeSet" ELSE "error",
              [op |-> "updateType", type |-> t, status |-> s])
    /\ UNCHANGED <<events, typeVars>>

\* A type deleted in between is not stored again.
SetType(r) ==
    /\ pc[r] = "typeSet"
    /\ LET t == local[r].type
       IN  \/ /\ TypeIsStored(t)
              /\ types' = [types EXCEPT ![t].status = local[r].status]
              /\ Ends(r)
           \/ ~TypeIsStored(t) /\ Goto(r, "error") /\ UNCHANGED types
    /\ UNCHANGED <<events, issued>>

\* deleteTicketType: refused when sold is positive.
DeleteType(r) ==
    /\ \E t \in Types :
        Start(r, IF TypeIsStored(t) /\ types[t].sold = 0 THEN "typeDelete" ELSE "error",
              [op |-> "deleteType", type |-> t])
    /\ UNCHANGED <<events, typeVars>>

RemoveType(r) ==
    /\ pc[r] = "typeDelete"
    /\ types' = [types EXCEPT ![local[r].type] = NoType]
    /\ Ends(r)
    /\ UNCHANGED <<events, issued>>

\* A ticket of a type is issued: no code raises the type's sold.
IssueTicket(t) ==
    /\ TypeIsStored(t) /\ t \notin issued
    /\ issued' = issued \cup {t}
    /\ UNCHANGED <<events, types, handlerVars>>

RoleOf(t) == IF t \in EarlierTypes THEN "buyer" ELSE t[2]

\* Mutant: any free type will do.
FreeTypes(e, role) ==
    LET free == {t \in TypesOf(e) : types[t].free} IN IF free # {} THEN free ELSE TypesOf(e)

\* findBestTicketTypeForInvitation: the type for the role; for a scholarship a
\* paid one; a free one; any.  Among several, their names and prices decide.
BestTypes(e, role) ==
    LET own == {t \in TypesOf(e) : RoleOf(t) = role}
        free == {t \in TypesOf(e) : types[t].free}
    IN  CASE own # {} -> own
          [] own = {} /\ role = "scholarship" /\ TypesOf(e) # free -> TypesOf(e) \ free
          [] OTHER -> IF free # {} THEN free ELSE TypesOf(e)

\* Called by the creation of an invitation.
ChooseType(r) ==
    /\ \E e \in Events, role \in SystemRoles \cup {"scholarship"} :
        LET chosen(t) == [op |-> "chooseType", event |-> e, role |-> role, type |-> t]
        IN  \/ \E t \in BestTypes(e, role) : Start(r, "ok", chosen(t))
            \/ TypesOf(e) = {} /\ Start(r, "error", chosen(None))
    /\ UNCHANGED <<events, typeVars>>

TypeArrive(r) == CreateType(r) \/ UpdateType(r) \/ DeleteType(r) \/ ChooseType(r)
TypeStep(r) == InsertType(r) \/ SetType(r) \/ RemoveType(r)
TypeLabels == {"typeInsert", "typeSet", "typeDelete"}

TypeInit ==
    /\ types = [t \in Types |-> IF t \in EarlierTypes THEN TypeOf(TypeEvent[t], FALSE) ELSE NoType]
    /\ issued = {}

(***************************************************************************)
(* Properties                                                               *)
(***************************************************************************)
TypesTypeOK == types \in [Types -> TypeDoc] /\ issued \subseteq Types

\* An event whose creation was answered has its three system types, which the
\* invitations ask for: an invitation made later has the type of its role.  A
\* type belongs to an event that was stored.
EventsHaveTypes ==
    /\ \A r \in Requests : \A q \in before[r] :
        Asked(r, "chooseType") /\ pc[q] = "ok" /\ Asked(q, "createEvent")
          /\ local[r].event = q /\ local[r].role \in SystemRoles =>
            \/ local[r].type = <<q, local[r].role>>
            \/ \E d \in Requests : Asked(d, "deleteType") /\ local[d].type = <<q, local[r].role>>
    /\ \A r \in Requests : pc[r] = "ok" /\ Asked(r, "createEvent") =>
        \A role \in SystemRoles :
            \/ types[<<r, role>>].event = r
            \/ \E q \in Requests : Asked(q, "deleteType") /\ local[q].type = <<r, role>>
    /\ \A t \in Types : TypeIsStored(t) => EventIsStored(types[t].event)

\* "Deletes a ticket type whenever it has no sales": the type of an issued
\* ticket stays.
SoldTypeStays == \A t \in issued : TypeIsStored(t)
=============================================================================
