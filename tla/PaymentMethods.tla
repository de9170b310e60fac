--------------------------- MODULE PaymentMethods ---------------------------
(***************************************************************************)
(* The methods a company, or the platform, accepts payments by              *)
(* (PaymentMethodsService).                                                 *)
(***************************************************************************)
EXTENDS Handlers

CONSTANTS
    EarlierMethods,  \* methods stored before the behaviour starts
    MethodOwners     \* the companies; None: the method is the platform's

ASSUME MethodsAssumption == EarlierMethods \cap Requests = {}

Methods == Requests \cup EarlierMethods

MethodDoc == [status : {"none", "active", "deleted"}, enabled : BOOLEAN,
              owner : MethodOwners \cup {None}]
NoMethod == [status |-> "none", enabled |-> TRUE, owner |-> None]

VARIABLES methods  \* methods[k]: PaymentMethod; "none": not stored

CreateMethod(r) ==
    /\ \E owner \in MethodOwners \cup {None}, enabled \in BOOLEAN, label \in {"ok", "failed"} :
        /\ Start(r, label, [op |-> "createMethod"])
        /\ methods' = [methods EXCEPT ![r] =
                [status |-> "active", enabled |-> enabled, owner |-> owner]]

\* findOne, then save: every change of a method reads it first.
ReadMethod(r, op, k, new) ==
    /\ Start(r, IF methods[k].status = "active" THEN "methodSave" ELSE "error",
             [op |-> op, method |-> k, old |-> methods[k], new |-> new])
    /\ UNCHANGED methods

\* An update gives no company or another one: it cannot take it away.
UpdateMethod(r) ==
    \E k \in Methods, owner \in MethodOwners, enabled \in BOOLEAN :
        \/ ReadMethod(r, "updateMethod", k, [methods[k] EXCEPT !.owner = owner])
        \/ ReadMethod(r, "updateMethod", k, [methods[k] EXCEPT !.enabled = enabled])

DeleteMethod(r) ==
    \E k \in Methods : ReadMethod(r, "deleteMethod", k, [methods[k] EXCEPT !.status = "deleted"])

ToggleMethod(r) ==
    \E k \in Methods : ReadMethod(r, "toggleMethod", k, [methods[k] EXCEPT !.enabled = ~@])

\* Mutant: the whole document is written back.
MethodSavedWhole(stored, old, new) == new

\* save(): the fields changed since the method was read.
MethodSaved(stored, old, new) ==
    [f \in DOMAIN stored |-> IF new[f] = old[f] THEN stored[f] ELSE new[f]]

SaveMethod(r) ==
    /\ pc[r] = "methodSave"
    /\ LET l == local[r]
       IN  methods' = [methods EXCEPT ![l.method] = MethodSaved(@, l.old, l.new)]
    /\ Ends(r)

\* getAvailablePaymentMethods: the company's and the platform's.
Available(owner) ==
    {k \in Methods : methods[k].status = "active" /\ methods[k].enabled
                        /\ methods[k].owner \in {owner, None}}

ListMethods(r) ==
    /\ \E owner \in MethodOwners \cup {None} :
        Start(r, "ok", [op |-> "listMethods", found |-> Available(owner)])
    /\ UNCHANGED methods

MethodArrive(r) ==
    \/ CreateMethod(r) \/ UpdateMethod(r) \/ DeleteMethod(r) \/ ToggleMethod(r) \/ ListMethods(r)

MethodInit ==
    methods = [k \in Methods |->
        IF k \in EarlierMethods THEN [NoMethod EXCEPT !.status = "active"] ELSE NoMethod]

(***************************************************************************)
(* Properties                                                               *)
(***************************************************************************)
MethodTypeOK == methods \in [Methods -> MethodDoc]

\* A deleted method is offered to nobody again, whatever was read of it
\* before; toggles that do not overlap each turn it over.
MethodsObey ==
    /\ \A k \in Methods, q \in Requests :
        Asked(q, "deleteMethod") /\ local[q].method = k /\ pc[q] = "ok" =>
            methods[k].status = "deleted"
    /\ Serial => \A k \in EarlierMethods :
        LET on(op) == {r \in Requests : Asked(r, op) /\ local[r].method = k /\ pc[r] = "ok"}
        IN  on("updateMethod") = {} =>
                methods[k].enabled = (Cardinality(on("toggleMethod")) % 2 = 0)
=============================================================================
