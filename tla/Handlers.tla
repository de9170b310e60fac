------------------------------ MODULE Handlers ------------------------------
(***************************************************************************)
(* HTTP requests as their handlers run: a sequence of awaited calls, each a *)
(* step, between which any other request may run.  The modules that EXTEND  *)
(* this one say which calls a handler makes.                                *)
(***************************************************************************)
EXTENDS Naturals, FiniteSets

CONSTANTS
    Requests,   \* HTTP requests
    None        \* no document, no user, no file

ASSUME RequestsAssumption == IsFiniteSet(Requests) /\ None \notin Requests

VARIABLES
    pc,      \* pc[r]: the call r is about to make, or how it ended
    local,   \* local[r]: what r was asked and has read
    before   \* before[r]: the requests that had ended when r arrived; no action reads it

handlerVars == <<pc, local, before>>

\* "error": the handler refuses; "failed": a call was rejected.
Final == {"ok", "error", "failed"}
InFlight(r) == pc[r] \notin Final \cup {"idle"}

NoLocal == [op |-> "none"]
Asked(r, op) == local[r].op = op

\* What was read and what was about to be written are forgotten at the end.
Forget(l) == [f \in DOMAIN l \ {"old", "new"} |-> l[f]]

\* doc with the fields of `changes`: what $set leaves of it.
With(doc, changes) ==
    [f \in DOMAIN doc |-> IF f \in DOMAIN changes THEN changes[f] ELSE doc[f]]

\* A body that gives none of the fields modelled.
NoChanges == [f \in {} |-> None]

\* r arrives, asks l, and goes on at `label`.
Start(r, label, l) ==
    /\ pc[r] = "idle"
    /\ pc' = [pc EXCEPT ![r] = label]
    /\ local' = [local EXCEPT ![r] = IF label \in Final THEN Forget(l) ELSE l]
    /\ before' = [before EXCEPT ![r] = {q \in Requests : pc[q] \in Final}]

Continue(r, label, l) ==
    /\ pc' = [pc EXCEPT ![r] = label]
    /\ local' = [local EXCEPT ![r] = IF label \in Final THEN Forget(l) ELSE l]
    /\ UNCHANGED before

Goto(r, label) == Continue(r, label, local[r])

\* The last call was made; its answer may be lost.
Ends(r) == \E answer \in {"ok", "failed"} : Goto(r, answer)

\* A call is rejected: no handler undoes what it did before.  A crash leaves
\* the collections as the rejection of every call would.
Fails(r) == InFlight(r) /\ Goto(r, "failed")

HandlersInit ==
    /\ pc = [r \in Requests |-> "idle"]
    /\ local = [r \in Requests |-> NoLocal]
    /\ before = [r \in Requests |-> {}]

\* No two requests overlapped, and no call was rejected.
Serial ==
    /\ \A r \in Requests : ~InFlight(r) /\ pc[r] # "failed"
    /\ \A q, r \in Requests : pc[q] # "idle" /\ pc[r] # "idle" /\ q # r =>
            q \in before[r] \/ r \in before[q]

\* The requests of set S that arrived after all the others of S had ended.
LastOf(S) == {r \in S : S \ {r} \subseteq before[r]}

HandlersTypeOK(Labels) ==
    /\ pc \in [Requests -> Labels \cup Final \cup {"idle"}]
    /\ before \in [Requests -> SUBSET Requests]
    /\ \A r \in Requests : pc[r] = "idle" <=> Asked(r, "none")
=============================================================================
