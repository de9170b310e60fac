---------------------------- MODULE TicketLedger ----------------------------
(***************************************************************************)
(* What the checkout promises about money and tickets, whatever the         *)
(* interleaving of its requests: a payment gives out tickets only after the *)
(* provider took its money, one at a time, and never more than the order is *)
(* for.  Money, once taken for a payment, and tickets, once given out, stay *)
(* on the books.                                                            *)
(***************************************************************************)
EXTENDS Integers

CONSTANTS Payments, Orders

VARIABLES units, captured, issued

ledgerVars == <<units, captured, issued>>

Init ==
    /\ units \in [Orders -> Nat]
    /\ captured = [p \in Payments |-> FALSE]
    /\ issued = [p \in Payments |-> [o \in Orders |-> 0]]

\* An order is placed, for a number of tickets that will not change.
Place(o) ==
    /\ units[o] = 0
    /\ units'[o] \in Nat \ {0}
    /\ units' = [units EXCEPT ![o] = units'[o]]
    /\ UNCHANGED <<captured, issued>>

Capture(p) ==
    /\ ~captured[p]
    /\ captured' = [captured EXCEPT ![p] = TRUE]
    /\ UNCHANGED <<units, issued>>

Issue(p, o) ==
    /\ captured[p]
    /\ issued[p][o] < units[o]
    /\ issued' = [issued EXCEPT ![p][o] = @ + 1]
    /\ UNCHANGED <<units, captured>>

Next ==
    \/ \E o \in Orders : Place(o)
    \/ \E p \in Payments : Capture(p)
    \/ \E p \in Payments, o \in Orders : Issue(p, o)

Spec == Init /\ [][Next]_ledgerVars
=============================================================================
