--------------------------- MODULE MCSponsorship ---------------------------
(***************************************************************************)
(* Instances of Sponsorship for TLC.                                        *)
(***************************************************************************)
EXTENDS Sponsorship, TLC

CONSTANTS r1, r2, r3, d1, d2, u1, u2

\* d1: a participant, a pending request for quota, a single invitation.
\* d2: an invitation of several uses.
MCPlaced == [d \in Earlier |->
    [member |-> IF d = d1 THEN [state |-> "active", user |-> u1, seat |-> "quota"]
                ELSE NoMember,
     ask |-> IF d = d1 THEN [status |-> "pending", amount |-> 1] ELSE NoAsk,
     invitation |-> [stored |-> TRUE, open |-> TRUE, seat |-> "quota", uses |-> 0,
                     usage |-> IF d = d1 THEN "single" ELSE "multiple",
                     limit |-> IF d = d1 THEN 0 ELSE 1]]]

MCSymmetry == Permutations(Requests)
=============================================================================
