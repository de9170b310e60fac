--------------------------- MODULE MCOrderPayment ---------------------------
(***************************************************************************)
(* Instances of OrderPayment for TLC: which requests are made (a request    *)
(* is made at most once) and the orders already placed.                     *)
(***************************************************************************)
EXTENDS OrderPayment, TLC

CONSTANTS p1, p2, c1, a1, f1, f2, h1, o1, o2

\* Two tickets for o1, so that a ticket number can be lost between two
\* tickets of the same order; one for o2.
MCUnits == [o \in Orders |-> IF o = o1 THEN 2 ELSE 1]

MCKind == [r \in Requests |->
    CASE r \in {p1, p2} -> "pay"
      [] r = c1 -> "cancel"
      [] r = a1 -> "confirm"
      [] r \in {f1, f2} -> "refund"
      [] OTHER -> "refundHook"]

\* Requests of the same kind are interchangeable.
MCSymmetry == Permutations({p1, p2} \cap Requests)
                \cup Permutations({f1, f2} \cap Requests)
=============================================================================
