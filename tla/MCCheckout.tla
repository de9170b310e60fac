----------------------------- MODULE MCCheckout -----------------------------
(***************************************************************************)
(* Instances of Checkout for TLC.                                           *)
(***************************************************************************)
EXTENDS Checkout, TLC

CONSTANTS
    i1, i2,    \* instant payments
    k1, k2,    \* checkouts
    b1,        \* addition to the cart
    u1,        \* update of a quantity
    x1,        \* removal of a row
    p1, a1,    \* pay, confirm
    f1, f2,    \* refunds
    h1,        \* the provider's refund event
    o1, o2, o3, o4, t1, t2, w1, w2, w3

\* No order is placed at the start: every order comes from the cart.
MCUnits == [o \in Orders |-> 0]

MCKind == [r \in Requests |->
    CASE r \in {i1, i2} -> "instant"
      [] r \in {k1, k2} -> "checkout"
      [] r = b1 -> "addToCart"
      [] r = u1 -> "updateCart"
      [] r = x1 -> "removeFromCart"
      [] r = p1 -> "pay"
      [] r = a1 -> "confirm"
      [] r \in {f1, f2} -> "refund"
      [] OTHER -> "refundHook"]

\* The rows w1 and w2 are in the cart at the start; w3 can be added.
MCRows == [w \in Rows |-> IF w = w1 THEN 2 ELSE IF w = w2 THEN 1 ELSE 0]
\* Two orders of one ticket each.
MCSingleRows == [w \in Rows |-> 1]
MCTypeOf == [w \in Rows |-> IF w = w2 THEN t2 ELSE t1]
MCStock == [t \in Types |-> 3]

MCSymmetry ==
    Permutations({i1, i2} \cap Requests) \cup Permutations({k1, k2} \cap Requests)
      \cup Permutations({f1, f2} \cap Requests)
      \cup Permutations(Orders)
=============================================================================
