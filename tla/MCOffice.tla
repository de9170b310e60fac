------------------------------ MODULE MCOffice ------------------------------
(***************************************************************************)
(* Instances of Office for TLC.                                             *)
(***************************************************************************)
EXTENDS Office, TLC

CONSTANTS r1, r2, r3, e1, e2, e3, t1, t2, k1, p1, s1, s2, c1, c2, q1, a1, a2, o1, u1, u2, u3

\* e1 is a draft of c1; e2, of c2, was approved, and e3 published as well, but
\* kept off the homepage; t1 and t2 belong to e2.
MCPlacedEvent ==
    [e \in EarlierEvents |->
        [company |-> IF e = e1 THEN c1 ELSE c2, slug |-> IF e = e3 THEN 1 ELSE 0,
         status |-> CASE e = e1 -> "draft" [] e = e2 -> "approved" [] e = e3 -> "published",
         explained |-> FALSE, signed |-> e # e1, home |-> e # e3, starts |-> 1, ends |-> 3]]

MCTypeEvent == [t \in EarlierTypes |-> e2]
MCTemplateTypes == [k \in EarlierTemplates |-> {t1}]
MCTemplateEvent == [k \in EarlierTemplates |-> e2]
MCGivenSlugs == {0, 1}

\* The ticket a1 was bought, a2 came with an invitation.
MCOwnerOf == [t \in Tickets |-> IF t = a1 THEN u1 ELSE u2]
MCOrderOf == [t \in Tickets |-> IF t = a1 THEN o1 ELSE None]

\* Fewer requests meet the faults, which end most handlers at once.
MCArrivalBound ==
    [s \in Scopes |-> [fixed \in BOOLEAN |->
        CASE s = "events" -> 2
          [] s = "catalog" -> IF fixed THEN 2 ELSE 1
          [] s = "door" -> IF fixed THEN 3 ELSE 2
          [] OTHER -> 3]]
MCSymmetry == Permutations(Requests)
=============================================================================
