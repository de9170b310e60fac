---------------------------- MODULE HandlerProofs ----------------------------
(***************************************************************************)
(* Lemmas about requests whatever they ask for: what one of them changes,   *)
(* that the others stay, and what is known when none of them overlapped.    *)
(***************************************************************************)
EXTENDS Handlers, FiniteSetTheorems, TLAPS

(***************************************************************************)
(* What holds of the requests of any handlers, whose calls are Labels.      *)
(***************************************************************************)
Here(Labels) ==
    /\ pc \in [Requests -> Labels \cup Final \cup {"idle"}]
    /\ before \in [Requests -> SUBSET Requests]
    /\ DOMAIN local = Requests
    /\ \A r \in Requests : /\ pc[r] = "idle" <=> Asked(r, "none")
                           /\ pc[r] = "idle" => before[r] = {} /\ local[r] = NoLocal
                           /\ \A q \in before[r] : pc[q] \in Final

\* It holds before any request,
LEMMA HereInit ==
  ASSUME NEW Labels, HandlersInit
  PROVE  Here(Labels)
BY DEF HandlersInit, Here, NoLocal, Asked

\* and says of which types the requests are.
LEMMA HereTypes ==
  ASSUME NEW Labels, Here(Labels)
  PROVE  HandlersTypeOK(Labels)
BY DEF HandlersTypeOK, Here

(***************************************************************************)
(* One request moves: r goes on at `label`, as l.                           *)
(***************************************************************************)
Went(r, label, l) ==
    /\ pc[r] \notin Final /\ pc'[r] = label
    /\ label \notin Final => local'[r] = l
    /\ label \in Final => /\ DOMAIN local'[r] = DOMAIN l \ {"old", "new"}
                          /\ \A f \in DOMAIN l \ {"old", "new"} : local'[r][f] = l[f]
    /\ \A f \in DOMAIN l \ {"old", "new"} : f \in DOMAIN local'[r] /\ local'[r][f] = l[f]
    /\ before'[r] = IF pc[r] = "idle" THEN {q \in Requests : pc[q] \in Final} ELSE before[r]
    /\ \A q \in Requests \ {r} : pc'[q] = pc[q] /\ local'[q] = local[q] /\ before'[q] = before[q]

\* What is forgotten at the end is not what the properties read.
LEMMA ForgetLeaves ==
  ASSUME NEW l
  PROVE  /\ DOMAIN Forget(l) = DOMAIN l \ {"old", "new"}
         /\ \A f \in DOMAIN l \ {"old", "new"} : Forget(l)[f] = l[f]
BY DEF Forget

\* A request that moves stays among them.
LEMMA MoveIsHere ==
  ASSUME NEW Labels, Labels \cap (Final \cup {"idle"}) = {}, Here(Labels), NEW r \in Requests,
         NEW label \in Labels \cup Final, NEW l, "op" \in DOMAIN l, l.op # "none",
         pc[r] \notin Final,
         pc' = [pc EXCEPT ![r] = label],
         local' = [local EXCEPT ![r] = IF label \in Final THEN Forget(l) ELSE l],
         before' = [before EXCEPT ![r] = IF pc[r] = "idle" THEN {q \in Requests : pc[q] \in Final}
                                         ELSE before[r]]
  PROVE  Here(Labels)' /\ Went(r, label, l)
<1>1. label # "idle"
  BY DEF Final
<1>2. /\ pc'[r] = label /\ local'[r] = IF label \in Final THEN Forget(l) ELSE l
      /\ before'[r] = IF pc[r] = "idle" THEN {q \in Requests : pc[q] \in Final} ELSE before[r]
      /\ \A q \in Requests \ {r} : pc'[q] = pc[q] /\ local'[q] = local[q] /\ before'[q] = before[q]
  BY DEF Here
<1>3. Went(r, label, l)
  <2>1. CASE label \in Final
    <3>0. local'[r] = Forget(l)
      BY <1>2, <2>1
    <3>1. /\ DOMAIN local'[r] = DOMAIN l \ {"old", "new"}
          /\ \A f \in DOMAIN l \ {"old", "new"} : local'[r][f] = l[f]
      BY <3>0, ForgetLeaves
    <3> QED
      BY <1>2, <2>1, <3>1 DEF Went
  <2>2. CASE label \notin Final
    BY <1>2, <2>2 DEF Went
  <2> QED
    BY <2>1, <2>2
<1>4. local'[r].op # "none"
  BY <1>3 DEF Went
<1>5. \A q \in Requests : pc[q] \in Final => pc'[q] = pc[q]
  BY <1>2
<1>6. /\ pc' \in [Requests -> Labels \cup Final \cup {"idle"}]
      /\ before' \in [Requests -> SUBSET Requests] /\ DOMAIN local' = Requests
  BY DEF Here
<1>7. ASSUME NEW p \in Requests
      PROVE  /\ pc'[p] = "idle" <=> local'[p].op = "none"
             /\ pc'[p] = "idle" => before'[p] = {} /\ local'[p] = NoLocal
             /\ \A q \in before'[p] : pc'[q] \in Final
  <2>1. CASE p = r
    BY <1>1, <1>2, <1>4, <1>5, <2>1 DEF Here
  <2>2. CASE p # r
    BY <1>2, <1>5, <2>2 DEF Here, Asked
  <2> QED
    BY <2>1, <2>2
<1> QED
  BY <1>3, <1>6, <1>7 DEF Here, Asked

\* A request arrives.
LEMMA Starts ==
  ASSUME NEW Labels, Labels \cap (Final \cup {"idle"}) = {}, Here(Labels), NEW r \in Requests,
         NEW label \in Labels \cup Final, NEW l, "op" \in DOMAIN l, l.op # "none",
         Start(r, label, l)
  PROVE  Here(Labels)' /\ Went(r, label, l) /\ pc[r] = "idle" /\ local[r] = NoLocal
<1>1. pc[r] = "idle" /\ pc[r] \notin Final /\ local[r] = NoLocal
  BY DEF Start, Final, Here
<1>2. before' = [before EXCEPT ![r] = IF pc[r] = "idle" THEN {q \in Requests : pc[q] \in Final}
                                      ELSE before[r]]
  BY <1>1 DEF Start
<1> QED
  BY <1>1, <1>2, MoveIsHere DEF Start

\* A request goes on.
LEMMA Continues ==
  ASSUME NEW Labels, Labels \cap (Final \cup {"idle"}) = {}, Here(Labels), NEW r \in Requests,
         InFlight(r),
         NEW label \in Labels \cup Final, NEW l, "op" \in DOMAIN l, l.op # "none",
         Continue(r, label, l)
  PROVE  Here(Labels)' /\ Went(r, label, l) /\ pc[r] \in Labels
<1>1. pc[r] \notin Final /\ pc[r] # "idle"
  BY DEF InFlight
<1>2. before' = [before EXCEPT ![r] = IF pc[r] = "idle" THEN {q \in Requests : pc[q] \in Final}
                                      ELSE before[r]]
  BY <1>1 DEF Continue, Here
<1>3. Here(Labels)' /\ Went(r, label, l)
  BY <1>1, <1>2, MoveIsHere DEF Continue
<1> QED
  BY <1>1, <1>3 DEF Here

(***************************************************************************)
(* Requests that did not overlap.                                           *)
(***************************************************************************)
\* So far no call was rejected, and no two requests overlapped: at most one of
\* them is in flight, and the others had ended when it arrived.
SerialSoFar ==
    /\ \A r \in Requests : pc[r] # "failed"
    /\ \A q, r \in Requests : pc[q] # "idle" /\ pc[r] # "idle" /\ q # r =>
            q \in before[r] \/ r \in before[q]

\* Requests that never overlapped had not so far.
LEMMA SerialIsSoFar ==
  ASSUME Serial
  PROVE  SerialSoFar /\ \A r \in Requests : pc[r] # "failed" /\ ~InFlight(r)
BY DEF Serial, SerialSoFar

\* r moves, wherever it goes.
MoveOf(r) ==
    /\ pc[r] \notin Final /\ pc'[r] # "idle"
    /\ before'[r] = IF pc[r] = "idle" THEN {q \in Requests : pc[q] \in Final} ELSE before[r]
    /\ \A q \in Requests \ {r} : pc'[q] = pc[q] /\ local'[q] = local[q] /\ before'[q] = before[q]

\* Whoever goes on has moved.
LEMMA WentMoved ==
  ASSUME NEW r \in Requests, NEW label, NEW l, Went(r, label, l), label # "idle"
  PROVE  MoveOf(r)
BY DEF Went, MoveOf

\* The one that moves is alone, and they had not overlapped before.
LEMMA MovesAlone ==
  ASSUME NEW Labels, Here(Labels), Here(Labels)', NEW r \in Requests, MoveOf(r), SerialSoFar'
  PROVE  /\ SerialSoFar
         /\ \A q \in Requests \ {r} : ~InFlight(q) /\ (pc[q] # "idle" => q \in before'[r])
         /\ pc'[r] # "failed"
<1>1. pc'[r] # "failed" /\ \A q \in Requests : pc[q] # "failed"
  BY DEF SerialSoFar, MoveOf, Final
<1>2. ASSUME NEW q \in Requests \ {r}, pc[q] # "idle"
      PROVE  q \in before'[r] /\ pc[q] \in Final
  <2>1. r \notin before'[q]
    <3>1. before'[q] = before[q]
      BY <1>2 DEF MoveOf
    <3> QED
      BY <1>2, <3>1 DEF MoveOf, Here
  <2>2. q \in before'[r]
    BY <1>2, <2>1 DEF MoveOf, SerialSoFar
  <2>3. pc'[q] \in Final
    BY <2>2 DEF Here
  <2> QED
    BY <1>2, <2>2, <2>3 DEF MoveOf
<1>3. ASSUME NEW p \in Requests, NEW q \in Requests, pc[p] # "idle", pc[q] # "idle", p # q
      PROVE  p \in before[q] \/ q \in before[p]
  <2>1. CASE p # r /\ q # r
    BY <1>3, <2>1 DEF MoveOf, SerialSoFar
  <2>2. CASE p = r \/ q = r
    <3>1. pc[r] # "idle" /\ before'[r] = before[r]
      BY <1>3, <2>2 DEF MoveOf
    <3> QED
      BY <1>2, <1>3, <2>2, <3>1
  <2> QED
    BY <2>1, <2>2
<1> QED
  BY <1>1, <1>2, <1>3 DEF SerialSoFar, InFlight


(***************************************************************************)
(* What requests ask.                                                       *)
(***************************************************************************)
AsksOnly(Ops) ==
    \A r \in Requests : "op" \in DOMAIN local[r] /\ local[r].op \in Ops \cup {"none"}

\* Nothing is asked at first.
LEMMA AsksInit ==
  ASSUME NEW Ops, HandlersInit
  PROVE  AsksOnly(Ops)
BY DEF HandlersInit, AsksOnly, NoLocal

\* A request that moves asks what it says, and the others what they did.
LEMMA MoveAsks ==
  ASSUME NEW Labels, NEW Ops, Here(Labels), AsksOnly(Ops), NEW r \in Requests,
         NEW label, NEW l, "op" \in DOMAIN l, l.op \in Ops, Went(r, label, l)
  PROVE  AsksOnly(Ops)'
<1>1. "op" \in DOMAIN local'[r] /\ local'[r].op = l.op
  BY DEF Went
<1>2. \A q \in Requests \ {r} : local'[q] = local[q]
  BY DEF Went
<1>3. ASSUME NEW q \in Requests
      PROVE  "op" \in DOMAIN local'[q] /\ local'[q].op \in Ops \cup {"none"}
  BY <1>1, <1>2 DEF AsksOnly
<1> QED
  BY <1>3 DEF AsksOnly

\* So does one that arrives,
LEMMA StartAsks ==
  ASSUME NEW Labels, Labels \cap (Final \cup {"idle"}) = {}, Here(Labels),
         NEW Ops, "none" \notin Ops, AsksOnly(Ops), NEW r \in Requests,
         NEW label \in Labels \cup Final, NEW l, "op" \in DOMAIN l, l.op \in Ops,
         Start(r, label, l)
  PROVE  Here(Labels)' /\ AsksOnly(Ops)'
<1>1. Here(Labels)' /\ Went(r, label, l)
  <2>1. l.op # "none"
    OBVIOUS
  <2> QED
    BY <2>1, Starts
<1> QED
  BY <1>1, MoveAsks

\* and one that goes on.
LEMMA ContinueAsks ==
  ASSUME NEW Labels, Labels \cap (Final \cup {"idle"}) = {}, Here(Labels),
         NEW Ops, "none" \notin Ops, AsksOnly(Ops), NEW r \in Requests, InFlight(r),
         NEW label \in Labels \cup Final, NEW l, "op" \in DOMAIN l, l.op \in Ops,
         Continue(r, label, l)
  PROVE  Here(Labels)' /\ AsksOnly(Ops)'
<1>1. Here(Labels)' /\ Went(r, label, l)
  <2>1. l.op # "none"
    OBVIOUS
  <2> QED
    BY <2>1, Continues
<1> QED
  BY <1>1, MoveAsks

\* A request that goes on to another call asks what it asked.
LEMMA GotoAsks ==
  ASSUME NEW Labels, Labels \cap (Final \cup {"idle"}) = {}, Here(Labels),
         NEW Ops, "none" \notin Ops, AsksOnly(Ops), NEW r \in Requests, InFlight(r),
         NEW label \in Labels \cup Final, Goto(r, label)
  PROVE  Here(Labels)' /\ AsksOnly(Ops)'
<1>1. "op" \in DOMAIN local[r] /\ local[r].op \in Ops
  BY DEF AsksOnly, Here, InFlight, Asked
<1> QED
  BY <1>1, ContinueAsks DEF Goto
=============================================================================
