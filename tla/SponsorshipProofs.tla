--------------------------- MODULE SponsorshipProofs --------------------------
(***************************************************************************)
(* Theorems about Sponsorship, for any sets of requests, documents and     *)
(* accounts, and any quota.  First, every action keeps the types, and how  *)
(* one request moves: what its first step finds, and what each later call  *)
(* says of the one before; the other requests stay.  Then the invariant,   *)
(* and what is exact as long as requests do not overlap.                   *)
(***************************************************************************)
EXTENDS Sponsorship, FiniteSetTheorems, TLAPS

USE DEF sponsorVars, memberVars, inviteVars, allVars, Goto, Begin

Frames == [user : People \cup {None}, seat : Seats,
           target : Docs \cup {None}, inv : Docs \cup {None},
           ask : Docs \cup {None}, verdict : Verdicts, num : Nat,
           sp : [old : SponsorDoc, new : SponsorDoc],
           iv : [old : InvitationDoc, new : InvitationDoc]]

\* The frame of a request that ends.
EndFrame(f) == [NoFrame EXCEPT !.inv = f.inv, !.ask = f.ask, !.verdict = f.verdict,
                   !.target = IF f.verdict = "pending" THEN None ELSE f.target]

\* No frame is a frame,
LEMMA NoFrameTypes == NoFrame \in Frames
<1>1. NoSponsor \in SponsorDoc
  BY DEF NoSponsor, SponsorDoc
<1>2. NoInvitation \in InvitationDoc
  BY DEF NoInvitation, InvitationDoc, Usages, Seats
<1> QED
  BY <1>1, <1>2 DEF NoFrame, Frames, Draft, Seats, Verdicts

\* so is one that ends.
LEMMA EndFrameTypes ==
  ASSUME NEW f \in Frames
  PROVE  EndFrame(f) \in Frames
<1>1. PICK t : t = IF f.verdict = "pending" THEN None ELSE f.target
  OBVIOUS
<1>2. t \in Docs \cup {None}
  BY <1>1 DEF Frames
<1>3. PICK g : g = NoFrame
  OBVIOUS
<1>4. PICK h : h = EndFrame(f)
  OBVIOUS
<1>5. h = [g EXCEPT !.inv = f.inv, !.ask = f.ask, !.verdict = f.verdict, !.target = t]
  BY <1>1, <1>3, <1>4 DEF EndFrame
<1>6. g \in Frames
  BY <1>3, NoFrameTypes
<1>7. h \in Frames
  BY <1>2, <1>5, <1>6 DEF Frames
<1> QED
  BY <1>4, <1>7

\* What is known of all requests after r went on.
Moved(r, label, f) ==
    /\ pc' = [pc EXCEPT ![r] = label]
    /\ frame' = [frame EXCEPT ![r] = IF label \in Final THEN EndFrame(f) ELSE f]

\* A request that goes on moves.
LEMMA ContinueMoves ==
  ASSUME NEW r, NEW label, NEW f, Continue(r, label, f)
  PROVE  Moved(r, label, f)
BY DEF Continue, Moved, EndFrame

\* A move keeps the frames.
LEMMA MovedTypes ==
  ASSUME SponsorTypeOK, NEW r \in Requests, NEW label \in Labels, NEW f \in Frames,
         Moved(r, label, f)
  PROVE  pc' \in [Requests -> Labels] /\ frame' \in [Requests -> Frames]
BY EndFrameTypes DEF SponsorTypeOK, Moved, Frames

(***************************************************************************)
(* Types.                                                                   *)
(***************************************************************************)
LEMMA InitTypes == SponsorInit => SponsorTypeOK
<1> SUFFICES ASSUME SponsorInit PROVE SponsorTypeOK
  OBVIOUS
<1>1. NoFrame \in Frames /\ NoMember \in MemberDoc /\ NoAsk \in AskDoc
      /\ NoInvitation \in InvitationDoc /\ NoSponsor \in SponsorDoc
  BY NoFrameTypes DEF NoMember, MemberDoc, Seats, NoAsk, AskDoc, NoInvitation, InvitationDoc,
     Usages, NoSponsor, SponsorDoc
<1>2. PICK running \in BOOLEAN :
        LET doc(d) == IF running /\ d \in Earlier THEN Placed[d]
                      ELSE [member |-> NoMember, ask |-> NoAsk, invitation |-> NoInvitation]
        IN  /\ member = [d \in Docs |-> doc(d).member]
            /\ ask = [d \in Docs |-> doc(d).ask]
            /\ invitation = [d \in Docs |-> doc(d).invitation]
            /\ sponsor = IF ~running THEN NoSponsor
                         ELSE [stored |-> TRUE, active |-> TRUE, quota |-> PlacedQuota,
                               used |-> Cardinality({d \in Earlier :
                                  Placed[d].member.state = "active"
                                    /\ Placed[d].member.seat = "quota"})]
  BY DEF SponsorInit
<1>3. member \in [Docs -> MemberDoc] /\ ask \in [Docs -> AskDoc]
      /\ invitation \in [Docs -> InvitationDoc]
  BY <1>1, <1>2, PlacedAssumption DEF Docs
<1>4. sponsor \in SponsorDoc
  <2> DEFINE held == {d \in Earlier : Placed[d].member.state = "active"
                                        /\ Placed[d].member.seat = "quota"}
  <2>1. held \subseteq Docs
    BY DEF Docs
  <2>2. IsFiniteSet(held)
    BY <2>1, FinitenessAssumption, FS_Subset
  <2>3. Cardinality(held) \in Nat
    BY <2>2, FS_CardinalityType
  <2> HIDE DEF held
  <2>4. [stored |-> TRUE, active |-> TRUE, quota |-> PlacedQuota, used |-> Cardinality(held)]
          \in SponsorDoc
    BY <2>3, QuotaAssumption DEF SponsorDoc
  <2> QED
    BY <1>1, <1>2, <2>4 DEF held
<1>5. /\ listed \in [Docs -> SUBSET Docs] /\ accounts \subseteq Requests
      /\ tickets \subseteq Docs /\ attached \subseteq tickets /\ lastTicket \in Nat
      /\ pc \in [Requests -> Labels] /\ before \in [Requests -> SUBSET Requests]
      /\ frame \in [Requests -> Frames]
  BY <1>1 DEF SponsorInit, Labels
<1> QED
  BY <1>3, <1>4, <1>5 DEF SponsorTypeOK, Frames

\* The quotas asked for are numbers.
LEMMA BoundIsNat == \A q : q \in 0 .. MaxQuota \/ q \in 1 .. MaxQuota => q \in Nat
BY QuotaAssumption

\* What the types say of one request.
LEMMA Typed ==
  ASSUME SponsorTypeOK
  PROVE  /\ frame \in [Requests -> Frames] /\ pc \in [Requests -> Labels]
         /\ Requests \subseteq Docs /\ Users \subseteq People /\ Requests \subseteq People
BY DEF SponsorTypeOK, Frames, Docs, People

\* A request goes on, and the collections stay.
LEMMA QuietTypes ==
  ASSUME SponsorTypeOK, NEW r \in Requests, NEW label \in Labels, NEW f \in Frames,
         Continue(r, label, f), before' \in [Requests -> SUBSET Requests],
         UNCHANGED <<sponsorVars, memberVars, inviteVars>>
  PROVE  SponsorTypeOK'
<1>1. pc' \in [Requests -> Labels] /\ frame' \in [Requests -> Frames]
  BY ContinueMoves, MovedTypes
<1> QED
  BY <1>1 DEF SponsorTypeOK, Frames

\* The two may read the sponsor.
LEMMA DraftTypes ==
  ASSUME NEW f \in Frames, NEW s \in SponsorDoc, NEW t \in SponsorDoc
  PROVE  [f EXCEPT !.sp = Draft(s, t)] \in Frames
BY DEF Frames, Draft

\* An offer is an invitation.
LEMMA OfferTypes ==
  ASSUME NEW f \in Frames, NEW i \in InvitationDoc, NEW j \in InvitationDoc
  PROVE  [f EXCEPT !.iv = Draft(i, j)] \in Frames
BY DEF Frames, Draft

\* The routes of the sponsors keep the types,
LEMMA SponsorRouteTypes ==
  ASSUME SponsorTypeOK, NEW r \in Requests, SponsorRoutes(r)
  PROVE  SponsorTypeOK'
<1>0. before' \in [Requests -> SUBSET Requests] /\ sponsor \in SponsorDoc /\ frame[r] \in Frames
  BY Typed DEF SponsorTypeOK, SponsorRoutes, AddSponsor, UpdateQuotas, RemoveSponsor
<1>1. CASE AddSponsor(r)
  <2>1. PICK label \in Labels : Goto(r, label)
    BY <1>1 DEF AddSponsor, Labels, Final
  <2> QED
    BY <1>0, <1>1, <2>1, QuietTypes DEF AddSponsor
<1>2. CASE UpdateQuotas(r)
  <2>1. PICK q \in 0 .. MaxQuota, active \in BOOLEAN :
        \/ /\ q >= sponsor.used \/ q = sponsor.quota
           /\ Continue(r, "sponsorSave", [frame[r] EXCEPT !.sp =
                Draft(sponsor, [sponsor EXCEPT !.quota = q, !.active = active])])
        \/ q < sponsor.used /\ Goto(r, "error")
    BY <1>2 DEF UpdateQuotas
  <2>2. [sponsor EXCEPT !.quota = q, !.active = active] \in SponsorDoc
    BY <1>0, BoundIsNat DEF SponsorDoc
  <2>3. PICK label \in Labels, f \in Frames : Continue(r, label, f)
    BY <1>0, <2>1, <2>2, DraftTypes DEF Labels, Final
  <2> QED
    BY <1>0, <1>2, <2>3, QuietTypes DEF UpdateQuotas
<1>3. CASE RemoveSponsor(r)
  <2>1. [sponsor EXCEPT !.active = FALSE] \in SponsorDoc
    BY <1>0 DEF SponsorDoc
  <2>2. PICK label \in Labels, f \in Frames : Continue(r, label, f)
    BY <1>0, <1>3, <2>1, DraftTypes DEF RemoveSponsor, Labels, Final
  <2> QED
    BY <1>0, <1>3, <2>2, QuietTypes DEF RemoveSponsor
<1> QED
  BY <1>1, <1>2, <1>3 DEF SponsorRoutes

\* those of the quotas,
LEMMA QuotaRouteTypes ==
  ASSUME SponsorTypeOK, NEW r \in Requests, QuotaRoutes(r)
  PROVE  SponsorTypeOK'
<1>0. before' \in [Requests -> SUBSET Requests] /\ frame[r] \in Frames
  BY Typed DEF SponsorTypeOK, QuotaRoutes, Ask, Review
<1>1. CASE Ask(r)
  <2>1. PICK label \in Labels : Goto(r, label)
    BY <1>1 DEF Ask, Labels, Final
  <2> QED
    BY <1>0, <1>1, <2>1, QuietTypes DEF Ask
<1>2. CASE Review(r)
  <2>1. PICK a \in Docs, v \in Verdicts, n \in 1 .. MaxQuota :
          Continue(r, CASE ~Reviewable(a) -> "error"
                        [] Reviewable(a) /\ v = "approved" -> "grant"
                        [] OTHER -> "askSave",
                   [frame[r] EXCEPT !.ask = a, !.verdict = v, !.num = n])
    BY <1>2 DEF Review
  <2>2. n \in Nat /\ [frame[r] EXCEPT !.ask = a, !.verdict = v, !.num = n] \in Frames
    BY <1>0, BoundIsNat DEF Frames
  <2>3. (CASE ~Reviewable(a) -> "error"
           [] Reviewable(a) /\ v = "approved" -> "grant"
           [] OTHER -> "askSave") \in Labels
    BY DEF Labels, Final
  <2> QED
    BY <1>0, <1>2, <2>1, <2>2, <2>3, QuietTypes DEF Review
<1> QED
  BY <1>1, <1>2 DEF QuotaRoutes

\* of the participants,
LEMMA ParticipantRouteTypes ==
  ASSUME SponsorTypeOK, NEW r \in Requests, ParticipantRoutes(r)
  PROVE  SponsorTypeOK'
<1>0. before' \in [Requests -> SUBSET Requests] /\ frame[r] \in Frames
  BY Typed DEF SponsorTypeOK, ParticipantRoutes, Register, AssignStaff, RemoveStaff, Cancel
<1>1. ASSUME NEW u \in Users, NEW seat \in Seats
      PROVE  [frame[r] EXCEPT !.user = u, !.seat = seat] \in Frames
  BY <1>0 DEF Frames, People
<1>2. ASSUME NEW d \in Docs PROVE [frame[r] EXCEPT !.target = d] \in Frames
  BY <1>0 DEF Frames
<1>3. CASE Register(r)
  <2>1. PICK label \in Labels, f \in Frames : Continue(r, label, f)
    BY <1>1, <1>3 DEF Register, SeatCheck, Labels, Final
  <2> QED
    BY <1>0, <1>3, <2>1, QuietTypes DEF Register
<1>4. CASE AssignStaff(r)
  <2>1. PICK label \in Labels, f \in Frames : Continue(r, label, f)
    BY <1>1, <1>4 DEF AssignStaff, Seats, Labels, Final
  <2> QED
    BY <1>0, <1>4, <2>1, QuietTypes DEF AssignStaff
<1>5. CASE RemoveStaff(r) \/ Cancel(r)
  <2>1. PICK label \in Labels, f \in Frames : Continue(r, label, f)
    BY <1>2, <1>5 DEF RemoveStaff, Cancel, Labels, Final
  <2> QED
    BY <1>0, <1>5, <2>1, QuietTypes DEF RemoveStaff, Cancel
<1> QED
  BY <1>3, <1>4, <1>5 DEF ParticipantRoutes

\* of the invitations,
LEMMA InvitationRouteTypes ==
  ASSUME SponsorTypeOK, NEW r \in Requests, InvitationRoutes(r)
  PROVE  SponsorTypeOK'
<1>0. /\ before' \in [Requests -> SUBSET Requests] /\ frame[r] \in Frames
      /\ invitation \in [Docs -> InvitationDoc] /\ NoInvitation \in InvitationDoc
      /\ UNCHANGED <<sponsorVars, memberVars, inviteVars>>
  <2>1. /\ before' = [before EXCEPT ![r] = {q \in Requests : pc[q] \in Final}]
        /\ UNCHANGED <<sponsorVars, memberVars, inviteVars>>
    BY DEF InvitationRoutes, Invite, InviteMany, EditInvitation, CloseInvitation
  <2>2. NoInvitation \in InvitationDoc
    BY DEF NoInvitation, InvitationDoc, Usages, Seats
  <2> QED
    BY <2>1, <2>2, Typed DEF SponsorTypeOK
<1>1. ASSUME NEW usage \in Usages, NEW seat \in {"quota", "staff"}, NEW limit \in 0 .. MaxQuota,
             NEW allowed \in BOOLEAN, Offers(r, usage, seat, limit, allowed)
      PROVE  SponsorTypeOK'
  <2> DEFINE new == [stored |-> TRUE, open |-> TRUE, usage |-> usage, seat |-> seat,
                     limit |-> IF usage = "multiple" THEN limit ELSE 0, uses |-> 0]
  <2>1. new \in InvitationDoc
    BY QuotaAssumption DEF InvitationDoc, Seats
  <2> HIDE DEF new
  <2>2. [frame[r] EXCEPT !.iv = Draft(NoInvitation, new)] \in Frames
    BY <1>0, <2>1, OfferTypes
  <2>3. PICK label \in Labels :
            Continue(r, label, [frame[r] EXCEPT !.iv = Draft(NoInvitation, new)])
    BY <1>1 DEF Offers, Labels, Final, new
  <2> QED
    BY <1>0, <2>2, <2>3, QuietTypes
<1>2. CASE Invite(r)
  <2>1. PICK usage \in Usages, seat \in {"quota", "staff"}, limit \in 1 .. MaxQuota :
            Offers(r, usage, seat, limit, Invitable(usage, limit))
    BY <1>2 DEF Invite
  <2>2. limit \in 0 .. MaxQuota /\ Invitable(usage, limit) \in BOOLEAN
    BY QuotaAssumption DEF Invitable
  <2> QED
    BY <1>1, <2>1, <2>2
<1>3. CASE InviteMany(r)
  <2>1. PICK seat \in {"quota", "staff"}, n \in 1 .. MaxQuota :
            Offers(r, "single", seat, 0, sponsor.stored /\ sponsor.active /\ n <= Available)
    BY <1>3 DEF InviteMany
  <2>2. 0 \in 0 .. MaxQuota /\ "single" \in Usages
        /\ (sponsor.stored /\ sponsor.active /\ n <= Available) \in BOOLEAN
    BY QuotaAssumption DEF Usages
  <2> QED
    BY <1>1, <2>1, <2>2
<1>4. ASSUME NEW i \in Docs, NEW new \in InvitationDoc, NEW label \in Labels,
             Continue(r, label, [frame[r] EXCEPT !.target = i, !.iv = Draft(invitation[i], new)])
      PROVE  SponsorTypeOK'
  <2>1. [frame[r] EXCEPT !.target = i, !.iv = Draft(invitation[i], new)] \in Frames
    BY <1>0 DEF Frames, Draft
  <2> QED
    BY <1>0, <1>4, <2>1, QuietTypes
<1>5. CASE EditInvitation(r)
  <2>1. PICK i \in Docs, limit \in 0 .. MaxQuota, open \in BOOLEAN :
          Continue(r, IF limit >= invitation[i].uses \/ limit = invitation[i].limit
                       THEN "editSave" ELSE "error",
                    [frame[r] EXCEPT !.target = i, !.iv = Draft(invitation[i],
                        [invitation[i] EXCEPT !.limit = limit, !.open = open])])
    BY <1>5 DEF EditInvitation
  <2>2. [invitation[i] EXCEPT !.limit = limit, !.open = open] \in InvitationDoc
    BY <1>0, BoundIsNat DEF InvitationDoc
  <2> QED
    BY <1>4, <2>1, <2>2 DEF Labels, Final
<1>6. CASE CloseInvitation(r)
  <2>1. PICK i \in Docs : Continue(r, "editSave", [frame[r] EXCEPT !.target = i,
                !.iv = Draft(invitation[i], [invitation[i] EXCEPT !.open = FALSE])])
    BY <1>6 DEF CloseInvitation
  <2>2. [invitation[i] EXCEPT !.open = FALSE] \in InvitationDoc
    BY <1>0 DEF InvitationDoc
  <2> QED
    BY <1>4, <2>1, <2>2 DEF Labels
<1> QED
  BY <1>2, <1>3, <1>5, <1>6 DEF InvitationRoutes

\* and the public ones.
LEMMA PublicRouteTypes ==
  ASSUME SponsorTypeOK, NEW r \in Requests, PublicInvitationRoutes(r)
  PROVE  SponsorTypeOK'
<1>0. /\ frame[r] \in Frames /\ invitation \in [Docs -> InvitationDoc]
      /\ before' \in [Requests -> SUBSET Requests]
      /\ UNCHANGED <<sponsorVars, memberVars, inviteVars>>
  BY Typed DEF SponsorTypeOK, PublicInvitationRoutes, ValidateCode, AcceptWithAuth,
     AcceptWithSignup, AcceptAs
<1>1. ASSUME NEW u \in People, AcceptAs(r, u) PROVE SponsorTypeOK'
  <2>1. PICK i \in Docs, label \in Labels :
          Continue(r, label, [frame[r] EXCEPT !.inv = i, !.user = u,
                        !.seat = invitation[i].seat,
                        !.iv = Draft(invitation[i], invitation[i])])
    BY <1>1 DEF AcceptAs, AfterAcceptQuota, Labels, Final
  <2>2. [frame[r] EXCEPT !.inv = i, !.user = u, !.seat = invitation[i].seat,
                         !.iv = Draft(invitation[i], invitation[i])] \in Frames
    BY <1>0 DEF Frames, Draft, InvitationDoc
  <2> QED
    BY <1>0, <2>1, <2>2, QuietTypes
<1>2. CASE ValidateCode(r)
  <2>1. PICK i \in Docs, label \in Labels, v \in Verdicts :
          Continue(r, label, [frame[r] EXCEPT !.target = i, !.verdict = v])
    BY <1>2 DEF ValidateCode, Labels, Final, Verdicts
  <2>2. [frame[r] EXCEPT !.target = i, !.verdict = v] \in Frames
    BY <1>0 DEF Frames
  <2> QED
    BY <1>0, <2>1, <2>2, QuietTypes
<1> QED
  BY <1>1, <1>2, Typed DEF PublicInvitationRoutes, AcceptWithAuth, AcceptWithSignup

\* Every step keeps the list of the requests that came before.
LEMMA StepKeepsBefore ==
  ASSUME NEW r \in Requests, Step(r) \/ CallFails(r)
  PROVE  UNCHANGED before
<1>1. CASE Step(r)
  BY <1>1 DEF Step, AddRead, InsertSponsor, SaveSponsor, ReadUsed, InsertAsk, Grant, SaveAsk,
     CheckRegistered, CheckQuota, SaveMember, SaveCancel, InsertInvitation, SaveEdit,
     ValidateQuota, AcceptQuota, SignUp, ReadTicketNumber, SaveTicket, AttachTicket, SaveUse
<1>2. CASE CallFails(r)
  BY <1>2 DEF CallFails
<1> QED
  BY <1>1, <1>2

\* A ticket that is about to be attached is stored.
TicketStored == \A r \in Requests : pc[r] = "ticketAttach" => r \in tickets

\* What is saved has its type: a sponsor,
LEMMA SavedSponsorTypes ==
  ASSUME NEW s \in SponsorDoc, NEW d \in [old : SponsorDoc, new : SponsorDoc]
  PROVE  Saved(s, d) \in SponsorDoc
BY DEF Saved, SponsorDoc

\* an invitation,
LEMMA SavedInvitationTypes ==
  ASSUME NEW s \in InvitationDoc, NEW d \in [old : InvitationDoc, new : InvitationDoc]
  PROVE  Saved(s, d) \in InvitationDoc
BY DEF Saved, InvitationDoc

\* and a use.
LEMMA UsedTypes ==
  ASSUME NEW i \in InvitationDoc
  PROVE  Used(i) \in InvitationDoc /\ Used(i).uses = i.uses + 1 /\ Used(i).stored = i.stored
         /\ Used(i).usage = i.usage /\ Used(i).seat = i.seat
<1>1. PICK open \in BOOLEAN : open = IF i.usage = "single" THEN FALSE ELSE i.open
  BY DEF InvitationDoc
<1>2. PICK n : n = i.uses + 1
  OBVIOUS
<1>3. Used(i) = [i EXCEPT !.uses = n, !.open = open]
  BY <1>1, <1>2 DEF Used
<1>4. n \in Nat
  BY <1>2 DEF InvitationDoc
<1> QED
  BY <1>1, <1>2, <1>3, <1>4 DEF InvitationDoc

\* A request goes on, and what it saves has the type of its collection.
LEMMA SavingTypes ==
  ASSUME SponsorTypeOK, NEW r \in Requests, NEW label \in Labels, NEW f \in Frames,
         Continue(r, label, f), UNCHANGED before,
         sponsor' \in SponsorDoc, member' \in [Docs -> MemberDoc], ask' \in [Docs -> AskDoc],
         invitation' \in [Docs -> InvitationDoc], listed' \in [Docs -> SUBSET Docs],
         accounts' \subseteq Requests, tickets' \subseteq Docs, attached' \subseteq tickets',
         lastTicket' \in Nat
  PROVE  SponsorTypeOK'
<1>1. pc' \in [Requests -> Labels] /\ frame' \in [Requests -> Frames]
  BY ContinueMoves, MovedTypes
<1> QED
  BY <1>1 DEF SponsorTypeOK, Frames

\* Every later call keeps the types.
LEMMA StepTypes ==
  ASSUME SponsorTypeOK, TicketStored, NEW r \in Requests, Step(r) \/ CallFails(r)
  PROVE  SponsorTypeOK'
<1>0. /\ before' \in [Requests -> SUBSET Requests] /\ frame[r] \in Frames
      /\ sponsor \in SponsorDoc /\ Requests \subseteq Docs
      /\ invitation \in [Docs -> InvitationDoc] /\ UNCHANGED before
  BY Typed, StepKeepsBefore DEF SponsorTypeOK
\* The fields of the frame.
<1>00. /\ frame[r].sp \in [old : SponsorDoc, new : SponsorDoc]
       /\ frame[r].iv \in [old : InvitationDoc, new : InvitationDoc]
       /\ frame[r].iv.old \in InvitationDoc /\ frame[r].iv.new \in InvitationDoc
       /\ frame[r].user \in People \cup {None} /\ frame[r].seat \in Seats
       /\ frame[r].verdict \in Verdicts /\ frame[r].num \in Nat
  BY <1>0 DEF Frames
<1>1. ASSUME NEW new \in SponsorDoc
      PROVE  [frame[r] EXCEPT !.sp = Draft(sponsor, new)] \in Frames
  BY <1>0, DraftTypes
<1>2. CASE AddRead(r)
  <2>1. PICK q \in 0 .. MaxQuota :
          Continue(r, IF sponsor.stored THEN "sponsorSave" ELSE "sponsorInsert",
            [frame[r] EXCEPT !.sp = Draft(sponsor,
              [stored |-> TRUE, active |-> TRUE, quota |-> q, used |-> sponsor.used])])
    BY <1>2 DEF AddRead
  <2>2. [stored |-> TRUE, active |-> TRUE, quota |-> q, used |-> sponsor.used] \in SponsorDoc
    BY <1>0, BoundIsNat DEF SponsorDoc
  <2>3. (IF sponsor.stored THEN "sponsorSave" ELSE "sponsorInsert") \in Labels
    BY DEF Labels
  <2> QED
    BY <1>0, <1>1, <1>2, <2>1, <2>2, <2>3, QuietTypes DEF AddRead
<1>3. CASE InsertSponsor(r)
  <2>1. PICK label \in Labels : Goto(r, label)
    BY <1>3 DEF InsertSponsor, Labels, Final
  <2>2. sponsor' \in SponsorDoc
    BY <1>0, <1>00, <1>3 DEF InsertSponsor
  <2> QED
    BY <1>0, <1>3, <2>1, <2>2, SavingTypes DEF InsertSponsor, SponsorTypeOK
<1>4. CASE SaveSponsor(r)
  <2>1. NoFrame.sp \in [old : SponsorDoc, new : SponsorDoc]
    BY NoFrameTypes DEF Frames
  <2>2. [frame[r] EXCEPT !.sp = NoFrame.sp] \in Frames
    BY <1>0, <2>1 DEF Frames
  <2>3. PICK label \in Labels, f \in Frames : Continue(r, label, f)
    BY <1>0, <1>4, <2>2 DEF SaveSponsor, AfterSponsor, Labels, Final
  <2>4. sponsor' \in SponsorDoc
    BY <1>0, <1>00, <1>4, SavedSponsorTypes DEF SaveSponsor
  <2> QED
    BY <1>0, <1>4, <2>3, <2>4, SavingTypes DEF SaveSponsor, SponsorTypeOK
<1>5. CASE ReadUsed(r)
  <2>1. PICK n : n = IF pc[r] = "increment" THEN CountUse(sponsor.used) ELSE CountCancel(sponsor.used)
    OBVIOUS
  <2>2. n \in Nat /\ [sponsor EXCEPT !.used = n] \in SponsorDoc
    BY <1>0, <2>1 DEF SponsorDoc, CountUse, CountCancel
  <2>3. Continue(r, IF sponsor.stored THEN "sponsorSave" ELSE "error",
          [frame[r] EXCEPT !.sp = Draft(sponsor, [sponsor EXCEPT !.used = n])])
    BY <1>5, <2>1 DEF ReadUsed
  <2>4. (IF sponsor.stored THEN "sponsorSave" ELSE "error") \in Labels
    BY DEF Labels, Final
  <2> QED
    BY <1>0, <1>1, <1>5, <2>2, <2>3, <2>4, QuietTypes DEF ReadUsed
<1>6. CASE InsertAsk(r)
  <2>1. PICK n \in 1 .. MaxQuota : ask' = [ask EXCEPT ![r] = [status |-> "pending", amount |-> n]]
    BY <1>6 DEF InsertAsk
  <2>2. [status |-> "pending", amount |-> n] \in AskDoc
    BY BoundIsNat DEF AskDoc, Verdicts
  <2>3. ask' \in [Docs -> AskDoc]
    BY <2>1, <2>2 DEF SponsorTypeOK
  <2> QED
    BY <1>0, <1>6, <2>3, SavingTypes DEF InsertAsk, SponsorTypeOK, Labels, Final
<1>7. CASE Grant(r)
  <2>1. [sponsor EXCEPT !.quota = @ + frame[r].num] \in SponsorDoc
    BY <1>0, <1>00 DEF SponsorDoc
  <2> QED
    BY <1>0, <1>1, <1>7, <2>1, QuietTypes DEF Grant, Labels
<1>8. CASE SaveAsk(r)
  <2>1. ask' \in [Docs -> AskDoc]
    <3>1. \A a \in AskDoc : [a EXCEPT !.status = frame[r].verdict] \in AskDoc
      BY <1>00 DEF AskDoc
    <3>2. ask \in [Docs -> AskDoc]
      BY DEF SponsorTypeOK
    <3>3. \/ ask' = ask
          \/ ask' = [ask EXCEPT ![frame[r].ask].status = frame[r].verdict]
      BY <1>8 DEF SaveAsk
    <3> QED
      BY <3>1, <3>2, <3>3
  <2> QED
    BY <1>0, <1>8, <2>1, SavingTypes DEF SaveAsk, SponsorTypeOK, Labels, Final
<1>9. CASE CheckRegistered(r)
  <2>1. PICK label \in Labels : Goto(r, label)
    BY <1>9 DEF CheckRegistered, SeatCheck, Labels, Final
  <2> QED
    BY <1>0, <1>9, <2>1, QuietTypes DEF CheckRegistered
<1>10. CASE CheckQuota(r)
  <2>1. PICK label \in Labels : Goto(r, label)
    BY <1>10 DEF CheckQuota, Labels, Final
  <2> QED
    BY <1>0, <1>10, <2>1, QuietTypes DEF CheckQuota
<1>11. CASE SaveMember(r)
  <2>1. PICK label \in Labels : Goto(r, label)
    BY <1>11 DEF SaveMember, Labels, Final
  <2>2. member' \in [Docs -> MemberDoc]
    BY <1>00, <1>11 DEF SaveMember, SponsorTypeOK, MemberDoc
  <2> QED
    BY <1>0, <1>11, <2>1, <2>2, SavingTypes DEF SaveMember, SponsorTypeOK
<1>12. CASE SaveCancel(r)
  <2>1. PICK label \in Labels : Goto(r, label)
    BY <1>12 DEF SaveCancel, Labels, Final
  <2>2. member' \in [Docs -> MemberDoc]
    <3>1. \A m \in MemberDoc : [m EXCEPT !.state = "cancelled"] \in MemberDoc
      BY DEF MemberDoc
    <3> QED
      BY <1>12, <3>1 DEF SaveCancel, SponsorTypeOK
  <2> QED
    BY <1>0, <1>12, <2>1, <2>2, SavingTypes DEF SaveCancel, SponsorTypeOK
<1>13. CASE InsertInvitation(r)
  <2>1. invitation' \in [Docs -> InvitationDoc]
    BY <1>0, <1>00, <1>13 DEF InsertInvitation
  <2> QED
    BY <1>0, <1>13, <2>1, SavingTypes DEF InsertInvitation, SponsorTypeOK, Labels, Final
<1>14. CASE SaveEdit(r)
  <2>1. \A i \in Docs : Saved(invitation[i], frame[r].iv) \in InvitationDoc
    BY <1>0, <1>00, SavedInvitationTypes
  <2>2. invitation' \in [Docs -> InvitationDoc]
    BY <1>0, <1>14, <2>1 DEF SaveEdit
  <2> QED
    BY <1>0, <1>14, <2>2, SavingTypes DEF SaveEdit, SponsorTypeOK, Labels, Final
<1>15. CASE ValidateQuota(r)
  <2>1. PICK v \in Verdicts : Continue(r, "ok", [frame[r] EXCEPT !.verdict = v])
    BY <1>00, <1>15 DEF ValidateQuota, Verdicts
  <2>2. [frame[r] EXCEPT !.verdict = v] \in Frames
    BY <1>0 DEF Frames
  <2> QED
    BY <1>0, <1>15, <2>1, <2>2, QuietTypes DEF ValidateQuota, Labels, Final
<1>16. CASE AcceptQuota(r)
  <2>1. PICK label \in Labels : Goto(r, label)
    BY <1>16 DEF AcceptQuota, AfterAcceptQuota, Labels, Final
  <2> QED
    BY <1>0, <1>16, <2>1, QuietTypes DEF AcceptQuota
<1>17. CASE SignUp(r)
  <2>1. PICK label \in Labels : Goto(r, label)
    BY <1>17 DEF SignUp, Labels, Final
  <2>2. accounts' \subseteq Requests
    BY <1>17 DEF SignUp, SponsorTypeOK
  <2> QED
    BY <1>0, <1>17, <2>1, <2>2, SavingTypes DEF SignUp, SponsorTypeOK
<1>18. CASE ReadTicketNumber(r)
  <2>1. lastTicket + 1 \in Nat
    BY DEF SponsorTypeOK
  <2>2. [frame[r] EXCEPT !.num = lastTicket + 1] \in Frames
    BY <1>0, <2>1 DEF Frames
  <2> QED
    BY <1>0, <1>18, <2>2, QuietTypes DEF ReadTicketNumber, Labels
<1>19. CASE SaveTicket(r)
  <2>1. PICK label \in Labels : Goto(r, label)
    BY <1>19 DEF SaveTicket, Labels, Final
  <2>2. tickets' \subseteq Docs /\ attached' \subseteq tickets' /\ lastTicket' \in Nat
    BY <1>0, <1>00, <1>19 DEF SaveTicket, SponsorTypeOK
  <2> QED
    BY <1>0, <1>19, <2>1, <2>2, SavingTypes DEF SaveTicket, SponsorTypeOK
<1>20. CASE AttachTicket(r)
  <2>1. attached' \subseteq tickets'
    BY <1>20 DEF AttachTicket, SponsorTypeOK, TicketStored
  <2> QED
    BY <1>0, <1>20, <2>1, SavingTypes DEF AttachTicket, SponsorTypeOK, Labels
<1>21. CASE SaveUse(r)
  <2>1. Used(frame[r].iv.old) \in InvitationDoc
    BY <1>00, UsedTypes
  <2>2. Draft(frame[r].iv.old, Used(frame[r].iv.old)) \in [old : InvitationDoc, new : InvitationDoc]
    BY <1>00, <2>1 DEF Draft
  <2>3. \A i \in Docs : Saved(invitation[i], Draft(frame[r].iv.old, Used(frame[r].iv.old)))
                          \in InvitationDoc
    BY <1>0, <2>2, SavedInvitationTypes
  <2>4. invitation' \in [Docs -> InvitationDoc]
    BY <1>0, <1>21, <2>3 DEF SaveUse
  <2>5. listed' \in [Docs -> SUBSET Docs]
    BY <1>0, <1>21 DEF SaveUse, SponsorTypeOK
  <2> QED
    BY <1>0, <1>21, <2>4, <2>5, SavingTypes DEF SaveUse, SponsorTypeOK, Labels, Final
<1>22. CASE CallFails(r)
  BY <1>0, <1>22, QuietTypes DEF CallFails, Labels, Final
<1> QED
  BY <1>2, <1>3, <1>4, <1>5, <1>6, <1>7, <1>8, <1>9, <1>10, <1>11, <1>12, <1>13, <1>14,
     <1>15, <1>16, <1>17, <1>18, <1>19, <1>20, <1>21, <1>22 DEF Step

(***************************************************************************)
(* How a request moves: what its next call says of the one before.          *)
(***************************************************************************)
\* What ends with a request, whatever it was.
LEMMA EndFrameKeeps ==
  ASSUME NEW f
  PROVE  /\ EndFrame(f).inv = f.inv /\ EndFrame(f).ask = f.ask /\ EndFrame(f).verdict = f.verdict
         /\ EndFrame(f).target = IF f.verdict = "pending" THEN None ELSE f.target
BY DEF EndFrame, NoFrame

Went(r, label, f) ==
    /\ pc'[r] = label
    /\ frame'[r].inv = f.inv /\ frame'[r].ask = f.ask /\ frame'[r].verdict = f.verdict
    /\ f.verdict # "pending" => frame'[r].target = f.target
    /\ label \notin Final => frame'[r] = f
    /\ \A q \in Requests \ {r} : pc'[q] = pc[q] /\ frame'[q] = frame[q]

\* What a call leaves of its request.
LEMMA Goes ==
  ASSUME SponsorTypeOK, NEW r \in Requests, NEW label, NEW f, Continue(r, label, f)
  PROVE  Went(r, label, f)
<1>1. Moved(r, label, f)
  BY ContinueMoves
<1>2. frame'[r] = IF label \in Final THEN EndFrame(f) ELSE f
  BY <1>1, Typed DEF Moved
<1>3. /\ frame'[r].inv = f.inv /\ frame'[r].ask = f.ask /\ frame'[r].verdict = f.verdict
      /\ f.verdict # "pending" => frame'[r].target = f.target
  BY <1>2, EndFrameKeeps
<1>4. pc'[r] = label /\ \A q \in Requests \ {r} : pc'[q] = pc[q] /\ frame'[q] = frame[q]
  BY <1>1, Typed DEF Moved
<1> QED
  BY <1>2, <1>3, <1>4 DEF Went

\* The calls an acceptance makes before the registration, and those for the ticket.
AcceptLabels == {"acceptQuota", "signup", "lookUp", "register"}
TicketLabels == {"ticketNumber", "ticketSave", "ticketAttach", "useSave"}

\* The calls only the first step of a handler leads to.
FirstLabels == {"addRead", "askInsert", "grant", "acceptQuota", "validateQuota", "cancelSave",
                "inviteInsert", "editSave", "idle"}

\* A step of r that leaves what it knows, but for its copy of the sponsor and
\* the number of the ticket.
Keeps(r) ==
    /\ \A q \in Requests \ {r} : pc'[q] = pc[q] /\ frame'[q] = frame[q]
    /\ frame'[r].inv = frame[r].inv /\ frame'[r].ask = frame[r].ask
    /\ frame'[r].verdict = frame[r].verdict
    /\ frame'[r].verdict # "pending" => frame'[r].target = frame[r].target
    /\ pc'[r] \notin Final =>
          /\ frame'[r].user = frame[r].user /\ frame'[r].seat = frame[r].seat
          /\ frame'[r].target = frame[r].target /\ frame'[r].iv = frame[r].iv

\* validateInvitationByCode finds no quota.
Refuses(r) ==
    /\ \A q \in Requests \ {r} : pc'[q] = pc[q] /\ frame'[q] = frame[q]
    /\ pc[r] = "validateQuota" /\ pc'[r] = "ok"
    /\ frame'[r].inv = frame[r].inv /\ frame'[r].ask = frame[r].ask
    /\ frame'[r].verdict = "rejected" /\ frame'[r].target = frame[r].target

\* Where r goes on; pc[r] is the call it made.
Edges(r) ==
    /\ pc[r] \notin Final \cup {"idle"} /\ pc'[r] \notin FirstLabels
    /\ pc'[r] = "ok" => /\ frame[r].inv # None => pc[r] \notin AcceptLabels \cup (TicketLabels \ {"useSave"})
                                                     \cup {"registerQuota", "increment", "decrement"}
                        /\ frame[r].ask # None => pc[r] # "grant"
                        /\ pc[r] = "sponsorSave" => frame[r].inv = None /\ frame[r].ask = None
                        /\ pc[r] = "memberSave" /\ frame[r].inv # None
                             => frame[r].seat \notin {"quota", "staff"}
    /\ pc'[r] = "sponsorInsert" => pc[r] = "addRead"
    /\ pc'[r] = "sponsorSave" => pc[r] \in {"addRead", "increment", "decrement", "grant"}
    /\ pc'[r] = "askSave" => pc[r] = "sponsorSave" /\ frame[r].ask # None
    /\ pc'[r] = "signup" => pc[r] = "acceptQuota"
    /\ pc'[r] = "lookUp" => pc[r] \in {"acceptQuota", "signup"}
    /\ pc'[r] = "register" => pc[r] = "lookUp"
    /\ pc'[r] = "registerQuota" =>
          pc[r] = "register" /\ ~Registered(frame[r].user) /\ frame[r].seat = "quota"
    /\ pc'[r] = "memberSave" =>
          \/ pc[r] = "register" /\ ~Registered(frame[r].user)
          \/ pc[r] = "registerQuota"
    /\ pc'[r] = "increment" => pc[r] = "memberSave" /\ frame[r].seat = "quota"
    /\ pc'[r] = "decrement" => pc[r] = "cancelSave"
    /\ pc'[r] = "ticketNumber" =>
          /\ frame[r].inv # None
          /\ pc[r] = "memberSave" \/ (pc[r] = "sponsorSave" /\ frame[r].ask = None)
    /\ pc'[r] = "ticketSave" => pc[r] = "ticketNumber"
    /\ pc'[r] = "ticketAttach" => pc[r] = "ticketSave" /\ r \in tickets'
    /\ pc'[r] = "useSave" => pc[r] = "ticketAttach" /\ r \in attached'

\* f agrees with the frame of r on what a step leaves.
Agrees(r, f) ==
    /\ f.user = frame[r].user /\ f.seat = frame[r].seat /\ f.target = frame[r].target
    /\ f.iv = frame[r].iv /\ f.inv = frame[r].inv /\ f.ask = frame[r].ask
    /\ f.verdict = frame[r].verdict

\* A request that goes on as one that agrees keeps what it knows.
LEMMA AgreesKeeps ==
  ASSUME SponsorTypeOK, NEW r \in Requests, NEW label, NEW f, Continue(r, label, f), Agrees(r, f)
  PROVE  Keeps(r) /\ pc'[r] = label
<1>1. Went(r, label, f)
  BY Goes
<1> QED
  BY <1>1 DEF Went, Agrees, Keeps

\* Every later call is a move.
LEMMA StepsMove ==
  ASSUME SponsorTypeOK, NEW r \in Requests, Step(r) \/ CallFails(r)
  PROVE  (Keeps(r) \/ Refuses(r)) /\ Edges(r) /\ UNCHANGED before
<1> USE DEF Edges, FirstLabels, Labels, Final, AcceptLabels, TicketLabels
<1>0. UNCHANGED before /\ frame[r] \in Frames /\ pc[r] \in Labels
  BY Typed, StepKeepsBefore
\* The frame with another copy of the sponsor, or another number.
<1>1. ASSUME NEW sp, NEW label, Continue(r, label, [frame[r] EXCEPT !.sp = sp])
      PROVE  Keeps(r) /\ pc'[r] = label
  <2>1. Agrees(r, [frame[r] EXCEPT !.sp = sp])
    BY <1>0 DEF Agrees, Frames
  <2> QED
    BY <1>1, <2>1, AgreesKeeps
<1>2. ASSUME NEW label, Goto(r, label) PROVE Keeps(r) /\ pc'[r] = label
  BY <1>2, AgreesKeeps DEF Agrees
<1>3. CASE AddRead(r)
  <2>1. Keeps(r) /\ pc'[r] \in {"sponsorSave", "sponsorInsert"}
    BY <1>1, <1>3 DEF AddRead
  <2> QED
    BY <1>0, <1>3, <2>1 DEF AddRead
<1>4. CASE InsertSponsor(r)
  <2>1. Keeps(r) /\ pc'[r] \in {"ok", "error"}
    BY <1>2, <1>4 DEF InsertSponsor
  <2> QED
    BY <1>0, <1>4, <2>1 DEF InsertSponsor
<1>5. CASE SaveSponsor(r)
  <2>1. Keeps(r) /\ pc'[r] \in {AfterSponsor(r), "error"}
    BY <1>1, <1>2, <1>5 DEF SaveSponsor
  <2> QED
    BY <1>0, <1>5, <2>1 DEF SaveSponsor, AfterSponsor
<1>6. CASE ReadUsed(r)
  <2>1. Keeps(r) /\ pc'[r] \in {"sponsorSave", "error"}
    BY <1>1, <1>6 DEF ReadUsed
  <2> QED
    BY <1>0, <1>6, <2>1 DEF ReadUsed
<1>7. CASE InsertAsk(r) \/ SaveAsk(r) \/ InsertInvitation(r) \/ SaveEdit(r) \/ SaveUse(r)
  <2>1. Keeps(r) /\ pc'[r] = "ok"
    BY <1>2, <1>7 DEF InsertAsk, SaveAsk, InsertInvitation, SaveEdit, SaveUse
  <2> QED
    BY <1>0, <1>7, <2>1 DEF InsertAsk, SaveAsk, InsertInvitation, SaveEdit, SaveUse
<1>8. CASE Grant(r)
  <2>1. Keeps(r) /\ pc'[r] = "sponsorSave"
    BY <1>1, <1>8 DEF Grant
  <2> QED
    BY <1>0, <1>8, <2>1 DEF Grant
<1>9. CASE CheckRegistered(r)
  <2>1. \/ Goto(r, "error")
        \/ ~Registered(frame[r].user) /\ pc[r] = "lookUp" /\ Goto(r, "register")
        \/ ~Registered(frame[r].user) /\ pc[r] = "register" /\ Goto(r, SeatCheck(frame[r].seat))
    BY <1>9 DEF CheckRegistered
  <2>2. /\ Keeps(r)
        /\ \/ pc'[r] = "error"
           \/ ~Registered(frame[r].user) /\ pc[r] = "lookUp" /\ pc'[r] = "register"
           \/ ~Registered(frame[r].user) /\ pc[r] = "register" /\ pc'[r] = SeatCheck(frame[r].seat)
    BY <1>2, <2>1
  <2> QED
    BY <1>0, <1>9, <2>2 DEF CheckRegistered, SeatCheck
<1>10. CASE CheckQuota(r)
  <2>1. Keeps(r) /\ pc'[r] \in {"memberSave", "error"}
    BY <1>2, <1>10 DEF CheckQuota
  <2> QED
    BY <1>0, <1>10, <2>1 DEF CheckQuota
<1>11. CASE SaveMember(r)
  <2>1. /\ Keeps(r)
        /\ pc'[r] = CASE frame[r].seat = "quota" -> "increment"
                      [] frame[r].seat = "staff" /\ frame[r].inv # None -> "ticketNumber"
                      [] OTHER -> "ok"
    BY <1>2, <1>11 DEF SaveMember
  <2> QED
    BY <1>0, <1>11, <2>1 DEF SaveMember
<1>12. CASE SaveCancel(r)
  <2>1. Keeps(r) /\ pc'[r] \in {"decrement", "ok"}
    BY <1>2, <1>12 DEF SaveCancel
  <2> QED
    BY <1>0, <1>12, <2>1 DEF SaveCancel
<1>13. CASE ValidateQuota(r)
  <2>1. PICK v : /\ Continue(r, "ok", [frame[r] EXCEPT !.verdict = v])
                 /\ v \in {"rejected", frame[r].verdict}
    BY <1>13 DEF ValidateQuota
  <2>2. Went(r, "ok", [frame[r] EXCEPT !.verdict = v])
    BY <2>1, Goes
  <2>3. Keeps(r) \/ Refuses(r)
    BY <1>0, <1>13, <2>1, <2>2 DEF Went, Keeps, Refuses, ValidateQuota, Frames
  <2> QED
    BY <1>0, <1>13, <2>2, <2>3 DEF ValidateQuota, Went
<1>14. CASE AcceptQuota(r)
  <2>1. Keeps(r) /\ pc'[r] \in {"signup", "lookUp", "error"}
    BY <1>2, <1>14 DEF AcceptQuota, AfterAcceptQuota
  <2> QED
    BY <1>0, <1>14, <2>1 DEF AcceptQuota
<1>15. CASE SignUp(r)
  <2>1. Keeps(r) /\ pc'[r] \in {"lookUp", "error"}
    BY <1>2, <1>15 DEF SignUp
  <2> QED
    BY <1>0, <1>15, <2>1 DEF SignUp
<1>16. CASE ReadTicketNumber(r)
  <2>1. Agrees(r, [frame[r] EXCEPT !.num = lastTicket + 1])
    BY <1>0 DEF Agrees, Frames
  <2>2. Keeps(r) /\ pc'[r] = "ticketSave"
    BY <1>16, <2>1, AgreesKeeps DEF ReadTicketNumber
  <2> QED
    BY <1>0, <1>16, <2>2 DEF ReadTicketNumber
<1>17. CASE SaveTicket(r)
  <2>1. Keeps(r) /\ (pc'[r] = "error" \/ (pc'[r] = "ticketAttach" /\ r \in tickets'))
    BY <1>2, <1>17 DEF SaveTicket
  <2> QED
    BY <1>0, <1>17, <2>1 DEF SaveTicket
<1>18. CASE AttachTicket(r)
  <2>1. Keeps(r) /\ pc'[r] = "useSave" /\ r \in attached'
    BY <1>2, <1>18 DEF AttachTicket
  <2> QED
    BY <1>0, <1>18, <2>1 DEF AttachTicket
<1>19. CASE CallFails(r)
  <2>1. Keeps(r) /\ pc'[r] = "failed"
    BY <1>2, <1>19 DEF CallFails
  <2> QED
    BY <1>0, <1>19, <2>1 DEF CallFails, InFlight
<1> QED
  BY <1>3, <1>4, <1>5, <1>6, <1>7, <1>8, <1>9, <1>10, <1>11, <1>12, <1>13, <1>14, <1>15,
     <1>16, <1>17, <1>18, <1>19 DEF Step

(***************************************************************************)
(* How a request arrives.                                                   *)
(***************************************************************************)
Arrives(r) ==
    /\ pc[r] = "idle" /\ before'[r] = {q \in Requests : pc[q] \in Final}
    /\ \A q \in Requests \ {r} : /\ pc'[q] = pc[q] /\ frame'[q] = frame[q]
                                 /\ before'[q] = before[q]
    /\ UNCHANGED <<sponsorVars, memberVars, inviteVars>>

\* No active participation is in the way of the one r asks for.
SeatIsFree(r, Ds) ==
    \A d \in Ds : member[d].state = "active" /\ member[d].user = frame[r].user
                    => frame[r].seat = "staff" /\ member[d].seat # "staff"

\* What an edit never changes of an invitation.
SameOffer(draft) ==
    /\ draft.new.stored = draft.old.stored /\ draft.new.usage = draft.old.usage
    /\ draft.new.seat = draft.old.seat /\ draft.new.uses = draft.old.uses

\* A request about the sponsor, a participant, or an invitation to be changed.
ArrivesToChange(r) ==
    /\ frame'[r].inv = None /\ frame'[r].ask = None /\ frame'[r].verdict = "pending"
    /\ pc'[r] \in {"error", "addRead", "sponsorSave", "askInsert", "registerQuota", "memberSave",
                   "cancelSave", "inviteInsert", "editSave"}
    /\ pc'[r] \in {"registerQuota", "memberSave"} => SeatIsFree(r, Docs)'
    /\ pc'[r] = "registerQuota" => frame'[r].seat = "quota"
    /\ pc'[r] = "cancelSave" =>
          frame'[r].target \in Docs /\ member[frame'[r].target].state # "none"
    /\ pc'[r] = "inviteInsert" =>
          /\ frame'[r].iv.new.stored /\ frame'[r].iv.new.seat # "regular"
          /\ frame'[r].iv.new.uses = 0
    /\ pc'[r] = "editSave" =>
          /\ frame'[r].target \in Docs /\ invitation[frame'[r].target].stored
          /\ SameOffer(frame'[r].iv)
    /\ pc'[r] = "sponsorSave" => /\ frame'[r].sp.old.used = sponsor.used
                                 /\ frame'[r].sp.new.used = sponsor.used

ArrivesToReview(r) ==
    /\ frame'[r].inv = None /\ frame'[r].ask \in Docs /\ ask[frame'[r].ask].status # "none"
    /\ pc'[r] \in {"error", "grant", "askSave"}
    /\ pc'[r] # "error" => Reviewable(frame'[r].ask)

ArrivesToValidate(r) ==
    /\ frame'[r].inv = None /\ frame'[r].ask = None /\ frame'[r].verdict # "pending"
    /\ frame'[r].target \in Docs /\ invitation[frame'[r].target].stored
    /\ frame'[r].verdict = "approved" => Usable(invitation[frame'[r].target])
    /\ pc'[r] \in {"validateQuota", "ok"}

ArrivesToAccept(r) ==
    /\ frame'[r].ask = None /\ frame'[r].verdict = "pending"
    /\ frame'[r].inv \in Docs /\ invitation[frame'[r].inv].stored
    /\ pc'[r] \in {"error", "acceptQuota", "signup", "lookUp"}
    /\ pc'[r] # "error" => /\ Usable(invitation[frame'[r].inv])
                           /\ frame'[r].seat = invitation[frame'[r].inv].seat
                           /\ frame'[r].iv.old = invitation[frame'[r].inv]

ArrivalKinds(r) == ArrivesToChange(r) \/ ArrivesToReview(r) \/ ArrivesToValidate(r)
                     \/ ArrivesToAccept(r)

\* The fields of no frame.
LEMMA NoFrameFields ==
  /\ NoFrame.inv = None /\ NoFrame.ask = None /\ NoFrame.verdict = "pending"
  /\ NoFrame.target = None
BY DEF NoFrame

\* Nobody is registered in a free place.
LEMMA NotRegistered ==
  ASSUME NEW u, ~Registered(u)
  PROVE  \A d \in Docs : ~(member[d].state = "active" /\ member[d].user = u)
BY DEF Registered

Routes(r) == SponsorRoutes(r) \/ QuotaRoutes(r) \/ ParticipantRoutes(r)
               \/ InvitationRoutes(r) \/ PublicInvitationRoutes(r)

\* Every first call is an arrival.
LEMMA RoutesArrive ==
  ASSUME SponsorTypeOK, NEW r \in Requests, frame[r] = NoFrame, Routes(r)
  PROVE  Arrives(r) /\ ArrivalKinds(r)
<1>0. /\ frame[r] \in Frames /\ frame[r].inv = None /\ frame[r].ask = None
      /\ frame[r].verdict = "pending" /\ invitation \in [Docs -> InvitationDoc]
      /\ sponsor \in SponsorDoc
  BY Typed, NoFrameFields DEF SponsorTypeOK
<1>1. Begin(r) /\ UNCHANGED <<sponsorVars, memberVars, inviteVars>>
  BY DEF Routes, SponsorRoutes, AddSponsor, UpdateQuotas, RemoveSponsor, QuotaRoutes, Ask, Review,
     ParticipantRoutes, Register, AssignStaff, RemoveStaff, Cancel, InvitationRoutes, Invite,
     InviteMany, EditInvitation, CloseInvitation, PublicInvitationRoutes, ValidateCode,
     AcceptWithAuth, AcceptWithSignup, AcceptAs
\* Any handler that goes on with some frame.
<1>2. ASSUME NEW label, NEW f, Continue(r, label, f)
      PROVE  Arrives(r) /\ Went(r, label, f)
  BY <1>1, <1>2, Goes DEF Arrives, Went, SponsorTypeOK
<1>3. ASSUME NEW label \in {"error", "addRead", "askInsert"}, Goto(r, label)
      PROVE  Arrives(r) /\ ArrivalKinds(r)
  BY <1>0, <1>2, <1>3 DEF Went, ArrivalKinds, ArrivesToChange
\* The sponsor is read to be saved.
<1>4. ASSUME NEW new \in SponsorDoc, new.used = sponsor.used,
             Continue(r, "sponsorSave", [frame[r] EXCEPT !.sp = Draft(sponsor, new)])
      PROVE  Arrives(r) /\ ArrivalKinds(r)
  <2>1. Arrives(r) /\ Went(r, "sponsorSave", [frame[r] EXCEPT !.sp = Draft(sponsor, new)])
    BY <1>2, <1>4
  <2>2. /\ frame'[r] = [frame[r] EXCEPT !.sp = Draft(sponsor, new)]
        /\ pc'[r] = "sponsorSave"
    BY <2>1 DEF Went, Final
  <2>3. /\ frame'[r].inv = None /\ frame'[r].ask = None /\ frame'[r].verdict = "pending"
        /\ frame'[r].sp.old = sponsor /\ frame'[r].sp.new = new
    BY <1>0, <2>2 DEF Frames, Draft
  <2> QED
    BY <1>4, <2>1, <2>2, <2>3 DEF ArrivalKinds, ArrivesToChange
<1>5. CASE AddSponsor(r)
  BY <1>3, <1>5 DEF AddSponsor
<1>6. CASE UpdateQuotas(r)
  <2>1. PICK q \in 0 .. MaxQuota, active \in BOOLEAN :
        \/ /\ q >= sponsor.used \/ q = sponsor.quota
           /\ Continue(r, "sponsorSave", [frame[r] EXCEPT !.sp =
                Draft(sponsor, [sponsor EXCEPT !.quota = q, !.active = active])])
        \/ q < sponsor.used /\ Goto(r, "error")
    BY <1>6 DEF UpdateQuotas
  <2>2. [sponsor EXCEPT !.quota = q, !.active = active] \in SponsorDoc
        /\ [sponsor EXCEPT !.quota = q, !.active = active].used = sponsor.used
    BY <1>0, BoundIsNat DEF SponsorDoc
  <2> QED
    BY <1>3, <1>4, <2>1, <2>2
<1>7. CASE RemoveSponsor(r)
  <2>1. [sponsor EXCEPT !.active = FALSE] \in SponsorDoc
        /\ [sponsor EXCEPT !.active = FALSE].used = sponsor.used
    BY <1>0 DEF SponsorDoc
  <2>2. PICK label \in {"sponsorSave", "error"} :
          Continue(r, label,
            [frame[r] EXCEPT !.sp = Draft(sponsor, [sponsor EXCEPT !.active = FALSE])])
    BY <1>7 DEF RemoveSponsor
  <2>3. CASE label = "error"
    <3>1. PICK sp : Continue(r, "error", [frame[r] EXCEPT !.sp = sp])
      BY <2>2, <2>3
    <3>2. Arrives(r) /\ Went(r, "error", [frame[r] EXCEPT !.sp = sp])
      BY <1>2, <3>1
    <3>3. /\ frame'[r].inv = None /\ frame'[r].ask = None /\ frame'[r].verdict = "pending"
          /\ pc'[r] = "error"
      BY <1>0, <3>2 DEF Went, Frames
    <3> QED
      BY <3>2, <3>3 DEF ArrivalKinds, ArrivesToChange
  <2> QED
    BY <1>4, <2>1, <2>2, <2>3
<1>8. CASE Ask(r)
  BY <1>3, <1>8 DEF Ask
<1>9. CASE Review(r)
  <2>1. PICK a \in Docs, v \in Verdicts, n \in 1 .. MaxQuota :
          /\ ask[a].status # "none"
          /\ Continue(r, CASE ~Reviewable(a) -> "error"
                         [] Reviewable(a) /\ v = "approved" -> "grant"
                         [] OTHER -> "askSave",
                      [frame[r] EXCEPT !.ask = a, !.verdict = v, !.num = n])
    BY <1>9 DEF Review
  <2>2. PICK label \in {"error", "grant", "askSave"} :
          /\ Continue(r, label, [frame[r] EXCEPT !.ask = a, !.verdict = v, !.num = n])
          /\ label # "error" => Reviewable(a)
    BY <2>1
  <2>3. Arrives(r) /\ Went(r, label, [frame[r] EXCEPT !.ask = a, !.verdict = v, !.num = n])
    BY <1>2, <2>2
  <2>4. frame'[r].inv = None /\ frame'[r].ask = a /\ pc'[r] = label
    BY <1>0, <2>3 DEF Went, Frames
  <2> QED
    BY <2>1, <2>2, <2>3, <2>4 DEF ArrivalKinds, ArrivesToReview
<1>10. CASE Register(r)
  <2>1. PICK u \in Users, seat \in Seats :
          Continue(r, IF Registered(u) THEN "error" ELSE SeatCheck(seat),
                   [frame[r] EXCEPT !.user = u, !.seat = seat])
    BY <1>10 DEF Register
  <2>2. PICK label \in {"error", "registerQuota", "memberSave"} :
          /\ Continue(r, label, [frame[r] EXCEPT !.user = u, !.seat = seat])
          /\ label # "error" => ~Registered(u)
          /\ label = "registerQuota" => seat = "quota"
    BY <2>1 DEF SeatCheck
  <2>3. Arrives(r) /\ Went(r, label, [frame[r] EXCEPT !.user = u, !.seat = seat])
    BY <1>2, <2>2
  <2>4. /\ frame'[r].inv = None /\ frame'[r].ask = None /\ frame'[r].verdict = "pending"
        /\ label # "error" => frame'[r].user = u /\ frame'[r].seat = seat
        /\ pc'[r] = label /\ member' = member
    BY <1>0, <1>1, <2>3 DEF Went, Frames, Final
  <2>5. label # "error" => SeatIsFree(r, Docs)'
    BY <2>2, <2>4, NotRegistered DEF SeatIsFree
  <2> QED
    BY <2>2, <2>3, <2>4, <2>5 DEF ArrivalKinds, ArrivesToChange
<1>11. CASE AssignStaff(r)
  <2>1. PICK u \in Users :
          Continue(r, IF \E d \in Docs : /\ member[d].state = "active"
                                         /\ member[d].user = u /\ member[d].seat = "staff"
                      THEN "error" ELSE "memberSave",
                   [frame[r] EXCEPT !.user = u, !.seat = "staff"])
    BY <1>11 DEF AssignStaff
  <2>2. PICK label \in {"error", "memberSave"} :
          /\ Continue(r, label, [frame[r] EXCEPT !.user = u, !.seat = "staff"])
          /\ label # "error" => \A d \in Docs : ~(/\ member[d].state = "active"
                                     /\ member[d].user = u /\ member[d].seat = "staff")
    BY <2>1
  <2>3. Arrives(r) /\ Went(r, label, [frame[r] EXCEPT !.user = u, !.seat = "staff"])
    BY <1>2, <2>2
  <2>4. /\ frame'[r].inv = None /\ frame'[r].ask = None /\ frame'[r].verdict = "pending"
        /\ label # "error" => frame'[r].user = u /\ frame'[r].seat = "staff"
        /\ pc'[r] = label /\ member' = member
    BY <1>0, <1>1, <2>3 DEF Went, Frames, Final
  <2>5. label # "error" => SeatIsFree(r, Docs)'
    BY <2>2, <2>4 DEF SeatIsFree
  <2> QED
    BY <2>2, <2>3, <2>4, <2>5 DEF ArrivalKinds, ArrivesToChange
<1>12. CASE RemoveStaff(r) \/ Cancel(r)
  <2>1. PICK d \in Docs, label \in {"cancelSave", "error"} :
          /\ member[d].state # "none"
          /\ Continue(r, label, [frame[r] EXCEPT !.target = d])
    BY <1>12 DEF RemoveStaff, Cancel
  <2>2. Arrives(r) /\ Went(r, label, [frame[r] EXCEPT !.target = d])
    BY <1>2, <2>1
  <2>3. /\ frame'[r].inv = None /\ frame'[r].ask = None /\ frame'[r].verdict = "pending"
        /\ label # "error" => frame'[r].target = d
        /\ pc'[r] = label
    BY <1>0, <2>2 DEF Went, Frames, Final
  <2> QED
    BY <2>1, <2>2, <2>3 DEF ArrivalKinds, ArrivesToChange
<1>13. ASSUME NEW usage, NEW seat \in {"quota", "staff"}, NEW limit,
              NEW allowed, Offers(r, usage, seat, limit, allowed)
       PROVE  Arrives(r) /\ ArrivalKinds(r)
  <2>1. PICK new : new = [stored |-> TRUE, open |-> TRUE, usage |-> usage, seat |-> seat,
                     limit |-> IF usage = "multiple" THEN limit ELSE 0, uses |-> 0]
    OBVIOUS
  <2>2. PICK label \in {"inviteInsert", "error"} :
          Continue(r, label, [frame[r] EXCEPT !.iv = Draft(NoInvitation, new)])
    BY <1>13, <2>1 DEF Offers
  <2>3. Arrives(r) /\ Went(r, label, [frame[r] EXCEPT !.iv = Draft(NoInvitation, new)])
    BY <1>2, <2>2
  <2>4. /\ frame'[r].inv = None /\ frame'[r].ask = None /\ frame'[r].verdict = "pending"
        /\ label # "error" => frame'[r].iv.new = new
        /\ pc'[r] = label
    BY <1>0, <2>3 DEF Went, Frames, Final, Draft
  <2> QED
    BY <2>1, <2>3, <2>4 DEF ArrivalKinds, ArrivesToChange
<1>14. CASE Invite(r) \/ InviteMany(r)
  BY <1>13, <1>14 DEF Invite, InviteMany
<1>15. ASSUME NEW i \in Docs, invitation[i].stored, NEW new, NEW label \in {"editSave", "error"},
              SameOffer(Draft(invitation[i], new)),
              Continue(r, label, [frame[r] EXCEPT !.target = i, !.iv = Draft(invitation[i], new)])
       PROVE  Arrives(r) /\ ArrivalKinds(r)
  <2>1. PICK draft : draft = Draft(invitation[i], new)
    OBVIOUS
  <2>2. Arrives(r) /\ Went(r, label, [frame[r] EXCEPT !.target = i, !.iv = draft])
    BY <1>2, <1>15, <2>1
  <2>3. /\ frame'[r].inv = None /\ frame'[r].ask = None /\ frame'[r].verdict = "pending"
        /\ label # "error" => frame'[r].target = i /\ frame'[r].iv = draft
        /\ pc'[r] = label
    BY <1>0, <2>2 DEF Went, Frames, Final
  <2> QED
    BY <1>15, <2>1, <2>2, <2>3 DEF ArrivalKinds, ArrivesToChange
<1>16. CASE EditInvitation(r)
  <2>1. PICK i \in Docs, limit \in 0 .. MaxQuota, open \in BOOLEAN :
          /\ invitation[i].stored
          /\ Continue(r, IF limit >= invitation[i].uses \/ limit = invitation[i].limit
                       THEN "editSave" ELSE "error",
                    [frame[r] EXCEPT !.target = i, !.iv = Draft(invitation[i],
                        [invitation[i] EXCEPT !.limit = limit, !.open = open])])
    BY <1>16 DEF EditInvitation
  <2>2. SameOffer(Draft(invitation[i], [invitation[i] EXCEPT !.limit = limit, !.open = open]))
    BY <1>0 DEF SameOffer, Draft, InvitationDoc
  <2> QED
    BY <1>15, <2>1, <2>2
<1>17. CASE CloseInvitation(r)
  <2>1. PICK i \in Docs :
          /\ invitation[i].stored
          /\ Continue(r, "editSave", [frame[r] EXCEPT !.target = i,
                !.iv = Draft(invitation[i], [invitation[i] EXCEPT !.open = FALSE])])
    BY <1>17 DEF CloseInvitation
  <2>2. SameOffer(Draft(invitation[i], [invitation[i] EXCEPT !.open = FALSE]))
    BY <1>0 DEF SameOffer, Draft, InvitationDoc
  <2> QED
    BY <1>15, <2>1, <2>2
<1>18. CASE ValidateCode(r)
  <2>1. PICK i \in Docs, label \in {"validateQuota", "ok"}, v \in {"approved", "rejected"} :
          /\ invitation[i].stored /\ (v = "approved" => Usable(invitation[i]))
          /\ Continue(r, label, [frame[r] EXCEPT !.target = i, !.verdict = v])
    BY <1>18 DEF ValidateCode
  <2>2. Arrives(r) /\ Went(r, label, [frame[r] EXCEPT !.target = i, !.verdict = v])
    BY <1>2, <2>1
  <2>3. /\ frame'[r].inv = None /\ frame'[r].ask = None /\ frame'[r].verdict = v
        /\ frame'[r].target = i /\ pc'[r] = label
    BY <1>0, <2>1, <2>2 DEF Went, Frames
  <2> QED
    BY <2>1, <2>2, <2>3 DEF ArrivalKinds, ArrivesToValidate
<1>19. ASSUME NEW u, AcceptAs(r, u) PROVE Arrives(r) /\ ArrivalKinds(r)
  <2>1. PICK i \in Docs, label \in {"error", "acceptQuota", "signup", "lookUp"} :
          /\ invitation[i].stored /\ (label # "error" => Usable(invitation[i]))
          /\ Continue(r, label, [frame[r] EXCEPT !.inv = i, !.user = u,
                        !.seat = invitation[i].seat,
                        !.iv = Draft(invitation[i], invitation[i])])
    <3>1. PICK i \in Docs, expired \in BOOLEAN :
        /\ invitation[i].stored
        /\ Continue(r, CASE expired \/ ~Usable(invitation[i]) -> "error"
                         [] ~expired /\ Usable(invitation[i])
                              /\ invitation[i].seat = "quota" -> "acceptQuota"
                         [] OTHER -> AfterAcceptQuota(u, r),
                    [frame[r] EXCEPT !.inv = i, !.user = u,
                        !.seat = invitation[i].seat,
                        !.iv = Draft(invitation[i], invitation[i])])
      BY <1>19 DEF AcceptAs
    <3>2. AfterAcceptQuota(u, r) \in {"signup", "lookUp"}
      BY DEF AfterAcceptQuota
    <3>3. PICK label \in {"error", "acceptQuota", "signup", "lookUp"} :
        /\ label = CASE expired \/ ~Usable(invitation[i]) -> "error"
                     [] ~expired /\ Usable(invitation[i])
                              /\ invitation[i].seat = "quota" -> "acceptQuota"
                     [] OTHER -> AfterAcceptQuota(u, r)
        /\ label # "error" => Usable(invitation[i])
      <4>1. CASE expired \/ ~Usable(invitation[i])
        BY <4>1
      <4>2. CASE ~expired /\ Usable(invitation[i]) /\ invitation[i].seat = "quota"
        BY <4>2
      <4>3. CASE ~expired /\ Usable(invitation[i]) /\ invitation[i].seat # "quota"
        BY <3>2, <4>3
      <4> QED
        BY <4>1, <4>2, <4>3
    <3> QED
      BY <3>1, <3>3
  <2>2. PICK draft : draft = Draft(invitation[i], invitation[i])
    OBVIOUS
  <2>3. PICK seat : seat = invitation[i].seat
    OBVIOUS
  <2>4. Arrives(r) /\ Went(r, label,
          [frame[r] EXCEPT !.inv = i, !.user = u, !.seat = seat, !.iv = draft])
    BY <1>2, <2>1, <2>2, <2>3
  <2>5. /\ frame'[r].inv = i /\ frame'[r].ask = None /\ frame'[r].verdict = "pending"
        /\ label # "error" => frame'[r].seat = seat /\ frame'[r].iv = draft
        /\ pc'[r] = label
    BY <1>0, <2>1, <2>4 DEF Went, Frames, Final
  <2>6. draft.old = invitation[i]
    BY <2>2 DEF Draft
  <2> QED
    BY <2>1, <2>3, <2>4, <2>5, <2>6 DEF ArrivalKinds, ArrivesToAccept
<1> QED
  BY <1>5, <1>6, <1>7, <1>8, <1>9, <1>10, <1>11, <1>12, <1>14, <1>16, <1>17, <1>18, <1>19
  DEF Routes, SponsorRoutes, QuotaRoutes, ParticipantRoutes, InvitationRoutes,
      PublicInvitationRoutes, AcceptWithAuth, AcceptWithSignup

(***************************************************************************)
(* The inductive invariant, part by part.                                   *)
(***************************************************************************)
\* Requests that have not arrived have done nothing, and those that came
\* before another are over.
ArrivalInv ==
    \A r \in Requests :
        /\ pc[r] = "idle" => frame[r] = NoFrame /\ before[r] = {}
        /\ \A q \in before[r] : pc[q] \in Final

\* What a request is about, from the call it is about to make.
LocalOK(r) ==
    LET f == frame[r]
    IN  /\ f.inv # None =>
              /\ f.ask = None /\ f.verdict = "pending" /\ f.inv \in Docs
              /\ pc[r] \in AcceptLabels \cup TicketLabels \cup Final
                             \cup {"registerQuota", "memberSave", "increment", "sponsorSave"}
              /\ pc[r] \notin Final => f.seat \in {"quota", "staff"}
        /\ f.ask # None => f.ask \in Docs /\ pc[r] \in {"grant", "askSave", "sponsorSave"} \cup Final
        /\ f.ask = None /\ f.verdict # "pending" =>
              f.inv = None /\ f.target \in Docs /\ pc[r] \in {"validateQuota"} \cup Final
        /\ pc[r] \in AcceptLabels \cup TicketLabels => f.inv # None
        /\ pc[r] \in {"grant", "askSave"} => f.ask # None
        /\ pc[r] = "validateQuota" => f.ask = None /\ f.inv = None /\ f.verdict # "pending"
        /\ pc[r] = "registerQuota" => f.seat = "quota"
        /\ pc[r] = "cancelSave" => f.target \in Docs
        /\ pc[r] = "inviteInsert" => f.iv.new.stored /\ f.iv.new.seat # "regular" /\ f.iv.new.uses = 0
        /\ pc[r] = "editSave" => f.target \in Docs /\ SameOffer(f.iv)

LocalInv == \A r \in Requests : LocalOK(r)

\* One is invited to a type with a quota, or as staff.
SeatsOffered ==
    \A i \in Docs : invitation[i].stored => invitation[i].seat # "regular"

\* A step of one request.
Moves(r) ==
    \/ Arrives(r) /\ ArrivalKinds(r)
    \/ (Keeps(r) \/ Refuses(r)) /\ Edges(r) /\ UNCHANGED before

\* Every step is a move.
LEMMA NextMoves ==
  ASSUME SponsorTypeOK, ArrivalInv, [SponsorNext]_allVars
  PROVE  \/ \E r \in Requests : /\ Moves(r)
                                /\ Routes(r) \/ Step(r) \/ CallFails(r)
         \/ UNCHANGED allVars
<1>1. ASSUME NEW r \in Requests, Routes(r) PROVE Moves(r)
  <2>1. pc[r] = "idle"
    BY <1>1 DEF Routes, SponsorRoutes, AddSponsor, UpdateQuotas, RemoveSponsor, QuotaRoutes, Ask, Review,
     ParticipantRoutes, Register, AssignStaff, RemoveStaff, Cancel, InvitationRoutes, Invite,
     InviteMany, EditInvitation, CloseInvitation, PublicInvitationRoutes, ValidateCode,
     AcceptWithAuth, AcceptWithSignup, AcceptAs
  <2> QED
    BY <1>1, <2>1, RoutesArrive DEF ArrivalInv, Moves
<1>2. ASSUME NEW r \in Requests, Step(r) \/ CallFails(r) PROVE Moves(r)
  BY <1>2, StepsMove DEF Moves
<1>3. CASE SponsorNext
  <2>1. CASE SponsorQuiet
    BY <2>1 DEF SponsorQuiet
  <2> QED
    BY <1>1, <1>2, <1>3, <2>1 DEF SponsorNext, Routes
<1> QED
  BY <1>3

\* A move keeps what is known of arrivals,
LEMMA MovesKeepArrivals ==
  ASSUME SponsorTypeOK, ArrivalInv, NEW r \in Requests, Moves(r)
  PROVE  ArrivalInv' /\ pc[r] \notin Final /\ pc'[r] # "idle"
<1> USE DEF ArrivalInv, Final
<1>1. CASE Arrives(r) /\ ArrivalKinds(r)
  <2>1. pc'[r] # "idle"
    BY <1>1 DEF ArrivalKinds, ArrivesToChange, ArrivesToReview, ArrivesToValidate, ArrivesToAccept
  <2>2. \A q \in Requests : pc[q] \in Final => q # r /\ pc'[q] \in Final
    BY <1>1 DEF Arrives
  <2>3. before \in [Requests -> SUBSET Requests]
    BY DEF SponsorTypeOK
  <2>4. \A q \in before'[r] : pc'[q] \in Final
    BY <1>1, <2>2 DEF Arrives
  <2>5. \A s \in Requests \ {r} : before'[s] = before[s] /\ \A q \in before'[s] : pc'[q] \in Final
    BY <1>1, <2>2, <2>3 DEF Arrives
  <2>6. \A s \in Requests \ {r} : pc'[s] = "idle" => frame'[s] = NoFrame /\ before'[s] = {}
    BY <1>1 DEF Arrives
  <2>7. pc[r] \notin Final
    BY <1>1 DEF Arrives
  <2> QED
    BY <2>1, <2>4, <2>5, <2>6, <2>7
<1>2. CASE (Keeps(r) \/ Refuses(r)) /\ Edges(r) /\ UNCHANGED before
  <2>1. pc[r] \notin Final \cup {"idle"} /\ pc'[r] # "idle"
    BY <1>2 DEF Edges, FirstLabels
  <2>2. \A q \in Requests \ {r} : pc'[q] = pc[q] /\ frame'[q] = frame[q]
    BY <1>2 DEF Keeps, Refuses
  <2>3. before \in [Requests -> SUBSET Requests]
    BY DEF SponsorTypeOK
  <2> QED
    BY <1>2, <2>1, <2>2, <2>3
<1> QED
  BY <1>1, <1>2 DEF Moves

\* The other requests stay as they are.
LEMMA OthersStay ==
  ASSUME NEW r \in Requests, Moves(r), NEW q \in Requests \ {r}
  PROVE  pc'[q] = pc[q] /\ frame'[q] = frame[q] /\ before'[q] = before[q]
BY DEF Moves, Arrives, Keeps, Refuses

\* and of each request.
LEMMA MovesKeepLocal ==
  ASSUME SponsorTypeOK, ArrivalInv, LocalInv, SeatsOffered, NEW r \in Requests, Moves(r),
         SponsorTypeOK'
  PROVE  LocalInv'
<1>0. None \notin Docs
  BY NamesAssumption
<1>1. ASSUME NEW q \in Requests \ {r} PROVE LocalOK(q)'
  BY <1>1, OthersStay DEF LocalInv, LocalOK
<1>2. LocalOK(r)'
  <2> USE DEF AcceptLabels, TicketLabels, Final
  <2>1. CASE Arrives(r) /\ ArrivesToChange(r)
    BY <1>0, <2>1 DEF ArrivesToChange, LocalOK
  <2>2. CASE Arrives(r) /\ ArrivesToReview(r)
    BY <1>0, <2>2 DEF ArrivesToReview, LocalOK
  <2>3. CASE Arrives(r) /\ ArrivesToValidate(r)
    BY <1>0, <2>3 DEF ArrivesToValidate, LocalOK
  <2>4. CASE Arrives(r) /\ ArrivesToAccept(r)
    <3>1. invitation[frame'[r].inv].seat \in {"quota", "staff"}
      BY <2>4 DEF ArrivesToAccept, SeatsOffered, SponsorTypeOK, InvitationDoc, Seats
    <3> QED
      BY <1>0, <2>4, <3>1 DEF ArrivesToAccept, LocalOK
  <2>5. CASE Keeps(r) /\ Edges(r)
    <3>1. LocalOK(r) /\ pc'[r] \in Labels
      BY Typed, SponsorTypeOK' DEF LocalInv, SponsorTypeOK
    <3>2. ASSUME pc'[r] \in Final PROVE LocalOK(r)'
      BY <1>0, <2>5, <3>1, <3>2 DEF Keeps, LocalOK
    <3>3. ASSUME pc'[r] \notin Final PROVE LocalOK(r)'
      BY <1>0, <2>5, <3>1, <3>3 DEF Keeps, Edges, LocalOK, FirstLabels, Labels
    <3> QED
      BY <3>2, <3>3
  <2>6. CASE Refuses(r) /\ Edges(r)
    <3>1. LocalOK(r)
      BY DEF LocalInv
    <3> QED
      BY <1>0, <2>6, <3>1 DEF Refuses, LocalOK
  <2> QED
    BY <2>1, <2>2, <2>3, <2>4, <2>5, <2>6 DEF Moves, ArrivalKinds
<1> QED
  BY <1>1, <1>2 DEF LocalInv

\* A participant is stored by its request once, after the checks; from then
\* on it stays, and the ticket is stored before it is attached.
MemberInv ==
    \A r \in Requests :
        /\ pc[r] \in AcceptLabels \cup {"idle", "registerQuota", "memberSave"} =>
              member[r].state = "none"
        /\ pc[r] \in TicketLabels \cup {"increment"} => member[r].state # "none"
        /\ pc[r] \in {"sponsorSave", "ok"} /\ frame[r].inv # None => member[r].state # "none"
        /\ pc[r] = "increment" => member[r].seat = "quota"
        /\ pc[r] = "cancelSave" => member[frame[r].target].state # "none"
        /\ pc[r] = "useSave" => r \in attached
        /\ pc[r] = "ok" /\ frame[r].inv # None => r \in attached

\* Nobody who ended before r arrived holds the place r is about to take.
SeatInv ==
    \A r \in Requests : pc[r] \in {"registerQuota", "memberSave"} => SeatIsFree(r, before[r])

\* A request for quota that was settled before r arrived is not what r reviews.
AskInv ==
    \A r \in Requests :
        /\ pc[r] # "ok" => ask[r].status = "none"
        /\ frame[r].ask # None => ask[frame[r].ask].status # "none"
        /\ frame[r].ask # None /\ frame[r].verdict # "pending" /\ pc[r] = "ok" =>
              ask[frame[r].ask].status # "pending"
        /\ frame[r].ask # None /\ pc[r] \notin {"error", "failed"} =>
              \A q \in before[r] : pc[q] = "ok" /\ frame[q].ask = frame[r].ask
                                     => frame[q].verdict = "pending"

\* The invitation a request accepts, or found valid.
Shown(r) == IF frame[r].ask = None /\ frame[r].verdict = "approved"
            THEN frame[r].target ELSE frame[r].inv

\* Invitations stay, and what was read of the one a request accepts is behind
\* its list; what r accepts, or finds valid, was open to it.
InvitationInv ==
    \A r \in Requests :
        /\ pc[r] # "ok" => ~invitation[r].stored
        /\ frame[r].inv # None => invitation[frame[r].inv].stored
        /\ frame[r].ask = None /\ frame[r].verdict # "pending" => invitation[frame[r].target].stored
        /\ pc[r] = "editSave" => invitation[frame[r].target].stored
        /\ frame[r].inv # None /\ pc[r] \notin Final =>
              frame[r].iv.old.uses <= Cardinality(listed[frame[r].inv])
        /\ frame[r].inv # None /\ pc[r] = "ok" =>
              r \in listed[frame[r].inv] /\ invitation[frame[r].inv].uses > 0
        /\ Shown(r) # None /\ pc[r] \notin {"error", "failed"} =>
              \A q \in before[r] : pc[q] = "ok" /\ frame[q].inv = Shown(r)
                                     => invitation[Shown(r)].usage # "single"

\* Whoever is in a list has been answered.
ListInv == \A i \in Docs : \A d \in listed[i] : d \in Requests /\ pc[d] = "ok"

\* The registrations against the quota, and those whose request has not
\* counted them yet.
Backing == Counted({"active", "cancelled"})
Uncounted == {r \in Requests : \/ pc[r] = "increment"
                               \/ pc[r] = "sponsorSave" /\ frame[r].sp.new.used > frame[r].sp.old.used}
Backed == Cardinality(Backing \ Uncounted)

\* What was read of the counter is backed, and so is what is written.
UsedInv ==
    /\ sponsor.used <= Backed
    /\ Uncounted \subseteq Backing
    /\ \A r \in Requests :
          /\ pc[r] \in {"sponsorSave", "sponsorInsert"} =>
                /\ frame[r].sp.old.used <= Backed
                /\ frame[r].sp.new.used <= frame[r].sp.old.used + 1
          /\ pc[r] = "sponsorInsert" => frame[r].sp.new.used = frame[r].sp.old.used

SponsorInv ==
    SponsorTypeOK /\ TicketStored /\ ArrivalInv /\ LocalInv /\ SeatsOffered /\ MemberInv /\ SeatInv
      /\ AskInv /\ InvitationInv /\ ListInv /\ UsedInv
      /\ UsesAreListed /\ RegisteredOnce

(***************************************************************************)
(* The participants.                                                        *)
(***************************************************************************)
Stays(d) == member'[d] = member[d]
Cancels(d) ==
    /\ member[d].state # "none" /\ member'[d].state = "cancelled"
    /\ member'[d].user = member[d].user /\ member'[d].seat = member[d].seat
Stores(r) ==
    /\ pc[r] = "memberSave" /\ member[r].state = "none" /\ member'[r].state = "active"
    /\ member'[r].user = frame[r].user /\ member'[r].seat = frame[r].seat

MembersMove(r) ==
    /\ \A d \in Docs : Stays(d) \/ Cancels(d) \/ (d = r /\ Stores(r))
    /\ pc[r] = "memberSave" /\ pc'[r] # "failed" => Stores(r)
    /\ attached \subseteq attached'

\* First calls store nothing,
LEMMA RoutesAreQuiet ==
  ASSUME NEW r \in Requests, Routes(r)
  PROVE  pc[r] = "idle" /\ UNCHANGED <<sponsorVars, memberVars, inviteVars>>
BY DEF Routes, SponsorRoutes, AddSponsor, UpdateQuotas, RemoveSponsor, QuotaRoutes, Ask, Review,
   ParticipantRoutes, Register, AssignStaff, RemoveStaff, Cancel, InvitationRoutes, Invite,
   InviteMany, EditInvitation, CloseInvitation, PublicInvitationRoutes, ValidateCode,
   AcceptWithAuth, AcceptWithSignup, AcceptAs

\* and rejected ones neither.
LEMMA FailuresAreQuiet ==
  ASSUME SponsorTypeOK, NEW r \in Requests, CallFails(r)
  PROVE  pc'[r] = "failed" /\ UNCHANGED <<sponsorVars, memberVars, inviteVars>>
BY Goes DEF CallFails, Went

\* The steps that change participants or tickets.
LEMMA OtherStepsKeepMembers ==
  ASSUME NEW r \in Requests, Step(r), ~SaveMember(r), ~SaveCancel(r)
  PROVE  UNCHANGED member /\ pc[r] # "memberSave"
BY DEF Step, AddRead, InsertSponsor, SaveSponsor, ReadUsed, InsertAsk, Grant, SaveAsk,
   CheckRegistered, CheckQuota, InsertInvitation, SaveEdit, ValidateQuota, AcceptQuota, SignUp,
   ReadTicketNumber, SaveTicket, AttachTicket, SaveUse

\* Tickets are issued, and stay.
LEMMA TicketsGrow ==
  ASSUME NEW r \in Requests, Step(r)
  PROVE  tickets \subseteq tickets' /\ attached \subseteq attached'
BY DEF Step, AddRead, InsertSponsor, SaveSponsor, ReadUsed, InsertAsk, Grant, SaveAsk,
   CheckRegistered, CheckQuota, SaveMember, SaveCancel, InsertInvitation, SaveEdit,
   ValidateQuota, AcceptQuota, SignUp, ReadTicketNumber, SaveTicket, AttachTicket, SaveUse

\* What the calls about members do.
LEMMA MembersDoMove ==
  ASSUME SponsorTypeOK, LocalInv, MemberInv, NEW r \in Requests,
         Routes(r) \/ Step(r) \/ CallFails(r)
  PROVE  MembersMove(r) /\ tickets \subseteq tickets'
<1> USE DEF MembersMove, Stays, Cancels, Stores
<1>0. member \in [Docs -> MemberDoc] /\ r \in Docs
  BY Typed DEF SponsorTypeOK
<1>1. CASE Routes(r)
  BY <1>1, RoutesAreQuiet
<1>2. CASE CallFails(r)
  BY <1>2, FailuresAreQuiet
<1>3. CASE SaveMember(r)
  <2>1. member[r].state = "none"
    BY <1>3 DEF SaveMember, MemberInv
  <2>2. UNCHANGED <<tickets, attached>> /\ pc[r] = "memberSave"
        /\ member' = [member EXCEPT ![r] = [state |-> "active", user |-> frame[r].user,
                                            seat |-> frame[r].seat]]
    BY <1>3 DEF SaveMember
  <2>3. member'[r] = [state |-> "active", user |-> frame[r].user, seat |-> frame[r].seat]
    BY <1>0, <2>2
  <2> QED
    BY <1>0, <2>1, <2>2, <2>3
<1>4. CASE SaveCancel(r)
  <2>1. frame[r].target \in Docs /\ member[frame[r].target].state # "none"
    BY <1>4 DEF SaveCancel, MemberInv, LocalInv, LocalOK
  <2>2. UNCHANGED <<tickets, attached>> /\ pc[r] = "cancelSave"
        /\ member' = [member EXCEPT ![frame[r].target].state = "cancelled"]
    BY <1>4 DEF SaveCancel
  <2>3. \A d \in Docs : Stays(d) \/ Cancels(d)
    BY <1>0, <2>1, <2>2 DEF MemberDoc
  <2> QED
    BY <2>2, <2>3
<1>5. CASE Step(r) /\ ~SaveMember(r) /\ ~SaveCancel(r)
  BY <1>5, OtherStepsKeepMembers, TicketsGrow
<1> QED
  BY <1>1, <1>2, <1>3, <1>4, <1>5

\* A participant that is stored stays, as the same user in the same place.
LEMMA MembersStay ==
  ASSUME NEW r, MembersMove(r), NEW d \in Docs, member[d].state # "none"
  PROVE  /\ member'[d].state # "none" /\ member'[d].user = member[d].user
         /\ member'[d].seat = member[d].seat
BY DEF MembersMove, Stays, Cancels, Stores

\* A move keeps what is known of the members,
LEMMA MovesKeepMembers ==
  ASSUME SponsorTypeOK, ArrivalInv, LocalInv, TicketStored, MemberInv, SponsorTypeOK',
         NEW r \in Requests, Moves(r), Routes(r) \/ Step(r) \/ CallFails(r)
  PROVE  TicketStored' /\ MemberInv'
<1> USE DEF AcceptLabels, TicketLabels, Final
<1>0. MembersMove(r) /\ tickets \subseteq tickets' /\ Requests \subseteq Docs /\ None \notin Docs
  BY MembersDoMove, Typed, NamesAssumption
<1>1. ASSUME NEW q \in Requests \ {r}
      PROVE  (pc'[q] = "ticketAttach" => q \in tickets')
  BY <1>0, <1>1, OthersStay DEF TicketStored
<1>2. pc'[r] = "ticketAttach" => r \in tickets'
  BY DEF Moves, ArrivalKinds, ArrivesToChange, ArrivesToReview, ArrivesToValidate, ArrivesToAccept,
     Edges
<1>3. ASSUME NEW q \in Requests \ {r}
      PROVE  /\ pc'[q] \in AcceptLabels \cup {"idle", "registerQuota", "memberSave"} =>
                  member'[q].state = "none"
             /\ pc'[q] \in TicketLabels \cup {"increment"} => member'[q].state # "none"
             /\ pc'[q] \in {"sponsorSave", "ok"} /\ frame'[q].inv # None => member'[q].state # "none"
             /\ pc'[q] = "increment" => member'[q].seat = "quota"
             /\ pc'[q] = "cancelSave" => member'[frame'[q].target].state # "none"
             /\ pc'[q] = "useSave" => q \in attached'
             /\ pc'[q] = "ok" /\ frame'[q].inv # None => q \in attached'
  <2>1. pc'[q] = pc[q] /\ frame'[q] = frame[q] /\ q \in Docs
    BY <1>0, <1>3, OthersStay
  <2>2. pc[q] = "cancelSave" => frame[q].target \in Docs
    BY <1>3 DEF LocalInv, LocalOK
  <2>3. member[q].state = "none" => member'[q].state = "none"
    BY <1>0, <1>3, <2>1 DEF MembersMove, Stays, Cancels
  <2>4. attached \subseteq attached'
    BY <1>0 DEF MembersMove
  <2> QED
    BY <1>0, <1>3, <2>1, <2>2, <2>3, <2>4, MembersStay DEF MemberInv
<1>4. /\ pc'[r] \in AcceptLabels \cup {"idle", "registerQuota", "memberSave"} =>
            member'[r].state = "none"
      /\ pc'[r] \in TicketLabels \cup {"increment"} => member'[r].state # "none"
      /\ pc'[r] \in {"sponsorSave", "ok"} /\ frame'[r].inv # None => member'[r].state # "none"
      /\ pc'[r] = "increment" => member'[r].seat = "quota"
      /\ pc'[r] = "cancelSave" => member'[frame'[r].target].state # "none"
      /\ pc'[r] = "useSave" => r \in attached'
      /\ pc'[r] = "ok" /\ frame'[r].inv # None => r \in attached'
  <2>1. CASE Arrives(r) /\ ArrivalKinds(r)
    <3>1. member[r].state = "none" /\ UNCHANGED member
      BY <2>1 DEF Arrives, MemberInv
    <3> QED
      BY <1>0, <2>1, <3>1 DEF ArrivalKinds, ArrivesToChange, ArrivesToReview, ArrivesToValidate,
         ArrivesToAccept
  <2>2. CASE (Keeps(r) \/ Refuses(r)) /\ Edges(r)
    <3>1. frame'[r].inv = frame[r].inv
      BY <2>2 DEF Keeps, Refuses
    <3>2. r \in Docs /\ attached \subseteq attached'
      BY <1>0 DEF MembersMove
    <3>3. pc'[r] # "cancelSave" /\ pc'[r] # "idle" /\ (pc'[r] = "useSave" => r \in attached')
      BY <2>2 DEF Edges, FirstLabels
    <3>4. pc'[r] \in AcceptLabels \cup {"registerQuota", "memberSave"} =>
              member'[r].state = "none"
      <4>1. pc'[r] \in AcceptLabels \cup {"registerQuota", "memberSave"} =>
                pc[r] \in AcceptLabels \cup {"registerQuota"}
        BY <2>2 DEF Edges, FirstLabels
      <4>2. pc[r] \in AcceptLabels \cup {"registerQuota"} => member[r].state = "none"
        BY DEF MemberInv
      <4> QED
        BY <1>0, <3>2, <4>1, <4>2 DEF MembersMove, Stays, Cancels, Stores
    <3>5. pc'[r] = "increment" => member'[r].state # "none" /\ member'[r].seat = "quota"
      BY <1>0, <2>2 DEF Edges, MembersMove, Stores
    <3>6. ASSUME pc'[r] \in TicketLabels PROVE member'[r].state # "none"
      <4>1. pc[r] \in TicketLabels \/ pc[r] = "memberSave" \/ (pc[r] = "sponsorSave" /\ frame[r].inv # None)
        BY <2>2, <3>6 DEF Edges
      <4>2. CASE pc[r] = "memberSave"
        BY <1>0, <3>6, <4>2 DEF MembersMove, Stores
      <4> QED
        BY <1>0, <3>2, <4>1, <4>2, MembersStay DEF MemberInv
    <3>7. ASSUME pc'[r] \in {"sponsorSave", "ok"}, frame'[r].inv # None
          PROVE  member'[r].state # "none" /\ (pc'[r] = "ok" => r \in attached')
      <4>1. LocalOK(r) /\ frame[r].inv # None
        BY <3>1, <3>7 DEF LocalInv
      <4>2. pc'[r] = "sponsorSave" => pc[r] = "increment"
        BY <2>2, <4>1 DEF Edges, LocalOK
      <4>3. pc'[r] = "ok" => pc[r] = "useSave"
        BY <2>2, <4>1 DEF Edges, LocalOK
      <4> QED
        BY <1>0, <3>2, <3>7, <4>2, <4>3, MembersStay DEF MemberInv
    <3> QED
      BY <3>3, <3>4, <3>5, <3>6, <3>7
  <2> QED
    BY <2>1, <2>2 DEF Moves
<1> QED
  BY <1>1, <1>2, <1>3, <1>4 DEF TicketStored, MemberInv

\* and of their seats.
LEMMA MovesKeepSeats ==
  ASSUME SponsorTypeOK, ArrivalInv, LocalInv, MemberInv, SeatInv, RegisteredOnce,
         NEW r \in Requests, Moves(r), Routes(r) \/ Step(r) \/ CallFails(r)
  PROVE  SeatInv' /\ RegisteredOnce'
<1>0. /\ MembersMove(r) /\ pc[r] \notin Final /\ before \in [Requests -> SUBSET Requests]
      /\ Requests \subseteq Docs
  BY MembersDoMove, MovesKeepArrivals, Typed DEF SponsorTypeOK
\* A participant of a request that is over may only be cancelled.
<1>1. ASSUME NEW q \in Requests, pc[q] \in Final, member'[q].state = "active"
      PROVE  /\ member[q].state = "active" /\ member[q].user = member'[q].user
             /\ member[q].seat = member'[q].seat
  BY <1>0, <1>1 DEF MembersMove, Stays, Cancels, Stores
<1>2. ASSUME NEW s \in Requests \ {r}
      PROVE  pc'[s] = pc[s] /\ frame'[s] = frame[s] /\ before'[s] = before[s]
             /\ \A q \in before[s] : q \in Requests /\ pc[q] \in Final
  BY <1>0, <1>2, OthersStay DEF ArrivalInv
<1>3. ASSUME NEW s \in Requests, pc'[s] \in {"registerQuota", "memberSave"}
      PROVE  SeatIsFree(s, before[s])'
  <2>1. CASE s # r
    BY <1>1, <1>2, <1>3, <2>1 DEF SeatInv, SeatIsFree
  <2>2. CASE s = r /\ Arrives(r) /\ ArrivalKinds(r)
    <3>1. SeatIsFree(r, Docs)'
      BY <1>3, <2>2 DEF ArrivalKinds, ArrivesToChange, ArrivesToReview, ArrivesToValidate,
         ArrivesToAccept
    <3>2. before'[r] \subseteq Docs
      BY <1>0, <2>2 DEF Arrives
    <3> QED
      BY <2>2, <3>1, <3>2 DEF SeatIsFree
  <2>3. CASE s = r /\ (Keeps(r) \/ Refuses(r)) /\ Edges(r) /\ UNCHANGED before
    <3>1. Keeps(r)
      BY <1>3, <2>3 DEF Refuses
    <3>2. frame'[r].user = frame[r].user /\ frame'[r].seat = frame[r].seat
      BY <1>3, <2>3, <3>1 DEF Keeps, Final
    <3>3. \A q \in before[r] : q \in Requests /\ q \in Docs /\ pc[q] \in Final
      BY <1>0 DEF ArrivalInv
    <3>4. SeatIsFree(r, before[r])
      <4>1. CASE pc[r] = "register" /\ ~Registered(frame[r].user)
        BY <3>3, <4>1, NotRegistered DEF SeatIsFree
      <4>2. CASE pc[r] = "registerQuota"
        BY <4>2 DEF SeatInv
      <4> QED
        BY <1>3, <2>3, <4>1, <4>2 DEF Edges
    <3> QED
      BY <1>1, <2>3, <3>2, <3>3, <3>4 DEF SeatIsFree
  <2> QED
    BY <2>1, <2>2, <2>3 DEF Moves
<1>4. ASSUME NEW s \in Requests, NEW q \in before'[s], member'[q].state = "active",
             member'[s].state # "none", member'[q].user = member'[s].user
      PROVE  member'[s].seat = "staff" /\ member'[q].seat # "staff"
  <2>1. CASE s # r
    <3>1. q \in Requests /\ pc[q] \in Final /\ q \in before[s]
      BY <1>2, <2>1
    <3>2. /\ member[s].state # "none" /\ member[s].user = member'[s].user
          /\ member[s].seat = member'[s].seat
      BY <1>0, <1>4, <2>1 DEF MembersMove, Stays, Cancels
    <3> QED
      BY <1>1, <1>4, <3>1, <3>2 DEF RegisteredOnce
  <2>2. CASE s = r /\ Arrives(r)
    <3>1. member'[r].state = "none"
      BY <2>2 DEF Arrives, MemberInv
    <3> QED
      BY <1>4, <2>2, <3>1
  <2>3. CASE s = r /\ UNCHANGED before
    <3>1. q \in Requests /\ pc[q] \in Final /\ q \in before[r]
      BY <1>0, <2>3 DEF ArrivalInv
    <3>2. CASE Stores(r)
      <4>1. SeatIsFree(r, before[r])
        BY <3>2 DEF Stores, SeatInv
      <4> QED
        BY <1>1, <1>4, <2>3, <3>1, <3>2, <4>1 DEF Stores, SeatIsFree
    <3>3. CASE ~Stores(r)
      <4>1. /\ member[r].state # "none" /\ member[r].user = member'[r].user
            /\ member[r].seat = member'[r].seat
        BY <1>0, <1>4, <2>3, <3>3 DEF MembersMove, Stays, Cancels
      <4> QED
        BY <1>1, <1>4, <2>3, <3>1, <4>1 DEF RegisteredOnce
    <3> QED
      BY <3>2, <3>3
  <2> QED
    BY <2>1, <2>2, <2>3 DEF Moves
<1> QED
  BY <1>3, <1>4 DEF SeatInv, RegisteredOnce

(***************************************************************************)
(* The requests for more quota.                                             *)
(***************************************************************************)
AsksMove(r) ==
    /\ \A d \in Docs :
          \/ ask'[d] = ask[d]
          \/ d = r /\ pc[r] = "askInsert" /\ pc'[r] = "ok" /\ ask'[r].status = "pending"
          \/ pc[r] = "askSave" /\ ask'[d].status \in {"approved", "rejected"}
               /\ ask[d].status # "none"
    /\ pc[r] = "askSave" /\ pc'[r] = "ok" /\ frame[r].verdict # "pending" =>
          ask'[frame[r].ask].status \in {"approved", "rejected"}

\* Calls about others leave what was asked.
LEMMA OtherStepsKeepAsks ==
  ASSUME NEW r \in Requests, Step(r), ~InsertAsk(r), ~SaveAsk(r)
  PROVE  UNCHANGED ask /\ pc[r] # "askSave"
BY DEF Step, AddRead, InsertSponsor, SaveSponsor, ReadUsed, Grant, SaveMember, SaveCancel,
   CheckRegistered, CheckQuota, InsertInvitation, SaveEdit, ValidateQuota, AcceptQuota, SignUp,
   ReadTicketNumber, SaveTicket, AttachTicket, SaveUse

\* What the calls about requests to sponsor do.
LEMMA AsksDoMove ==
  ASSUME SponsorTypeOK, LocalInv, AskInv, NEW r \in Requests,
         Routes(r) \/ Step(r) \/ CallFails(r)
  PROVE  AsksMove(r)
<1> USE DEF AsksMove
<1>0. ask \in [Docs -> AskDoc] /\ r \in Docs /\ frame[r] \in Frames
  BY Typed DEF SponsorTypeOK
<1>1. CASE Routes(r)
  BY <1>1, RoutesAreQuiet
<1>2. CASE CallFails(r)
  BY <1>2, FailuresAreQuiet
<1>3. CASE InsertAsk(r)
  <2>1. pc[r] = "askInsert" /\ pc'[r] = "ok"
    BY <1>3, Goes DEF InsertAsk, Went
  <2>2. PICK n : ask' = [ask EXCEPT ![r] = [status |-> "pending", amount |-> n]]
    BY <1>3 DEF InsertAsk
  <2> QED
    BY <1>0, <2>1, <2>2
<1>4. CASE SaveAsk(r)
  <2>1. pc[r] = "askSave" /\ pc'[r] = "ok"
    BY <1>4, Goes DEF SaveAsk, Went
  <2>2. frame[r].ask \in Docs /\ ask[frame[r].ask].status # "none"
    BY <2>1 DEF LocalInv, LocalOK, AskInv
  <2>3. CASE frame[r].verdict = "pending"
    BY <1>4, <2>1, <2>3 DEF SaveAsk
  <2>4. CASE frame[r].verdict # "pending"
    <3>1. frame[r].verdict \in {"approved", "rejected"}
      BY <1>0, <2>4 DEF Frames, Verdicts
    <3>2. ask' = [ask EXCEPT ![frame[r].ask].status = frame[r].verdict]
      BY <1>4, <2>4 DEF SaveAsk
    <3> QED
      BY <1>0, <2>1, <2>2, <3>1, <3>2 DEF AskDoc
  <2> QED
    BY <2>3, <2>4
<1>5. CASE Step(r) /\ ~InsertAsk(r) /\ ~SaveAsk(r)
  BY <1>5, OtherStepsKeepAsks
<1> QED
  BY <1>1, <1>2, <1>3, <1>4, <1>5

\* A move keeps what is known of them.
LEMMA MovesKeepAsks ==
  ASSUME SponsorTypeOK, ArrivalInv, LocalInv, AskInv, SponsorTypeOK',
         NEW r \in Requests, Moves(r), Routes(r) \/ Step(r) \/ CallFails(r)
  PROVE  AskInv'
<1> USE DEF Final
<1>0. /\ AsksMove(r) /\ pc[r] \notin Final /\ before \in [Requests -> SUBSET Requests]
      /\ Requests \subseteq Docs /\ None \notin Docs /\ ask \in [Docs -> AskDoc]
      /\ ask' \in [Docs -> AskDoc]
  BY AsksDoMove, MovesKeepArrivals, Typed, NamesAssumption DEF SponsorTypeOK
\* A request stays settled.
<1>1. ASSUME NEW d \in Docs, ask[d].status # "none"
      PROVE  /\ ask'[d].status # "none"
             /\ ask[d].status # "pending" => ask'[d].status # "pending"
  <2>1. pc[r] = "askInsert" => ask[r].status = "none"
    BY DEF AskInv
  <2> QED
    BY <1>0, <1>1, <2>1 DEF AsksMove
<1>2. ASSUME NEW q \in Requests, pc'[q] = "ok", frame'[q].ask # None, frame'[q].verdict # "pending"
      PROVE  /\ frame'[q].ask \in Docs /\ ask'[frame'[q].ask].status # "pending"
             /\ q # r => pc[q] = "ok" /\ frame[q] = frame'[q]
  <2>1. CASE q # r
    BY <1>1, <1>2, <2>1, OthersStay DEF AskInv, LocalInv, LocalOK
  <2>2. CASE q = r /\ Arrives(r) /\ ArrivalKinds(r)
    BY <1>2, <2>2 DEF ArrivalKinds, ArrivesToChange, ArrivesToReview, ArrivesToValidate,
       ArrivesToAccept
  <2>3. CASE q = r /\ (Keeps(r) \/ Refuses(r)) /\ Edges(r)
    <3>1. LocalOK(r)
      BY DEF LocalInv
    <3>2. frame[r].ask = frame'[r].ask /\ frame[r].ask # None
      BY <1>2, <2>3 DEF Keeps, Refuses
    <3>3. pc[r] = "askSave" /\ frame[r].ask \in Docs
      BY <1>2, <2>3, <3>1, <3>2 DEF LocalOK, Edges
    <3>4. frame[r].verdict # "pending"
      BY <1>2, <2>3, <3>3 DEF Keeps, Refuses
    <3> QED
      BY <1>0, <1>2, <2>3, <3>2, <3>3, <3>4 DEF AsksMove
  <2> QED
    BY <2>1, <2>2, <2>3 DEF Moves
<1>3. ASSUME NEW s \in Requests, pc'[s] # "ok" PROVE ask'[s].status = "none"
  <2>1. pc[s] # "ok"
    BY <1>0, <1>3, OthersStay
  <2>2. ask[s].status = "none"
    BY <2>1 DEF AskInv
  <2> QED
    BY <1>0, <1>3, <2>2 DEF AsksMove
<1>4. ASSUME NEW s \in Requests, frame'[s].ask # None
      PROVE  ask'[frame'[s].ask].status # "none"
  <2>1. CASE Arrives(r) /\ ArrivalKinds(r) /\ s = r
    BY <1>0, <1>4, <2>1 DEF Arrives, ArrivalKinds, ArrivesToChange, ArrivesToReview,
       ArrivesToValidate, ArrivesToAccept
  <2>2. CASE s # r \/ Keeps(r) \/ Refuses(r)
    <3>1. frame'[s].ask = frame[s].ask
      BY <2>2, OthersStay DEF Keeps, Refuses
    <3>2. frame[s].ask \in Docs /\ ask[frame[s].ask].status # "none"
      BY <1>4, <3>1 DEF AskInv, LocalInv, LocalOK
    <3> QED
      BY <1>1, <3>1, <3>2
  <2> QED
    BY <2>1, <2>2 DEF Moves
<1>5. ASSUME NEW s \in Requests, frame'[s].ask # None, pc'[s] \notin {"error", "failed"},
             NEW q \in before'[s], pc'[q] = "ok", frame'[q].ask = frame'[s].ask
      PROVE  frame'[q].verdict = "pending"
  <2>0. q \in Requests /\ q # r /\ pc[q] = "ok" /\ frame'[q] = frame[q]
    <3>1. q \in Requests /\ pc[q] \in Final
      BY <1>0, <1>5, OthersStay DEF Moves, Arrives, ArrivalInv
    <3> QED
      BY <1>0, <1>5, <3>1, OthersStay
  <2>1. CASE s # r
    <3>1. pc'[s] = pc[s] /\ frame'[s] = frame[s] /\ before'[s] = before[s]
      BY <2>1, OthersStay
    <3> QED
      BY <1>5, <2>0, <3>1 DEF AskInv
  <2>2. CASE s = r /\ Arrives(r) /\ ArrivalKinds(r)
    <3>1. frame'[r].ask \in Docs /\ ask[frame'[r].ask].status = "pending"
      BY <1>5, <2>2 DEF ArrivalKinds, ArrivesToChange, ArrivesToReview, ArrivesToValidate,
         ArrivesToAccept, Reviewable
    <3> QED
      BY <1>5, <2>0, <2>2, <3>1 DEF AskInv
  <2>3. CASE s = r /\ (Keeps(r) \/ Refuses(r)) /\ UNCHANGED before
    <3>1. frame'[r].ask = frame[r].ask
      BY <2>3 DEF Keeps, Refuses
    <3> QED
      BY <1>0, <1>5, <2>0, <2>3, <3>1 DEF AskInv
  <2> QED
    BY <2>1, <2>2, <2>3 DEF Moves
<1> QED
  BY <1>2, <1>3, <1>4, <1>5 DEF AskInv

\* What that says of reviews.
LEMMA ReviewedIsOnce ==
  ASSUME ArrivalInv, AskInv
  PROVE  ReviewedOnce
BY DEF AskInv, ReviewedOnce

(***************************************************************************)
(* The invitations.                                                         *)
(***************************************************************************)
\* r is written into the list of what it accepts.
Uses(r) ==
    LET i == frame[r].inv
    IN  /\ pc[r] = "useSave" /\ pc'[r] = "ok"
        /\ invitation'[i].uses = frame[r].iv.old.uses + 1
        /\ listed'[i] = listed[i] \cup {r}

InvitationsMove(r) ==
    /\ \A i \in Docs :
          /\ invitation[i].stored => /\ invitation'[i].stored
                                     /\ invitation'[i].usage = invitation[i].usage
                                     /\ invitation'[i].seat = invitation[i].seat
          /\ ~invitation[i].stored /\ invitation'[i].stored =>
                /\ i = r /\ pc[r] = "inviteInsert" /\ pc'[r] = "ok"
                /\ invitation'[i].seat # "regular"
          /\ \/ invitation'[i].uses \in {0, invitation[i].uses}
                  /\ (invitation[i].stored => invitation'[i].uses = invitation[i].uses)
                  /\ listed'[i] = listed[i]
             \/ i = frame[r].inv /\ Uses(r)
    /\ pc[r] = "useSave" /\ pc'[r] # "failed" => Uses(r)

\* Calls about others leave the invitations.
LEMMA OtherStepsKeepInvitations ==
  ASSUME NEW r \in Requests, Step(r), ~InsertInvitation(r), ~SaveEdit(r), ~SaveUse(r)
  PROVE  UNCHANGED inviteVars /\ pc[r] # "useSave"
BY DEF Step, AddRead, InsertSponsor, SaveSponsor, ReadUsed, InsertAsk, Grant, SaveAsk, SaveMember,
   SaveCancel, CheckRegistered, CheckQuota, ValidateQuota, AcceptQuota, SignUp,
   ReadTicketNumber, SaveTicket, AttachTicket

\* A save of an edit leaves the offer; a save of a use counts it.
LEMMA SavedOffer ==
  ASSUME NEW s \in InvitationDoc, NEW d, SameOffer(d)
  PROVE  /\ Saved(s, d).stored = s.stored /\ Saved(s, d).usage = s.usage
         /\ Saved(s, d).seat = s.seat /\ Saved(s, d).uses = s.uses
BY DEF Saved, SameOffer, InvitationDoc

\* What saving a use does.
LEMMA SavedUse ==
  ASSUME NEW s \in InvitationDoc, NEW old \in InvitationDoc
  PROVE  /\ Saved(s, Draft(old, Used(old))).stored = s.stored
         /\ Saved(s, Draft(old, Used(old))).usage = s.usage
         /\ Saved(s, Draft(old, Used(old))).seat = s.seat
         /\ Saved(s, Draft(old, Used(old))).uses = old.uses + 1
<1>1. PICK new : new = Used(old)
  OBVIOUS
<1>2. /\ new.uses = old.uses + 1 /\ new.stored = old.stored /\ new.usage = old.usage
      /\ new.seat = old.seat
  BY <1>1, UsedTypes
<1>3. old.uses \in Nat
  BY DEF InvitationDoc
<1>4. /\ Saved(s, Draft(old, new)).stored = s.stored
      /\ Saved(s, Draft(old, new)).usage = s.usage
      /\ Saved(s, Draft(old, new)).seat = s.seat
      /\ Saved(s, Draft(old, new)).uses = old.uses + 1
  BY <1>2, <1>3 DEF Saved, Draft, InvitationDoc
<1> QED
  BY <1>1, <1>4

\* What the calls about invitations do.
LEMMA InvitationsDoMove ==
  ASSUME SponsorTypeOK, LocalInv, InvitationInv, NEW r \in Requests,
         Routes(r) \/ Step(r) \/ CallFails(r)
  PROVE  InvitationsMove(r)
<1> USE DEF InvitationsMove
<1>0. /\ invitation \in [Docs -> InvitationDoc] /\ listed \in [Docs -> SUBSET Docs]
      /\ r \in Docs /\ frame[r] \in Frames
  BY Typed DEF SponsorTypeOK
<1>1. CASE Routes(r)
  BY <1>1, RoutesAreQuiet
<1>2. CASE CallFails(r)
  BY <1>2, FailuresAreQuiet
<1>3. CASE InsertInvitation(r)
  <2>1. pc[r] = "inviteInsert" /\ pc'[r] = "ok" /\ listed' = listed
        /\ invitation' = [invitation EXCEPT ![r] = frame[r].iv.new]
    BY <1>3, Goes DEF InsertInvitation, Went
  <2>2. frame[r].iv.new.stored /\ frame[r].iv.new.seat # "regular" /\ frame[r].iv.new.uses = 0
    BY <2>1 DEF LocalInv, LocalOK
  <2>3. ~invitation[r].stored
    BY <2>1 DEF InvitationInv
  <2> QED
    BY <1>0, <2>1, <2>2, <2>3
<1>4. CASE SaveEdit(r)
  <2>1. pc[r] = "editSave" /\ pc'[r] = "ok" /\ listed' = listed
        /\ invitation' = [invitation EXCEPT ![frame[r].target] = Saved(@, frame[r].iv)]
    BY <1>4, Goes DEF SaveEdit, Went
  <2>2. SameOffer(frame[r].iv)
    BY <2>1 DEF LocalInv, LocalOK
  <2>3. \A i \in Docs : /\ invitation'[i].stored = invitation[i].stored
                        /\ invitation'[i].usage = invitation[i].usage
                        /\ invitation'[i].seat = invitation[i].seat
                        /\ invitation'[i].uses = invitation[i].uses
    BY <1>0, <2>1, <2>2, SavedOffer
  <2> QED
    BY <2>1, <2>3
<1>5. CASE SaveUse(r)
  <2>1. PICK i, old, saved :
          /\ i = frame[r].inv /\ old = frame[r].iv.old
          /\ saved = Saved(invitation[i], Draft(old, Used(old)))
    OBVIOUS
  <2>2. pc[r] = "useSave" /\ pc'[r] = "ok"
    BY <1>5, Goes DEF SaveUse, Went
  <2>3. invitation' = [invitation EXCEPT ![i] = saved] /\ listed' = [listed EXCEPT ![i] = @ \cup {r}]
    BY <1>5, <2>1 DEF SaveUse
  <2>4. i \in Docs /\ invitation[i].stored
    BY <2>1, <2>2 DEF LocalInv, LocalOK, InvitationInv, TicketLabels, AcceptLabels
  <2>5. old \in InvitationDoc
    BY <1>0, <2>1 DEF Frames
  <2>6. /\ saved.stored = invitation[i].stored /\ saved.usage = invitation[i].usage
        /\ saved.seat = invitation[i].seat /\ saved.uses = old.uses + 1
    BY <1>0, <2>1, <2>4, <2>5, SavedUse
  <2>7. invitation'[i] = saved /\ listed'[i] = listed[i] \cup {r}
        /\ \A j \in Docs \ {i} : invitation'[j] = invitation[j] /\ listed'[j] = listed[j]
    BY <1>0, <2>3, <2>4
  <2>8. Uses(r)
    BY <2>1, <2>2, <2>6, <2>7 DEF Uses
  <2> QED
    BY <2>1, <2>2, <2>4, <2>6, <2>7, <2>8
<1>6. CASE Step(r) /\ ~InsertInvitation(r) /\ ~SaveEdit(r) /\ ~SaveUse(r)
  BY <1>6, OtherStepsKeepInvitations
<1> QED
  BY <1>1, <1>2, <1>3, <1>4, <1>5, <1>6

\* A move keeps what is known of the offers,
LEMMA MovesKeepOffers ==
  ASSUME SponsorTypeOK, SeatsOffered, NEW r, InvitationsMove(r)
  PROVE  SeatsOffered'
BY DEF SeatsOffered, InvitationsMove

\* The lists name requests that were answered, and grow.
LEMMA MovesKeepLists ==
  ASSUME SponsorTypeOK, ArrivalInv, LocalInv, ListInv, UsesAreListed, SeatsOffered, InvitationInv,
         SponsorTypeOK', NEW r \in Requests, Moves(r), InvitationsMove(r)
  PROVE  /\ ListInv' /\ UsesAreListed'
         /\ \A i \in Docs : listed[i] \subseteq listed'[i]
         /\ \A i \in Docs : Cardinality(listed[i]) <= Cardinality(listed'[i])
<1>0. /\ pc[r] \notin Final /\ listed \in [Docs -> SUBSET Docs] /\ listed' \in [Docs -> SUBSET Docs]
      /\ invitation \in [Docs -> InvitationDoc] /\ Requests \subseteq Docs
  BY MovesKeepArrivals, Typed DEF SponsorTypeOK
<1>1. \A i \in Docs : IsFiniteSet(listed[i]) /\ IsFiniteSet(listed'[i])
  BY <1>0, FinitenessAssumption, FS_Subset
<1>2. \A i \in Docs : Cardinality(listed[i]) \in Nat
  BY <1>1, FS_CardinalityType
<1>3. \A i \in Docs : r \notin listed[i]
  BY <1>0 DEF ListInv, Final
<1>4. ASSUME NEW i \in Docs, i = frame[r].inv, Uses(r)
      PROVE  Cardinality(listed'[i]) = Cardinality(listed[i]) + 1
  <2>1. listed'[i] = listed[i] \cup {r}
    BY <1>4 DEF Uses
  <2> QED
    BY <1>1, <1>3, <2>1, FS_AddElement
<1>5. ASSUME NEW i \in Docs
      PROVE  /\ listed[i] \subseteq listed'[i] /\ Cardinality(listed[i]) <= Cardinality(listed'[i])
             /\ invitation'[i].uses <= Cardinality(listed'[i])
             /\ \A d \in listed'[i] : d \in Requests /\ pc'[d] = "ok"
  <2>1. CASE i = frame[r].inv /\ Uses(r)
    <3>1. listed'[i] = listed[i] \cup {r} /\ pc'[r] = "ok" /\ pc[r] = "useSave"
          /\ invitation'[i].uses = frame[r].iv.old.uses + 1
      BY <2>1 DEF Uses
    <3>2. frame[r].iv.old.uses <= Cardinality(listed[i])
      BY <1>0, <2>1, <3>1, NamesAssumption DEF InvitationInv
    <3>3. frame[r].iv.old.uses \in Nat
      BY Typed DEF Frames, InvitationDoc
    <3>4. \A d \in listed'[i] : d \in Requests /\ pc'[d] = "ok"
      BY <1>0, <1>3, <3>1, OthersStay DEF ListInv
    <3>5. Cardinality(listed'[i]) = Cardinality(listed[i]) + 1
      BY <1>4, <2>1
    <3>6. /\ Cardinality(listed[i]) <= Cardinality(listed'[i])
          /\ invitation'[i].uses <= Cardinality(listed'[i])
      BY <1>2, <3>1, <3>2, <3>3, <3>5
    <3> QED
      BY <3>1, <3>4, <3>6
  <2>2. CASE invitation'[i].uses \in {0, invitation[i].uses} /\ listed'[i] = listed[i]
    <3>1. invitation[i].uses <= Cardinality(listed[i])
      BY DEF UsesAreListed
    <3>2. \A d \in listed'[i] : d \in Requests /\ pc'[d] = "ok"
      BY <1>0, <1>3, <2>2, OthersStay DEF ListInv
    <3> QED
      BY <1>0, <1>2, <2>2, <3>1, <3>2 DEF InvitationDoc
  <2> QED
    BY <2>1, <2>2 DEF InvitationsMove
<1> QED
  BY <1>5 DEF ListInv, UsesAreListed

\* of the invitations,
LEMMA MovesKeepInvitations ==
  ASSUME SponsorTypeOK, ArrivalInv, LocalInv, ListInv, UsesAreListed, SeatsOffered, InvitationInv,
         SponsorTypeOK', NEW r \in Requests, Moves(r), InvitationsMove(r),
         \A i \in Docs : listed[i] \subseteq listed'[i],
         \A i \in Docs : Cardinality(listed[i]) <= Cardinality(listed'[i])
  PROVE  InvitationInv'
<1> USE DEF Final
<1>0. /\ pc[r] \notin Final /\ before \in [Requests -> SUBSET Requests] /\ None \notin Docs
      /\ invitation \in [Docs -> InvitationDoc] /\ Requests \subseteq Docs
      /\ invitation' \in [Docs -> InvitationDoc]
      /\ listed \in [Docs -> SUBSET Docs] /\ listed' \in [Docs -> SUBSET Docs]
  BY MovesKeepArrivals, Typed, NamesAssumption DEF SponsorTypeOK
<1>1. \A i \in Docs : Cardinality(listed[i]) \in Nat /\ Cardinality(listed'[i]) \in Nat
  BY <1>0, FinitenessAssumption, FS_Subset, FS_CardinalityType
<1>2. \A i \in Docs : invitation[i].stored =>
         invitation'[i].stored /\ invitation'[i].usage = invitation[i].usage
  BY DEF InvitationsMove
\* A use that was counted is never taken back.
<1>3. ASSUME NEW i \in Docs, invitation[i].stored, invitation[i].uses > 0
      PROVE  invitation'[i].uses > 0
  <2>1. CASE i = frame[r].inv /\ Uses(r)
    <3>1. frame[r].iv.old.uses \in Nat
      BY Typed DEF Frames, InvitationDoc
    <3> QED
      BY <2>1, <3>1 DEF Uses
  <2> QED
    BY <1>3, <2>1 DEF InvitationsMove
\* What has been accepted once.
<1>4. ASSUME NEW q \in Requests, pc[q] = "ok", frame[q].inv # None
      PROVE  /\ frame[q].inv \in Docs /\ invitation[frame[q].inv].stored
             /\ invitation[frame[q].inv].uses > 0 /\ q \in listed[frame[q].inv]
  BY <1>4 DEF InvitationInv, LocalInv, LocalOK
<1>5. ASSUME NEW s \in Requests, pc'[s] # "ok" PROVE ~invitation'[s].stored
  <2>1. pc[s] # "ok"
    BY <1>0, <1>5, OthersStay
  <2>2. ~invitation[s].stored
    BY <2>1 DEF InvitationInv
  <2> QED
    BY <1>0, <1>5, <2>2 DEF InvitationsMove
<1>6. ASSUME NEW s \in Requests
      PROVE  /\ frame'[s].inv # None => invitation'[frame'[s].inv].stored
             /\ frame'[s].ask = None /\ frame'[s].verdict # "pending" =>
                  invitation'[frame'[s].target].stored
             /\ pc'[s] = "editSave" => invitation'[frame'[s].target].stored
  <2>1. CASE s # r
    <3>1. pc'[s] = pc[s] /\ frame'[s] = frame[s]
      BY <2>1, OthersStay
    <3> QED
      BY <1>2, <3>1 DEF InvitationInv, LocalInv, LocalOK
  <2>2. CASE s = r /\ Arrives(r) /\ ArrivalKinds(r)
    BY <1>0, <2>2 DEF Arrives, ArrivalKinds, ArrivesToChange, ArrivesToReview, ArrivesToValidate,
       ArrivesToAccept
  <2>3. CASE s = r /\ (Keeps(r) \/ Refuses(r)) /\ Edges(r)
    <3>1. /\ frame'[r].inv = frame[r].inv /\ frame'[r].ask = frame[r].ask
          /\ frame'[r].verdict # "pending" =>
                frame[r].verdict # "pending" /\ frame'[r].target = frame[r].target
      BY <2>3 DEF Keeps, Refuses, LocalInv, LocalOK
    <3>2. pc'[r] # "editSave"
      BY <2>3 DEF Edges, FirstLabels
    <3> QED
      BY <1>2, <2>3, <3>1, <3>2 DEF InvitationInv, LocalInv, LocalOK
  <2> QED
    BY <2>1, <2>2, <2>3 DEF Moves
<1>7. ASSUME NEW s \in Requests, frame'[s].inv # None, pc'[s] \notin Final
      PROVE  frame'[s].iv.old.uses <= Cardinality(listed'[frame'[s].inv])
  <2>1. CASE s = r /\ Arrives(r) /\ ArrivalKinds(r)
    <3>1. frame'[r].inv \in Docs /\ frame'[r].iv.old = invitation[frame'[r].inv] /\ listed' = listed
      BY <1>7, <2>1 DEF Arrives, ArrivalKinds, ArrivesToChange, ArrivesToReview, ArrivesToValidate,
         ArrivesToAccept
    <3> QED
      BY <2>1, <3>1 DEF UsesAreListed
  <2>2. CASE s # r \/ Keeps(r)
    <3>1. frame'[s].inv = frame[s].inv /\ frame'[s].iv = frame[s].iv /\ pc[s] \notin Final
      BY <1>0, <1>7, <2>2, OthersStay DEF Keeps
    <3>2. frame[s].inv \in Docs /\ frame[s].iv.old.uses <= Cardinality(listed[frame[s].inv])
      BY <1>7, <3>1 DEF InvitationInv, LocalInv, LocalOK
    <3>3. frame[s].iv.old.uses \in Nat
      BY Typed DEF Frames, InvitationDoc
    <3> QED
      BY <1>1, <3>1, <3>2, <3>3
  <2> QED
    BY <1>7, <2>1, <2>2 DEF Moves, Refuses
<1>8. ASSUME NEW s \in Requests, frame'[s].inv # None, pc'[s] = "ok"
      PROVE  s \in listed'[frame'[s].inv] /\ invitation'[frame'[s].inv].uses > 0
  <2>1. CASE s # r
    BY <1>3, <1>4, <1>8, <2>1, OthersStay
  <2>2. CASE s = r /\ Arrives(r) /\ ArrivalKinds(r)
    BY <1>8, <2>2 DEF ArrivalKinds, ArrivesToChange, ArrivesToReview, ArrivesToValidate,
       ArrivesToAccept
  <2>3. CASE s = r /\ (Keeps(r) \/ Refuses(r)) /\ Edges(r)
    <3>1. frame[r].inv = frame'[r].inv /\ frame[r].inv # None /\ LocalOK(r)
      BY <1>8, <2>3 DEF Keeps, Refuses, LocalInv
    <3>2. pc[r] = "useSave"
      BY <1>8, <2>3, <3>1 DEF Edges, LocalOK
    <3>3. Uses(r)
      BY <1>8, <2>3, <3>2 DEF InvitationsMove
    <3>4. frame[r].iv.old.uses \in Nat
      BY Typed DEF Frames, InvitationDoc
    <3> QED
      BY <2>3, <3>1, <3>3, <3>4 DEF Uses
  <2> QED
    BY <2>1, <2>2, <2>3 DEF Moves
<1>9. ASSUME NEW s \in Requests, Shown(s)' # None, pc'[s] \notin {"error", "failed"},
             NEW q \in before'[s], pc'[q] = "ok", frame'[q].inv = Shown(s)'
      PROVE  invitation'[Shown(s)'].usage # "single"
  <2>0. q \in Requests /\ q # r /\ pc[q] = "ok" /\ frame'[q] = frame[q]
    <3>1. q \in Requests /\ pc[q] \in Final
      BY <1>0, <1>9, OthersStay DEF Moves, Arrives, ArrivalInv
    <3> QED
      BY <1>0, <1>9, <3>1, OthersStay
  <2>1. /\ Shown(s)' \in Docs /\ invitation[Shown(s)'].stored
        /\ invitation[Shown(s)'].uses > 0
    BY <1>4, <1>9, <2>0
  <2>2. CASE s = r /\ Arrives(r) /\ ArrivalKinds(r)
    <3>1. Usable(invitation[Shown(r)'])
      BY <1>0, <1>9, <2>2 DEF ArrivalKinds, ArrivesToChange, ArrivesToReview, ArrivesToValidate,
         ArrivesToAccept, Shown
    <3>2. invitation[Shown(r)'].usage # "single"
      BY <1>0, <2>1, <2>2, <3>1 DEF Usable, InvitationDoc
    <3> QED
      BY <1>2, <2>1, <2>2, <3>2
  <2>3. CASE (s # r \/ Keeps(r) \/ Refuses(r)) /\ before'[s] = before[s]
    <3>1. pc[s] \notin {"error", "failed"}
      BY <1>0, <1>9, <2>3, OthersStay
    <3>2. Shown(s) = Shown(s)'
      <4>1. CASE s # r
        BY <4>1, OthersStay DEF Shown
      <4>2. CASE Keeps(r) /\ s = r
        BY <4>2 DEF Shown, Keeps
      <4>3. CASE Refuses(r) /\ s = r
        <5>1. Shown(s)' = None
          BY <4>3 DEF Shown, Refuses, LocalInv, LocalOK
        <5> QED
          BY <1>9, <5>1
      <4> QED
        BY <2>3, <4>1, <4>2, <4>3
    <3>3. invitation[Shown(s)].usage # "single"
      BY <1>9, <2>0, <2>3, <3>1, <3>2 DEF InvitationInv
    <3> QED
      BY <1>2, <2>1, <3>2, <3>3
  <2> QED
    BY <2>2, <2>3, OthersStay DEF Moves
<1> QED
  BY <1>5, <1>6, <1>7, <1>8, <1>9 DEF InvitationInv

(***************************************************************************)
(* The quota.                                                               *)
(***************************************************************************)
\* The counter, and the copies of the sponsor.
UsedMoves(r) ==
    /\ \/ sponsor'.used = sponsor.used
       \/ pc[r] \in {"sponsorInsert", "sponsorSave"} /\ pc'[r] \notin {"sponsorSave", "increment"}
            /\ sponsor'.used = frame[r].sp.new.used
    /\ pc'[r] \in {"sponsorSave", "sponsorInsert"} =>
          /\ frame'[r].sp.old.used = sponsor.used
          /\ \/ frame'[r].sp.new.used = sponsor.used
             \/ pc'[r] = "sponsorSave" /\ pc[r] = "increment"
                  /\ frame'[r].sp.new.used = sponsor.used + 1
             \/ pc'[r] = "sponsorSave" /\ frame'[r].sp.new.used < sponsor.used

\* The steps that read or change the sponsor.
LEMMA OtherStepsKeepUsed ==
  ASSUME NEW r \in Requests, Step(r), ~AddRead(r), ~InsertSponsor(r), ~SaveSponsor(r),
         ~ReadUsed(r), ~Grant(r)
  PROVE  UNCHANGED sponsor /\ pc[r] \notin {"addRead", "increment", "decrement", "grant"}
BY DEF Step, InsertAsk, SaveAsk, SaveMember, SaveCancel, CheckRegistered, CheckQuota,
   InsertInvitation, SaveEdit, ValidateQuota, AcceptQuota, SignUp, ReadTicketNumber, SaveTicket,
   AttachTicket, SaveUse

\* What the calls about uses do.
LEMMA UsedDoesMove ==
  ASSUME SponsorTypeOK, ArrivalInv, NEW r \in Requests, Moves(r),
         Routes(r) \/ Step(r) \/ CallFails(r)
  PROVE  UsedMoves(r)
<1>0. frame[r] \in Frames /\ sponsor \in SponsorDoc
  BY Typed DEF SponsorTypeOK
\* The sponsor is read, to be saved with another counter.
<1>1. ASSUME NEW new, NEW label \in {"sponsorSave", "sponsorInsert", "error"},
             Continue(r, label, [frame[r] EXCEPT !.sp = Draft(sponsor, new)])
      PROVE  /\ pc'[r] = label
             /\ label # "error" => /\ frame'[r].sp.old.used = sponsor.used
                                   /\ frame'[r].sp.new.used = new.used
  <2>1. PICK f : f = [frame[r] EXCEPT !.sp = Draft(sponsor, new)]
    OBVIOUS
  <2>2. Went(r, label, f)
    BY <1>1, <2>1, Goes
  <2>3. f.sp.old = sponsor /\ f.sp.new = new
    BY <1>0, <2>1 DEF Frames, Draft
  <2>4. pc'[r] = label /\ (label # "error" => frame'[r] = f)
    BY <2>2 DEF Went, Final
  <2> QED
    BY <2>3, <2>4
<1>2. CASE Routes(r)
  <2>1. pc[r] = "idle" /\ UNCHANGED sponsor
    BY <1>2, RoutesAreQuiet
  <2>2. ArrivalKinds(r)
    BY <2>1 DEF Moves, Edges
  <2> QED
    BY <2>1, <2>2 DEF UsedMoves, ArrivalKinds, ArrivesToChange, ArrivesToReview, ArrivesToValidate,
       ArrivesToAccept
<1>3. CASE CallFails(r)
  BY <1>3, FailuresAreQuiet DEF UsedMoves
<1>4. CASE AddRead(r)
  <2>1. PICK q \in 0 .. MaxQuota : Continue(r, IF sponsor.stored THEN "sponsorSave" ELSE "sponsorInsert",
            [frame[r] EXCEPT !.sp = Draft(sponsor,
              [stored |-> TRUE, active |-> TRUE, quota |-> q, used |-> sponsor.used])])
    BY <1>4 DEF AddRead
  <2>2. PICK new : new = [stored |-> TRUE, active |-> TRUE, quota |-> q, used |-> sponsor.used]
    OBVIOUS
  <2>3. new.used = sponsor.used
    BY <2>2
  <2>4. PICK label \in {"sponsorSave", "sponsorInsert"} :
            Continue(r, label, [frame[r] EXCEPT !.sp = Draft(sponsor, new)])
    BY <2>1, <2>2
  <2> QED
    BY <1>1, <1>4, <2>3, <2>4 DEF UsedMoves, AddRead
<1>5. CASE InsertSponsor(r)
  <2>1. pc'[r] \in {"ok", "error"} /\ pc[r] = "sponsorInsert"
    BY <1>5, Goes DEF InsertSponsor, Went
  <2> QED
    BY <1>5, <2>1 DEF UsedMoves, InsertSponsor
<1>6. CASE SaveSponsor(r)
  <2>1. pc[r] = "sponsorSave" /\ pc'[r] \in {"askSave", "ticketNumber", "ok", "error"}
    BY <1>6, Goes DEF SaveSponsor, Went, AfterSponsor
  <2>2. sponsor' = Saved(sponsor, frame[r].sp) \/ sponsor' = sponsor
    BY <1>6 DEF SaveSponsor
  <2>3. Saved(sponsor, frame[r].sp).used \in {sponsor.used, frame[r].sp.new.used}
    BY <1>0 DEF Saved, SponsorDoc
  <2> QED
    BY <2>1, <2>2, <2>3 DEF UsedMoves
<1>7. CASE ReadUsed(r)
  <2>1. PICK n : n = IF pc[r] = "increment" THEN CountUse(sponsor.used) ELSE CountCancel(sponsor.used)
    OBVIOUS
  <2>2. PICK new : new = [sponsor EXCEPT !.used = n]
    OBVIOUS
  <2>3. new.used = n
    BY <1>0, <2>2 DEF SponsorDoc
  <2>4. PICK label \in {"sponsorSave", "error"} :
            Continue(r, label, [frame[r] EXCEPT !.sp = Draft(sponsor, new)])
    BY <1>7, <2>1, <2>2 DEF ReadUsed
  <2>5. pc[r] = "increment" \/ n < sponsor.used \/ n = sponsor.used
    BY <1>0, <2>1 DEF CountCancel, SponsorDoc
  <2>6. pc[r] = "increment" => n = sponsor.used + 1
    BY <2>1 DEF CountUse
  <2>7. UNCHANGED sponsor
    BY <1>7 DEF ReadUsed
  <2>8. /\ pc'[r] = label
        /\ label # "error" => frame'[r].sp.old.used = sponsor.used /\ frame'[r].sp.new.used = n
    BY <1>1, <2>3, <2>4
  <2> QED
    BY <2>5, <2>6, <2>7, <2>8 DEF UsedMoves
<1>8. CASE Grant(r)
  <2>1. PICK new : /\ new = [sponsor EXCEPT !.quota = @ + frame[r].num]
                   /\ Continue(r, "sponsorSave", [frame[r] EXCEPT !.sp = Draft(sponsor, new)])
    BY <1>8 DEF Grant
  <2>2. new.used = sponsor.used
    BY <1>0, <2>1 DEF SponsorDoc
  <2> QED
    BY <1>1, <1>8, <2>1, <2>2 DEF UsedMoves, Grant
<1>9. CASE Step(r) /\ ~AddRead(r) /\ ~InsertSponsor(r) /\ ~SaveSponsor(r) /\ ~ReadUsed(r) /\ ~Grant(r)
  <2>1. UNCHANGED sponsor /\ pc[r] \notin {"addRead", "increment", "decrement", "grant"}
    BY <1>9, OtherStepsKeepUsed
  <2>2. pc[r] # "idle"
    BY <1>9 DEF Step, InsertAsk, SaveAsk, SaveMember, SaveCancel, CheckRegistered, CheckQuota,
   InsertInvitation, SaveEdit, ValidateQuota, AcceptQuota, SignUp, ReadTicketNumber, SaveTicket,
   AttachTicket, SaveUse
  <2>3. pc'[r] \notin {"sponsorSave", "sponsorInsert"}
    BY <2>1, <2>2 DEF Moves, Arrives, Edges
  <2> QED
    BY <2>1, <2>3 DEF UsedMoves
<1> QED
  BY <1>2, <1>3, <1>4, <1>5, <1>6, <1>7, <1>8, <1>9

\* and of the uses.
LEMMA MovesKeepUsed ==
  ASSUME SponsorTypeOK, ArrivalInv, LocalInv, MemberInv, UsedInv, SponsorTypeOK',
         NEW r \in Requests, Moves(r), MembersMove(r), UsedMoves(r)
  PROVE  UsedInv'
<1>0. /\ pc[r] \notin Final /\ Requests \subseteq Docs /\ sponsor.used \in Nat
      /\ sponsor'.used \in Nat
      /\ \A s \in Requests : /\ frame[s].sp.old.used \in Nat /\ frame[s].sp.new.used \in Nat
                             /\ frame'[s].sp.old.used \in Nat /\ frame'[s].sp.new.used \in Nat
  <2>1. /\ frame \in [Requests -> Frames] /\ frame' \in [Requests -> Frames]
        /\ sponsor \in SponsorDoc /\ sponsor' \in SponsorDoc
    BY Typed DEF SponsorTypeOK, Frames
  <2> QED
    BY <2>1, Typed, MovesKeepArrivals DEF Frames, SponsorDoc
\* The registrations stay.
<1>1. Backing \subseteq Backing'
  BY MembersStay DEF Backing, Counted, SponsorTypeOK, MemberDoc
<1>2. ASSUME NEW s \in Requests \ {r} PROVE s \in Uncounted' <=> s \in Uncounted
  BY <1>2, OthersStay DEF Uncounted
\* Who begins to be uncounted was not registered before.
<1>3. r \in Uncounted' => r \in Backing' /\ (r \in Uncounted \/ r \notin Backing)
  <2>1. CASE Arrives(r) /\ ArrivalKinds(r)
    <3>1. r \notin Uncounted'
      BY <1>0, <2>1 DEF Uncounted, ArrivalKinds, ArrivesToChange, ArrivesToReview,
         ArrivesToValidate, ArrivesToAccept
    <3> QED
      BY <3>1
  <2>2. CASE (Keeps(r) \/ Refuses(r)) /\ Edges(r)
    <3>1. CASE pc'[r] = "increment"
      <4>1. Stores(r) /\ frame[r].seat = "quota"
        BY <2>2, <3>1 DEF Edges, MembersMove
      <4>2. r \in Backing' /\ r \notin Backing
        BY <1>0, <4>1 DEF Stores, Backing, Counted
      <4> QED
        BY <4>2
    <3>2. CASE pc'[r] = "sponsorSave" /\ frame'[r].sp.new.used > frame'[r].sp.old.used
      <4>1. pc[r] = "increment"
        BY <1>0, <3>2 DEF UsedMoves
      <4>2. r \in Uncounted
        BY <4>1 DEF Uncounted
      <4> QED
        BY <1>1, <4>2 DEF UsedInv
    <3> QED
      BY <3>1, <3>2 DEF Uncounted
  <2> QED
    BY <2>1, <2>2 DEF Moves
<1>4. Backing \ Uncounted \subseteq Backing' \ Uncounted'
  <2>1. Uncounted' \subseteq Requests
    BY DEF Uncounted
  <2> QED
    BY <1>1, <1>2, <1>3, <2>1
<1>5. Uncounted' \subseteq Backing'
  <2>1. Uncounted' \subseteq Requests /\ Uncounted \subseteq Backing
    BY DEF Uncounted, UsedInv
  <2> QED
    BY <1>1, <1>2, <1>3, <2>1
<1>6. IsFiniteSet(Backing \ Uncounted) /\ IsFiniteSet(Backing' \ Uncounted')
  <2>1. Backing \ Uncounted \subseteq Docs /\ Backing' \ Uncounted' \subseteq Docs
    BY DEF Backing, Counted
  <2> QED
    BY <2>1, FinitenessAssumption, FS_Subset
<1>7. Backed \in Nat /\ Backed' \in Nat /\ Backed <= Backed'
  BY <1>4, <1>6, FS_Subset, FS_CardinalityType DEF Backed
\* A registration that is counted adds to them.
<1>8. ASSUME r \in Uncounted, r \notin Uncounted' PROVE Backed + 1 <= Backed'
  <2>1. r \in Backing
    BY <1>8 DEF UsedInv
  <2>2. (Backing \ Uncounted) \cup {r} \subseteq Backing' \ Uncounted'
    BY <1>1, <1>4, <1>8, <2>1
  <2>3. Cardinality((Backing \ Uncounted) \cup {r}) = Backed + 1
    BY <1>6, <1>8, FS_AddElement DEF Backed
  <2>4. Cardinality((Backing \ Uncounted) \cup {r}) <= Backed'
    BY <1>6, <2>2, FS_Subset DEF Backed
  <2> QED
    BY <2>3, <2>4
<1>9. sponsor'.used <= Backed'
  <2>1. CASE sponsor'.used = sponsor.used
    BY <1>0, <1>7, <2>1 DEF UsedInv
  <2>2. CASE pc[r] = "sponsorInsert" /\ sponsor'.used = frame[r].sp.new.used
    BY <1>0, <1>7, <2>2 DEF UsedInv
  <2>3. CASE /\ pc[r] = "sponsorSave" /\ pc'[r] \notin {"sponsorSave", "increment"}
             /\ sponsor'.used = frame[r].sp.new.used
    <3>1. /\ frame[r].sp.old.used <= Backed
          /\ frame[r].sp.new.used <= frame[r].sp.old.used + 1
      BY <2>3 DEF UsedInv
    <3>2. CASE frame[r].sp.new.used > frame[r].sp.old.used
      <4>1. r \in Uncounted /\ r \notin Uncounted'
        BY <2>3, <3>2 DEF Uncounted
      <4>2. Backed + 1 <= Backed'
        BY <1>8, <4>1
      <4> QED
        BY <1>0, <1>7, <2>3, <3>1, <4>2
    <3>3. CASE ~(frame[r].sp.new.used > frame[r].sp.old.used)
      BY <1>0, <1>7, <2>3, <3>1, <3>3
    <3> QED
      BY <3>2, <3>3
  <2> QED
    BY <2>1, <2>2, <2>3 DEF UsedMoves
<1>10. ASSUME NEW s \in Requests
       PROVE  /\ pc'[s] \in {"sponsorSave", "sponsorInsert"} =>
                   /\ frame'[s].sp.old.used <= Backed'
                   /\ frame'[s].sp.new.used <= frame'[s].sp.old.used + 1
              /\ pc'[s] = "sponsorInsert" => frame'[s].sp.new.used = frame'[s].sp.old.used
  <2>1. CASE s # r
    <3>1. pc'[s] = pc[s] /\ frame'[s] = frame[s]
      BY <2>1, OthersStay
    <3> QED
      BY <1>0, <1>7, <3>1 DEF UsedInv
  <2>2. CASE s = r
    BY <1>0, <1>7, <2>2 DEF UsedInv, UsedMoves
  <2> QED
    BY <2>1, <2>2
<1> QED
  BY <1>5, <1>9, <1>10 DEF UsedInv

(***************************************************************************)
(* The invariant holds.                                                     *)
(***************************************************************************)
LEMMA InitStarts ==
  ASSUME SponsorInit
  PROVE  SponsorInv
<1>0. /\ SponsorTypeOK /\ Requests \subseteq Docs /\ None \notin Docs
      /\ \A r \in Requests : pc[r] = "idle" /\ frame[r] = NoFrame /\ before[r] = {}
      /\ \A d \in Docs : listed[d] = {}
  BY InitTypes, Typed, NamesAssumption DEF SponsorInit
<1>1. PICK running \in BOOLEAN :
        LET doc(d) == IF running /\ d \in Earlier THEN Placed[d]
                      ELSE [member |-> NoMember, ask |-> NoAsk, invitation |-> NoInvitation]
        IN  /\ member = [d \in Docs |-> doc(d).member]
            /\ ask = [d \in Docs |-> doc(d).ask]
            /\ invitation = [d \in Docs |-> doc(d).invitation]
            /\ sponsor = IF ~running THEN NoSponsor
                         ELSE [stored |-> TRUE, active |-> TRUE, quota |-> PlacedQuota,
                               used |-> Cardinality({d \in Earlier :
                                  Placed[d].member.state = "active"
                                    /\ Placed[d].member.seat = "quota"})]
  BY DEF SponsorInit
<1>2. \A r \in Requests : r \in Docs /\ r \notin Earlier
  BY <1>0, NamesAssumption
<1>3. \A r \in Requests : /\ member[r] = NoMember /\ ask[r] = NoAsk /\ invitation[r] = NoInvitation
  BY <1>1, <1>2
<1>4. \A d \in Docs : /\ invitation[d].uses = 0
                      /\ invitation[d].stored => invitation[d].seat # "regular"
  <2>1. \A d \in Docs : invitation[d] = NoInvitation \/ (d \in Earlier /\ invitation[d] = Placed[d].invitation)
    BY <1>1
  <2>2. NoInvitation.uses = 0 /\ ~NoInvitation.stored
    BY DEF NoInvitation
  <2> QED
    BY <2>1, <2>2, PlacedAssumption
<1>5. NoFrame.inv = None /\ NoFrame.ask = None /\ NoFrame.verdict = "pending"
  BY NoFrameFields
<1>6. TicketStored /\ ArrivalInv /\ SeatsOffered /\ ListInv /\ UsesAreListed
  <2>1. \A i \in Docs : Cardinality(listed[i]) = 0
    BY <1>0, FS_EmptySet
  <2> QED
    BY <1>0, <1>4, <2>1 DEF TicketStored, ArrivalInv, SeatsOffered, ListInv, UsesAreListed
<1>7. LocalInv
  BY <1>0, <1>5 DEF LocalInv, LocalOK, AcceptLabels, TicketLabels
<1>8. MemberInv /\ SeatInv /\ RegisteredOnce
  BY <1>0, <1>3, <1>5 DEF MemberInv, SeatInv, RegisteredOnce, NoMember, TicketLabels
<1>9. AskInv
  BY <1>0, <1>3, <1>5 DEF AskInv, NoAsk
<1>10. InvitationInv
  <2>1. \A r \in Requests : Shown(r) = None
    BY <1>0, <1>5 DEF Shown
  <2> QED
    BY <1>0, <1>3, <1>5, <2>1 DEF InvitationInv, NoInvitation
<1>11. UsedInv
  <2>1. Uncounted = {}
    BY <1>0 DEF Uncounted
  <2>2. sponsor.used <= Cardinality(Backing)
    <3> DEFINE held == {d \in Earlier : Placed[d].member.state = "active"
                                         /\ Placed[d].member.seat = "quota"}
    <3>1. IsFiniteSet(Backing)
      BY FinitenessAssumption, FS_Subset DEF Backing, Counted
    <3>2. Cardinality(Backing) \in Nat
      BY <3>1, FS_CardinalityType
    <3>3. CASE ~running
      BY <1>1, <3>2, <3>3 DEF NoSponsor
    <3>4. CASE running
      <4>1. held \subseteq Backing
        <5>1. \A d \in Earlier : d \in Docs /\ member[d] = Placed[d].member
          BY <1>1, <3>4 DEF Docs
        <5> QED
          BY <5>1 DEF Backing, Counted
      <4>2. Cardinality(held) <= Cardinality(Backing)
        BY <3>1, <4>1, FS_Subset
      <4>3. sponsor.used = Cardinality(held)
        BY <1>1, <3>4
      <4> QED
        BY <4>2, <4>3
    <3> QED
      BY <3>3, <3>4
  <2>3. Backing \ {} = Backing
    OBVIOUS
  <2> QED
    BY <1>0, <2>1, <2>2, <2>3 DEF UsedInv, Backed
<1> QED
  BY <1>0, <1>6, <1>7, <1>8, <1>9, <1>10, <1>11 DEF SponsorInv

\* Every step keeps the invariant.
LEMMA NextKeeps ==
  ASSUME SponsorInv, [SponsorNext]_allVars
  PROVE  SponsorInv'
<1>0. /\ SponsorTypeOK /\ TicketStored /\ ArrivalInv /\ LocalInv /\ SeatsOffered /\ MemberInv
      /\ SeatInv /\ AskInv /\ InvitationInv /\ ListInv /\ UsedInv /\ UsesAreListed /\ RegisteredOnce
  BY DEF SponsorInv
<1>1. ASSUME NEW r \in Requests, Moves(r), Routes(r) \/ Step(r) \/ CallFails(r)
      PROVE  SponsorInv'
  <2>1. SponsorTypeOK'
    BY <1>0, <1>1, SponsorRouteTypes, QuotaRouteTypes, ParticipantRouteTypes, InvitationRouteTypes,
       PublicRouteTypes, StepTypes DEF Routes
  <2>2. ArrivalInv' /\ LocalInv'
    BY <1>0, <1>1, <2>1, MovesKeepArrivals, MovesKeepLocal
  <2>3. TicketStored' /\ MemberInv' /\ MembersMove(r)
    BY <1>0, <1>1, <2>1, MovesKeepMembers, MembersDoMove
  <2>4. SeatInv' /\ RegisteredOnce'
    BY <1>0, <1>1, MovesKeepSeats
  <2>5. AskInv'
    BY <1>0, <1>1, <2>1, MovesKeepAsks
  <2>6. InvitationsMove(r)
    BY <1>0, <1>1, InvitationsDoMove
  <2>7. /\ SeatsOffered' /\ ListInv' /\ UsesAreListed'
        /\ \A i \in Docs : listed[i] \subseteq listed'[i]
        /\ \A i \in Docs : Cardinality(listed[i]) <= Cardinality(listed'[i])
    BY <1>0, <1>1, <2>1, <2>6, MovesKeepOffers, MovesKeepLists
  <2>8. InvitationInv'
    BY <1>0, <1>1, <2>1, <2>6, <2>7, MovesKeepInvitations
  <2>9. UsedInv'
    BY <1>0, <1>1, <2>1, <2>3, UsedDoesMove, MovesKeepUsed
  <2> QED
    BY <2>1, <2>2, <2>3, <2>4, <2>5, <2>7, <2>8, <2>9 DEF SponsorInv
<1>2. CASE UNCHANGED allVars
  BY <1>0, <1>2 DEF SponsorInv, SponsorTypeOK, TicketStored, ArrivalInv, LocalInv, LocalOK,
     SeatsOffered, MemberInv, SeatInv, SeatIsFree, AskInv, InvitationInv, Shown, ListInv, UsedInv,
     Backed, Backing, Uncounted, Counted, UsesAreListed, RegisteredOnce
<1> QED
  BY <1>0, <1>1, <1>2, NextMoves

\* The invariant of every behaviour of the sponsors, their quotas, participants
\* and invitations.
THEOREM SponsorInvariance == SponsorSpec => []SponsorInv
<1>1. SponsorInit => SponsorInv
  BY InitStarts
<1>2. SponsorInv /\ [SponsorNext]_allVars => SponsorInv'
  BY NextKeeps
<1> QED
  BY <1>1, <1>2, PTL DEF SponsorSpec

(***************************************************************************)
(* What follows from it.                                                    *)
(***************************************************************************)
\* The documents, and the handlers' copies of them, always have their types;
\* a ticket that a participant refers to is stored.
THEOREM SponsorTypes == SponsorSpec => []SponsorTypeOK
<1>1. SponsorInv => SponsorTypeOK
  BY DEF SponsorInv
<1> QED
  BY <1>1, SponsorInvariance, PTL

\* An acceptance that was answered normally left all it had to: the
\* participant, the ticket, and its place in the invitation's list.
THEOREM AcceptancesComplete == SponsorSpec => []AcceptedIsComplete
<1>1. SponsorInv => AcceptedIsComplete
  BY DEF SponsorInv, MemberInv, InvitationInv, AcceptedIsComplete
<1> QED
  BY <1>1, SponsorInvariance, PTL

\* No invitation is refused because of uses nobody made.
THEOREM UsesListed == SponsorSpec => []UsesAreListed
<1>1. SponsorInv => UsesAreListed
  BY DEF SponsorInv
<1> QED
  BY <1>1, SponsorInvariance, PTL

\* The used counter never runs ahead of the registrations.
THEOREM UsedBacked == SponsorSpec => []UsedIsBacked
<1>1. ASSUME SponsorInv PROVE UsedIsBacked
  <2>1. IsFiniteSet(Backing)
    BY FinitenessAssumption, FS_Subset DEF Backing, Counted
  <2>2. Backed <= Cardinality(Backing) /\ Backed \in Nat /\ Cardinality(Backing) \in Nat
    BY <2>1, FS_Subset, FS_CardinalityType DEF Backed
  <2>3. sponsor.used <= Backed /\ sponsor.used \in Nat
    BY <1>1 DEF SponsorInv, UsedInv, SponsorTypeOK, SponsorDoc
  <2> QED
    BY <2>2, <2>3 DEF UsedIsBacked, Backing
<1> QED
  BY <1>1, SponsorInvariance, PTL

\* What a request was told to have done is not done again by a later one.
THEOREM AnswersBind == SponsorSpec => []HappensOnce
<1>1. ASSUME SponsorInv PROVE AcceptedOnce
  <2>1. \A r \in Requests : pc[r] = "ok" =>
            pc[r] \notin {"error", "failed"}
    OBVIOUS
  <2> QED
    BY <1>1, <2>1 DEF SponsorInv, InvitationInv, Shown, AcceptedOnce
<1>2. SponsorInv => RegisteredOnce /\ ReviewedOnce
  BY ReviewedIsOnce DEF SponsorInv
<1>3. SponsorInv => HappensOnce
  BY <1>1, <1>2 DEF HappensOnce
<1> QED
  BY <1>3, SponsorInvariance, PTL

(***************************************************************************)
(* Requests that did not overlap, and whose calls succeeded.  Serial says   *)
(* it of requests that ended; so far, one of them may be in flight.         *)
(***************************************************************************)
SerialSoFar ==
    /\ \A r \in Requests : pc[r] # "failed"
    /\ \A q, r \in Requests : pc[q] # "idle" /\ pc[r] # "idle" /\ q # r =>
            q \in before[r] \/ r \in before[q]

Alone(r) == \A q \in Requests \ {r} : pc[q] \in Final \cup {"idle"} /\ pc'[q] = pc[q]
                                        /\ frame'[q] = frame[q]

\* The one that moves is alone, and they had not overlapped before.
LEMMA SerialMoves ==
  ASSUME SponsorTypeOK, ArrivalInv, NEW r \in Requests, Moves(r), SerialSoFar'
  PROVE  SerialSoFar /\ Alone(r) /\ pc'[r] # "failed"
<1>0. ArrivalInv' /\ pc[r] \notin Final /\ pc'[r] # "idle"
  BY MovesKeepArrivals
<1>1. \A q \in Requests \ {r} : pc'[q] = pc[q] /\ frame'[q] = frame[q] /\ before'[q] = before[q]
  BY OthersStay
<1>2. pc[r] # "idle" => before'[r] = before[r]
  <2>1. CASE Arrives(r)
    BY <2>1 DEF Arrives
  <2>2. CASE UNCHANGED before
    BY <2>2
  <2> QED
    BY <2>1, <2>2 DEF Moves
<1>3. ASSUME NEW q \in Requests \ {r}, pc[q] # "idle"
      PROVE  q \in before'[r] /\ pc[q] \in Final
  <2>1. r \notin before'[q]
    BY <1>0, <1>1 DEF ArrivalInv
  <2>2. q \in before'[r]
    BY <1>0, <1>1, <1>3, <2>1 DEF SerialSoFar
  <2>3. pc'[q] \in Final
    BY <1>0, <2>2 DEF ArrivalInv
  <2> QED
    BY <1>1, <2>2, <2>3
<1>4. Alone(r)
  BY <1>1, <1>3 DEF Alone
<1>5. \A q \in Requests : pc[q] # "failed"
  <2>1. \A q \in Requests : pc'[q] # "failed"
    BY DEF SerialSoFar
  <2> QED
    BY <1>0, <1>1, <2>1 DEF Final
<1>6. ASSUME NEW p \in Requests, NEW q \in Requests, pc[p] # "idle", pc[q] # "idle", p # q
      PROVE  p \in before[q] \/ q \in before[p]
  <2>1. CASE p # r /\ q # r
    <3>1. pc'[p] = pc[p] /\ pc'[q] = pc[q] /\ before'[p] = before[p] /\ before'[q] = before[q]
      BY <1>1, <2>1
    <3> QED
      BY <1>6, <3>1 DEF SerialSoFar
  <2>2. CASE p = r \/ q = r
    BY <1>2, <1>3, <1>6, <2>2
  <2> QED
    BY <2>1, <2>2
<1>7. pc'[r] # "failed"
  BY DEF SerialSoFar
<1> QED
  BY <1>4, <1>5, <1>6, <1>7 DEF SerialSoFar

(***************************************************************************)
(* The quota, while requests do not overlap: the counter is exact but for   *)
(* the one request that is about to count.                                  *)
(***************************************************************************)
Active == Counted({"active"})
Counting == {"increment", "decrement", "sponsorSave"}

\* What a request that is about to save the sponsor has read and will write.
Saving(r) ==
    LET d == frame[r].sp
    IN  /\ d.old = sponsor /\ d.new.used = Cardinality(Active)
        /\ d.new.stored \/ d.new.used = 0
        /\ d.new.quota = d.old.quota => d.new.used <= d.new.quota
        /\ d.new.quota # d.old.quota => d.new.used = d.old.used

QuotaOf(r) ==
    /\ pc[r] = "increment" => /\ sponsor.stored /\ sponsor.used + 1 = Cardinality(Active)
                              /\ sponsor.used < sponsor.quota
    /\ pc[r] = "decrement" => sponsor.stored /\ sponsor.used = Cardinality(Active) + 1
    /\ pc[r] = "sponsorSave" => Saving(r)
    /\ pc[r] = "sponsorInsert" => frame[r].sp.new.used = 0 /\ ~sponsor.stored
    /\ pc[r] = "memberSave" /\ frame[r].seat = "quota" =>
          sponsor.stored /\ sponsor.used < sponsor.quota
    /\ pc[r] = "cancelSave" /\ member[frame[r].target].seat = "quota" =>
          member[frame[r].target].state = "active"

QuotaExact ==
    /\ sponsor.used <= sponsor.quota
    /\ sponsor.stored \/ sponsor.used = 0
    /\ (\A r \in Requests : pc[r] \notin Counting) => sponsor.used = Cardinality(Active)
    /\ \A r \in Requests : QuotaOf(r)

\* What is known in every case.
LEMMA QuotaTypes ==
  ASSUME SponsorTypeOK
  PROVE  /\ sponsor \in SponsorDoc /\ sponsor.used \in Nat /\ sponsor.quota \in Nat
         /\ IsFiniteSet(Active) /\ Cardinality(Active) \in Nat
         /\ \A r \in Requests : frame[r].sp.old \in SponsorDoc /\ frame[r].sp.new \in SponsorDoc
<1>1. IsFiniteSet(Active)
  BY FinitenessAssumption, FS_Subset DEF Active, Counted
<1>2. \A r \in Requests : frame[r] \in Frames
  BY Typed
<1> QED
  BY <1>1, <1>2, FS_CardinalityType DEF SponsorTypeOK, SponsorDoc, Frames

\* Nobody counts when the one that moves does not.
LEMMA NobodyCounts ==
  ASSUME QuotaExact, NEW r \in Requests, Alone(r), pc[r] \notin Counting
  PROVE  sponsor.used = Cardinality(Active)
<1>1. \A q \in Requests : pc[q] \notin Counting
  BY DEF Alone, Counting, Final
<1> QED
  BY <1>1 DEF QuotaExact

\* The others are done with the quota.
LEMMA OthersDone ==
  ASSUME NEW r \in Requests, Alone(r), NEW q \in Requests \ {r}
  PROVE  QuotaOf(q)'
<1>1. pc'[q] \in Final \cup {"idle"}
  BY DEF Alone
<1> QED
  BY <1>1 DEF QuotaOf, Final

\* A step that leaves the sponsor and the participants.
QuotaQuiet(r) ==
    /\ UNCHANGED <<sponsor, member>> /\ pc[r] \notin Counting
    /\ pc'[r] \notin {"increment", "decrement"}
    /\ pc'[r] = "sponsorSave" => /\ frame'[r].sp.old = sponsor
                                 /\ frame'[r].sp.new.used = sponsor.used
                                 /\ frame'[r].sp.new.stored \/ ~sponsor.stored
    /\ pc'[r] = "sponsorInsert" => ~sponsor.stored /\ frame'[r].sp.new.used = sponsor.used
    /\ pc'[r] = "memberSave" /\ frame'[r].seat = "quota" => HasQuota
    /\ pc'[r] = "cancelSave" /\ member[frame'[r].target].seat = "quota" =>
          member[frame'[r].target].state = "active"

\* It keeps what is known of the quota.
LEMMA QuietKeepsQuota ==
  ASSUME SponsorTypeOK, SponsorTypeOK', QuotaExact, NEW r \in Requests, Alone(r), QuotaQuiet(r)
  PROVE  QuotaExact'
<1>0. /\ sponsor.used \in Nat /\ sponsor.quota \in Nat /\ Cardinality(Active) \in Nat
  BY QuotaTypes
<1>1. sponsor.used = Cardinality(Active)
  BY NobodyCounts DEF QuotaQuiet
<1>2. Active' = Active /\ sponsor' = sponsor /\ member' = member
  BY DEF QuotaQuiet, Active, Counted
<1>3. QuotaOf(r)'
  <2>1. pc'[r] = "sponsorSave" => Saving(r)'
    BY <1>0, <1>1, <1>2 DEF Saving, QuotaQuiet, QuotaExact
  <2>2. pc'[r] = "sponsorInsert" => frame'[r].sp.new.used = 0 /\ ~sponsor'.stored
    BY <1>2 DEF QuotaQuiet, QuotaExact
  <2>3. pc'[r] = "memberSave" /\ frame'[r].seat = "quota" =>
            sponsor'.stored /\ sponsor'.used < sponsor'.quota
    BY <1>0, <1>2 DEF QuotaQuiet, HasQuota, Available
  <2> QED
    BY <1>2, <2>1, <2>2, <2>3 DEF QuotaOf, QuotaQuiet
<1>4. \A q \in Requests : QuotaOf(q)'
  BY <1>3, OthersDone
<1> QED
  BY <1>1, <1>2, <1>4 DEF QuotaExact

\* First calls leave the quota.
LEMMA RoutesLeaveQuota ==
  ASSUME SponsorTypeOK, NEW r \in Requests, frame[r] = NoFrame, Routes(r)
  PROVE  QuotaQuiet(r)
<1>0. pc[r] = "idle" /\ UNCHANGED <<sponsorVars, memberVars, inviteVars>>
  BY RoutesAreQuiet
<1>1. pc[r] \notin Counting /\ UNCHANGED <<sponsor, member>> /\ sponsor \in SponsorDoc
      /\ frame[r] \in Frames
  BY <1>0, Typed DEF Counting, SponsorTypeOK
<1>2. ASSUME NEW label, NEW f, Continue(r, label, f)
      PROVE  pc'[r] = label /\ (label \notin Final => frame'[r] = f)
  BY <1>2, Goes DEF Went
<1>3. ASSUME NEW f, NEW label \in {"error", "ok", "addRead", "askInsert", "grant", "askSave",
                                   "registerQuota", "inviteInsert", "editSave", "lookUp", "signup",
                                   "acceptQuota", "validateQuota"},
             Continue(r, label, f)
      PROVE  QuotaQuiet(r)
  BY <1>1, <1>2, <1>3 DEF QuotaQuiet
<1>4. CASE AddSponsor(r) \/ Ask(r)
  BY <1>3, <1>4 DEF AddSponsor, Ask
<1>5. ASSUME NEW new, NEW label \in {"sponsorSave", "error"}, new.used = sponsor.used,
             new.stored = sponsor.stored,
             Continue(r, label, [frame[r] EXCEPT !.sp = Draft(sponsor, new)])
      PROVE  QuotaQuiet(r)
  <2>1. PICK f : f = [frame[r] EXCEPT !.sp = Draft(sponsor, new)]
    OBVIOUS
  <2>2. f.sp.old = sponsor /\ f.sp.new = new
    BY <1>1, <2>1 DEF Frames, Draft
  <2>3. pc'[r] = label /\ (label = "sponsorSave" => frame'[r] = f)
    BY <1>2, <1>5, <2>1 DEF Final
  <2>4. sponsor.stored \in BOOLEAN
    BY <1>1 DEF SponsorDoc
  <2> QED
    BY <1>1, <1>5, <2>2, <2>3, <2>4 DEF QuotaQuiet
<1>6. CASE UpdateQuotas(r)
  <2>1. PICK q \in 0 .. MaxQuota, active \in BOOLEAN :
        \/ Continue(r, "sponsorSave", [frame[r] EXCEPT !.sp =
                Draft(sponsor, [sponsor EXCEPT !.quota = q, !.active = active])])
        \/ Goto(r, "error")
    BY <1>6 DEF UpdateQuotas
  <2>2. PICK new : new = [sponsor EXCEPT !.quota = q, !.active = active]
    OBVIOUS
  <2>3. new.used = sponsor.used /\ new.stored = sponsor.stored
    BY <1>1, <2>2 DEF SponsorDoc
  <2> QED
    BY <1>3, <1>5, <2>1, <2>2, <2>3
<1>7. CASE RemoveSponsor(r)
  <2>1. PICK new : new = [sponsor EXCEPT !.active = FALSE]
    OBVIOUS
  <2>2. new.used = sponsor.used /\ new.stored = sponsor.stored
    BY <1>1, <2>1 DEF SponsorDoc
  <2>3. PICK label \in {"sponsorSave", "error"} :
            Continue(r, label, [frame[r] EXCEPT !.sp = Draft(sponsor, new)])
    BY <1>7, <2>1 DEF RemoveSponsor
  <2> QED
    BY <1>5, <2>2, <2>3
<1>8. CASE Review(r)
  <2>1. PICK label \in {"error", "grant", "askSave"}, f \in Frames :
            Continue(r, label, f)
    <3>1. PICK a \in Docs, v \in Verdicts, n \in 1 .. MaxQuota :
            Continue(r, CASE ~Reviewable(a) -> "error"
                         [] Reviewable(a) /\ v = "approved" -> "grant"
                         [] OTHER -> "askSave",
                    [frame[r] EXCEPT !.ask = a, !.verdict = v, !.num = n])
      BY <1>8 DEF Review
    <3>2. PICK f \in Frames : f = [frame[r] EXCEPT !.ask = a, !.verdict = v, !.num = n]
      BY <1>1, BoundIsNat DEF Frames
    <3>3. CASE ~Reviewable(a)
      BY <3>1, <3>2, <3>3
    <3>4. CASE Reviewable(a)
      BY <3>1, <3>2, <3>4
    <3> QED
      BY <3>3, <3>4
  <2> QED
    BY <1>3, <2>1
<1>9. CASE Register(r)
  <2>1. PICK u \in Users, seat \in Seats :
        Continue(r, IF Registered(u) THEN "error" ELSE SeatCheck(seat),
                 [frame[r] EXCEPT !.user = u, !.seat = seat])
    BY <1>9 DEF Register
  <2>2. PICK f : f = [frame[r] EXCEPT !.user = u, !.seat = seat]
    OBVIOUS
  <2>3. CASE seat = "quota" \/ Registered(u)
    BY <1>3, <2>1, <2>3 DEF SeatCheck
  <2>4. CASE seat # "quota" /\ ~Registered(u)
    <3>1. Continue(r, "memberSave", f)
      BY <2>1, <2>2, <2>4 DEF SeatCheck
    <3>2. pc'[r] = "memberSave" /\ frame'[r] = f
      BY <1>2, <3>1 DEF Final
    <3>3. f.seat = seat
      BY <1>1, <2>2 DEF Frames
    <3> QED
      BY <1>1, <2>4, <3>2, <3>3 DEF QuotaQuiet
  <2> QED
    BY <2>3, <2>4
<1>10. CASE AssignStaff(r)
  <2>1. PICK u \in Users, label \in {"error", "memberSave"} :
          Continue(r, label, [frame[r] EXCEPT !.user = u, !.seat = "staff"])
    BY <1>10 DEF AssignStaff
  <2>2. PICK f : f = [frame[r] EXCEPT !.user = u, !.seat = "staff"]
    OBVIOUS
  <2>3. f.seat = "staff"
    BY <1>1, <2>2 DEF Frames
  <2>4. pc'[r] = label /\ (label = "memberSave" => frame'[r] = f)
    BY <1>2, <2>1, <2>2 DEF Final
  <2> QED
    BY <1>1, <2>3, <2>4 DEF QuotaQuiet
<1>11. CASE RemoveStaff(r) \/ Cancel(r)
  <2>1. PICK d \in Docs, label \in {"cancelSave", "error"} :
          /\ Continue(r, label, [frame[r] EXCEPT !.target = d])
          /\ label = "cancelSave" => member[d].state = "active" \/ member[d].seat = "staff"
    BY <1>11 DEF RemoveStaff, Cancel
  <2>2. PICK f : f = [frame[r] EXCEPT !.target = d]
    OBVIOUS
  <2>3. f.target = d
    BY <1>1, <2>2 DEF Frames
  <2>4. pc'[r] = label /\ (label = "cancelSave" => frame'[r] = f)
    BY <1>2, <2>1, <2>2 DEF Final
  <2> QED
    BY <1>1, <2>1, <2>3, <2>4 DEF QuotaQuiet
<1>12. CASE Invite(r) \/ InviteMany(r)
  <2>1. PICK label \in {"inviteInsert", "error"}, f \in Frames :
            Continue(r, label, f)
    <3>1. ASSUME NEW usage \in Usages, NEW seat \in Seats, NEW limit \in Nat, NEW allowed,
                 Offers(r, usage, seat, limit, allowed)
          PROVE  \E label \in {"inviteInsert", "error"}, f \in Frames : Continue(r, label, f)
      <4>1. PICK new : new = [stored |-> TRUE, open |-> TRUE, usage |-> usage, seat |-> seat,
                     limit |-> IF usage = "multiple" THEN limit ELSE 0, uses |-> 0]
        OBVIOUS
      <4>2. new \in InvitationDoc /\ NoInvitation \in InvitationDoc
        BY <4>1 DEF InvitationDoc, NoInvitation, Usages, Seats
      <4>3. [frame[r] EXCEPT !.iv = Draft(NoInvitation, new)] \in Frames
        BY <1>1, <4>2, OfferTypes
      <4> QED
        BY <3>1, <4>1, <4>3 DEF Offers
    <3> QED
      BY <1>12, <3>1, BoundIsNat DEF Invite, InviteMany, Usages, Seats
  <2> QED
    BY <1>3, <2>1
<1>13. CASE EditInvitation(r)
  BY <1>3, <1>13 DEF EditInvitation
<1>14. CASE CloseInvitation(r)
  BY <1>3, <1>14 DEF CloseInvitation
<1>15. CASE ValidateCode(r)
  BY <1>3, <1>15 DEF ValidateCode
<1>16. ASSUME NEW u, AcceptAs(r, u) PROVE QuotaQuiet(r)
  <2>1. PICK i \in Docs, expired \in BOOLEAN :
        Continue(r, CASE expired \/ ~Usable(invitation[i]) -> "error"
                         [] ~expired /\ Usable(invitation[i])
                              /\ invitation[i].seat = "quota" -> "acceptQuota"
                         [] OTHER -> AfterAcceptQuota(u, r),
                    [frame[r] EXCEPT !.inv = i, !.user = u,
                        !.seat = invitation[i].seat,
                        !.iv = Draft(invitation[i], invitation[i])])
    BY <1>16 DEF AcceptAs
  <2>2. PICK f : f = [frame[r] EXCEPT !.inv = i, !.user = u,
                        !.seat = invitation[i].seat,
                        !.iv = Draft(invitation[i], invitation[i])]
    OBVIOUS
  <2>3. CASE expired \/ ~Usable(invitation[i])
    BY <1>3, <2>1, <2>2, <2>3
  <2>4. CASE ~expired /\ Usable(invitation[i]) /\ invitation[i].seat = "quota"
    BY <1>3, <2>1, <2>2, <2>4
  <2>5. CASE ~expired /\ Usable(invitation[i]) /\ invitation[i].seat # "quota"
    BY <1>3, <2>1, <2>2, <2>5 DEF AfterAcceptQuota
  <2> QED
    BY <2>3, <2>4, <2>5
<1> QED
  BY <1>4, <1>6, <1>7, <1>8, <1>9, <1>10, <1>11, <1>12, <1>13, <1>14, <1>15, <1>16
     DEF Routes, SponsorRoutes, QuotaRoutes, ParticipantRoutes, InvitationRoutes,
         PublicInvitationRoutes, AcceptWithAuth, AcceptWithSignup

\* The calls that store the sponsor or a participant, or are about to count.
CountsOrStores(r) == InsertSponsor(r) \/ SaveSponsor(r) \/ ReadUsed(r) \/ SaveMember(r) \/ SaveCancel(r)

\* Other calls leave the quota.
LEMMA StepsLeaveQuota ==
  ASSUME SponsorTypeOK, LocalInv, NEW r \in Requests, Step(r), ~CountsOrStores(r)
  PROVE  QuotaQuiet(r)
<1>0. sponsor \in SponsorDoc /\ frame[r] \in Frames /\ pc[r] \in Labels
  BY Typed DEF SponsorTypeOK
<1>1. ASSUME NEW label, NEW f, Continue(r, label, f)
      PROVE  pc'[r] = label /\ (label \notin Final => frame'[r] = f)
  BY <1>1, Goes DEF Went
<1>2. CASE AddRead(r)
  <2>1. PICK q \in 0 .. MaxQuota : Continue(r, IF sponsor.stored THEN "sponsorSave" ELSE "sponsorInsert",
            [frame[r] EXCEPT !.sp = Draft(sponsor,
              [stored |-> TRUE, active |-> TRUE, quota |-> q, used |-> sponsor.used])])
    BY <1>2 DEF AddRead
  <2>2. PICK new : new = [stored |-> TRUE, active |-> TRUE, quota |-> q, used |-> sponsor.used]
    OBVIOUS
  <2>3. PICK f : f = [frame[r] EXCEPT !.sp = Draft(sponsor, new)]
    OBVIOUS
  <2>4. f.sp.old = sponsor /\ f.sp.new = new /\ new.used = sponsor.used /\ new.stored
    BY <1>0, <2>2, <2>3 DEF Frames, Draft
  <2>5. PICK label \in {"sponsorSave", "sponsorInsert"} :
            Continue(r, label, f) /\ (label = "sponsorInsert" => ~sponsor.stored)
    BY <2>1, <2>2, <2>3
  <2>6. pc'[r] = label /\ frame'[r] = f
    BY <1>1, <2>5 DEF Final
  <2> QED
    BY <1>2, <2>4, <2>5, <2>6 DEF AddRead, QuotaQuiet, Counting
<1>3. CASE Grant(r)
  <2>1. PICK new : /\ new = [sponsor EXCEPT !.quota = @ + frame[r].num]
                   /\ Continue(r, "sponsorSave", [frame[r] EXCEPT !.sp = Draft(sponsor, new)])
    BY <1>3 DEF Grant
  <2>2. new.used = sponsor.used /\ new.stored = sponsor.stored /\ sponsor.stored \in BOOLEAN
    BY <1>0, <2>1 DEF SponsorDoc
  <2>3. PICK f : f = [frame[r] EXCEPT !.sp = Draft(sponsor, new)]
    OBVIOUS
  <2>4. f.sp.old = sponsor /\ f.sp.new = new
    BY <1>0, <2>3 DEF Frames, Draft
  <2>5. pc'[r] = "sponsorSave" /\ frame'[r] = f
    BY <1>1, <2>1, <2>3 DEF Final
  <2> QED
    BY <1>3, <2>2, <2>4, <2>5 DEF Grant, QuotaQuiet, Counting
<1>4. CASE CheckRegistered(r)
  <2>1. PICK label : Goto(r, label)
                     /\ label \in {"error", "register", "registerQuota", "memberSave"}
                     /\ (label = "memberSave" => frame[r].seat # "quota")
    <3>1. SeatCheck(frame[r].seat) \in {"registerQuota", "memberSave"}
          /\ (SeatCheck(frame[r].seat) = "memberSave" => frame[r].seat # "quota")
      BY DEF SeatCheck
    <3> DEFINE label == CASE Registered(frame[r].user) -> "error"
                 [] ~Registered(frame[r].user) /\ pc[r] = "lookUp" -> "register"
                 [] OTHER -> SeatCheck(frame[r].seat)
    <3>2. Goto(r, label)
      BY <1>4 DEF CheckRegistered
    <3>3. CASE Registered(frame[r].user)
      BY <3>2, <3>3
    <3>4. CASE ~Registered(frame[r].user) /\ pc[r] = "lookUp"
      BY <3>2, <3>4
    <3>5. CASE ~Registered(frame[r].user) /\ pc[r] # "lookUp"
      BY <3>1, <3>2, <3>5
    <3> QED
      BY <3>3, <3>4, <3>5
  <2>2. pc'[r] = label /\ (label = "memberSave" => frame'[r] = frame[r])
    BY <1>1, <2>1 DEF Final
  <2> QED
    BY <1>4, <2>1, <2>2 DEF CheckRegistered, QuotaQuiet, Counting
<1>5. CASE CheckQuota(r)
  <2>1. pc'[r] \in {"memberSave", "error"} /\ (pc'[r] = "memberSave" => HasQuota)
    BY <1>1, <1>5 DEF CheckQuota
  <2> QED
    BY <1>5, <2>1 DEF CheckQuota, QuotaQuiet, Counting
<1>6. CASE ~AddRead(r) /\ ~Grant(r) /\ ~CheckRegistered(r) /\ ~CheckQuota(r)
  <2>1. UNCHANGED sponsor /\ pc[r] \notin {"addRead", "increment", "decrement", "grant"}
    BY <1>6, OtherStepsKeepUsed DEF CountsOrStores
  <2>2. UNCHANGED member
    BY OtherStepsKeepMembers DEF CountsOrStores
  <2>3. pc[r] \notin {"sponsorSave", "register", "registerQuota", "lookUp", "memberSave", "cancelSave"}
    BY <1>6 DEF Step, CountsOrStores, InsertAsk, SaveAsk, InsertInvitation, SaveEdit, ValidateQuota, AcceptQuota,
       SignUp, ReadTicketNumber, SaveTicket, AttachTicket, SaveUse
  <2>4. Edges(r)
    BY StepsMove
  <2>5. pc'[r] \notin {"increment", "decrement", "sponsorSave", "sponsorInsert", "memberSave", "cancelSave"}
    BY <2>1, <2>3, <2>4 DEF Edges, FirstLabels
  <2> QED
    BY <2>1, <2>2, <2>3, <2>5 DEF QuotaQuiet, Counting
<1> QED
  BY <1>2, <1>3, <1>4, <1>5, <1>6

\* What is active loses, gains or keeps one.
LEMMA ActiveChanges ==
  ASSUME SponsorTypeOK, SponsorTypeOK', NEW d \in Docs, \A e \in Docs \ {d} : member'[e] = member[e]
  PROVE  /\ d \in Active /\ d \notin Active' => Cardinality(Active') = Cardinality(Active) - 1
         /\ d \notin Active /\ d \in Active' => Cardinality(Active') = Cardinality(Active) + 1
         /\ (d \in Active <=> d \in Active') => Active' = Active
<1>1. \A e \in Docs \ {d} : e \in Active <=> e \in Active'
  BY DEF Active, Counted
<1>2. Active \subseteq Docs /\ Active' \subseteq Docs /\ IsFiniteSet(Active) /\ IsFiniteSet(Active')
  BY FinitenessAssumption, FS_Subset DEF Active, Counted
<1>3. ASSUME d \in Active, d \notin Active' PROVE Cardinality(Active') = Cardinality(Active) - 1
  <2>1. Active' = Active \ {d}
    BY <1>1, <1>2, <1>3
  <2> QED
    BY <1>2, <1>3, <2>1, FS_RemoveElement
<1>4. ASSUME d \notin Active, d \in Active' PROVE Cardinality(Active') = Cardinality(Active) + 1
  <2>1. Active' = Active \cup {d}
    BY <1>1, <1>2, <1>4
  <2> QED
    BY <1>2, <1>4, <2>1, FS_AddElement
<1>5. (d \in Active <=> d \in Active') => Active' = Active
  BY <1>1, <1>2
<1> QED
  BY <1>3, <1>4, <1>5

\* The calls that count keep it.
LEMMA CountsKeepQuota ==
  ASSUME SponsorTypeOK, SponsorTypeOK', LocalInv, MemberInv, QuotaExact, NEW r \in Requests, Alone(r),
         CountsOrStores(r)
  PROVE  QuotaExact'
<1>0. /\ sponsor \in SponsorDoc /\ sponsor.used \in Nat /\ sponsor.quota \in Nat
      /\ sponsor.stored \in BOOLEAN
      /\ Cardinality(Active) \in Nat /\ Cardinality(Active') \in Nat /\ frame[r] \in Frames
      /\ frame[r].sp.old \in SponsorDoc /\ frame[r].sp.new \in SponsorDoc
      /\ sponsor'.used \in Nat /\ sponsor'.quota \in Nat
  <2>1. Cardinality(Active') \in Nat /\ sponsor'.used \in Nat /\ sponsor'.quota \in Nat
    <3>1. IsFiniteSet(Active')
      BY FinitenessAssumption, FS_Subset DEF Active, Counted
    <3> QED
      BY <3>1, FS_CardinalityType DEF SponsorTypeOK, SponsorDoc
  <2> QED
    BY <2>1, QuotaTypes, Typed DEF SponsorDoc
<1>1. ASSUME NEW label, NEW f, Continue(r, label, f)
      PROVE  pc'[r] = label /\ (label \notin Final => frame'[r] = f)
  BY <1>1, Goes DEF Went
<1>2. \A q \in Requests \ {r} : QuotaOf(q)' /\ pc'[q] \notin Counting
  BY OthersDone DEF Alone, Counting, Final
<1>3. CASE InsertSponsor(r)
  <2>1. pc[r] = "sponsorInsert" /\ pc'[r] \in {"ok", "error"} /\ UNCHANGED member
    BY <1>1, <1>3 DEF InsertSponsor
  <2>2. sponsor'.used = 0 /\ ~sponsor.stored /\ Active' = Active /\ sponsor.used = Cardinality(Active)
    <3>1. sponsor.used = Cardinality(Active)
      BY <2>1, NobodyCounts DEF Counting
    <3>2. frame[r].sp.new.used = 0 /\ ~sponsor.stored
      BY <2>1 DEF QuotaExact, QuotaOf
    <3> QED
      BY <1>3, <2>1, <3>1, <3>2 DEF InsertSponsor, Active, Counted, QuotaExact
  <2>3. QuotaOf(r)'
    BY <2>1 DEF QuotaOf
  <2>4. sponsor'.used = Cardinality(Active') /\ sponsor'.used <= sponsor'.quota
    BY <1>0, <2>2 DEF QuotaExact
  <2> QED
    BY <1>2, <2>2, <2>3, <2>4 DEF QuotaExact
<1>4. CASE SaveSponsor(r)
  <2>1. pc[r] = "sponsorSave" /\ pc'[r] \in {"askSave", "ticketNumber", "ok", "error"} /\ UNCHANGED member
    BY <1>1, <1>4 DEF SaveSponsor, AfterSponsor
  <2>2. Saving(r) /\ Active' = Active
    BY <2>1 DEF QuotaExact, QuotaOf, Active, Counted
  <2>3. QuotaOf(r)'
    BY <2>1 DEF QuotaOf
  <2>4. CASE HookAccepts(frame[r].sp) /\ sponsor' = Saved(sponsor, frame[r].sp)
    <3>1. sponsor' = frame[r].sp.new
      BY <1>0, <2>2, <2>4 DEF Saved, Saving, SponsorDoc
    <3> QED
      BY <1>0, <1>2, <2>2, <2>3, <2>4, <3>1 DEF QuotaExact, Saving, HookAccepts
  <2>5. CASE ~HookAccepts(frame[r].sp) /\ UNCHANGED sponsor
    <3>1. frame[r].sp.new.used = frame[r].sp.old.used
      BY <2>2, <2>5 DEF HookAccepts, Saving
    <3>2. sponsor'.used = Cardinality(Active')
      BY <2>2, <2>5, <3>1 DEF Saving
    <3> QED
      BY <1>2, <2>3, <2>5, <3>2 DEF QuotaExact
  <2> QED
    BY <1>4, <2>4, <2>5 DEF SaveSponsor
<1>5. CASE ReadUsed(r)
  <2>1. UNCHANGED <<sponsor, member>> /\ pc[r] \in {"increment", "decrement"}
    BY <1>5 DEF ReadUsed
  <2>2. Active' = Active /\ sponsor.stored
    BY <2>1 DEF Active, Counted, QuotaExact, QuotaOf
  <2>3. PICK n : n = IF pc[r] = "increment" THEN CountUse(sponsor.used) ELSE CountCancel(sponsor.used)
    OBVIOUS
  <2>4. n = Cardinality(Active) /\ n <= sponsor.quota
    <3>1. CASE pc[r] = "increment"
      <4>1. /\ sponsor.used + 1 = Cardinality(Active)
            /\ sponsor.used < sponsor.quota
        BY <3>1 DEF QuotaExact, QuotaOf
      <4> QED
        BY <1>0, <2>3, <3>1, <4>1 DEF CountUse
    <3>2. CASE pc[r] = "decrement"
      <4>1. sponsor.used = Cardinality(Active) + 1 /\ sponsor.used <= sponsor.quota
        BY <3>2 DEF QuotaExact, QuotaOf
      <4> QED
        BY <1>0, <2>3, <3>2, <4>1 DEF CountCancel
    <3> QED
      BY <2>1, <3>1, <3>2
  <2>5. PICK new : new = [sponsor EXCEPT !.used = n]
    OBVIOUS
  <2>6. PICK f : f = [frame[r] EXCEPT !.sp = Draft(sponsor, new)]
    OBVIOUS
  <2>7. f.sp.old = sponsor /\ f.sp.new = new /\ new.used = n /\ new.stored /\ new.quota = sponsor.quota
    BY <1>0, <2>2, <2>5, <2>6 DEF Frames, Draft, SponsorDoc
  <2>8. Continue(r, "sponsorSave", f)
    BY <1>5, <2>2, <2>3, <2>5, <2>6 DEF ReadUsed
  <2>9. pc'[r] = "sponsorSave" /\ frame'[r] = f
    BY <1>1, <2>8 DEF Final
  <2>10. Saving(r)'
    BY <2>1, <2>2, <2>4, <2>7, <2>9 DEF Saving
  <2>11. QuotaOf(r)'
    BY <2>9, <2>10 DEF QuotaOf
  <2> QED
    BY <1>2, <2>1, <2>9, <2>11 DEF QuotaExact, Counting
<1>6. CASE SaveMember(r)
  <2>1. /\ pc[r] = "memberSave" /\ UNCHANGED sponsor
        /\ member' = [member EXCEPT ![r] = [state |-> "active", user |-> frame[r].user,
                                        seat |-> frame[r].seat]]
    BY <1>6 DEF SaveMember
  <2>2. /\ member'[r].state = "active" /\ member'[r].seat = frame[r].seat
        /\ \A e \in Docs \ {r} : member'[e] = member[e]
    BY <2>1, Typed DEF SponsorTypeOK
  <2>3. r \notin Active /\ sponsor.used = Cardinality(Active) /\ r \in Docs
    BY <2>1, Typed, NobodyCounts DEF MemberInv, Active, Counted, Counting
  <2>4. CASE frame[r].seat = "quota"
    <3>1. pc'[r] = "increment"
      BY <1>1, <1>6, <2>4 DEF SaveMember
    <3>2. r \in Active'
      BY <2>2, <2>3, <2>4 DEF Active, Counted
    <3>3. Cardinality(Active') = Cardinality(Active) + 1
      BY <2>2, <2>3, <3>2, ActiveChanges
    <3>4. sponsor.stored /\ sponsor.used < sponsor.quota
      BY <2>1, <2>4 DEF QuotaExact, QuotaOf
    <3>5. QuotaOf(r)'
      BY <1>0, <2>1, <2>3, <3>1, <3>3, <3>4 DEF QuotaOf
    <3> QED
      BY <1>2, <2>1, <3>1, <3>5 DEF QuotaExact, Counting
  <2>5. CASE frame[r].seat # "quota"
    <3>1. pc'[r] \in {"ticketNumber", "ok"}
      BY <1>1, <1>6, <2>5 DEF SaveMember
    <3>2. r \notin Active'
      BY <2>2, <2>5 DEF Active, Counted
    <3>3. Active' = Active
      BY <2>2, <2>3, <3>2, ActiveChanges
    <3>4. QuotaOf(r)'
      BY <3>1 DEF QuotaOf
    <3> QED
      BY <1>2, <2>1, <2>3, <3>3, <3>4 DEF QuotaExact
  <2> QED
    BY <2>4, <2>5
<1>7. CASE SaveCancel(r)
  <2>1. PICK d : d = frame[r].target
    OBVIOUS
  <2>2. /\ pc[r] = "cancelSave" /\ UNCHANGED sponsor
        /\ member' = [member EXCEPT ![d].state = "cancelled"]
        /\ Goto(r, IF member[d].seat = "quota" THEN "decrement" ELSE "ok")
    BY <1>7, <2>1 DEF SaveCancel
  <2>3. d \in Docs
    BY <2>1, <2>2 DEF LocalInv, LocalOK
  <2>4. /\ member'[d].state = "cancelled"
        /\ \A e \in Docs \ {d} : member'[e] = member[e]
    BY <2>2, <2>3 DEF SponsorTypeOK, MemberDoc
  <2>5. sponsor.used = Cardinality(Active) /\ d \notin Active'
    BY <2>2, <2>4, NobodyCounts DEF Counting, Active, Counted
  <2>6. CASE member[d].seat = "quota"
    <3>1. pc'[r] = "decrement"
      BY <1>1, <2>2, <2>6
    <3>2. d \in Active
      BY <2>1, <2>2, <2>3, <2>6 DEF QuotaExact, QuotaOf, Active, Counted
    <3>3. Cardinality(Active') = Cardinality(Active) - 1
      BY <2>3, <2>4, <2>5, <3>2, ActiveChanges
    <3>4. sponsor.used = Cardinality(Active') + 1 /\ sponsor.used # 0
      BY <1>0, <2>5, <3>3
    <3>5. sponsor.stored
      BY <3>4 DEF QuotaExact
    <3>6. QuotaOf(r)'
      BY <2>2, <3>1, <3>4, <3>5 DEF QuotaOf
    <3> QED
      BY <1>2, <2>2, <3>1, <3>6 DEF QuotaExact, Counting
  <2>7. CASE member[d].seat # "quota"
    <3>1. pc'[r] = "ok"
      BY <1>1, <2>2, <2>7
    <3>2. d \notin Active
      BY <2>7 DEF Active, Counted
    <3>3. Active' = Active
      BY <2>3, <2>4, <2>5, <3>2, ActiveChanges
    <3>4. QuotaOf(r)'
      BY <3>1 DEF QuotaOf
    <3> QED
      BY <1>2, <2>2, <2>5, <3>3, <3>4 DEF QuotaExact
  <2> QED
    BY <2>6, <2>7
<1> QED
  BY <1>3, <1>4, <1>5, <1>6, <1>7 DEF CountsOrStores

\* Whoever moves, alone, keeps the quota exact.
LEMMA MovesKeepQuota ==
  ASSUME SponsorInv, SponsorTypeOK', NEW r \in Requests, Moves(r),
         Routes(r) \/ Step(r) \/ CallFails(r),
         SerialSoFar => QuotaExact, SerialSoFar'
  PROVE  QuotaExact'
<1>0. SponsorTypeOK /\ ArrivalInv /\ LocalInv /\ MemberInv
  BY DEF SponsorInv
<1>1. QuotaExact /\ Alone(r) /\ pc'[r] # "failed"
  BY <1>0, SerialMoves
<1>2. CASE Routes(r)
  <2>1. frame[r] = NoFrame
    BY <1>0, <1>2, RoutesAreQuiet DEF ArrivalInv
  <2> QED
    BY <1>0, <1>1, <1>2, <2>1, RoutesLeaveQuota, QuietKeepsQuota
<1>3. CASE Step(r) /\ ~CountsOrStores(r)
  BY <1>0, <1>1, <1>3, StepsLeaveQuota, QuietKeepsQuota
<1>4. CASE Step(r) /\ CountsOrStores(r)
  BY <1>0, <1>1, <1>4, CountsKeepQuota
<1>5. CASE CallFails(r)
  BY <1>0, <1>1, <1>5, FailuresAreQuiet
<1> QED
  BY <1>2, <1>3, <1>4, <1>5

(***************************************************************************)
(* The uses of the invitations, while requests do not overlap.              *)
(***************************************************************************)
\* A list that is as long as the counter says, and not too long.
UsesFit(i) ==
    LET inv == invitation[i]
    IN  /\ inv.uses = Cardinality(listed[i])
        /\ inv.usage = "single" => inv.uses <= 1
        /\ inv.usage = "multiple" /\ inv.limit # 0 => inv.uses <= inv.limit

\* What r has read of the invitation it accepts, or edits.
ReadOf(r) ==
    /\ frame[r].inv # None /\ pc[r] \notin Final =>
          /\ frame[r].iv.old = invitation[frame[r].inv] /\ Usable(frame[r].iv.old)
    /\ pc[r] = "editSave" =>
          LET d == frame[r].iv
          IN  /\ d.old = invitation[frame[r].target]
              /\ d.new.usage = "multiple" /\ d.new.limit # 0 => d.new.limit >= d.new.uses

UsesExact ==
    /\ \A i \in Docs : UsesFit(i) /\ (~invitation[i].stored => listed[i] = {})
    /\ \A r \in Requests : ReadOf(r)

\* First calls leave the invitations, and read what they are about.
LEMMA RoutesRead ==
  ASSUME SponsorTypeOK, UsesExact, NEW r \in Requests, frame[r] = NoFrame, Routes(r)
  PROVE  UNCHANGED inviteVars /\ ReadOf(r)'
<1>0. pc[r] = "idle" /\ UNCHANGED inviteVars
  BY RoutesAreQuiet
<1>1. frame[r] \in Frames
  BY Typed
<1>2. ASSUME NEW label, NEW f, Continue(r, label, f)
      PROVE  pc'[r] = label /\ (label \notin Final => frame'[r] = f)
  BY <1>2, Goes DEF Went
<1>3. frame'[r].inv # None /\ pc'[r] \notin Final =>
        frame'[r].iv.old = invitation'[frame'[r].inv] /\ Usable(frame'[r].iv.old)
  <2>1. ArrivalKinds(r)
    BY RoutesArrive
  <2> QED
    BY <1>0, <2>1 DEF ArrivalKinds, ArrivesToChange, ArrivesToReview, ArrivesToValidate,
       ArrivesToAccept, Final
<1>4. ASSUME NEW i \in Docs, NEW new, NEW label \in {"editSave", "error"},
             label = "editSave" /\ new.usage = "multiple" /\ new.limit # 0 => new.limit >= new.uses,
             Continue(r, label, [frame[r] EXCEPT !.target = i, !.iv = Draft(invitation[i], new)])
      PROVE  ReadOf(r)'
  <2>1. PICK draft : draft = Draft(invitation[i], new)
    OBVIOUS
  <2>2. PICK f : f = [frame[r] EXCEPT !.target = i, !.iv = draft]
    OBVIOUS
  <2>3. f.target = i /\ f.iv = draft /\ draft.old = invitation[i] /\ draft.new = new
    BY <1>1, <2>1, <2>2 DEF Frames, Draft
  <2>4. pc'[r] = label /\ (label = "editSave" => frame'[r] = f)
    BY <1>2, <1>4, <2>1, <2>2 DEF Final
  <2> QED
    BY <1>0, <1>3, <1>4, <2>3, <2>4 DEF ReadOf
<1>5. CASE EditInvitation(r)
  <2>1. PICK i \in Docs, limit \in 0 .. MaxQuota, open \in BOOLEAN :
          Continue(r, IF limit >= invitation[i].uses \/ limit = invitation[i].limit
                       THEN "editSave" ELSE "error",
                    [frame[r] EXCEPT !.target = i, !.iv = Draft(invitation[i],
                        [invitation[i] EXCEPT !.limit = limit, !.open = open])])
    BY <1>5 DEF EditInvitation
  <2>2. PICK new : new = [invitation[i] EXCEPT !.limit = limit, !.open = open]
    OBVIOUS
  <2>3. /\ new.limit = limit /\ new.uses = invitation[i].uses /\ new.usage = invitation[i].usage
        /\ invitation[i].uses \in Nat /\ invitation[i].limit \in Nat
    BY <2>2 DEF SponsorTypeOK, InvitationDoc
  <2>4. new.usage = "multiple" /\ limit # 0 /\ limit = invitation[i].limit => limit >= invitation[i].uses
    BY <2>3 DEF UsesExact, UsesFit
  <2>5. PICK label \in {"editSave", "error"} :
          /\ label = IF limit >= invitation[i].uses \/ limit = invitation[i].limit
                     THEN "editSave" ELSE "error"
          /\ Continue(r, label, [frame[r] EXCEPT !.target = i, !.iv = Draft(invitation[i], new)])
    BY <2>1, <2>2
  <2>6. label = "editSave" /\ new.usage = "multiple" /\ new.limit # 0 => new.limit >= new.uses
    BY <2>3, <2>4, <2>5
  <2> QED
    BY <1>0, <1>4, <2>5, <2>6
<1>6. CASE CloseInvitation(r)
  <2>1. PICK i \in Docs :
          Continue(r, "editSave", [frame[r] EXCEPT !.target = i,
                !.iv = Draft(invitation[i], [invitation[i] EXCEPT !.open = FALSE])])
    BY <1>6 DEF CloseInvitation
  <2>2. PICK new : new = [invitation[i] EXCEPT !.open = FALSE]
    OBVIOUS
  <2>3. /\ new.limit = invitation[i].limit /\ new.uses = invitation[i].uses
        /\ new.usage = invitation[i].usage
        /\ invitation[i].uses \in Nat /\ invitation[i].limit \in Nat
    BY <2>2 DEF SponsorTypeOK, InvitationDoc
  <2>4. new.usage = "multiple" /\ new.limit # 0 => new.limit >= new.uses
    BY <2>3 DEF UsesExact, UsesFit
  <2>5. Continue(r, "editSave", [frame[r] EXCEPT !.target = i, !.iv = Draft(invitation[i], new)])
    BY <2>1, <2>2
  <2> QED
    BY <1>0, <1>4, <2>4, <2>5
<1>7. CASE pc'[r] # "editSave"
  BY <1>0, <1>3, <1>7 DEF ReadOf
<1>8. CASE ~EditInvitation(r) /\ ~CloseInvitation(r) /\ pc'[r] = "editSave"
  <2>1. CASE Register(r)
    <3>1. PICK u \in Users, seat \in Seats :
          Continue(r, IF Registered(u) THEN "error" ELSE SeatCheck(seat),
                   [frame[r] EXCEPT !.user = u, !.seat = seat])
      BY <2>1 DEF Register
    <3> QED
      BY <1>2, <1>8, <3>1 DEF SeatCheck
  <2>2. CASE ~Register(r)
    <3>1. pc'[r] # "editSave"
      <4>0. ASSUME NEW f, NEW label \in Labels \ {"editSave"}, Continue(r, label, f)
            PROVE  pc'[r] # "editSave"
        BY <1>2, <4>0
      <4>1. CASE SponsorRoutes(r)
        <5>1. PICK label \in {"error", "addRead", "sponsorSave"} : \E f : Continue(r, label, f)
          BY <4>1 DEF SponsorRoutes, AddSponsor, UpdateQuotas, RemoveSponsor
        <5> QED
          BY <4>0, <5>1 DEF Labels, Final
      <4>2. CASE QuotaRoutes(r) \/ AssignStaff(r) \/ RemoveStaff(r) \/ Cancel(r)
        <5>1. CASE Ask(r) \/ AssignStaff(r) \/ RemoveStaff(r) \/ Cancel(r)
          <6>1. PICK label \in {"error", "askInsert", "memberSave", "cancelSave"} :
                    \E f : Continue(r, label, f)
            BY <5>1 DEF Ask, AssignStaff, RemoveStaff, Cancel
          <6> QED
            BY <4>0, <6>1 DEF Labels, Final
        <5>2. CASE Review(r)
          <6>1. PICK a \in Docs, v \in Verdicts, n \in 1 .. MaxQuota :
            Continue(r, CASE ~Reviewable(a) -> "error"
                         [] Reviewable(a) /\ v = "approved" -> "grant"
                         [] OTHER -> "askSave",
                    [frame[r] EXCEPT !.ask = a, !.verdict = v, !.num = n])
            BY <5>2 DEF Review
          <6>2. pc'[r] = CASE ~Reviewable(a) -> "error"
                         [] Reviewable(a) /\ v = "approved" -> "grant"
                         [] OTHER -> "askSave"
            BY <1>2, <6>1
          <6>3. CASE Reviewable(a)
            BY <6>2, <6>3
          <6>4. CASE ~Reviewable(a)
            BY <6>2, <6>4
          <6> QED
            BY <6>3, <6>4
        <5> QED
          BY <4>2, <5>1, <5>2 DEF QuotaRoutes
      <4>3. CASE Invite(r) \/ InviteMany(r)
        <5>1. ASSUME NEW usage, NEW seat, NEW limit, NEW allowed,
                     Offers(r, usage, seat, limit, allowed)
              PROVE  pc'[r] # "editSave"
          BY <1>2, <5>1 DEF Offers
        <5> QED
          BY <4>3, <5>1 DEF Invite, InviteMany
      <4>4. CASE PublicInvitationRoutes(r)
        <5>2. CASE ValidateCode(r)
          BY <1>2, <5>2 DEF ValidateCode
        <5>3. ASSUME NEW u, AcceptAs(r, u) PROVE pc'[r] # "editSave"
          <6>1. PICK i \in Docs : \E label : Continue(r, label, [frame[r] EXCEPT !.inv = i, !.user = u,
                        !.seat = invitation[i].seat,
                        !.iv = Draft(invitation[i], invitation[i])])
            BY <5>3 DEF AcceptAs
          <6>2. PICK f : f = [frame[r] EXCEPT !.inv = i, !.user = u,
                        !.seat = invitation[i].seat,
                        !.iv = Draft(invitation[i], invitation[i])]
            OBVIOUS
          <6>3. f.inv = i /\ i # None
            BY <1>1, <6>2, NamesAssumption DEF Frames
          <6>4. pc'[r] \notin Final => frame'[r].inv # None
            BY <1>2, <6>1, <6>2, <6>3
          <6>5. ArrivalKinds(r)
            BY RoutesArrive
          <6> QED
            BY <6>4, <6>5 DEF ArrivalKinds, ArrivesToChange, ArrivesToReview, ArrivesToValidate,
               ArrivesToAccept, Final
        <5> QED
          BY <4>4, <5>2, <5>3 DEF PublicInvitationRoutes, AcceptWithAuth, AcceptWithSignup
      <4> QED
        BY <1>8, <2>2, <4>1, <4>2, <4>3, <4>4 DEF Routes, ParticipantRoutes, InvitationRoutes
    <3> QED
      BY <1>8, <3>1
  <2> QED
    BY <2>1, <2>2
<1> QED
  BY <1>0, <1>5, <1>6, <1>7, <1>8

\* A later call that leaves the invitations knows what it knew.
LEMMA StepsRead ==
  ASSUME NEW r \in Requests, ReadOf(r), UNCHANGED inviteVars, Edges(r), Keeps(r) \/ Refuses(r)
  PROVE  ReadOf(r)'
<1>1. pc[r] \notin Final \cup {"idle"} /\ pc'[r] # "editSave"
  BY DEF Edges, FirstLabels
<1>2. CASE pc'[r] \in Final
  BY <1>1, <1>2 DEF ReadOf
<1>3. CASE pc'[r] \notin Final
  <2>1. frame'[r].inv = frame[r].inv /\ frame'[r].iv = frame[r].iv
    BY <1>3 DEF Keeps, Refuses, Final
  <2> QED
    BY <1>1, <1>3, <2>1 DEF ReadOf
<1> QED
  BY <1>2, <1>3

\* Those that change an invitation keep the uses.
LEMMA SavesKeepUses ==
  ASSUME SponsorInv, SponsorTypeOK', UsesExact, NEW r \in Requests,
         InsertInvitation(r) \/ SaveEdit(r) \/ SaveUse(r)
  PROVE  /\ \A i \in Docs : UsesFit(i)' /\ (~invitation'[i].stored => listed'[i] = {})
         /\ pc'[r] = "ok"
<1>0. /\ SponsorTypeOK /\ LocalInv /\ InvitationInv /\ ListInv
      /\ r \in Docs /\ frame[r] \in Frames
      /\ DOMAIN invitation = Docs /\ DOMAIN listed = Docs
      /\ \A i \in Docs : invitation[i] \in InvitationDoc
  BY Typed DEF SponsorInv, SponsorTypeOK
<1>1. ASSUME NEW label, NEW f, Continue(r, label, f) PROVE pc'[r] = label
  BY <1>0, <1>1, Goes DEF Went
<1>2. ASSUME NEW i \in Docs, invitation'[i] = invitation[i], listed'[i] = listed[i]
      PROVE  UsesFit(i)' /\ (~invitation'[i].stored => listed'[i] = {})
  BY <1>2 DEF UsesExact, UsesFit
<1>3. CASE InsertInvitation(r)
  <2>1. /\ pc[r] = "inviteInsert" /\ pc'[r] = "ok" /\ UNCHANGED listed
        /\ invitation' = [invitation EXCEPT ![r] = frame[r].iv.new]
    BY <1>1, <1>3 DEF InsertInvitation
  <2>2. listed[r] = {} /\ Cardinality({}) = 0
    BY <1>0, <2>1, FS_EmptySet DEF InvitationInv, UsesExact
  <2>3. frame[r].iv.new.uses = 0 /\ frame[r].iv.new.stored
    BY <1>0, <2>1 DEF LocalInv, LocalOK
  <2>4. invitation'[r] = frame[r].iv.new /\ invitation'[r].limit \in Nat
    BY <1>0, <2>1 DEF SponsorTypeOK, InvitationDoc
  <2>5. UsesFit(r)' /\ invitation'[r].stored
    BY <2>1, <2>2, <2>3, <2>4 DEF UsesFit
  <2>6. \A i \in Docs \ {r} : invitation'[i] = invitation[i] /\ listed'[i] = listed[i]
    BY <1>0, <2>1
  <2> QED
    BY <1>2, <2>1, <2>5, <2>6
<1>4. CASE SaveEdit(r)
  <2>1. PICK t, d : t = frame[r].target /\ d = frame[r].iv
    OBVIOUS
  <2>2. /\ pc[r] = "editSave" /\ pc'[r] = "ok" /\ UNCHANGED listed
        /\ invitation' = [invitation EXCEPT ![t] = Saved(@, d)]
    BY <1>1, <1>4, <2>1 DEF SaveEdit
  <2>3. t \in Docs /\ SameOffer(d)
    BY <1>0, <2>1, <2>2 DEF LocalInv, LocalOK
  <2>4. /\ d.old = invitation[t] /\ (d.new.usage = "multiple" /\ d.new.limit # 0 => d.new.limit >= d.new.uses)
        /\ d.new \in InvitationDoc
    BY <1>0, <2>1, <2>2 DEF UsesExact, ReadOf, Frames
  <2>5. Saved(invitation[t], d) = d.new
    <3>1. DOMAIN invitation[t] = DOMAIN d.new /\ d.new = [f \in DOMAIN d.new |-> d.new[f]]
      BY <1>0, <2>3, <2>4 DEF InvitationDoc
    <3>2. \A f \in DOMAIN invitation[t] :
            (IF d.new[f] = d.old[f] THEN invitation[t][f] ELSE d.new[f]) = d.new[f]
      BY <2>4
    <3> QED
      BY <3>1, <3>2 DEF Saved
  <2>6. invitation'[t] = d.new
    BY <1>0, <2>2, <2>3, <2>5
  <2>7. /\ d.new.uses = invitation[t].uses /\ d.new.usage = invitation[t].usage
        /\ d.new.stored = invitation[t].stored /\ d.new.uses \in Nat /\ d.new.limit \in Nat
    BY <2>3, <2>4 DEF SameOffer, InvitationDoc
  <2>8. UsesFit(t)' /\ (~invitation'[t].stored => listed'[t] = {})
    BY <2>2, <2>3, <2>4, <2>6, <2>7 DEF UsesFit, UsesExact
  <2>9. \A i \in Docs \ {t} : invitation'[i] = invitation[i] /\ listed'[i] = listed[i]
    BY <1>0, <2>2
  <2> QED
    BY <1>2, <2>2, <2>8, <2>9
<1>5. CASE SaveUse(r)
  <2>1. PICK i, old : i = frame[r].inv /\ old = frame[r].iv.old
    OBVIOUS
  <2>2. /\ pc[r] = "useSave" /\ pc'[r] = "ok"
        /\ invitation' = [invitation EXCEPT ![i] = Saved(@, Draft(old, Used(old)))]
        /\ listed' = [listed EXCEPT ![i] = @ \cup {r}]
    BY <1>1, <1>5, <2>1 DEF SaveUse
  <2>3. i # None
    BY <1>0, <2>1, <2>2 DEF LocalInv, LocalOK, TicketLabels
  <2>4. i \in Docs /\ invitation[i].stored /\ r \notin listed[i]
    BY <1>0, <2>1, <2>2, <2>3 DEF LocalInv, LocalOK, InvitationInv, ListInv
  <2>5. old = invitation[i] /\ Usable(old) /\ old \in InvitationDoc
    BY <1>0, <2>1, <2>2, <2>3, <2>4 DEF UsesExact, ReadOf, Final
  <2>6. PICK new : new = Used(old)
    OBVIOUS
  <2>7. /\ new \in InvitationDoc /\ new.uses = old.uses + 1 /\ new.stored = old.stored
        /\ new.usage = old.usage /\ new.limit = old.limit
        /\ old.uses \in Nat /\ old.limit \in Nat /\ old.usage \in Usages
    <3>1. new.limit = old.limit
      BY <2>5, <2>6 DEF Used, InvitationDoc
    <3> QED
      BY <2>5, <2>6, <3>1, UsedTypes DEF InvitationDoc
  <2>8. Saved(invitation[i], Draft(old, new)) = new
    <3>1. DOMAIN invitation[i] = DOMAIN new /\ new = [f \in DOMAIN new |-> new[f]]
      BY <2>5, <2>7 DEF InvitationDoc
    <3>2. \A f \in DOMAIN invitation[i] :
            (IF new[f] = old[f] THEN invitation[i][f] ELSE new[f]) = new[f]
      BY <2>5
    <3> QED
      BY <3>1, <3>2 DEF Saved, Draft
  <2>9. invitation'[i] = new /\ listed'[i] = listed[i] \cup {r}
    BY <1>0, <2>2, <2>4, <2>6, <2>8
  <2>10. Cardinality(listed'[i]) = Cardinality(listed[i]) + 1
    <3>1. IsFiniteSet(listed[i])
      BY <1>0, <2>4, FinitenessAssumption, FS_Subset DEF SponsorTypeOK
    <3> QED
      BY <2>4, <2>9, <3>1, FS_AddElement
  <2>11. UsesFit(i)
    BY <2>4 DEF UsesExact
  <2>12. UsesFit(i)' /\ invitation'[i].stored
    BY <2>4, <2>5, <2>7, <2>9, <2>10, <2>11 DEF UsesFit, Usable
  <2>13. \A j \in Docs \ {i} : invitation'[j] = invitation[j] /\ listed'[j] = listed[j]
    BY <1>0, <2>2
  <2> QED
    BY <1>2, <2>2, <2>12, <2>13
<1> QED
  BY <1>3, <1>4, <1>5

\* Whoever moves, alone, keeps the uses exact.
LEMMA MovesKeepUses ==
  ASSUME SponsorInv, SponsorTypeOK', NEW r \in Requests, Moves(r),
         Routes(r) \/ Step(r) \/ CallFails(r),
         SerialSoFar => UsesExact, SerialSoFar'
  PROVE  UsesExact'
<1>0. SponsorTypeOK /\ ArrivalInv /\ ArrivalInv'
  BY MovesKeepArrivals DEF SponsorInv
<1>1. UsesExact /\ Alone(r) /\ pc'[r] # "failed"
  BY <1>0, SerialMoves
<1>2. ASSUME NEW q \in Requests \ {r} PROVE ReadOf(q)'
  <2>1. pc'[q] \in Final \/ frame'[q] = NoFrame
    BY <1>0, <1>1 DEF ArrivalInv, Alone
  <2>2. pc'[q] # "editSave"
    BY <1>1 DEF Alone, Final
  <2> QED
    BY <2>1, <2>2, NoFrameFields DEF ReadOf
<1>3. UNCHANGED inviteVars => \A i \in Docs : UsesFit(i)' /\ (~invitation'[i].stored => listed'[i] = {})
  BY <1>1 DEF UsesExact, UsesFit
<1>4. CASE Routes(r)
  <2>1. frame[r] = NoFrame
    BY <1>0, <1>4, RoutesAreQuiet DEF ArrivalInv
  <2>2. UNCHANGED inviteVars /\ ReadOf(r)'
    BY <1>0, <1>1, <1>4, <2>1, RoutesRead
  <2> QED
    BY <1>2, <1>3, <2>2 DEF UsesExact
<1>5. CASE Step(r) /\ ~InsertInvitation(r) /\ ~SaveEdit(r) /\ ~SaveUse(r)
  <2>1. UNCHANGED inviteVars /\ ReadOf(r)
    BY <1>1, <1>5, OtherStepsKeepInvitations DEF UsesExact
  <2>2. Edges(r) /\ (Keeps(r) \/ Refuses(r))
    BY <1>0, <1>5, StepsMove
  <2>3. ReadOf(r)'
    BY <2>1, <2>2, StepsRead
  <2> QED
    BY <1>2, <1>3, <2>1, <2>3 DEF UsesExact
<1>6. CASE InsertInvitation(r) \/ SaveEdit(r) \/ SaveUse(r)
  <2>1. /\ \A i \in Docs : UsesFit(i)' /\ (~invitation'[i].stored => listed'[i] = {})
        /\ pc'[r] = "ok"
    BY <1>1, <1>6, SavesKeepUses
  <2>2. ReadOf(r)'
    BY <2>1 DEF ReadOf, Final
  <2> QED
    BY <1>2, <2>1, <2>2 DEF UsesExact
<1>7. CASE CallFails(r)
  BY <1>0, <1>1, <1>7, FailuresAreQuiet
<1> QED
  BY <1>4, <1>5, <1>6, <1>7

\* What holds while requests do not overlap.
SerialInv == SerialSoFar => QuotaExact /\ UsesExact

\* At the start the counter is the participants there are, and no invitation
\* was used.
LEMMA InitIsExact ==
  ASSUME SponsorInit
  PROVE  SerialInv
<1>0. /\ SponsorTypeOK /\ \A r \in Requests : pc[r] = "idle" /\ frame[r] = NoFrame
      /\ \A d \in Docs : listed[d] = {}
  BY InitTypes DEF SponsorInit
<1>1. PICK running \in BOOLEAN :
        LET doc(d) == IF running /\ d \in Earlier THEN Placed[d]
                      ELSE [member |-> NoMember, ask |-> NoAsk, invitation |-> NoInvitation]
        IN  /\ member = [d \in Docs |-> doc(d).member]
            /\ invitation = [d \in Docs |-> doc(d).invitation]
            /\ sponsor = IF ~running THEN NoSponsor
                         ELSE [stored |-> TRUE, active |-> TRUE, quota |-> PlacedQuota,
                               used |-> Cardinality({d \in Earlier :
                                  Placed[d].member.state = "active"
                                    /\ Placed[d].member.seat = "quota"})]
  BY DEF SponsorInit
<1>2. \A d \in Docs : invitation[d].uses = 0 /\ invitation[d].limit \in Nat
  <2>1. \A d \in Docs : invitation[d] = NoInvitation \/ (d \in Earlier /\ invitation[d] = Placed[d].invitation)
    BY <1>1
  <2>2. NoInvitation.uses = 0
    BY DEF NoInvitation
  <2>3. \A d \in Docs : invitation[d].uses = 0
    BY <2>1, <2>2, PlacedAssumption
  <2> QED
    BY <1>0, <2>3 DEF SponsorTypeOK, InvitationDoc
<1>3. UsesExact
  <2>1. Cardinality({}) = 0
    BY FS_EmptySet
  <2>2. ASSUME NEW i \in Docs PROVE UsesFit(i)
    <3>1. invitation[i].uses = 0 /\ Cardinality(listed[i]) = 0 /\ invitation[i].limit \in Nat
      BY <1>0, <1>2, <2>1
    <3>2. 0 <= invitation[i].limit
      BY <3>1
    <3> QED
      BY <3>1, <3>2 DEF UsesFit
  <2>3. \A r \in Requests : ReadOf(r)
    BY <1>0, NoFrameFields DEF ReadOf
  <2> QED
    BY <1>0, <2>2, <2>3 DEF UsesExact
<1>4. sponsor.used = Cardinality(Active) /\ sponsor.used <= sponsor.quota
      /\ (sponsor.stored \/ sponsor.used = 0)
  <2>1. CASE ~running
    <3>1. \A d \in Docs : member[d] = NoMember
      BY <1>1, <2>1
    <3>2. Active = {}
      BY <3>1 DEF Active, Counted, NoMember
    <3>3. sponsor = NoSponsor
      BY <1>1, <2>1
    <3> QED
      BY <3>2, <3>3, FS_EmptySet DEF NoSponsor
  <2>2. CASE running
    <3> DEFINE held == {d \in Earlier : Placed[d].member.state = "active"
                                         /\ Placed[d].member.seat = "quota"}
    <3>1. \A d \in Docs : IF d \in Earlier THEN member[d] = Placed[d].member
                                           ELSE member[d] = NoMember
      BY <1>1, <2>2
    <3>2. Active = held
      BY <3>1 DEF Active, Counted, NoMember, Docs
    <3>3. sponsor.used = Cardinality(held) /\ sponsor.quota = PlacedQuota /\ sponsor.stored
      BY <1>1, <2>2
    <3> QED
      BY <3>2, <3>3, WithinQuotaAssumption
  <2> QED
    BY <2>1, <2>2
<1>5. \A r \in Requests : QuotaOf(r)
  BY <1>0 DEF QuotaOf
<1> QED
  BY <1>3, <1>4, <1>5 DEF SerialInv, QuotaExact

\* Every step keeps it.
LEMMA NextKeepsExact ==
  ASSUME SponsorInv, SerialInv, [SponsorNext]_allVars
  PROVE  SerialInv'
<1>0. SponsorInv' /\ SponsorTypeOK /\ ArrivalInv /\ SponsorTypeOK'
  BY NextKeeps DEF SponsorInv
<1>1. ASSUME NEW r \in Requests, Moves(r), Routes(r) \/ Step(r) \/ CallFails(r), SerialSoFar'
      PROVE  QuotaExact' /\ UsesExact'
  BY <1>0, <1>1, MovesKeepQuota, MovesKeepUses DEF SerialInv
<1>2. CASE UNCHANGED allVars
  <2>1. SerialSoFar' => SerialSoFar
    BY <1>2 DEF SerialSoFar
  <2>2. Active' = Active
    BY <1>2 DEF Active, Counted
  <2>3. QuotaExact => QuotaExact'
    BY <1>2, <2>2 DEF QuotaExact, QuotaOf, Saving
  <2>4. UsesExact => UsesExact'
    BY <1>2 DEF UsesExact, UsesFit, ReadOf
  <2> QED
    BY <2>1, <2>3, <2>4 DEF SerialInv
<1> QED
  BY <1>0, <1>1, <1>2, NextMoves DEF SerialInv

\* Requests that never overlapped had not so far, and nobody is in flight.
LEMMA SerialIsSoFar ==
  ASSUME Serial
  PROVE  SerialSoFar /\ \A r \in Requests : pc[r] \in Final \cup {"idle"}
BY DEF Serial, SerialSoFar, InFlight

\* While requests do not overlap and their calls succeed, the quota and the
\* uses stay exact, from step to step.
THEOREM SerialInvariance == SponsorSpec => [](SponsorInv /\ SerialInv)
<1>1. SponsorInit => SponsorInv /\ SerialInv
  BY InitStarts, InitIsExact
<1>2. (SponsorInv /\ SerialInv) /\ [SponsorNext]_allVars => (SponsorInv /\ SerialInv)'
  BY NextKeeps, NextKeepsExact
<1> QED
  BY <1>1, <1>2, PTL DEF SponsorSpec

\* Then the used counter is the number of active participants, and within the
\* quota (incrementQuotaUsage, decrementQuotaUsage, updateSponsorQuotas).
THEOREM QuotaIsExact == SponsorSpec => []SerialQuotaIsExact
<1>1. ASSUME SerialInv PROVE SerialQuotaIsExact
  <2> SUFFICES ASSUME Serial PROVE sponsor.used = Cardinality(Counted({"active"}))
                                   /\ sponsor.used <= sponsor.quota
    BY DEF SerialQuotaIsExact
  <2>1. QuotaExact /\ \A r \in Requests : pc[r] \notin Counting
    BY <1>1, SerialIsSoFar DEF SerialInv, Counting, Final
  <2> QED
    BY <2>1 DEF QuotaExact, Active
<1> QED
  BY <1>1, SerialInvariance, PTL

\* And an invitation is used as often as its counter says, within its kind
\* (updateInvitationUsage, whatever updateInvitation does in between).
THEOREM UsesAreExact == SponsorSpec => []SerialUsesAreExact
<1>1. ASSUME SerialInv PROVE SerialUsesAreExact
  BY <1>1, SerialIsSoFar DEF SerialInv, UsesExact, UsesFit, SerialUsesAreExact
<1> QED
  BY <1>1, SerialInvariance, PTL
=============================================================================
