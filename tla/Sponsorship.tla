---------------------------- MODULE Sponsorship ----------------------------
(***************************************************************************)
(* One sponsor of one event: its quota for one type of participant, the     *)
(* requests for more of it, the participants, and the invitations through   *)
(* which they register.  EventSponsorsService, EventParticipantsService and *)
(* SponsorInvitationsService.                                               *)
(*                                                                         *)
(* Handlers are sequences of awaited calls, as in Store.  A document that   *)
(* was read is changed in memory and saved later: Mongoose writes only the  *)
(* fields whose value was changed, with the value computed from what was    *)
(* read.                                                                    *)
(***************************************************************************)
EXTENDS Integers, FiniteSets

CONSTANTS
    Requests,     \* HTTP requests
    Earlier,      \* documents that may be stored at the start
    Users,        \* accounts stored at the start
    Placed,       \* Placed[d]: the member, the ask and the invitation d of the start
    PlacedQuota,  \* the sponsor's quota then
    MaxQuota,     \* bound: the largest quota, limit and amount of a request
    None          \* no document, no user

\* A participant, an invitation or a quota request is named by the request
\* that creates it.  The alike invitations of a bulk are one.
Docs == Requests \cup Earlier
People == Users \cup Requests

\* "quota": a type of participant with a quota; "staff": OPERATIONAL_STAFF.
Seats == {"quota", "regular", "staff"}
Usages == {"single", "multiple", "unlimited"}
Verdicts == {"pending", "approved", "rejected"}

SponsorDoc == [stored : BOOLEAN, active : BOOLEAN, quota : Nat, used : Nat]
MemberDoc == [state : {"none", "active", "cancelled"},
              user : People \cup {None}, seat : Seats]
AskDoc == [status : Verdicts \cup {"none"}, amount : Nat]
InvitationDoc == [stored : BOOLEAN, open : BOOLEAN, usage : Usages,
                  seat : Seats, limit : Nat, uses : Nat]

NoSponsor == [stored |-> FALSE, active |-> FALSE, quota |-> 0, used |-> 0]
NoMember == [state |-> "none", user |-> None, seat |-> "regular"]
NoAsk == [status |-> "none", amount |-> 0]
NoInvitation == [stored |-> FALSE, open |-> FALSE, usage |-> "single",
                 seat |-> "regular", limit |-> 0, uses |-> 0]

ASSUME NamesAssumption == None \notin Docs \cup People /\ Requests \cap Earlier = {}
                            /\ Requests \cap Users = {}
ASSUME FinitenessAssumption == IsFiniteSet(Docs)

\* The invitations of the start were not used yet; one is invited to a type
\* with a quota or as staff.
ASSUME PlacedAssumption ==
    /\ Placed \in [Earlier -> [member : MemberDoc, ask : AskDoc, invitation : InvitationDoc]]
    /\ \A d \in Earlier : /\ Placed[d].invitation.uses = 0
                          /\ Placed[d].invitation.stored => Placed[d].invitation.seat # "regular"
ASSUME QuotaAssumption == PlacedQuota \in Nat /\ MaxQuota \in Nat

\* The participants of the start are within the quota.
ASSUME WithinQuotaAssumption ==
    Cardinality({d \in Earlier : Placed[d].member.state = "active"
                                   /\ Placed[d].member.seat = "quota"}) <= PlacedQuota

VARIABLES
    sponsor,     \* the EventSponsor document
    member,      \* member[d]: EventParticipant
    ask,         \* ask[d]: SponsorQuotaRequest
    invitation,  \* invitation[d]: SponsorInvitation
    listed,      \* listed[d]: the participants in SponsorInvitation.uses
    accounts,    \* requests that created an account
    tickets,     \* participants a ticket was stored for
    attached,    \* participants whose ticketId is set
    lastTicket,  \* sequence number of the latest ticket of the day
    pc,          \* pc[r]: the call r is about to make, or how it ended
    frame,       \* frame[r]: local variables of r
    before       \* before[r]: the requests that had ended when r arrived; no action reads it

sponsorVars == <<sponsor, ask>>
memberVars == <<member, accounts, tickets, attached, lastTicket>>
inviteVars == <<invitation, listed>>
allVars == <<sponsorVars, memberVars, inviteVars, pc, frame, before>>

\* A document as it was read, and as it will be saved.
Draft(old, new) == [old |-> old, new |-> new]

NoFrame == [user |-> None, seat |-> "regular", target |-> None, inv |-> None,
            ask |-> None, verdict |-> "pending", num |-> 0,
            sp |-> Draft(NoSponsor, NoSponsor),
            iv |-> Draft(NoInvitation, NoInvitation)]

\* Mutant: the whole document is written back.
SavedWhole(stored, draft) == draft.new

\* save(): the fields that were changed are written over what is stored.
Saved(stored, draft) ==
    [f \in DOMAIN stored |-> IF draft.new[f] = draft.old[f]
                             THEN stored[f] ELSE draft.new[f]]

\* "failed": a call was rejected.
Final == {"ok", "error", "failed"}
InFlight(r) == pc[r] \notin Final \cup {"idle"}

\* r goes on at `label`; when it ends, all that no property reads is forgotten.
Continue(r, label, f) ==
    /\ pc' = [pc EXCEPT ![r] = label]
    /\ frame' = [frame EXCEPT ![r] =
                   IF label \in Final
                   THEN [NoFrame EXCEPT !.inv = f.inv, !.ask = f.ask, !.verdict = f.verdict,
                            !.target = IF f.verdict = "pending" THEN None ELSE f.target]
                   ELSE f]

Goto(r, label) == Continue(r, label, frame[r])

\* A request arrives.
Begin(r) ==
    /\ pc[r] = "idle"
    /\ before' = [before EXCEPT ![r] = {q \in Requests : pc[q] \in Final}]

(***************************************************************************)
(* EventSponsorsService: the sponsor and its quota.                         *)
(***************************************************************************)
Available == sponsor.quota - sponsor.used

\* checkQuotaAvailability.
HasQuota == sponsor.stored /\ sponsor.active /\ Available > 0

\* addSponsorToEvent: first an active sponsor is looked for, then any.
AddSponsor(r) ==
    /\ Begin(r)
    /\ Goto(r, IF sponsor.stored /\ sponsor.active THEN "error" ELSE "addRead")
    /\ UNCHANGED <<sponsorVars, memberVars, inviteVars>>

AddRead(r) ==
    /\ pc[r] = "addRead"
    /\ \E q \in 0 .. MaxQuota :
        LET new == [stored |-> TRUE, active |-> TRUE, quota |-> q, used |-> sponsor.used]
        IN  Continue(r, IF sponsor.stored THEN "sponsorSave" ELSE "sponsorInsert",
                     [frame[r] EXCEPT !.sp = Draft(sponsor, new)])
    /\ UNCHANGED <<sponsorVars, memberVars, inviteVars, before>>

\* One document per event and company: the index refuses a second one.
InsertSponsor(r) ==
    /\ pc[r] = "sponsorInsert"
    /\ \/ ~sponsor.stored /\ sponsor' = frame[r].sp.new /\ Goto(r, "ok")
       \/ sponsor.stored /\ Goto(r, "error") /\ UNCHANGED sponsor
    /\ UNCHANGED <<ask, memberVars, inviteVars, before>>

\* updateSponsorQuotas; a field that is not sent stays.
UpdateQuotas(r) ==
    /\ Begin(r) /\ sponsor.stored
    /\ \E q \in 0 .. MaxQuota, active \in BOOLEAN :
        \/ /\ q >= sponsor.used \/ q = sponsor.quota
           /\ Continue(r, "sponsorSave", [frame[r] EXCEPT !.sp =
                Draft(sponsor, [sponsor EXCEPT !.quota = q, !.active = active])])
        \/ q < sponsor.used /\ Goto(r, "error")
    /\ UNCHANGED <<sponsorVars, memberVars, inviteVars>>

RemoveSponsor(r) ==
    /\ Begin(r) /\ sponsor.stored
    /\ Continue(r, IF sponsor.active THEN "sponsorSave" ELSE "error",
          [frame[r] EXCEPT !.sp = Draft(sponsor, [sponsor EXCEPT !.active = FALSE])])
    /\ UNCHANGED <<sponsorVars, memberVars, inviteVars>>

\* The pre-save hook: a changed quota covers what was used when it was read.
HookAccepts(draft) ==
    draft.new.quota = draft.old.quota \/ draft.new.quota >= draft.new.used

\* Where the handler goes on after it has saved the sponsor: the review saves
\* the request, an acceptance generates the ticket.
AfterSponsor(r) == IF frame[r].ask # None THEN "askSave"
                   ELSE IF frame[r].inv # None THEN "ticketNumber" ELSE "ok"

SaveSponsor(r) ==
    /\ pc[r] = "sponsorSave"
    /\ \/ /\ HookAccepts(frame[r].sp)
          /\ sponsor' = Saved(sponsor, frame[r].sp)
          /\ Continue(r, AfterSponsor(r), [frame[r] EXCEPT !.sp = NoFrame.sp])
       \/ ~HookAccepts(frame[r].sp) /\ Goto(r, "error") /\ UNCHANGED sponsor
    /\ UNCHANGED <<ask, memberVars, inviteVars, before>>

\* Mutant: a use takes two.
CountTwice(n) == n + 2

CountUse(n) == n + 1

\* Mutants: the last use is never given back; the counter goes below zero.
KeepLast(n) == IF n > 1 THEN n - 1 ELSE n
CountDown(n) == n - 1

CountCancel(n) == IF n > 0 THEN n - 1 ELSE 0

\* incrementQuotaUsage and decrementQuotaUsage, up to their save.
ReadUsed(r) ==
    /\ pc[r] \in {"increment", "decrement"}
    /\ Continue(r, IF sponsor.stored THEN "sponsorSave" ELSE "error",
          [frame[r] EXCEPT !.sp = Draft(sponsor, [sponsor EXCEPT !.used =
              IF pc[r] = "increment" THEN CountUse(@) ELSE CountCancel(@)])])
    /\ UNCHANGED <<sponsorVars, memberVars, inviteVars, before>>

(***************************************************************************)
(* Requests for more quota.                                                 *)
(***************************************************************************)
\* createQuotaRequest.
Ask(r) ==
    /\ Begin(r)
    /\ Goto(r, IF sponsor.stored /\ sponsor.active THEN "askInsert" ELSE "error")
    /\ UNCHANGED <<sponsorVars, memberVars, inviteVars>>

InsertAsk(r) ==
    /\ pc[r] = "askInsert"
    /\ \E n \in 1 .. MaxQuota :
        ask' = [ask EXCEPT ![r] = [status |-> "pending", amount |-> n]]
    /\ Goto(r, "ok")
    /\ UNCHANGED <<sponsor, memberVars, inviteVars, before>>

\* Mutant: what was rejected can be reviewed again.
ReviewableAgain(a) == ask[a].status \in {"pending", "rejected"}

Reviewable(a) == ask[a].status = "pending"

\* reviewQuotaRequest: the amount granted is what was asked, or less, or more.
\* The DTO lets a reviewer send PENDING as well.
Review(r) ==
    /\ Begin(r)
    /\ \E a \in Docs, v \in Verdicts, n \in 1 .. MaxQuota :
        /\ ask[a].status # "none"
        /\ n = ask[a].amount \/ v = "approved"
        /\ Continue(r, CASE ~Reviewable(a) -> "error"
                         [] Reviewable(a) /\ v = "approved" -> "grant"
                         [] OTHER -> "askSave",
                    [frame[r] EXCEPT !.ask = a, !.verdict = v, !.num = n])
    /\ UNCHANGED <<sponsorVars, memberVars, inviteVars>>

Grant(r) ==
    /\ pc[r] = "grant"
    /\ Continue(r, "sponsorSave", [frame[r] EXCEPT !.sp =
          Draft(sponsor, [sponsor EXCEPT !.quota = @ + frame[r].num])])
    /\ UNCHANGED <<sponsorVars, memberVars, inviteVars, before>>

SaveAsk(r) ==
    /\ pc[r] = "askSave"
    /\ ask' = IF frame[r].verdict = "pending" THEN ask
              ELSE [ask EXCEPT ![frame[r].ask].status = frame[r].verdict]
    /\ Goto(r, "ok")
    /\ UNCHANGED <<sponsor, memberVars, inviteVars, before>>

(***************************************************************************)
(* EventParticipantsService.registerParticipant, called by its endpoint and *)
(* by the acceptance of an invitation.                                      *)
(***************************************************************************)
\* Mutant: only the participants of the quota are looked at.
RegisteredByQuota(u) ==
    \E d \in Docs : /\ member[d].state = "active" /\ member[d].user = u
                    /\ member[d].seat = "quota"

Registered(u) ==
    \E d \in Docs : member[d].state = "active" /\ member[d].user = u

\* What follows the check that the user is not registered.
SeatCheck(seat) == IF seat = "quota" THEN "registerQuota" ELSE "memberSave"

Register(r) ==
    /\ Begin(r)
    /\ \E u \in Users, seat \in Seats :
        Continue(r, IF Registered(u) THEN "error" ELSE SeatCheck(seat),
                 [frame[r] EXCEPT !.user = u, !.seat = seat])
    /\ UNCHANGED <<sponsorVars, memberVars, inviteVars>>

\* assignOperationalStaff: only an assignment as staff is looked for.
AssignStaff(r) ==
    /\ Begin(r)
    /\ \E u \in Users :
        LET assigned == \E d \in Docs : /\ member[d].state = "active"
                                      /\ member[d].user = u /\ member[d].seat = "staff"
        IN  Continue(r, IF assigned THEN "error" ELSE "memberSave",
                     [frame[r] EXCEPT !.user = u, !.seat = "staff"])
    /\ UNCHANGED <<sponsorVars, memberVars, inviteVars>>

\* The acceptance looks for the registration, and registerParticipant again.
CheckRegistered(r) ==
    /\ pc[r] \in {"lookUp", "register"}
    /\ Goto(r, CASE Registered(frame[r].user) -> "error"
                 [] ~Registered(frame[r].user) /\ pc[r] = "lookUp" -> "register"
                 [] OTHER -> SeatCheck(frame[r].seat))
    /\ UNCHANGED <<sponsorVars, memberVars, inviteVars, before>>

CheckQuota(r) ==
    /\ pc[r] = "registerQuota"
    /\ Goto(r, IF HasQuota THEN "memberSave" ELSE "error")
    /\ UNCHANGED <<sponsorVars, memberVars, inviteVars, before>>

SaveMember(r) ==
    /\ pc[r] = "memberSave"
    /\ member' = [member EXCEPT ![r] = [state |-> "active", user |-> frame[r].user,
                                        seat |-> frame[r].seat]]
    /\ Goto(r, CASE frame[r].seat = "quota" -> "increment"
                 [] frame[r].seat = "staff" /\ frame[r].inv # None -> "ticketNumber"
                 [] OTHER -> "ok")
    /\ UNCHANGED <<sponsorVars, inviteVars, accounts, tickets, attached,
                   lastTicket, before>>

\* cancelParticipation.
Cancel(r) ==
    /\ Begin(r)
    /\ \E d \in Docs :
        /\ member[d].state # "none"
        /\ Continue(r, IF member[d].state = "active" THEN "cancelSave" ELSE "error",
                    [frame[r] EXCEPT !.target = d])
    /\ UNCHANGED <<sponsorVars, memberVars, inviteVars>>

\* removeOperationalStaff: an assignment that was removed is removed again.
RemoveStaff(r) ==
    /\ Begin(r)
    /\ \E d \in Docs :
        /\ member[d].state # "none" /\ member[d].seat = "staff"
        /\ Continue(r, "cancelSave", [frame[r] EXCEPT !.target = d])
    /\ UNCHANGED <<sponsorVars, memberVars, inviteVars>>

SaveCancel(r) ==
    /\ pc[r] = "cancelSave"
    /\ member' = [member EXCEPT ![frame[r].target].state = "cancelled"]
    /\ Goto(r, IF member[frame[r].target].seat = "quota" THEN "decrement" ELSE "ok")
    /\ UNCHANGED <<sponsorVars, inviteVars, accounts, tickets, attached,
                   lastTicket, before>>

(***************************************************************************)
(* SponsorInvitationsService: creation and changes.                         *)
(***************************************************************************)
\* Only a quota of exactly zero is refused.
Invitable(usage, limit) ==
    /\ sponsor.stored /\ sponsor.active /\ Available # 0
    /\ usage = "multiple" => limit <= Available

\* What both creations go on with: the invitation, or a refusal.
Offers(r, usage, seat, limit, allowed) ==
    Continue(r, IF seat = "staff" \/ allowed THEN "inviteInsert" ELSE "error",
             [frame[r] EXCEPT !.iv = Draft(NoInvitation,
                [stored |-> TRUE, open |-> TRUE, usage |-> usage, seat |-> seat,
                 limit |-> IF usage = "multiple" THEN limit ELSE 0, uses |-> 0])])

\* createInvitation: staff invitations need no sponsor.
Invite(r) ==
    /\ Begin(r)
    /\ \E usage \in Usages, seat \in {"quota", "staff"}, limit \in 1 .. MaxQuota :
            Offers(r, usage, seat, limit, Invitable(usage, limit))
    /\ UNCHANGED <<sponsorVars, memberVars, inviteVars>>

\* createBulkInvitations: n single ones, compared with the quota.
InviteMany(r) ==
    /\ Begin(r)
    /\ \E seat \in {"quota", "staff"}, n \in 1 .. MaxQuota :
            Offers(r, "single", seat, 0, sponsor.stored /\ sponsor.active /\ n <= Available)
    /\ UNCHANGED <<sponsorVars, memberVars, inviteVars>>

\* The code is one that nobody has.
InsertInvitation(r) ==
    /\ pc[r] = "inviteInsert"
    /\ invitation' = [invitation EXCEPT ![r] = frame[r].iv.new]
    /\ Goto(r, "ok")
    /\ UNCHANGED <<sponsorVars, memberVars, listed, before>>

\* updateInvitation; limit 0 is maxUses null, which an edit may set while the
\* invitation has no use: null compares as zero.
EditInvitation(r) ==
    /\ Begin(r)
    /\ \E i \in Docs, limit \in 0 .. MaxQuota, open \in BOOLEAN :
        /\ invitation[i].stored
        /\ limit = invitation[i].limit \/ invitation[i].usage = "multiple"
        /\ Continue(r, IF limit >= invitation[i].uses \/ limit = invitation[i].limit
                       THEN "editSave" ELSE "error",
                    [frame[r] EXCEPT !.target = i, !.iv = Draft(invitation[i],
                        [invitation[i] EXCEPT !.limit = limit, !.open = open])])
    /\ UNCHANGED <<sponsorVars, memberVars, inviteVars>>

\* deactivateInvitation.
CloseInvitation(r) ==
    /\ Begin(r)
    /\ \E i \in Docs :
        /\ invitation[i].stored
        /\ Continue(r, "editSave", [frame[r] EXCEPT !.target = i,
                !.iv = Draft(invitation[i], [invitation[i] EXCEPT !.open = FALSE])])
    /\ UNCHANGED <<sponsorVars, memberVars, inviteVars>>

SaveEdit(r) ==
    /\ pc[r] = "editSave"
    /\ invitation' = [invitation EXCEPT ![frame[r].target] = Saved(@, frame[r].iv)]
    /\ Goto(r, "ok")
    /\ UNCHANGED <<sponsorVars, memberVars, listed, before>>

(***************************************************************************)
(* acceptInvitationWithAuth, acceptInvitationWithSignup and                 *)
(* acceptInvitationForUser.                                                 *)
(***************************************************************************)
\* Mutant: a used invitation is only refused once it is closed.
UsableWhileOpen(inv) == inv.open

\* validateInvitationStatus, but for the expiry.
Usable(inv) ==
    /\ inv.open
    /\ inv.usage = "single" => inv.uses < 1
    /\ inv.usage = "multiple" /\ inv.limit # 0 => inv.uses < inv.limit

\* The account that request r creates is named r.
AfterAcceptQuota(u, r) == IF u = r THEN "signup" ELSE "lookUp"

AcceptAs(r, u) ==
    /\ Begin(r)
    /\ \E i \in Docs, expired \in BOOLEAN :
        /\ invitation[i].stored
        /\ Continue(r, CASE expired \/ ~Usable(invitation[i]) -> "error"
                         [] ~expired /\ Usable(invitation[i])
                              /\ invitation[i].seat = "quota" -> "acceptQuota"
                         [] OTHER -> AfterAcceptQuota(u, r),
                    [frame[r] EXCEPT !.inv = i, !.user = u,
                        !.seat = invitation[i].seat,
                        !.iv = Draft(invitation[i], invitation[i])])
    /\ UNCHANGED <<sponsorVars, memberVars, inviteVars>>

\* acceptInvitationForUser looks the user up and calls it.
AcceptWithAuth(r) == \E u \in Users : AcceptAs(r, u)

AcceptWithSignup(r) == AcceptAs(r, r)

AcceptQuota(r) ==
    /\ pc[r] = "acceptQuota"
    /\ Goto(r, IF HasQuota THEN AfterAcceptQuota(frame[r].user, r) ELSE "error")
    /\ UNCHANGED <<sponsorVars, memberVars, inviteVars, before>>

\* validateInvitationByCode: it answers what it thinks of the code, and looks
\* neither at the sponsor's being active nor for a quota below zero.
ValidateCode(r) ==
    /\ Begin(r)
    /\ \E i \in Docs, expired \in BOOLEAN :
        LET usable == ~expired /\ Usable(invitation[i])
        IN  /\ invitation[i].stored
            /\ Continue(r, IF usable /\ invitation[i].seat = "quota" THEN "validateQuota" ELSE "ok",
                  [frame[r] EXCEPT !.target = i,
                                   !.verdict = IF usable THEN "approved" ELSE "rejected"])
    /\ UNCHANGED <<sponsorVars, memberVars, inviteVars>>

ValidateQuota(r) ==
    /\ pc[r] = "validateQuota"
    /\ Continue(r, "ok", [frame[r] EXCEPT !.verdict = IF Available = 0 THEN "rejected" ELSE @])
    /\ UNCHANGED <<sponsorVars, memberVars, inviteVars, before>>

\* UsersService.create; the e-mail address may be taken.
SignUp(r) ==
    /\ pc[r] = "signup"
    /\ \/ accounts' = accounts \cup {r} /\ Goto(r, "lookUp")
       \/ Goto(r, "error") /\ UNCHANGED accounts
    /\ UNCHANGED <<sponsorVars, inviteVars, member, tickets, attached,
                   lastTicket, before>>

\* generateTicketForInvitation: the number, then the ticket.
ReadTicketNumber(r) ==
    /\ pc[r] = "ticketNumber"
    /\ Continue(r, "ticketSave", [frame[r] EXCEPT !.num = lastTicket + 1])
    /\ UNCHANGED <<sponsorVars, memberVars, inviteVars, before>>

SaveTicket(r) ==
    /\ pc[r] = "ticketSave"
    /\ \/ /\ frame[r].num > lastTicket
          /\ lastTicket' = frame[r].num
          /\ tickets' = tickets \cup {r}
          /\ Goto(r, "ticketAttach")
       \/ /\ frame[r].num <= lastTicket
          /\ Goto(r, "error")
          /\ UNCHANGED <<tickets, lastTicket>>
    /\ UNCHANGED <<sponsorVars, inviteVars, member, accounts, attached, before>>

\* updateParticipantTicket.
AttachTicket(r) ==
    /\ pc[r] = "ticketAttach"
    /\ attached' = attached \cup {r}
    /\ Goto(r, "useSave")
    /\ UNCHANGED <<sponsorVars, inviteVars, member, accounts, tickets,
                   lastTicket, before>>

\* Mutants: a single invitation is closed, and its use not counted; a use
\* counts twice.
CloseOnly(inv) == [inv EXCEPT !.open = FALSE,
                              !.uses = IF inv.usage = "single" THEN @ ELSE @ + 1]
UsedTwice(inv) == [inv EXCEPT !.uses = @ + 2,
                              !.open = IF inv.usage = "single" THEN FALSE ELSE @]

\* updateInvitationUsage, on the invitation as it was read first.
Used(inv) == [inv EXCEPT !.uses = @ + 1,
                         !.open = IF inv.usage = "single" THEN FALSE ELSE @]

\* $push appends to the list whatever it holds; the counter is overwritten.
SaveUse(r) ==
    /\ pc[r] = "useSave"
    /\ LET i == frame[r].inv
           old == frame[r].iv.old
       IN  /\ invitation' = [invitation EXCEPT ![i] = Saved(@, Draft(old, Used(old)))]
           /\ listed' = [listed EXCEPT ![i] = @ \cup {r}]
    /\ Goto(r, "ok")
    /\ UNCHANGED <<sponsorVars, memberVars, before>>

(***************************************************************************)
(* The specification                                                        *)
(***************************************************************************)
SponsorRoutes(r) == AddSponsor(r) \/ UpdateQuotas(r) \/ RemoveSponsor(r)

QuotaRoutes(r) == Ask(r) \/ Review(r)

ParticipantRoutes(r) ==
    Register(r) \/ AssignStaff(r) \/ RemoveStaff(r) \/ Cancel(r)

InvitationRoutes(r) ==
    Invite(r) \/ InviteMany(r) \/ EditInvitation(r) \/ CloseInvitation(r)

PublicInvitationRoutes(r) ==
    ValidateCode(r) \/ AcceptWithAuth(r) \/ AcceptWithSignup(r)

Step(r) ==
    \/ AddRead(r) \/ InsertSponsor(r) \/ SaveSponsor(r) \/ ReadUsed(r)
    \/ InsertAsk(r) \/ Grant(r) \/ SaveAsk(r)
    \/ CheckRegistered(r) \/ CheckQuota(r) \/ SaveMember(r) \/ SaveCancel(r)
    \/ InsertInvitation(r) \/ SaveEdit(r)
    \/ ValidateQuota(r) \/ AcceptQuota(r) \/ SignUp(r)
    \/ ReadTicketNumber(r) \/ SaveTicket(r) \/ AttachTicket(r) \/ SaveUse(r)

\* A rejected call, at any of them; no handler undoes what it did.  A crash
\* leaves the collections as the rejection of every call would.
CallFails(r) ==
    /\ InFlight(r)
    /\ Goto(r, "failed")
    /\ UNCHANGED <<sponsorVars, memberVars, inviteVars, before>>

SponsorInit ==
    /\ \E running \in BOOLEAN :
        LET doc(d) == IF running /\ d \in Earlier THEN Placed[d]
                      ELSE [member |-> NoMember, ask |-> NoAsk,
                            invitation |-> NoInvitation]
        IN  /\ member = [d \in Docs |-> doc(d).member]
            /\ ask = [d \in Docs |-> doc(d).ask]
            /\ invitation = [d \in Docs |-> doc(d).invitation]
            /\ sponsor = IF ~running THEN NoSponsor
                         ELSE [stored |-> TRUE, active |-> TRUE, quota |-> PlacedQuota,
                               used |-> Cardinality({d \in Earlier :
                                  Placed[d].member.state = "active"
                                    /\ Placed[d].member.seat = "quota"})]
    /\ listed = [d \in Docs |-> {}]
    /\ accounts = {} /\ tickets = {} /\ attached = {} /\ lastTicket = 0
    /\ pc = [r \in Requests |-> "idle"]
    /\ frame = [r \in Requests |-> NoFrame]
    /\ before = [r \in Requests |-> {}]

SponsorQuiet ==
    /\ \A r \in Requests : ~InFlight(r)
    /\ UNCHANGED allVars

SponsorNext ==
    \/ \E r \in Requests : \/ SponsorRoutes(r) \/ QuotaRoutes(r) \/ ParticipantRoutes(r)
                           \/ InvitationRoutes(r) \/ PublicInvitationRoutes(r)
                           \/ Step(r) \/ CallFails(r)
    \/ SponsorQuiet

SponsorSpec == SponsorInit /\ [][SponsorNext]_allVars

(***************************************************************************)
(* Properties                                                               *)
(***************************************************************************)
Counted(states) ==
    {d \in Docs : member[d].state \in states /\ member[d].seat = "quota"}

Labels == Final \cup {"idle", "addRead", "sponsorInsert", "sponsorSave",
    "increment", "decrement", "askInsert", "grant", "askSave", "lookUp",
    "register", "registerQuota", "memberSave", "cancelSave", "inviteInsert",
    "editSave", "validateQuota", "acceptQuota", "signup", "ticketNumber", "ticketSave",
    "ticketAttach", "useSave"}

\* The types of the collections and of the requests' local variables.
SponsorTypeOK ==
    /\ sponsor \in SponsorDoc
    /\ member \in [Docs -> MemberDoc]
    /\ ask \in [Docs -> AskDoc]
    /\ invitation \in [Docs -> InvitationDoc]
    /\ listed \in [Docs -> SUBSET Docs]
    /\ accounts \subseteq Requests
    /\ tickets \subseteq Docs /\ attached \subseteq tickets
    /\ lastTicket \in Nat
    /\ pc \in [Requests -> Labels]
    /\ before \in [Requests -> SUBSET Requests]
    /\ frame \in [Requests -> [user : People \cup {None}, seat : Seats,
                               target : Docs \cup {None}, inv : Docs \cup {None},
                               ask : Docs \cup {None}, verdict : Verdicts, num : Nat,
                               sp : [old : SponsorDoc, new : SponsorDoc],
                               iv : [old : InvitationDoc, new : InvitationDoc]]]

\* An acceptance that is answered normally has registered its user, given out
\* the ticket, tied the two together and put the participant in the
\* invitation's list, whatever else changed these documents meanwhile.
AcceptedIsComplete ==
    \A r \in Requests : frame[r].inv # None /\ pc[r] = "ok" =>
        /\ member[r].state # "none" /\ r \in attached
        /\ r \in listed[frame[r].inv] /\ invitation[frame[r].inv].uses > 0

\* currentUses may lag behind the participants in the list (an update is
\* lost), but never runs ahead of them: no invitation is refused because of
\* uses nobody made.
UsesAreListed ==
    \A i \in Docs : invitation[i].uses <= Cardinality(listed[i])

\* The used counter is at most the registrations that were ever stored
\* against the quota, however increments and decrements overwrite each other.
UsedIsBacked == sponsor.used <= Cardinality(Counted({"active", "cancelled"}))

\* No two requests overlapped, and no call was rejected.
Serial ==
    /\ \A r \in Requests : ~InFlight(r) /\ pc[r] # "failed"
    /\ \A q, r \in Requests : pc[q] # "idle" /\ pc[r] # "idle" /\ q # r =>
            q \in before[r] \/ r \in before[q]

\* Requests that do not overlap, and whose calls succeed, keep the quota: the
\* counter is the number of active participants, and never above the quota.
SerialQuotaIsExact ==
    Serial =>
        /\ sponsor.used = Cardinality(Counted({"active"}))
        /\ sponsor.used <= sponsor.quota

\* Likewise, an invitation is used as often as its kind allows and as its
\* counter says, whatever was edited between its uses.
SerialUsesAreExact ==
    Serial =>
        \A i \in Docs :
            LET inv == invitation[i]
            IN  /\ inv.uses = Cardinality(listed[i])
                /\ inv.usage = "single" => inv.uses <= 1
                /\ inv.usage = "multiple" /\ inv.limit # 0 => inv.uses <= inv.limit

\* Who was registered before a request arrives is registered by that request
\* only if the first registration is cancelled (or it assigns staff).
RegisteredOnce ==
    \A r \in Requests : \A q \in before[r] :
        member[q].state = "active" /\ member[r].state # "none"
          /\ member[q].user = member[r].user
            => member[r].seat = "staff" /\ member[q].seat # "staff"

\* A single invitation that was accepted before a request arrives is neither
\* accepted by that request nor answered to be valid, even if it was opened
\* again in between.
AcceptedOnce ==
    LET validated(r) == frame[r].ask = None /\ frame[r].verdict = "approved"
        used(r) == IF validated(r) THEN frame[r].target ELSE frame[r].inv
    IN  \A r \in Requests : \A q \in before[r] :
            pc[q] = "ok" /\ pc[r] = "ok" /\ frame[q].inv # None /\ frame[q].inv = used(r)
                => invitation[used(r)].usage # "single"

\* A quota request that was approved or rejected before a reviewer's request
\* arrives is not reviewed by that request.
ReviewedOnce ==
    \A r \in Requests : \A q \in before[r] :
        pc[q] = "ok" /\ pc[r] = "ok" /\ frame[r].ask # None
            => frame[q].ask # frame[r].ask \/ frame[q].verdict = "pending"

\* What a request was told to have done is not done again by a request that
\* arrives later: registered, accepted, reviewed once.
HappensOnce == RegisteredOnce /\ AcceptedOnce /\ ReviewedOnce
=============================================================================
