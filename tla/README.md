# TLA+ models of the event platform's backend

The backend is one Node process (NestJS, Mongoose, MongoDB) that sells tickets
for events and manages their sponsors, participants, documents and entry
control. It uses no database transactions, no sessions and no atomic counters:
a handler reads documents, checks them, awaits, and saves what it computed.
Every `await` is a point where the other requests run, so what a handler read
may be stale when it writes. That is what these models are about.

Paths below are relative to the repository root; its application code is in
`src/`.

## 1. Inventory

| Component | State it keeps | Operations | Hard behaviour | What makes it correct | Modelled in |
|---|---|---|---|---|---|
| Order payment (`payments/payments.service.ts`, `providers/culqi.provider.ts`) | `payment_transactions` (number, status, provider id, orders) | `processPayment`, `processInstantPayment`, `refundPayment`, `handleWebhook` | status checked once and written several awaits later; a provider call whose answer may be lost; a catch block that rewrites the transaction; a catch block whose save may fail too; webhooks that anybody may post | money taken is on record, tickets follow money, settled transactions stay truthful, closed orders are not charged | `OrderPayment`, `Checkout` |
| Orders (`orders/orders.service.ts`) | `orders` (number, items, status, expiry) | create from cart, confirm, cancel, expire, `updateOrderStatus` | check and save one await apart; unique number computed from the latest one | PAID and CONFIRMED only after a payment | `OrderPayment`, `Cart` |
| Cart (`orders/cart.service.ts`) | `cart_items` | add, update quantity, remove, clear | read-modify-write of a quantity; clearing rows that were never read | what is paid is what is ordered | `Cart` |
| Tickets (`tickets/tickets.service.ts`) | `tickets` (number, owner, attendee, status) | issue for an order, issue for an invitation, transfer, update attendee, cancel | number computed from the latest ticket; a loop that can stop half way; a change read before a cancellation | an answered payment has all its tickets and no more; what is cancelled stays so | `Store`, `Sponsorship`, `Entry` |
| Event ticket types (`event-ticket-types/`) | ticket types of an event | create (three system types with the event), update, delete, choose for an invitation | an insertion of three that stops half way; `sold` is read by guards and written by nobody | an event has its system types; a sold type stays | `TicketTypes` |
| QR and entry (`qr/qr.service.ts`) | `entry_logs` | generate a code, validate a scan, statistics, history | two scanners read the same ticket; the log is written last | who was let in is not let in again, and is logged | `Entry` |
| Sponsors and quotas (`event-sponsors/event-sponsors.service.ts`) | quota, used; quota requests | add, update quotas, remove, increment, decrement, request, review | read-modify-write counters; two reviewers of one request | used is what is in use and at most the quota | `Sponsorship` |
| Participants (`events/event-participants.service.ts`) | `event_participants` | register, assign and remove staff, cancel, attach ticket, synchronise speakers | check, then increment, then insert; concurrent removals and additions | one active registration per person; the speakers are the list | `Sponsorship`, `Roster` |
| Sponsor invitations (`events/sponsor-invitations.service.ts`) | invitation codes, uses, state | create, create in bulk, update, deactivate, validate a code, accept (signed in, signing up, for a user) | accept takes several writes across participants, tickets, sponsors; usage counter | an accepted invitation has a participant and a ticket; uses never exceed the limit | `Sponsorship` |
| Sponsor stands (`event-sponsors/sponsor-stands.service.ts`) | visits | link of the stand, visit by the visitor or the staff | two scans of one visitor | visits are neither invented nor lost | `Stands` |
| Event documents (`event-documents/`) | requirements, submissions, files | create, update, delete a requirement; submit; review; summary | two verdicts on one document; a file stored before its submission | the last verdict stands; a submission has its file | `Documents` |
| Certificates (`event-certificates/`) | templates, files | create, update, remove, preview, download | conflict looked up, then saved; the old file deleted first | a ticket type is in one active template of an event; a template has its file | `Certificates` |
| Events (`events/events.service.ts`) | status, slug, dates | create, update, change status, submit, publish, cancel, delete, and the reads | transitions and slugs checked on a stale read | a publication rests on an approval; slugs resolve; visitors see public events | `EventLife`, `EventReads` |
| Payment methods (`payment-methods/`) | methods with a status | create, update, toggle, delete, list what is offered | read, change, save | a deleted method stays deleted | `PaymentMethods` |
| Users and authentication (`users/`, `auth/`) | users, passwords, tokens | create, update, status; register (with a company), login, refresh, passwords, verification | e-mail looked up, then stored; a registration in several writes; tokens that expire; an update that writes any field given | one user per e-mail; a reset uses the latest token | `Accounts` |
| Companies and speakers (`companies/`, `speakers/`) | records, logo, photo | create, update, status, upload and delete a picture | the old file is deleted as it was read | a picture shown exists | `Companies`, `SpeakerRecords` |
| Storage, e-mail, configuration | the bucket | upload, delete | a file with no document, a document with no file | see the users of `Storage` | `Storage` |
| Guards, pipes, interceptors, DTOs | none | how a call is admitted and answered | an answer lost after the write | | `Handlers`, `Entry` |

Interaction: controllers call services; `PaymentsService` calls `OrdersService`,
`TicketsService` and the Culqi provider (HTTP), which calls back by webhook;
`OrdersService` reads and clears the cart; invitations call participants,
tickets, sponsors and users; the creation of an event creates ticket types; the
registration of a user creates a company. All share MongoDB collections and the
bucket, and nothing else.

## 2. Modules

| Module | Models |
|---|---|
| `Store` | the collections the checkout writes, the provider's side of the money, the local state of requests in flight, and the ticket loop every payment runs |
| `OrderPayment` | `processPayment`, confirm, cancel and expire of `OrdersService`, `refundPayment`, the refund webhook; their properties and the inductive invariant |
| `TicketLedger` | abstract specification: a payment captures money once and issues at most the order's tickets after it |
| `Cart` | `CartService`, and `createOrderFromCart` of `OrdersService` |
| `Checkout` | composes `OrderPayment` and `Cart` with `processInstantPayment` and the refund's loop over the orders |
| `Sponsorship` | a sponsor's quota, requests for more of it, participants, invitations |
| `Handlers` | a request as a sequence of awaited calls: how it starts, goes on, ends, fails; what it means that requests do not overlap |
| `Faults` | three faults that stop handlers altogether, present or repaired |
| `EventLife`, `TicketTypes`, `EventReads` | events, their ticket types, what is read of them |
| `Storage`, `Documents`, `Certificates` | the bucket; the sponsors' documents; certificate templates |
| `Roster`, `Entry`, `Stands` | speakers as participants; the tickets and the scans at the door; the visits to a stand |
| `Office` | composes the modules from `EventLife` to `Stands`, by scopes |
| `Companies`, `Accounts`, `SpeakerRecords`, `PaymentMethods` | the records of who uses the platform |
| `Directory` | composes these four, by scopes |
| `OrderPaymentProofs`, `CheckoutProofs`, `SponsorshipProofs`, `OfficeProofs`, `DirectoryProofs` | theorems |
| `Sums` | lemmas of `CheckoutProofs`: what a sum over a finite set is |
| `HandlerProofs` | lemmas about requests whatever they ask for, and about requests that did not overlap |
| `ScopeProofs` | theorems about the door; lemmas of `OfficeProofs`: which steps each scope has; the invariants of the stand, the documents, the speakers, the ticket types and the templates |
| `MCOrderPayment`, `MCCheckout`, `MCSponsorship`, `MCOffice`, `MCDirectory` | instances for TLC |

An action is the stretch of a handler from one awaited call to the next; its
guard is `pc[r]`, the call request `r` is about to make. A request's frame holds
what the code keeps in local variables and in documents it has read. A request
is made at most once, which bounds every counter.

### How `OrderPayment` corresponds to the code

| Code | Actions |
|---|---|
| `processPayment`: read and check the order | `PayRead` |
| `generateTransactionId`, first `save()` | `ReadTxnNumber`, `InsertTxn`, `TxnClash` |
| `CulqiProvider.processPayment` | `Charge` (approved; declined; taken, but the answer lost, which the provider class reports as a failure) |
| second `save()` | `SettleApproved`, `SettleDeclined`, `SettleFails` |
| `updateOrderStatus(PAID)` | `MarkPaid` |
| `generateTicketsForOrder` | `IssueTickets`: `ReadTicketNumber`, `SaveTicket`, `TicketClash` |
| catch block | `RecordFailure`, or `CallFails` into "unrecorded" when its own save is rejected |
| `expireOrder`, `confirmOrder`, `cancelOrder` | `ExpireRead`/`ExpireSave`, `ConfirmRead`/`ConfirmSave`, `CancelRead`/`CancelSave` |
| `refundPayment` | `RefundRead`, `RefundCall`, `RefundSave` |
| `handleSuccessfulRefund` | `HookRead`, `HookSave` |
| `handleSuccessfulPayment`, `handleFailedPayment` | `ChargeWebhookFinds`, proved never to hold, so these two handlers never write |
| a MongoDB call that rejects | `CallFails`, `SettleFails` |
| the process dies | `Crash` |
| a refund made at the provider; time | `ProviderRefund`, `TimePasses` |

Two facts of Mongoose that the code depends on are modelled as they are:

* A field that the schema does not declare is dropped. `processPayment` sets
  `orderId`, the schema has `orderIds`: the transaction is stored without its
  order, so `txnOrders` stays empty for it and the loops over `orderIds` in the
  refund and webhook handlers do nothing for these transactions.
* `populate('orderId')` names a path the schema does not declare. With the
  default `strictPopulate` it is an error, so `refundPayment` always fails:
  constant `StrictPopulate`. The refund path is explored with the option off
  (`pay_live`, `check_refund`), and the default is the subject of
  `refund_refused`.

Abstractions: an order is its number of units (its items never change after its
creation); a ticket number is its sequence number of the day; amounts are a full
charge (2 parts) or a part of it; the e-mail, sent in a `try` of its own, is
left out; the second `save()` of a ticket stores its QR code only and a failure
of it is caught in the loop, so it is left out too. The save in the catch block
of `processPayment` may be rejected like any other: the caller gets an error,
the process lives on, and the transaction keeps the status it had. Such a
request ends "unrecorded", so that the properties can name it. The webhook is
public and its events are not validated: `HookRead` takes any charge that has a
provider id, refunded or not; an event without an id is not modelled.
Numbers wrap at midnight (the local day's window and the UTC date in the number
disagree for some hours): not modelled, one day is.

### How `Cart` and `Checkout` correspond to the code

| Code | Actions |
|---|---|
| `addToCart` | `AddRead`, then `InsertRow` or `SaveRow` |
| `updateCartItem` | `UpdateRead`, then `SaveRow` or `DeleteRow` |
| `removeFromCart` | `DeleteRow` |
| `createOrderFromCart`: read the cart | `BeginCheckout`; `OrderCart` inside an instant payment |
| `createSingleOrder`, per event of the cart | `ReadOrderNumber`, `SaveOrder`, `OrderClash` |
| `clearCart` | `ClearCart` |
| `processInstantPayment`: transaction number, cart, charge | `BeginInstant`, `Quote`, `InstantCharge` |
| its transaction | `SaveInstantTxn`, `InstantTxnClash` |
| per order, PAID and tickets | `PayNextOrder`, `InstantTickets` |
| `refundPayment`, per order of the transaction | `RefundOrder`, `CancelTickets` |
| a MongoDB call that rejects | `CheckoutCallFails` |

Abstractions: the cart is one user's; each ticket type belongs to an event of
its own, so an order per event is an order per type; `Stock` is a constant,
because no sale raises the `sold` that `TicketType.available` is computed from;
`reserveCartItems`, `releaseReservations` and `cleanupExpiredOrders` have no
caller. Checks
that only answer with an error (the event is not published, the payment method
is not found) are choices. `addToCart`'s two reads, of the ticket type and of
the row, are one: the ticket type does not change. The instant payment's answer
still says the orders are pending, since the DTOs are made before PAID is
written; and its transaction's `userId` is not the user's, since the DTO it is
taken from has a fresh id: answers and `userId` are not in the model.

### How `Sponsorship` corresponds to the code

| Code | Actions |
|---|---|
| `addSponsorToEvent` | `AddSponsor`, `AddRead`, then `InsertSponsor` (new) or `SaveSponsor` (reactivated) |
| `updateSponsorQuotas`, `removeSponsor` | `UpdateQuotas`, `RemoveSponsor`, then `SaveSponsor` |
| `incrementQuotaUsage`, `decrementQuotaUsage` | `ReadUsed`, `SaveSponsor` |
| `createQuotaRequest` | `Ask`, `InsertAsk` |
| `reviewQuotaRequest` | `Review`, `Grant`, `SaveSponsor`, `SaveAsk` |
| `registerParticipant` | `Register` or `CheckRegistered`, `CheckQuota`, `SaveMember`, then the increment |
| `assignOperationalStaff` | `AssignStaff`, `SaveMember` |
| `cancelParticipation`, `removeOperationalStaff` | `Cancel`, `SaveCancel`, then the decrement |
| `createInvitation`, `createBulkInvitations` | `Invite`, `InsertInvitation` |
| `updateInvitation`, `deactivateInvitation` | `EditInvitation`, `SaveEdit` |
| `acceptInvitationWithAuth`, `...ForUser`, `...WithSignup` | `Accept`, `AcceptQuota`, `SignUp`, the registration, `ReadTicketNumber`, `SaveTicket`, `AttachTicket`, `SaveUse` |
| a MongoDB call that rejects | `CallFails` |

`save()` is `Saved(stored, draft)`: Mongoose writes the fields whose value was
changed since the document was read, and no other. A counter that was raised in
memory overwrites the stored one; a list that was pushed to (`uses`) is appended
to, whatever it holds. The pre-save hook of the sponsor is `HookAccepts`.

Abstractions: one sponsor and one of the three quotas (they are independent
fields with the same code); codes are identities; expiry is a choice at the
moment it is tested; a limit of 0 stands for no limit (`maxUses` null or 0, both
of which the code takes for none); the invitations of a bulk are alike and one of them is
followed; the ticket type of an invitation is left out. The unique index on
users' e-mail addresses uses `$ne` in its partial filter, which MongoDB refuses,
so an account is refused by the lookup only: here, by a choice.

`before[r]`, the requests that had ended when `r` arrived, is an observer that
no action reads. With it the properties about order (`RegisteredOnce`,
`AcceptedOnce`, `ReviewedOnce`, `Serial`) are invariants.

### How the modules over `Handlers` correspond to the code

`local[r]` is what request `r` was asked (`op`) and what it has read (`old`,
`new`); `pc[r]` is the call it is about to make. `Start(r, label, l)` is the
arrival with the first read and the checks that follow it; `Continue` and `Goto`
are the return of an awaited call; `Ends(r)` is the last call, whose answer may
be lost ("failed" although the write was made), and `Fails(r)` is the rejection
of a call before it did anything. `Forget` drops at the end what no property
reads. `XArrive(r)` is the controller of component X, one disjunct per route;
`XStep(r)` are the later calls of its handlers.

| Code | Actions |
|---|---|
| `EventsService.create` | `CreateEvent`; a given slug: `LookUpSlug`; a generated one, turn by turn: `GenerateSlug`; `InsertEvent`; `createDefaultSystemTickets`: `InsertSystemTypes` |
| `update` | `UpdateEvent`, `CheckSlug`, `SetEvent` |
| `changeEventStatus`, `cancel`, `softDelete` | `ChangeStatus`, `CancelEvent`, `DeleteEvent` (one atomic update: `MoveTo`, `WithStatus`) |
| `submitForReview`, `publish` | `Submit`, `SaveSubmitted` (the validation hook); `Publish`, `SetPublished` |
| `findAll` | `ListEvents`, then `ReadPage` and `CountMatching` in either order |
| `findOne`, `findBySlug`, `getFeaturedEvent` | `FindEvent`, `FindBySlug`, `FeaturedMarked`, `FeaturedUpcoming`, `FeaturedOngoing` |
| `getEventStats`, `getCompanyEventStats` | `EventStats`, `SumTypes`; `CompanyStats`, `CountCompany` |
| `EventTicketTypesService` | `CreateType`, `InsertType`; `UpdateType`, `SetType`; `DeleteType`, `RemoveType`; a sale: `IssueTicket`; `findBestTicketTypeForInvitation`: `ChooseType` |
| `EventCertificatesService` | `CreateTemplate` or `UpdateTemplate`, `CountTypes`, `CheckConflict`, `DeleteOldFile`, `UploadTemplate`, `SaveTemplate`; `RemoveTemplate`; `Preview`, `Download`, `DrawCertificate` |
| `EventDocumentsService` | `CreateRequirement`, `UpdateRequirement`, `DeleteRequirement`; `SubmitDocument`, `ResolveSponsor`, `UploadDocument`, `InsertSubmission`; `ReviewDocument`, `SaveReview`; `SummaryRead` |
| `syncSpeakersAsParticipants` | `BeginSync`, `RemoveSpeakers`, then per speaker of the list `LookUpSpeaker`, `SaveSpeaker` |
| `TicketsService` | `UpdateAttendee` or `Transfer`, `SaveTicketChange`; `CancelOrderTickets` |
| `QRService` | `GenerateQR`; `validateQRCode`: `ScanArrives`, `ScanUsed`, `ScanLog`, `ScanFails`; `EntryStats`, `StatsLast`; `EntryHistory` |
| `SponsorStandsService` | `StandLink`; `VisitByUser`; `VisitByStaff`, `FindVisit`; `SaveVisit` |
| `CompaniesService` | `CreateCompany`, `LookUpCompany`, `InsertCompany`; `UpdateCompany`, `CheckCompany`, `SetCompany`; `ChangeCompanyStatus`; `UpdateLogo`, `UploadLogo`, `SetLogo`, `DeleteLogoFile`, `AnswerLogo`; `DeleteLogo`, `UnsetLogo` |
| `UsersService`, `AuthService` | `CreateUser`, `LookUpEmail`, `InsertUser`; `UpdateUser`, `CheckUser`, `SetUser`; `ChangeUserStatus`; `Register` (company, user, verification, login); `Login`, `NoteLogin`; `Refresh`; `ChangePassword`; `ForgotPassword`, `SetToken`; `ResetPassword`, `ReadReset`, `SetPassword`, `UnsetToken`; `VerifyEmail`, `SetVerified` |
| `SpeakersService` | `CreateSpeakerWithUser`, `InsertSpeaker`; `UpdateSpeaker`, `UpdateSpeakerUser`; `ChangeSpeakerStatus`; `UpdatePhoto`, `UploadPhoto`, `SetPhoto`, `DeletePhotoFile`, `AnswerPhoto`; `DeletePhoto`, `UnsetPhoto` |
| `PaymentMethodsService` | `CreateMethod`; `UpdateMethod`, `ToggleMethod`, `DeleteMethod`, then `SaveMethod`; `ListMethods` |

Scopes. `Office` and `Directory` hold state that no two of their parts share
(events and ticket types apart). A behaviour therefore has one `scope`, chosen
at the start, and only the requests of that scope arrive; interleaving
requests about unrelated collections would multiply the states and show nothing.

Faults. Three faults of the code end a handler before it does its work:

* a scan calls `ticket.toJSON()` on the result of `lean()`
  (`src/qr/qr.service.ts:130`), so every genuine code is answered as an invalid
  ticket, and a history with an entry in it fails the same way;
* controllers and the guard of the door read `req.user.userId`
  (`src/qr/qr.controller.ts`), where `JwtStrategy.validate` returns `id`
  (`src/auth/strategies/jwt.strategy.ts:30`), so the log entry, which requires
  its validator, would be refused, and the staff is never recognised;
* a certificate template requires `createdBy`, which `create` does not set
  (`src/event-certificates/event-certificates.service.ts:92`).

With them the door and the certificates do nothing worth checking, so
`repaired`, constant through a behaviour, says whether they are there. Every
property holds with and without. As committed nobody is let in, nothing is
logged and no template is stored; that follows from the guards and is not
stated as a property.

Abstractions. Titles of events are equal, so a slug is the number appended to
it. Dates are three days and today is the first. A signature is genuine or
forged. Passwords, tokens and files are named by the request that makes them.
Prices and stock do not change what the handlers of `TicketTypes` do, and are
left out; so are the featured flag of an event (which of the events shown on the
home page it finds is a choice; `showOnHomepage` itself is modelled), the text
search, and the layout of answers. When one call of a
`Promise.all` is rejected (`Roster`), the request ends and the calls not yet
made are not made; in the code they may still be carried out.

Bodies. `PATCH /users/:id` and `PATCH /companies/:id` write whatever fields are
given, and any signed-in user may update any other. A body is therefore a
function on the fields it gives: the e-mail and the logo of a company
(`CompanyBodies`); the e-mail, companies, avatar, reset token, its expiry and
verification token of a user (`UserBodies`). `With(doc, body)` is the `$set`. A
picture may be given by its URL, that of a deleted file included (`Named`); so
the properties about pictures and tokens speak of updates too. An e-mail cannot
be given as null: the transformations of the DTOs and the validators refuse it
or drop the field. The other fields of a user or a company are plain data. The
body of a request refused as it arrives is not kept.

## 3. Runs

| Run | Instance | Shows |
|---|---|---|
| `pay_race` | 2 payments and a confirmation, 1 order of two tickets | types; `PaidMeansCaptured`, `ChargesAreRecorded`, `OkMeansDelivered`, `CompletedIsDelivered`, `ChargeWebhookFindsNothing`, `PaidOrderIsNotChargedAgain`; the handlers refine `TicketLedger`; under every interleaving, crash and rejected call |
| `pay_live` | payment, cancellation, refund, webhook, `strictPopulate` off, fair | transactions settle, approved charges are resolved; a closed order is not charged to a later request |
| `check_instant` | 2 instant payments, 2 ticket types, 4 orders | types; `InstantIsDelivered` |
| `check_mixed` | instant payment, checkout, payment, confirmation, 2 orders | `PaidOrderWasCharged`; the whole refines `TicketLedger` |
| `check_refund` | instant payment, 2 refunds, webhook, `strictPopulate` off | `RefundedOrderWasRefunded`, `RefundIsTraced` |
| `check_cart` | instant payment, checkout, addition, update, removal | `ChargeCoversOrders` |
| `sponsors` | 3 requests, each of any kind | types; `AcceptedIsComplete`, `UsesAreListed`, `UsedIsBacked`, `HappensOnce` (registered, accepted, reviewed once), and exactness when requests do not overlap |
| `office` | 2 or 3 requests of one scope, 3 events, 2 ticket types, 1 template, 1 requirement, 2 speakers, 2 tickets, 3 visitors | types; `StatusIsTraced`, `SlugsResolve`, `EventsHaveTypes`, `FilesExist`, `LastRequestStands`, `AdmittedOnceAndLogged`, `CancelledStays`, `VisitsAreCounted` |
| `directory` | 2 or 3 requests of one scope, 1 company, 1 user who is a speaker, 2 e-mails, 1 payment method | types; `SerialDirectoryIsExact`, `ResetUsesLatestToken`, `PicturesExist` |
| `paid_twice` | 2 payments, cancellation | violated: an order is charged although it is no longer pending |
| `refund_refused` | payment, refund | violated: a refund is refused at a moment when the payment is completed and covers it |
| `sold_type_deleted` | a sale and a deletion | violated: a ticket type is deleted under its issued tickets |

What the properties of `office` and `directory` say of overlapping requests:

* `StatusIsTraced`: a publication rests on an approval that nothing had taken
  back when it was asked for, and a visitor is shown an event only after
  somebody made it public and before that was answered to be undone.
* `SlugsResolve`: no company has two events of one slug, and a generated slug
  belongs to no event whose creation had ended before.
* `EventsHaveTypes`: an event whose creation was answered has its system types,
  and invitations made later find them.
* `FilesExist`, `PicturesExist`: a stored document without its file comes only
  of the update that deletes the old file first, while it runs or after one of
  its calls failed; a picture also of a request that gave its URL.
* `LastRequestStands`, `SerialDirectoryIsExact`: when requests do not overlap,
  what the last of them asked for stands. When they overlap this does not hold,
  and section 4 says how it fails. The same is true of `SerialQuotaIsExact` and
  `SerialUsesAreExact` of `sponsors`: they say what the overlaps cost, and do
  not detect them. What `SerialDirectoryIsExact` says of registrations and of
  deleted methods holds however requests overlap.
* `AdmittedOnceAndLogged`: a ticket let in before another scan of it arrives is
  not let in by that scan; who is let in is in the log; the statistics count
  them.
* `VisitsAreCounted`: a visitor's count lies between "at least one" and the
  number of scans, and is exact without overlap.
* `ResetUsesLatestToken`: a password is reset with the token its user was given
  last, by a demand or by an update, among the requests that had ended when the
  reset arrived; a token that one of them had replaced resets nothing.

Two properties of payments are worded around what the code leaves open.
`CompletedIsDelivered`: a COMPLETED transaction whose request is over has all
its tickets, unless the process died or the catch block's save was rejected
(`TransactionsSettle` and `ApprovalIsResolved` except the same two).
`RefundIsTraced`: a transaction recorded as refunded was charged, and the
provider gave money back or an event said so.

Bounds. Two payments are enough for every clash of numbers and every stale check
(one reads before, one after); a third request of another kind gives the
overwrites. An order of two tickets lets a number be lost between two tickets of
one order. The cart has two rows of different types at the start and one that
can be added. `sponsors` has three requests because one can change what a second
one settled before a third arrives (an invitation closed by its use, opened by
an edit, offered again); limits and amounts go up to `MaxQuota` = 1 beside a
quota of 3, one of it in use. What more requests could do to payments, to the
sponsors and in `office` is covered by the proofs, which have no bound.

In `office` and `directory`, `ArrivalBound` says how many requests of a scope
arrive: three, so that a third meets what two overlapping ones left; two where
handlers are long and their inputs many (events, the repaired catalogue,
speakers), since a stale read needs a reader and a writer and the events of the
start stand for what earlier requests did (users and registration too, whose
inputs are bodies); and fewer where the faults end the
handlers at once. The events of the start are a draft, an approved and a
published one, of two companies and with two slugs. `GivenStatuses` are three
of eight: one that undoes a publication, one that allows it, one that needs a
reason; the others are reached through `submit`, `publish`, `cancel` and the
deletion. `GivenSlugs` are a taken and a free one per company, and `Viewers` a
visitor and one administrator of a company.

The bodies of `directory` give one field each, but for a token and its expiry,
which are given together; the picture given is one of the start, the companies
given are none, and the token is that of any request.

`ChargeCoversOrders` excuses the instant payments during whose charge a row was
added, changed or removed: what is added between the two reads of the cart is
ordered and not charged, and nothing in the code prevents it. `edited`, which no
handler reads, records these payments. The run shows that no other overlap
tells the charge and the orders apart: neither a checkout that empties the cart,
nor an addition before or after, nor a save of a row that is gone.

Fairness (`PayFairSpec`): weak fairness of each request's next
call. The event loop resumes every settled promise, and the driver and the HTTP
client settle every call, with a result or an error. Nobody has to make a
request; crashes, provider-side refunds and the passing of time are not fair, and
the liveness properties of `pay_live` accept a crash as an end, and a rejected
save of the catch block.

## 4. What the models reach and no run is about

These are behaviours of the code that the properties above are worded around.
Where a document or a comment promises otherwise, it is quoted.

Payment and cart:

* a cancellation and a confirmation overwrite each other, so a CONFIRMED order
  may end CANCELLED, and the reverse; `processPayment` may answer with an error
  after the money was taken;
* an addition and an update of one row can leave more in it than there is in
  stock (`src/orders/cart.service.ts:50` checks the sum, `:118` the new quantity);
* two checkouts of one cart order the same rows twice
  (`src/orders/orders.service.ts:27` reads, and clears at the end);
* an instant payment that answers with an error may have made orders, and one
  that fails after the charge leaves no transaction;
* a row added to the cart during the charge of an instant payment is ordered and
  not charged;
* a refund event posted to the webhook marks a settled transaction REFUNDED,
  whether money was given back or not;
* when the catch block's save is rejected as well, the transaction of a payment
  answered with an error stays COMPLETED, or PROCESSING, which nothing settles.

Sponsors: two registrations take the last seat, or register one person twice; a
counter misses a use, or a cancellation; two acceptances of a single
invitation; two reviews of one request, both granting; a participant left
without ticket by a clash of numbers, whose retry is refused as registered;
`validateInvitationByCode` answers that a code is valid although the sponsor is
no longer active, or its quota below zero.

Events and ticket types: two updates, one of the start and one of the end, are
each checked against the other date as it was, and leave an event that ends
before it starts; the slug of a deleted event is found free and refused by the
index (an error 500); events of two companies may have one slug, and
`findBySlug` shows either; an update may set any status, approval or not
(`StatusIsTraced` leaves such events out of its second half); statistics are
refused for drafts, since `findOne` looks for public ones; the comparison with
the caller's company in `findOne` never runs, as the token has no company id.

Door and stand: two scans that overlap both let the ticket in; a ticket
cancelled after it was issued is let in, since no check looks at its status
(`GenerateQR` does); the log holds allowed entries only, so `failedAttempts` is
always zero; the stand's `isAuthorized` is computed and not enforced; two
visits that overlap make two documents, or count once.

Certificates, documents, speakers: two templates found not to conflict are both
saved with one ticket type; an update that moves a template to another event is
checked against the old one; an upload whose document is then refused stays in
the bucket; two overlapping lists of speakers leave their union, or a speaker
twice.

Users: an e-mail address is unique by a lookup only, so two registrations that
overlap both store it (the partial index uses `$ne`, which MongoDB refuses); a
used reset token is unset with `undefined`, which Mongoose drops, so it works
again until it expires; any user may give any other a reset token, the URL of a
picture whose file was deleted, or other companies; a speaker's avatar is cleared with `undefined` as well
and stays; a registration with a company whose user is refused leaves the
company, and its e-mail address taken.

## 5. Proofs

`OrderPaymentProofs` proves, for any sets of orders and requests and any units
per order, `Invariance` (the inductive invariant `PayInv`) and from it every
safety property of the passing runs of `OrderPayment`, the two properties about
later requests, and the refinement of `TicketLedger`. Assumptions:
`KindAssumption`, `UnitsAssumption`, `NoOrderAssumption`, `StrictAssumption`
(types of the constants).

`PaidMeansCaptured` and the others are not inductive by themselves. The
strengthening says what is known at each stage of a request:

* `FrameInv`: a request past its first step has an order, and the order exists;
* `StageInv`: transaction and charge stand where the stage says (`processing`
  during the charge, captured from the approval on, settled after it);
* `RefundInv`: a refund or a webhook works on a transaction whose provider id is
  stored. It is why no refund can touch a payment that is still unsettled. A
  transaction that says REFUNDED was refunded or announced by an event;
* `TicketInv`: tickets stored plus tickets left are the order's units;
* `ConfirmInv`: behind a confirmation there is a PAID that was read, so a
  payment taken. Money taken stays taken, which makes the stale read harmless;
* `ClosedInv`: an order whose tickets are being issued is not pending;
* `ErrorInv`: a request answered with an error, or declined, has no COMPLETED
  transaction, since the catch block took the status back.
  `CompletedIsDelivered` (`CompletedIsServed`) follows from it and from what an
  answer "ok" means.

For the two "later requests" theorems, `Uncharged(o, r)` is kept by every step:
no handler writes PENDING_PAYMENT, and a request only goes to the charge from
an order it read as pending.

`CheckoutProofs` proves, for any sets of orders, requests, cart rows and ticket
types, and any quantities, `CheckInvariance` and from it the safety properties
of the runs of `Checkout`, and the refinement of `TicketLedger` by carts,
checkouts, instant payments, refunds and the handlers of `OrderPayment` running
together. To the assumptions above it adds `RowsAssumption` (rows and types are
finitely many: they are summed up), `TypeOfAssumption`, `PlacedRowsAssumption`
and `StockAssumption`. `FrameInv`, `StageInv`, `RefundInv` and `TicketInv` are
kept by the new handlers as they are; the lemmas on the old handlers are used
again, with the larger set of labels as a parameter. The parts that are added:

* `KindInv`: which endpoint a label belongs to; `OthersInv`: only payments are
  charged and own tickets; `OrderInv`: orders that are referred to exist;
* `InstantInv`: how far an instant payment is. From the charge on it is captured;
  its orders exist before its transaction names them; a visited order has all
  its tickets, the one being visited has its units less `left`;
* `VisitInv`: the orders a refund still visits are those of a transaction that
  was refunded. The visit may come long after, which is why the refund has to be
  remembered (`RefundedOrderWasRefunded` speaks of now);
* `PaidForInv`: what is about to be confirmed was read as PAID, so it is paid
  for. `PaidFor` speaks of the order a payment works on or of one an instant
  payment made, and stays (`PaidForKept`).

`PaidMeansCaptured` of `OrderPayment` does not hold here: an instant payment that
has gone on to its next order has paid for the earlier one too.

`ChargeIsCovered` proves `ChargeCoversOrders` with any number of instant
payments, checkouts, additions, updates and removals of the same cart, and any
payments, cancellations and refunds. `DueInv` is its strengthening, and says of
the payments not in `edited`: between the quote and the reading for the orders
the cart is what was quoted or has been emptied by somebody (nothing is ordered
then); while orders are made, what is due is the sum of the orders made and of
the lines still to be ordered. It is proved beside `CheckInv`.

The sums are `MapThenSumSet` of the community modules, a fold over a recursive
function. `Sums` proves what is needed of it (`SumRemove`: any term may be taken
out first; one term more, one term changed, equal terms, zero terms) for every
finite set. The library's induction theorems take an operator and cannot be used;
`NatSetInduction` and `SubsetInduction` say the same of sets, from the
well-foundedness of Nat.

The first part of `ScopeProofs` is about the behaviours of `Office` whose scope
is the door, with any number of requests, tickets and users, as committed and
repaired. It proves `DoorInvariance` and from it `AdmittedOnceAndLogged` and `CancelledStays`.
Assumptions: `RequestsAssumption` (requests are finitely many: the statistics
count them) and `TicketsAssumption`. `AdmittedOnceAndLogged` is not inductive:
a scan that is about to be logged has passed the check for an earlier entry,
and the ticket may have been let in since. `FreshInv` says what remains true:
it was let in by nobody who had ended before this scan arrived. That holds
because whoever had ended and was let in had stored its entry by then
(`AllowedIsLogged`), where the check found none. `ScanInv`, `ArrivalInv`,
`StatsInv` and `ChangeInv` say what a request at each label knows. The proof
first reduces a step to the move of one request (`DoorStep`, `ArrivalsMove`,
`StepsMove`), then shows each part kept by such a move.

`SponsorshipProofs` proves `SponsorInvariance` and from it `SponsorTypeOK`,
`AcceptedIsComplete`, `UsesAreListed`, `UsedIsBacked` and `HappensOnce`, with
every interleaving and rejected call, for any sets of requests, documents and
accounts, and any quota. Assumptions: `NamesAssumption` (names are apart),
`FinitenessAssumption` (the documents are finitely many: uses and registrations
are counted), `QuotaAssumption`, and `PlacedAssumption`: invitations that are
there at the start are unused, and to a type with a quota or as staff. The
exactness of the quota also needs `WithinQuotaAssumption`: the participants of
the start are within the quotas of the start.
A step is reduced to the move of one request (`NextMoves`: it arrives, goes on
along `Edges`, or is refused), and that to what the move does to each collection
(`MembersDoMove`, `AsksDoMove`, `InvitationsDoMove`, `UsedDoesMove`); each part
of the invariant is then kept by moves alone. The parts:

* `ArrivalInv`: who came before a request is over and stays so, so the three
  "once" properties follow from what a request found when it arrived:
  `SeatInv` (nobody who was over holds the place it is about to take), `AskInv`
  (what it reviews was not settled) and the last part of `InvitationInv` (what
  it accepts is not a single invitation that was used up);
* `LocalInv`, `SeatsOffered`: what a request at each label is about;
* `MemberInv`, `TicketStored`: which of participant, ticket and reference an
  acceptance has stored at each label;
* `InvitationInv`, `ListInv`: the uses a request read are at most the list. The
  list only grows, so the use it writes is covered even when another acceptance
  was saved in between, and an update lost makes the counter smaller, never
  larger;
* `UsedInv`: the counter, and every copy of it read, is at most the
  registrations less those whose request has not counted them yet
  (`Uncounted`). `UsedIsBacked` alone is not inductive: the registration whose
  seat is about to be added would be taken to back a seat counted before.

From it and `SerialInv`, `SponsorshipProofs` also proves `SerialQuotaIsExact` and
`SerialUsesAreExact`. `SerialInv` says what is so as long as requests have not
overlapped (`SerialSoFar`): `QuotaExact`, the counter is the participants in use
but for what the one request in flight has stored and not counted (`QuotaOf`);
`UsesExact`, the uses and the quota that this request read are those stored.

`OfficeProofs` proves `OfficeInvariance` and from it every safety property the
run `office` checks, for any number of requests, events, types, templates,
requirements, sponsors, speakers, tickets and visitors, as committed and
repaired. Assumptions, all about what is there before a behaviour and how the
sets of names lie: `RequestsAssumption`, `EventsAssumption` (the events are
finitely many: they are counted), `PlacedAssumption` (the events of the start
have a company, their dates in order, a slug of their own in their company, and
a reason where their status needs one), `TypesAssumption`,
`TemplatesAssumption` (templates of one event share no type),
`RequirementsAssumption`, `SpeakersAssumption`, `FilesAssumption`,
`TicketsAssumption`.

`OfficeInv` has three parts: whose requests run (`OfficeHere`), that a scope
leaves what is not its own as it was at the start (`Untouched`), and the
invariant of the scope (`ScopeInv`). `NextIsScoped` reduces a step to one of the
scope's, since a label belongs to one module; then each scope has an invariant
of its own. The pattern is the same everywhere: an `...Effect(r)` says in a few
disjuncts what any step of a request does to the collections; a lemma shows that
every action is one; each part of the invariant is kept by the effects alone.
What nobody asks for is covered by the `Quiet...` lemmas. The invariants:

* `EventsInv`. `StatusIsTraced` speaks of requests that ended, and is not
  inductive: between the read of a status and the write others may write.
  `StatusesTraced(S)` says it of the state: an event with a status of S got it
  from a request that asked for it, or from the start, and nothing that ended
  since has undone it; `TracedFor` is the same for a request that has read it.
  For the slugs, `SlugsFresh` says that a creation about to be inserted, or
  ended, has a generated slug no event stored before it arrived has, as long as
  nobody moved or freed that one (`SettledIsLive`: a slug that was not freed is
  still found by the lookup).
* `TypeInv`: the system types of an answered creation are there or were deleted,
  and an invitation that came later has chosen one (`CreatedHave`, `ChosenIs`).
* `CatalogInv`: a template whose file is gone belongs to an update that deleted
  it and has not ended well (`TemplatesBacked`). `Owns` gives a file one owner,
  so a deletion takes nobody else's.
* `DocumentInv`, `RosterInv`, `StandInv`: a document, a participant, a visit is
  backed by the requests that made it. A visit's count is at most the scans that
  ended on it, and the sum over a visitor's visits at most all scans, because
  no scan ends on two (`VisitsSum`, with `SumOfParts` of `Sums`).
* `DoorBlocked`: while the faults are there, no scan gets past the ticket.

"Requests that do not overlap" is `Serial`, which looks at the whole behaviour;
the proofs carry `SerialSoFar`, which holds of a prefix: whoever moves while it
holds is alone, and everybody else had ended before (`MovesAlone`). Under it
each scope says that what the one request in flight has read is still stored.

`DirectoryProofs` proves `DirectoryInvariance` and from it the four properties of
the run `directory`, for any number of requests, companies, users, speakers,
e-mails and payment methods. Assumptions: `RequestsAssumption`,
`FilesAssumption`, `CompaniesAssumption`, `AccountsAssumption`,
`SpeakersAssumption`, `MethodsAssumption`, on the names of what is there at the
start (apart from those requests make) and on the fields that bodies may give,
and for `SerialDirectory` only
`EmailsAssumption` (the companies, and the users, of the start have e-mails of
their own). A step is one request's, the expiry of a token, or nothing
(`NextRuns`); a request's step arrives, goes on along `Edge`, or is refused
(`RunsMove`), and what it does to each collection is one of a few disjuncts
(`AccountsDo`, `CompaniesDo`, `MethodsDo`, `FilesDo`). The parts of `DirInv`:

* `InsertedInv`, `RegisterInv`: which of company, user and link a registration
  has stored at each label; the link stays unless an update gives the user other
  companies (`Relinked`);
* `TokenInv`: `ResetUsesLatestToken` speaks of requests that ended, and follows
  from what a reset knew when it arrived. The token stored for a user is one
  given by a demand or an update that no ended one came after (`LatestIn`); a
  reset whose token matches takes over what was known of it then, and what is
  given later does not change that;
* `LogoInv`: a file nobody named is the logo of one company (`LogosOwned`), so a
  deletion takes nobody else's. A file that a body named is excused from then on
  (`Named` stays true). `LogoFilesExist` is not inductive: between the deletion of a
  file and the `$unset` the company still names it. `LogosBacked` adds that
  request to the excuses;
* `PhotoInv`: an update deletes a photo only once it is no longer the avatar, but
  for one that was named;
* `MethodInv`: a deleted method stays so, and what is about to be saved is stored.

`DirSerialInv` says what is so while no requests have overlapped: nobody else
holds the e-mail about to be stored (`CompaniesExact`, `EmailsExact`), the
password stored is that of the last who gave one (`PasswordsExact`), what is
about to be saved is what is stored, and the flag of a method is the parity of
its switches (`MethodsExact`).

Only model-checked: the liveness properties of `pay_live`, whose
fairness needs `ENABLED`. Every invariant and action property of a passing run is
stated by a theorem.

## 6. Not modelled

* The lists of users, companies, participants, invitations, orders, tickets and
  transactions: queries that keep nothing, and whose answers no later call uses.
* The endpoints that only upload a file or return a link; size and type limits.
* E-mail: sent in `try` blocks of their own, and nothing reads whether it was.
* Start-up, configuration, seeds, `main.ts`.
* Guards other than the door's, pipes and DTO validation: they decide who may
  call and with what; inputs are enumerated as valid ones.
* `cleanupExpiredOrders`, `reserveCartItems`, `releaseReservations`: no caller.
* Ticket numbers at midnight (see `OrderPayment` above).

## 7. Plan

1. An abstract specification of the quota (a seat is taken and given back) that
   `Sponsorship` implements when requests do not overlap.
2. The composition of the checkout with the door: the tickets of `Entry` are
   those `Checkout` issues and its refunds cancel.
