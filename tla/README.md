# SkillStream API: TLA+ models and proofs

SkillStream is a course platform: a NestJS API over Postgres (`apps/api`), a
Next.js front end (`apps/web`) and shared contracts and pure functions
(`packages/shared`).  What can go wrong in it goes wrong between two awaits:
request handlers, webhook handlers and sweeps read a row, wait for a payment
provider, for Cloudflare or for the next query, and write what follows from the
row they read.  This directory models those handlers and checks what they promise.

## Inventory

Paths below `src/apps/api/src/modules/` unless they start with `src/`.

| Component | State it keeps | Operations | What makes it correct | Module |
|---|---|---|---|---|
| commerce (`checkout`, `orders`) | Order, OrderItem, CouponRedemption | createSession, resumeSession, cancelPending, fulfill | access only for a completed payment; one order per key; a captured payment ends in access | `Checkout`, `Orders` |
| payment (`payments.service`, three gateways) | WebhookEvent, providerRef; the provider's session | startPayment, reconcilePendingPayment, settlePendingOrder, processWebhook | an abandoned order can no longer be charged; an event is not lost | `Checkout` |
| coupons, pricing | Coupon.used | evaluate, quote | a quote is never negative | `Orders` |
| credits | StudentCreditLedger | spendAtCheckout, grantRefund | the balance never goes below zero | `Orders`, `Refunds` |
| delivery-partner | Referral, partner earnings, campaign usage; assignments, invitations, seats | createPendingReferral, confirmReferral; invite, claim, remove, restore | a partner keeps what it earned; whoever is let in has a seat | `Orders`, `Checkout`, `Seats` |
| admin refunds | refunded amounts of orders and items, reversals | refundOrder | the order's total is the sum of its items'; nothing refunded twice | `Refunds` |
| payouts | Payout, partner counters, referral PAID | request, approve, markPaid, reject | money is sent once; the counters never fall behind the payouts | `Payouts` |
| auth tokens | RefreshToken, PasswordResetToken | login, rotate, logout, reset, prune | a link is used once; an ended session stays ended | `Sessions` |
| organizations | Organization.usedSeats, members, invitations | invite, claim, decline, revoke, remove, restore | nobody sits on a seat that is not counted | `Seats` |
| authoring | Course.status, revisions, deletion requests | edit, setStatus, ensure, submit, approve, reject, remove | what was reviewed is published; a deletion spares learners | `Courses` |
| enrollment, quiz, certificates | Enrollment, LessonProgress, QuizResult, Certificate | toggleLesson, submitAttempt, recompute, rollup | lessons in sequence; a certificate is earned and issued once | `Learning` |
| media | Upload.status, Lesson.cfVideoUid, the delete queue | createTusUpload, completeUpload, poll, discard, webhook, sweep | READY means encoded; abandoned videos are deleted, used ones are not | `Uploads` |
| instructor | InstructorApplication, requests to change name and expertise, InstructorProfile, User.name | apply, request, edit, approve, reject | an application leaves the review with its request; a pending request can still be decided | `Applications` |
| reviews, reminders | moderation states, rating aggregates, reminder log | moderate, sweep | as their states say | none |
| cart, categories, comments, notes, users, courses, notifications, email, geoip, storage, logging, common, web | rows of their own or none | CRUD, reads, I/O | no step depends on an earlier read | none |

How they interact: `CheckoutService` calls `PaymentsService` (the gateways),
`OrdersService`, `DeliveryPartnerService`, `CouponsService` and the credit ledger
directly; `OrdersService.fulfill` is called by four handlers (checkout,
resume, settle, webhook) and calls enrolment, the ledger and, after its commit,
the delivery partner.  Admin refunds and payouts later move the same rows.
`AuthoringService` calls the video cleanup for every lesson that drops a video, and
what it publishes is what learners complete.  The hourly maintenance job repairs
completions, prunes tokens and sweeps uploads.  All of them share nothing but the
database (and the delete queue), one transaction at a time under READ COMMITTED, and
no handler holds a lock across an await.

## Modules

| Module | What it is |
|---|---|
| `Orders` | the rows a purchase touches and every transaction that changes them, one operator each |
| `Checkout` | the handlers of checkout, payment and fulfilment, one action per await, beside the providers; the properties |
| `Purchase` | the abstract specification: an order is placed, closed or granted, its payment completed, outstanding or held |
| `Refunds` | admins' refunds, composed with every action of `Checkout` over the same rows |
| `Payouts` | payouts of a partner's commission, composed with confirmations and refunds over the referrals of `Orders` |
| `Sessions` | refresh tokens, browsers and tabs, and the password-reset link |
| `Seats` | the capped roster of an organization, or of a partner's course |
| `Courses` | one course with its revisions and its deletion requests |
| `Learning` | one learner in one course, the rollup that repairs completions, and revisions from the outside |
| `Uploads` | videos between the API, Cloudflare Stream, the lessons and the delete queue |
| `Applications` | one person's instructor applications, profile, and reviewed changes of name and expertise |
| `MCCheckout`, `MCRefunds`, `MCPayouts`, `MCCourses`, `MCLearning`, `MCUploads` | their instances for TLC |
| `MCServices` | one instance of `Sessions`, `Seats`, `Courses` and `Applications` side by side |
| `CheckoutProofs`, `RefundProofs`, `PayoutProofs`, `AccountProofs` (of `Sessions` and `Seats`), `CourseProofs` (of `Courses`, `Applications` and the instance of all four services), `LearningProofs`, `UploadProofs` | the inductive invariants and the theorems |
| `SumLemmas` | what a sum over a finite set does when a summand or an element changes; used by the first three |

### Checkout, Orders and Refunds

**State.**  `orders`, `referral`, `redeemed`, `itemRefunded` are the tables;
`students`, `revenue`, `spent` the counters on courses, instructors and the
buyer; `balance` the sum of the append-only credit ledger; `partner` the
partner's earnings and the campaign's usage; `enrolled` the Enrollment rows;
`recorded` the WebhookEvent rows.  `session[o]` is the provider's side: none,
open, expired, paid; approved at PayPal, before the capture; and at Stripe unpaid, when
the session is complete with a delayed payment method that has not paid (`payment_status`
apart from `status`), and cleared, when it has after all.  The events of order o's
session are `o`, that it is completed (at PayPal, captured), and `-o`, that a delayed
payment has come.  `handler[h]` is one handler in flight: a buyer's request, or the
webhook handler of an event.  It holds the locals that survive an await: the cart as filtered so far,
the orders listed (`todo`), which of their rows had a cached session when read
(`refs`), the quote.  A value read before an await is used as it was read.

**Actions.**  `BeginCheckout` to `StoreRef` are `createSession` and
`startPayment` in the order of the code: idempotency lookup, scan, reconcile
each pending order (Stripe: retrieve, then expire; PayPal: retrieve, then
capture; SSLCommerz cannot be asked), filter, list again, drop those of another
gateway, quote, create, attribute, start, store the reference.  `BeginResume`,
`BeginSettle` and `BeginCancel` share the same steps through the handler's
`job`.  `ReceiveWebhook` records the event and goes on to fulfil, a completed session
that is unpaid as well, since nothing there reads `payment_status`; `BeginFulfil`, `CommitFulfil`,
`ReadReferral`, `CreditPartner` are `fulfill` and `confirmReferral`.
`BuyerPays`, `PaymentClears` and `SessionTimesOut` are the buyer and the provider; `Crash`
ends a handler at any await.  A call to a provider may fail, or succeed and stay
unanswered.  `MakePlan` is `refundOrder` up to its transaction, from the order and
items as read; `BeginRefundTx` and `CommitRefund` are the transaction
(`applyRefundToLedger`) up to its read of the referral, and its writes with the
reversal of the commission; `DropRefund` is its rollback or the end of the process.

**Abstractions.**  A transaction is one step.  For one order that is exact, since
the transactions that fulfil it queue on its row.  The credit balance is read
after the buyer's profile row is updated, so two orders of one student queue as
well; the studentCount counters of two orders of one course do not, and that
race is listed as a hazard and not modelled.  The one transaction of two steps is the
refund's: it reads the referral and later writes it, and the transaction that confirms
a referral does not touch the order's row, so it is not kept out.  Two refunds of one
order are (the guard of `BeginRefundTx`); a fulfilment that falls between the two steps
has the effect of one that came before the first.  A quote reads prices, a code and
the balance in one step; `createPendingReferral` reads and writes in one step.
Prices are constant; a code's expiry, scope and minimum spend, and the guards
that only refuse a request (location, kill switch, roles, own courses), are left
out.  `revenue` stands for both revenueCents and earningsCents.  One provider
session per order: the SSLCommerz gateway sends no idempotency key, so a
repeated start may open a second session there.  Of Stripe's session only whether it
is paid is kept: that the gateway charges the full item prices, whatever discount and
credit the quote took off (`stripe.gateway.ts:55-62`), is not.

### Payouts

`payouts` are the Payout rows, `paidEarnings` the partner's counter beside those in
`partner`, `sent[p]` what Stripe transferred under the idempotency key of payout p,
`account` the connected Stripe account.  A request is `ReadEarned`, then `ReadPaid` and
`ReadOpen` in either order, then the checks with `CreatePayout`: three queries and an
insert, all of whose checks see only what was read.  An admin's `approve` is
`BeginApprove` (the status check), `Transfer` (Stripe, with the key) and `CommitPaid`
(the transaction that marks the payout and settles the counters); a payout of the time
when payouts went to bank accounts takes `CommitApprove`, then `markPaid`; `reject`
checks and writes in two steps.  `Abandon` is a refused transfer, a rollback or a dead
process.  `SettlePayee` moves the counters and marks PAID the referrals that
`CoveredByPayouts` finds, oldest first.  `BeginConfirm` and `CommitConfirm` are the read
of a PENDING referral and the write that does not ask again (`confirmReferral`), so that a
referral confirmed, paid or reversed meanwhile is credited and CONFIRMED once more; the
two steps of a reversal use those of `Orders`, and a refund may straddle a settlement.
An instructor's payouts are the same without the counters.  A Stripe account that is
disconnected or changed (`setAccount`) between a request and its approval is left out.

### Sessions

`token` are the RefreshToken rows, numbered as they are created; `cookie` what each
browser holds; a tab has one auth request in flight (the web client's
`refreshInFlight`).  Login is `ListSessions` (the cap chooses whom to evict), `Evict`,
`CreateToken`, `Reply`; a refresh is `BeginRefresh` (the row as read: live, or revoked
longer ago than the grace time, which is taken for theft) and `Rotate` or `EndAll`.
`Logout`, `ForceChange`, `ClearSessions` delete rows; `ClaimLink` to `EndDelete` are
one submission of the reset link.  `GracePasses`, `Expire` and `PruneToken` are time and
the maintenance job.  A token's `parent` is history: the row it was rotated from.

### Seats

One module for the two services, as they are the same protocol with three differences
(whether admins exist, whether removing gives a seat back, whether restoring takes
one): `pool.kind` says which.  `BeginClaim`, `CheckSeats`, `CommitClaim` are
`claimInvitation` with its transaction cut where it reads the seats, since nothing locks
that row; `RemoveFromOrg` and `ReturnSeat` are the two statements of
`removeMember`.  The partial unique index on active members is kept by
`MemberUpserted` and `MayRestore`; `SetCap` is any new number of seats.

### Courses

`course` is the status of a published course or draft, `lessons` its live and
archived lesson rows, `copies` the revisions (clones) with their review, `deletions` the
requests to delete the course, `learning` and `ordered` whether learners and buyers hold
on to it.  Every request of a tab is a check and a write; the administrator's approval
reads the revision (`BeginApproval`) and merges it later (`MergeRevision`).
Between reviews the administrator edits any of them in one step, a revision under review as
well (`AdminEdits`), which only the instructor is kept from.
`DeleteCourse` is the transaction of both `approveDeletionRequest` and `remove`, which
the foreign key of OrderItem rolls back.  The texts of sections, lessons and quizzes are
left out; what is kept of the curriculum is which lesson rows there are.

### Learning

`outline` is the course as published, with the lessons that later revisions archived or
appended (`Revise`); `progress`, `status`, `certificate`, `result`, `attempts` are the
learner's rows; `device[d]` one request.  `toggleLesson` checks the sequence, reads the
progress, writes it, counts, writes the status, looks for a certificate and issues one:
seven steps (`BeginToggle` to `IssueCertificate`), any of which may be the last (`Die`).
`submitAttempt` is `BeginAttempt`, `ReadResult`, `SaveAttempt` and, after a pass,
`MarkLesson`, which goes on as a toggle does.  `FindIncomplete`, `CompareTotal` and
`MarkCompleted` are the hourly rollup.  The time a lesson takes and the contents of
quizzes are left out: a score is drawn from a set.

### Uploads

`upload` are the Upload rows, `video` what Cloudflare has, `slot` the lessons' video
column, `jobs` the queue of deletions, `hooks` the webhooks sent, each of which may
arrive any number of times at any time.  One action per await of `createTusUpload`,
`completeUpload`, the poll, `discardUpload`, and of the lesson operations that attach,
replace, clear, copy or remove a video; the sweep takes one row of one of its four lists
at a time.  An upload and its video carry one number, as a reservation never asks Cloudflare twice.

### Applications

`account` is the User row with the InstructorProfile of an approved one; `application`,
`nameRequest` and `expertiseRequest` are the rows, numbered as they are created; `flight[a]`
is the request in flight of a tab or of an administrator, with what it has read.  Each
operation is two steps, since it reads first and has one transaction (or one statement)
at the end: `BeginApply` with `CommitApply`, `BeginNameChange` with `CommitNameChange`
(which puts the approved application under review again), `BeginExpertiseChange`,
`BeginProfileEdit` (an instructor's edit of the profile, or an edit of the application of
somebody who has no profile yet), `BeginRename` (`AuthService.updateProfile` of a
student).  The reviews are `BeginApprove` and `BeginReject`, which turn into the review of a
name when the application is under review for one (`IsChange`), and the reviews of
requests; every commit overwrites whatever was decided meanwhile, as the code does.
`Drop` is a rollback or a dead process.  `change` in an application is history: the request
that put it under review.  Title, biography and links are one value; the avatar and the CV
files are left out.

## Runs

| Run | Question | Result |
|---|---|---|
| `checkout_safety` | two tabs race for a course, at two gateways, one with a key and one spending credit, with crashes | holds, 1.1 million states |
| `checkout_liveness` | one tab, two courses, three gateways, a coupon that makes a course free, a campaign used up by one order; no crashes | holds, 503 thousand states |
| `refunds` | two admins refund a campaign order in parts, on stale plans, with crashes, while several handlers fulfil it | holds, 3.6 million states |
| `payouts` | two admins and a partner act on payouts while referrals are confirmed, some twice, and refunded | holds, 2.1 million states |
| `services` | two tabs and a reset link; claims, removals and restores at the last seat; an instructor's revisions and deletions under review; applications, with one administrator or two | holds, 4.2 million states |
| `learning` | two devices finish a course that a revision appends to, with crashes and the rollup | holds, 2.3 million states |
| `uploads` | one video from its reservation to its deletion, two lessons, late and repeated webhooks, crashes | holds, 16 thousand states |
| `checkout_fulfil_race` | is `fulfill` idempotent, as its comment says? | violated |
| `payouts_rejected` | can a payout whose money is out be rejected? | violated: an approval died after the transfer |
| `learning_dropped` | does a certificate cover the course as it is? | violated once a revision drops a lesson |
| `courses_deleted` | does the transaction catch a learner who enrolled meanwhile? | violated |
| `checkout_unpaid` | has payment succeeded when an order is fulfilled? | violated: a Stripe session completed with a delayed method |

**Properties that hold.**

Purchases: `AccessIsCompleted`: a course the buyer can open belongs
to a PAID order that owed nothing, whose money the provider holds, or whose Stripe session
was completed with a method that has yet to pay; never to one whose PayPal order was only
approved, or whose session is open or expired.  That the money is there is what
`checkout_unpaid` refutes.  `AbandonedIsUnchargeable`: an
order about to be abandoned has an expired session.  `OneOrderPerKey`.
`CreditNeverOverdrawn`.  `OnePendingPerCourse`: with one checkout request at a
time no course awaits payment in two orders; with two requests in flight this is
false and not claimed.  `NoReferralLeftPending`: once all handlers have returned,
the referral of every PAID order is confirmed; a crash after the commit breaks
this, see the hazards.  `CapturedIsSettled`: captured money leads to a PAID
order, whatever the order's status was when it arrived.  `ImplementsPurchase`: the
refinement of `Purchase`, which tells money held from money outstanding: access only
after a completed payment, outstanding money may turn into held money, held money stays,
and access once granted stays too, even where the money never comes.

Refunds: `NothingRefundedTwiceSingly` and `RefundsAddUpSingly` in the behaviours in which
no two refunds overlap (`singly`, fixed at the start); `RefundsNeverOverstated`,
`ReversedWithinCommission`, `PartnerNotShortChanged` and `AccessIsBacked` in all.
`PartnerNotShortChanged`: the partner's lifetime total is at least what its confirmed
referrals leave it after reversals.  `AccessIsBacked` is the part of `AccessIsCompleted`
that refunds leave: the order behind an enrolment may be partly or fully refunded, but
it was fulfilled after a completed payment.

Payouts: `SentAtMostOnce`; `PaidOutIsSettled`: what the partner is shown as paid out is
never less than the PAID payouts (two approvals of one payout may count it twice);
`BucketsCoverTotal`: pending and paid cover the lifetime total; `SettledOldestFirst`: a
settlement that pays a referral leaves no older one CONFIRMED.  It is stated of settlements
because a refund may write PAID as well: when a doubled confirmation has put a referral that
was paid back to CONFIRMED, a refund that read it before writes the PAID it had read, past an
older one that is owed.

Accounts: `LinkSetsPasswordOnce`; `DeletedHasNoSuccessor`: a refresh that had read a
token does not bring its session back once the row is deleted; `SeatsAreCounted`, with one
removal and one restore at a time.

Courses: `OneOpenRevision` and `ApprovalPublishesRevision`, for
one tab and one reviewer.

Learning: `SequenceNeverSkipped`; `CertificateIsEarned`, while revisions only append;
`ToldOncePerCertificate`; `QuizResultIsConsistent`; `FinishedIsRepaired`, liveness: a
finished enrolment is COMPLETED for good in the end, whatever died before it wrote that.

Uploads: `ReadyWasEncoded`; `AbandonedStaysAbandoned`; `AbandonedIsDeleted`
and `EncodingSettlesWhilePolled`, liveness: where the page keeps polling, an upload does not
stay PROCESSING once Cloudflare is done.  Where it does not, one whose webhook came
before the PROCESSING that `completeUpload` writes may stay so for ever, as the sweep lists
no such rows; nothing is claimed of it.

Applications: `ReviewHasItsRequest`, whatever two administrators decide at once, on the
list of requests or on the application; `NamesStayApprovable`: with one administrator, a
pending change of name starts from the name as it still is (`NameRequestCanBeApproved`).

**Properties that fail.**  `RevenueMatchesOrders`: the status is read before the
transaction, so two fulfilments of one order both count the sale.
`SentIsNotRejected`: the transfer precedes every write, so an approval that dies leaves a
REQUESTED payout whose money is out.  `CertificateCoversCourse`: completed lessons that
were archived since are counted against the lessons that were not.
`ApprovedDeletionSparesLearners`: nothing looks at the enrolments again before they are
deleted with the course.  `FulfilledIsCaptured`: every `checkout.session.completed` is
fulfilled, whatever its `payment_status`.  The findings in `PROJECT.json` quote the lines that say
otherwise.

**Where else the models and the documents part.**  These came up while modelling.  The first
nine were reproduced by TLC, with a bound or a property of its own; the others are read off
the code that the models translate.  None has a run.

- A webhook handler that dies after it recorded its event is not repaired by the
  provider's retry: the redelivery returns at once (`payments.service.ts:156`), although
  `docs/PAYMENT_IDEMPOTENCY_PLAN.md:292` counts on the retry.
- Resuming a Stripe payment begins with a reconciliation that expires the very session
  the buyer should return to (`checkout.service.ts:356`, against its comment at 329-331).
- Two admins who refund one order at once lose one another's refund or refund an item
  twice (`admin.service.ts:617`, against `docs/FEATURE_FLOWS.md:716-718`).
- The credit spent on an order is subtracted from a charge that is already net of it
  (`admin.service.ts:687`, against its comment at 684), so a REFUNDED order with credit
  has not returned its charge.
- A referral that is confirmed while a refund has read it as PENDING stays credited
  (`admin.service.ts:798`, against 796-797).
- A PENDING order can be refunded (`admin.service.ts:633`), and then the student counts no
  longer mirror the enrolments (`admin.repository.ts:341-343`).
- An edit made before there is a profile is written to an application that has been
  approved meanwhile (`instructor.service.ts:500, 557`), and one made while a change of name is
  pending is never copied to it (541): the profile and the application part for good, against
  "Keep the Admin application view synchronized with the live profile" (535).
- The approval of an application overwrites the expertise whose change is pending
  (`instructor.service.ts:974`); the request can then be neither approved nor rejected (609-616,
  664-671) and no other sent (457), although the profile page says "Your current expertise
  remains unchanged until approval" (`src/apps/web/app/instructor/profile/_components/details-card.tsx:130`).
- A student's rename that has passed its check is written after an approval
  (`auth.service.ts:219-235`, against 221: "Instructor names must be changed through an
  admin-verified request").
- The lessons that use a video are counted before its deletion is queued: one that is given
  the video in between keeps the UID of a deleted video (`stream-cleanup.service.ts:55-57`,
  against 51).  So does one that is given it when the sweep takes the upload for stale, which
  counts nothing (89-95), while `completeUpload` is still waiting for Cloudflare.
- `docs/CERTIFICATE_IMPLEMENTATION.md:18-19,100` and `docs/FEATURE_FLOWS.md:238-239` say
  that a certificate is removed when the course is no longer complete; no code removes
  one.  The rollup completes an enrolment without issuing one, and it counts archived
  lessons, which `recompute` does not.
- A partner's two requests at once both see no open payout and together ask for more than
  the balance (`payouts.service.ts:268`).
- An edit that passed its check on a course under review lands on the published course
  when it is approved meanwhile; what an admin edits directly after a revision was
  cloned is archived by its merge; an admin who sets a revision under review back to DRAFT
  leaves its request PENDING and unapprovable; two first publications at once count the
  course twice in the instructor's total; a removal that races a deletion request leaves a
  request PENDING for a course that is gone.
- Removing the last two admins of an organization at once leaves none, and two removals of one
  member give two seats back (`organizations.service.ts:508`).
- Two tabs may each ask for a change of name, and the approval of one leaves the other with no
  way to be approved (`instructor.service.ts:393, 728`); two administrators may approve and
  reject one change (723-733, 778-782), which then ends REJECTED with the new name in place.
- `docs/FRONTEND_MODIFICATIONS.md:440,461` allows each account two changes of name and has the
  profile update reject a third; no code reads `nameChangeCount`.

**Bounds.**  `MaxOrders` 2: races are between two orders or two handlers of one
order; the second order is what a duplicate would be.  Two requests, as no step
of a handler reads another handler.  One course where the race is about orders, two
where carts overlap partly.  `OpeningBalance` 1 and price 2: one order can use
the whole balance and a second finds none.  The coupon is worth more than a course
(the cap matters) and less than two; the campaign may be used once.  When no order
row is unused `CreateOrder` ends the request: a bound, not code.  `MaxRefund` is at
least a course's price, so that every partial and full refund of an item is among
the requests; one order of two courses, as no refund reads another order.  Three
cents charged and two of commission make the rounding of a reversal matter.  Each order has
two payment events; a redelivery is the same event, which `recorded` stops.  `MaxCleared`
bounds the delayed payments that arrive: 1 in `checkout_liveness`, where they matter, 0 in
`checkout_safety` and `refunds`, where a delayed method leaves sessions unpaid and no property
tells a payment that came late from one that came at once.  In `refunds` the order is at Stripe
where refunds do not overlap, and at PayPal where they may (`singly`).

Payouts: two referrals of two cents and one, of which only the older is confirmed at
first, and `MinPayout` 2: one payout cannot cover both, the order of allocation matters,
and a `MaxReversal` of one cent of either moves what is owed.  `MaxPayouts` 2: one open,
one before it.  Two admins, as a third only repeats what two do to one another; two
fulfilments (`Confirmers`), each of which may have read the older referral before it was
confirmed; one request of the partner.  In one behaviour of the run either both admins act at
once, or both fulfilments confirm at once, or refunds are made beside one of each (`extra`,
fixed at the start): together they are too many.  Sessions: `MaxTokens` 3 and `MaxActive` 2, so that the cap evicts;
two tabs of one browser, two submissions of the link.  Seats: `Caps` 0 and 1 make the last seat
contested at once, two claimants race for it, `MaxInvites` 2, three membership rows
(`MaxMembers`: an admin and two members), `MaxUsed` 2.  One platform actor invites and
restores.  Courses: two lessons, two revisions (a second one is what a duplicate would be), one
deletion request, one tab, one reviewer.  Learning: two published lessons and one that is
appended, the second a quiz with two attempts and a score on either side of the pass.
Uploads: one upload and two lesson rows, one request beside the sweep, the webhook and
the queue.
Applications: two names, two fields, two changes of name and one of expertise, so that one can be
decided while another is asked for; one tab, as two tabs ask for two changes at once and
`NameRequestCanBeApproved` fails.  The run has one administrator and one application
(`applications`), or two of each and no change of expertise (`reviews`).

`MCServices` puts four services that share no row into one run: a behaviour is of one
of them, chosen at the start, so that their states add up and do not multiply.  In those of
`Courses` a learner or a buyer holds on to the course, not both.  Symmetry is
used in runs of safety properties only, over processes that are alike.

Deadlock is not checked: the system may stop when every order is settled, every course
deleted, and no bound is left.

**Fairness.**  `FairSpec` of `Checkout`: weak fairness on every step of a running handler (Node's
event loop runs it on) and on the delivery of a captured payment's event until a handler
has recorded it (all three providers retry).  Buyers, timeouts and crashes are not fair.
`LearningFairSpec`: weak fairness on the steps of each request and on the rollup, which
BullMQ repeats every hour; learners need do nothing, and requests may die.
`UploadFairSpec`: weak fairness on the steps of a request; strong fairness on the hourly
sweep's coming back to each row, and on the calls to Cloudflare and the queue: each may fail
or die any number of times, but an action that is tried again and again does not fail for
ever.  Neither the webhook, nor the owner, nor the page that polls is fair (its interval ends
with the page): that it goes on polling is the premise of `EncodingSettlesWhilePolled`.

## Proofs

For any values of the constants:

- `Checkout`: `TypeCorrect`, `AccessIsAlwaysCompleted`, `AbandonedIsAlwaysUnchargeable`,
  `KeysAreAlwaysUnique`, `CreditIsNeverOverdrawn`; `CheckoutImplementsPurchase`, the refinement;
  `OneOrderIsPendingPerCourse`, for one request at a time (`OneTab`), and
  `NoReferralStaysPending`, when besides no process dies.
- `Refunds`: `RefundTypeCorrect`, `ReversalsStayWithinCommission`, `AccessIsAlwaysBacked`,
  `CreditIsNeverOverdrawnByRefunds`, `RefundsAreNeverOverstated`, `PartnerIsNeverShortChanged`,
  for any number of admins and amounts; `NothingIsRefundedTwiceSingly` and
  `RefundsAlwaysAddUpSingly`, of the behaviours in which they refund one at a time.
- `Payouts`: `PayoutTypeCorrect`, `PayoutsAreSentOnce`, `BucketsAlwaysCoverTotal`,
  `PaidOutIsAlwaysSettled`, `ReferralsAreSettledOldestFirst`, for any number of admins,
  requests, payouts and referrals.
- `Sessions`: `LinkSetsPasswordOnlyOnce`, `DeletedNeverHasSuccessor`.  `Seats`:
  `SeatsTypeCorrect`; `SeatsAreAlwaysCounted`, for one removal and one
  restore at a time (`OneOfAKind`).
- `Courses`: `OneRevisionPerTab` and `ApprovalPublishes`, for one tab (`OneTab`).
- `Learning`: `LearningTypeCorrect`, `OneNoticePerCertificate`, `LessonsAreReachedInOrder`,
  `ResultsStayWithinAttempts`, for any course, devices and attempts; `CertificatesAreEarned`,
  when revisions only append (`AppendOnly`: nothing is removable).
- `Uploads`: `UploadTypeCorrect`, `ReadyMeansEncoded`, `AbandonedComesBackOnlyByOwner`.
- `Applications`: `ApplicationsTypeCorrect`; `NoReviewWithoutRequest`, for one tab
  (`OneWindow`) and any number of administrators; `NameRequestStaysApprovable`, for one tab
  and administrators who decide one at a time (`OneDecides`).
- `MCServices`: `ServicesAreEach`, that the instance is a behaviour of each of its four
  services, so that what is proved of a service holds in it; from it `ServicesTypeCorrect` and
  `NamesAreAlwaysApprovable`.

None of the properties is inductive alone.

*Checkout and refunds.*  `Inv` adds what a handler's program
counter says about the order it holds (`Sound`): one about to abandon holds an order
whose session is expired, one about to fulfil holds an order whose payment is completed or that
owes nothing, one past the quote holds a quote that is not negative; and that enrolments, keys and
credits agree with the rows (`RowsInv`).  `Sound` is preserved by the steps of *other*
handlers because nothing they do takes back an order, a completed payment or an
expired session; that is the lemma on `Monotone`, proved once per action and used for every
handler that does not move.  `Inv` asks `AccessIsBacked`, which refunds preserve, so `RefundInv` can
contain it whole: `AccessIsCompleted` follows for `Checkout` alone, where no order is ever
refunded (`NeverRefunded`).  `RefundInv` adds that a plan in flight names an existing
order with a charge (the reversal divides by it), that the referral its transaction has
read is still there with the same commission, though perhaps confirmed since (`ReadSound`),
and the bound on reversals; `Lasting`, that no step takes an order or a referral away or
changes its worth, keeps both for the admins who do not move.  `StepIsTransaction`, that a step of
`Checkout` is at most one transaction of `Orders`, reduces the other steps to six cases.  The
refinement proof maps each action to a step of `Purchase` or to a stutter, from `Inv`.

*One request at a time.*  `WebhookInv`: the handler of a webhook only fulfils the order whose
payment it was told of, so that requests alone choose what to sell.  `PendingInv`: while a request
drops the pending orders of its cart, those it has not dropped yet are in its list (`todo`), and
from there to the row it creates none is left.  A second request could create one in between, which is why the
theorem asks for `OneTab`.  `ReferralInv`: an order is PAID with its referral
PENDING only while a handler is about to confirm it, and the order of a handler that is about to
attribute it cannot be paid yet.  A crash at that await leaves the referral pending, and nothing
comes back to it: hence `~ MayCrash`.

*Sums.*  `SumLemmas` proves of `SumFunctionOnSet`, which recurses over the subsets of its set, the
facts the steps need: it is a function of the summands, an element may be taken out, a disjoint
part added, one summand changed, and it grows with its summands.  The library's induction
principles cannot be instantiated, so each is proved by a smallest counterexample: the subsets of
a finite set for which it fails, were there any, would have a smallest one.

*Refunded totals.*  Three layers over `RefundInv`.  `Books`: the total that a plan in flight will
write is at most what the lines record plus what it adds to them (`PlanCovered`); another
admin's refund meanwhile only adds to the lines.  `PartnerInv`: one transaction at a time has the
order's referral locked (`OneLockPerOrder`), and what it has read of the reversal stays
(`ReadLasts`), so that the lifetime total loses exactly what the referral does.
`SinglyInv`: with one refund in flight its plan is computed from the lines as they still are
(`Current`), and what it adds to each is within the price.

*Payouts.*  `Transfers`: nothing is sent for a payout that does not exist yet and admins act
on existing ones, so that a row created later starts with nothing sent.  `Ledger`: a refund in
flight is of an order that was charged (`ReversalOK`); nothing is asked of the referral it
has read, which may have been confirmed again since; the counters cover one another, and the paid one covers the paid payouts.  A payout
that becomes PAID adds its amount to the sum and to the counter in one transaction, and nothing
lowers the counter.  The order of settlement follows from the sums alone: a
prefix of the payable referrals owes no more than a longer one, so whatever is covered has
everything before it covered too.

*Accounts.*  `SessionInv` is the types; `Orphans`, a row that is unused or deleted
has no parent, so that a parent names a row that was there at the rotation; and `LinkSound`, one
submission at most has passed the claim, and none has set the password while it is about to.
`SeatInv` adds a seat that a removal has still to give back although its member no longer takes
one, either because the row is already removed or because a claim has made an admin of it
(`Owed`): seats taken plus seats owed never exceed `usedSeats` (`Balanced`).  With one removal at
a time at most one is owed.  The other parts say what the sum needs: the row of a removal in
flight is active, the row of a restore is removed and still has the role it was read with
(`Held`), nobody has two active rows (`OneRowEach`), and a partner invites members only
(`MembersOnly`).

*Courses.*  `CourseInv`: the lesson rows are among those created (`Numbered`), so that a merge
adds rows that were not there; a course that is gone has no revision left (`GoneIsGone`), so
that none is merged into it; and what a request carries names a revision where it must
(`Carried`).  `OneTabInv` adds, for one tab: at most one revision is open; none is when the tab is
about to clone; what the tab edits is not under review; and so an approval under way carries the
revision as it still stands.

*Learning.*  `InSequence`: before the lesson of a request in flight, every published lesson is
completed or once was.  `Results`: what an attempt has read is within the attempts made.
`Earned`: a request that has counted the course complete did so when all published lessons were
done, by a lemma on the sizes of the two sets (`Complete_Lemma`).

*Uploads.*  `NamesUpload`: requests name existing uploads.  `Answers`: whoever carries, or
is about to deliver, the answer "ready" does so of an encoded video.  `Starts`: one request at most is
about to ask Cloudflare for a video, of an upload that nobody has heard of, so that a
reservation never takes an encoded video back.

*Applications.*  `ReviewInv`: an application under review for a change of name is the latest
one (`Grounded`), because the decision of the change looks at that one only; and a request in
flight still finds what it has checked (`Placed`): no application is PENDING before one is
created, none is newer than the one that a change of name will put under review.  With one
tab nobody else creates either.  `NameInv`: at most one change is pending, only of an approved
person, and while a change is being asked for or decided nothing else moves the name.  Types
hold for any number of tabs, as a decision in flight names a row of its table (`NamesRow`).

**Assumptions.**  `OrdersAssumption`, `CheckoutAssumption`, `PayoutsAssumption`, `SessionsAssumption`,
`SeatsAssumption`, `CourseAssumption`, `LearningAssumption`, `UploadAssumption` and `ApplicationsAssumption` state the types of
the constants, `IsFiniteSet(Courses)` among them.  `OneTab`, `OneOfAKind`, `AppendOnly`,
`OneWindow`, `OneDecides` and `~ MayCrash` are hypotheses of the theorems that need them, and
named there.  Each is met by the instance of a run, and dropping it makes the property false.

**Only model-checked.**  Liveness, which is out of the provers' reach: `CapturedIsSettled`,
`FinishedIsRepaired`, `AbandonedIsDeleted`,
`EncodingSettlesWhilePolled`.  Every other property of a passing
run is the statement of a theorem.

## Not modelled

- Reviews: a moderation writes a state and then recomputes an average that nothing else
  reads; two moderations may store the older one, and the next repairs it.
- Reminders: their cooldown is approximate by the code's own comment
  (`automation.service.ts:128-131`); digests and retention read or delete old rows.
- Cart, categories, comments, notes, users, geoip, health: single-row operations.
- Notifications, email, SMS, storage, logging, configuration, rendering: they append or do
  I/O and no modelled step reads them back.
- Registration, e-mail verification, phone codes, OAuth and access tokens: the first four
  create an account, the last leave no row.
- The catalogue's read models and the web application: the state that matters is the
  API's.  The web client's habits that the API relies on (one refresh in flight, polling
  while PROCESSING) are in `Sessions` and `Uploads`.
- The shared package's schemas; its pure functions are modelled where they are used
  (`progress.ts` in `Learning`, `coupon.ts` in `Orders`).

## Plan

1. `setAccount` between a payout's request and its approval, in `Payouts`.
2. `Reviews` with the stale average, if a reader of it appears.
3. Abstract specifications besides `Purchase`: a pool of seats (for `Seats`), an account
   that never pays out more than it earned (for `Payouts` over `Refunds`).
