# CareerCraft backend: TLA+ models, checks and proofs

CareerCraft is an Express / Mongoose job portal: one Node process, MongoDB for
documents, Redis for one-time passwords, refresh tokens and the BullMQ queue, Stripe
for payments, S3 for files, Socket.IO for chat, notifications and calls. Node runs
one piece of code at a time, but every `await` of a request, a job or a socket event
lets any other one run. There are no transactions, no locks, almost no unique indexes
and no tests, so what the handlers guarantee together is exactly what is hard to see
in the source. These modules model that: **one action per await that touches
shared data**, any number of handlers in flight, and what happens when a handler
rejects half way.

All paths below are relative to the application's `src/` (`src/src/` in
`PROJECT.json`).

## 1. Inventory

| part | state it keeps | operations | what is hard | must be true | modelled |
|---|---|---|---|---|---|
| Checkout (`services/subscription-payment-service`) | `company_subscriptions`, `payments`, Stripe intents | create, confirm, retry | confirm is five awaits with a stale `isQueued`; retry replaces an intent that may be paid; failure between the two last writes | completed means charged and invoiced; access means paid | yes |
| Subscription queue (same service, `services/subscription`, `shared/services/bullmq.service.ts`) | `isQueued`, `queuePosition`, `scheduledStartDate`, dates | hourly job, cancel | job runs overlap each other and cancel; expire-then-promote is not atomic | nobody expires early; the queue always has a leader; who is due is served | yes |
| Add-ons (same service) | `addons`, `addonLimits`, payments | purchase, confirm | payments of plan and add-on name the same subscription | completed means charged | yes |
| Invoices (`shared/services/invoice-service`, `models/invoice`) | `invoices`, PDFs | generate | check-then-insert; number computed before the insert | numbers of a month are gapless and unique | yes |
| Plans and skills (`services/subscription-plan`, `services/skills`) | `subscription_plans`, `skills` | create, update, delete, toggle; a checkout reads a plan | checked against a document read awaits before; a plan is sold while it is edited; toggles read then write | the free plan costs nothing; asked, paid and recorded are one price | yes |
| Jobs (`services/job`, `repositories/job`) | `jobs.status`, `isVerified`, `applicationsCount` | create, edit, close, delete; admin verify, block, unblock, delete | admin and company write the same status; a counter beside the documents it counts | a blocked job stays hidden; the counter agrees | status, verification, counter |
| Applications (`services/application`, `repositories/application`) | `job_applications.status`, history, notes | apply, withdraw, status changes | check-then-create, check-then-update | one application per candidate and job; no withdrawal once the company has moved on | status |
| Offer letters (`shared/services/offerLetter-service`) | `offer_letters`, application status | create, answer, upload the signed copy, verify | every handler reads, decides and writes in separate awaits; offer and application are written one after the other | one active offer; verified means signed; hired means verified | yes |
| Interviews (`services/interview-service`) | subdocuments of an application | schedule, reschedule, cancel, update, complete | the change and its notification are two awaits; an interview is found by round and updated by id | the last notice says what became of the interview | yes |
| Notifications and sockets (`services/notification`, `shared/services/socket`) | `notifications`, connections | create, push, read, delete, expire; count and tell | a count is read in one await and told after it; half of the paths tell nobody | the bell shows the number of unread | yes |
| Chat (`services/chat`, `repositories/chat`) | `conversations`, `messages`, unread counters | open, send, deliver, read, delete | counters and the last message beside the messages; check-then-create | one conversation per pair and job; the header agrees with the messages; marks are kept | yes, but for editing a text and attachments |
| Calls (`services/Webrtc`, `repositories/webrtc`) | call sessions, who initiates | join, reconnect, leave, end | socket events are not awaited: any two interleave; a room is reused after its end | active means two people; one initiator at most; the last to leave ends it; over is over | yes |
| Accounts and sessions (`services/auth`, `repositories/refreshToken`) | users, companies, the cache, refresh tokens | one-time password, sign-up, reset link, login, Google, refresh, logout, block | rotation is verify, find, delete, save; one cache entry per address serves sign-up and reset | nobody signs up without the code; a login has one token; a link works once | yes |
| Company verification, admin (`services/admin`, `service-helpers`) | `verificationStatus`, what the profile holds | verify, reject, reapply, edit, block | the administrator decides on what was read while the company edits | verified means complete; verified never becomes pending | yes |
| Profiles and files (`services/user`, `services/company`, `shared/services/s3.service.ts`) | profile documents, S3 objects | upload, replace, delete, education, experience | upload, save and delete of the old file are three steps over two services; Mongoose versions arrays, not totals | a named file exists; strays are explained; the total agrees | files, lists, total |
| Statistics, PDF, e-mail, DTOs, mappers, validators, routes, container | none | reads, formatting, wiring | - | - | no |

**How the parts interact.** A confirmation calls the invoice service in the middle
of its own writes. The queue job, the cancel request and the confirmation write
the same subscription documents. Add-on and plan payments share a collection and
the query that finds "the pending payment of a subscription". A checkout takes price,
limits and features from a plan an administrator may be editing. Applications gate
interviews and offers, and offers write the application back. Interviews and chat
create notifications, whose counts are pushed over the same sockets that read them.
Admin actions write job and company documents that companies write too. The resume
builder pushes into a list the profile service rewrites. Everything else meets only
through read-only look-ups. Limits of a plan are shown to companies but no request
enforces or counts them (`incrementUsage` has no caller), so jobs and subscriptions
do not interact through usage.

## 2. Plan

| step | modules | composes / refines | state |
|---|---|---|---|
| 1 | `SubscriptionStore`, `Checkout`, `QueueManagement`, `AddonPurchase`, `SubscriptionSystem` | `SubscriptionSystem` composes the three handler modules and implements `SubscriptionLifecycle` | done |
| 2 | `SubscriptionProofs` | proofs of 1 | done |
| 3 | `Invoicing`, `InvoiceAndCallProofs` | `Invoicing` implements `InvoiceLedger` | done |
| 4 | `HiringStore`, `JobPosting`, `JobApplications`, `OfferLetters`, `HiringSystem`, `HiringProofs` | `HiringSystem` composes three modules and implements `OfferProtocol` | done |
| 5 | `CallSessions`, `InvoiceAndCallProofs` | stands alone | done |
| 6 | `AccountStore`, `Registration`, `Sessions`, `Accounts`, `AccountProofs` | `Accounts` composes sign-up and reset with sessions over one cache | done |
| 7 | `ChatStore`, `Messages`, `ChatProofs` | stands alone | done |
| 8 | `Notifications`, `Interviews`, `NoteProofs` | `Interviews` adds the interviews to the notifications they create | done |
| 9 | `ProfileStore`, `ProfileFiles`, `ProfileEntries`, `CompanyVerification`, `Profiles`, `ProfileProofs` | `Profiles` composes the three over the same documents | done |
| 10 | `Plans`, `Catalogue`, `CatalogueProofs` | `Catalogue` adds the skills to the plans | done |
| 11 | Proofs: the refinements, every safety property of every run | | done |
| 12 | The history of an application's status, stars, notes; resume drafts | | left |

None of the modules declares a `RECURSIVE` operator.

## 3. The modules and the code

Every handler module has one slot per handler in flight (`req`, `call`): a record
with the await it is `at` and the locals that later awaits use. An action is the
code between two awaits: it reads and writes the shared documents and moves its
slot on. Awaits that touch no shared data (rendering, e-mail) and reads of fields
nobody writes (owners, participants) are merged into their neighbours; a read that
decides a later write is never merged with that write. In most modules a rejected
await is an action too (`HandlerFails`, `RequestFails`): the writes made stay, the
rest never happens.

**Bodies.** Many routes store the request's body as it comes, and no validator stands
before them: a job's creation and update, an application, a profile's update, a
plan's and a skill's. Their actions let the body name every field the models have, the ones
meant for others included (`isVerified`, `applicationsCount`, the status of an
application, `verificationStatus`, the names of files, the total of the experience,
`isActive`, `blocked`). Ids and keys that a client sends are any there are: a
confirmation names any subscription and any intent, the deletion of a document any key,
a logout any token of its session. What bodies and keys then spoil is on record in a
history variable, and the properties say what holds but for that.

**`SubscriptionStore`** holds the collections `subs` (`company_subscriptions`),
`pays` (`payments`), `invoices`, `credits` (the `addons` of a subscription, per
payment), Stripe's `intents`, the intents whose secret a client was given (`issued`), the
clock and the queries of the repositories. A `findOne` without a sort is any
match; a sort on `queuePosition` leaves ties in any order.

| module | action | code |
|---|---|---|
| `Checkout` | `CreateStart` ... `CreateLink` | `createPaymentIntentAndSubscribe`: look for an active subscription; intent and payment; queue length; subscription; link |
| | `ConfirmStart` ... `ConfirmStatus` | `confirmPaymentAndActivateSubscription`: read (`isQueued` is kept) and ask Stripe; find the pending payment; invoice; complete; write the status |
| | `RetryStart` ... `RetryIssue` | `retryPayment` |
| `QueueManagement` | `ProcessStart` ... `ReadyActivate` | `processSubscriptionQueue`: expire, promote, renumber; then the second pass over what is due |
| | `CancelStart` ... `CancelReorder` | `cancelSubscriptionWithQueueManagement` with its route's options |
| `AddonPurchase` | `AddonStart` ... `AddonComplete` | `purchaseAddon`, `confirmAddonPurchase` |
| `Invoicing` | `Lookup`, `Number`, `Create`, `Upload` | `generateInvoiceForSubscription`, `generateInvoiceNumber`, `uploadInvoicePDF` |
| `JobPosting` | `CreateJob`, `UpdateJob`, `UpdateJobStatus`, `AdminDeleteJob`; `VerifyJobCheck`, `VerifyJob`, ... | company and admin job services |
| `JobApplications` | `ApplyCheck`, `ApplyInsert`, `ApplyCount`; `WithdrawCheck`, `Withdraw`; `UpdateApplicationStatus` | user and company application services |
| `OfferLetters` | `OfferCheckStatus` ... `OfferApplication`; `RespondCheck` ...; `SignCheck` ...; `VerifyCheck` ... | `OfferLetterService`; `Lapse` is `expiresAt` going by |
| `CallSessions` | `JoinFind` ... `JoinTell`; `LeaveRemove`, `LeaveCheck`, `LeaveEnd`; `EndCall` | `joinCall`, `createCallSession`, `leaveCall`, `endCall` and the socket events that call them |
| `Registration` | `RequestOTP`, `ResendGet`, `ResendSet`, `VerifyGet`, `VerifySet` | `sendOtpCacheUser`, `resendOtp`, `verifyOtp` |
| | `SignupGet` ... `SignupDelete` | the sign-up controller and `signupUser`, `signupCompany` |
| | `LinkStart`, `LinkSet`, `ResetGet`, `ResetUpdate`, `ResetDelete` | `sendResetPasswordLink`, `resetPassword` |
| `Sessions` | `LoginFind`, `GoogleFind`, `GoogleCreate`, `LoginSave` | `login`, `loginWithGoogle` |
| | `RefreshFind`, `RefreshDelete`, `RefreshSave`; `LogoutStart`, `LogoutDelete`; `Block`, `Unblock` | `refresh`, `logout`; the administrator's block |
| `Messages` | `OpenFind`, `OpenAgain`, `OpenInsert` | `getOrCreateConversation`, `createConversation` |
| | `SendStart` ... `SendNotify`; `ReadPage`, `ReadMark`, `ReadReset` | `sendMessage`; `markMessagesAsRead` |
| | `JoinPage`, `JoinMark`; `Acknowledge`; `Delete` | `handleJoinConversation`; `handleMarkAsDelivered`; `deleteMessage` |
| `Notifications` | `Connect`, `Disconnect`, `GetCount`, `SocketMarkRead`, `SocketMarkAllRead`, `Count`, `Tell` | the notification socket handlers, `sendUnreadCount`, `sendUnreadCountToUserRoom` |
| | `Push`, `CreateSilently`, `MarkAsRead`, `MarkAllAsRead`, `DeleteNotification`, `Expire` | creations that are pushed and that are not, the HTTP requests, the TTL index |
| `Interviews` | `scheduleInterview`, `rescheduleInterview`, `cancelInterview`, `updateInterview`, `completeInterview`; `createInterviewNotification` | `InterviewService` |
| `ProfileFiles` | `UserPictureRead`, `CompanyPicturePut`, `PictureSave`, `PictureUnset`, `PictureClean` and the requests that start them | pictures and banners of both profiles |
| | `ListPut`, `ListPush`, `ListCut`, `ListClean`, `BuiltPush` and the requests that start them | certificates, resumes, company documents; `generateAndUpload` of the resume builder |
| `ProfileEntries` | `AddSave`, `UpdateSave`, `DeleteSave` and the requests that start them | education and experience, `calculateTotalExperience` |
| | `updateUserProfile` | `PATCH /user/profile`: any fields of the profile, files, lines and total among them |
| `CompanyVerification` | `verifyCompany`, `VerifySave`, `rejectCompanyVerification`, `RejectSave`, `reapplyForVerification`, `ReapplySave`, `updateBasicProfile`, `updateAddress` | admin and company services; `Weight` and `Holds` are the helper's rules |
| `Plans` | `createPlan`, `PlanInsert`; `updatePlan`, `UpdateName`, `UpdateWrite`; `deletePlan`, `PlanDelete`; `togglePlanStatus`, `PlanToggleSave`; `updatePlanLimits`, `updatePlanFeatures` | `SubscriptionPlanService` |
| | `SaleRead`, `SaleAsk`, `SalePay`, `SaleCreate`; `RetryRead`, `RetryAsk` | what `createPaymentIntentAndSubscribe` and `retryPayment` take from a plan |
| `Catalogue` | `createSkill`, `SkillInsert`, `updateSkill`, `blockOrUnblockSkill`, `SkillToggleSave`, `deleteSkill` | `SkillsService` |

**Abstractions.** Times are ticks and a plan lasts one or two of them; texts and file
contents are absent, amounts appear only in `Plans`. `InvoiceLedger`,
`SubscriptionLifecycle` and `OfferProtocol` say what the three parts look like from
outside. In `Invoicing` a number is padded to `Padded` digits in base `Base`, so that
the place where string order and numeric order part is inside the bound.
`CallSessions` is the room of one interview (the `roomId` is derived from the
interview, and rooms share nothing). In `AccountStore` a sign-up form is its role, its
address and a `Draft` for all the rest, a code, a link and a token are numbers in the
order they were issued, and a session is the line of tokens one login begins. In
`ChatStore` a conversation's last message is its place among the messages, which are in
the order of `createdAt`. `Interviews` gives a candidate one application, whose
interviews (`Brought` with its body, or scheduled) are his. In
`ProfileStore` Mongoose's version check is modelled by what it does: an array written
whole, or an element written by index, is refused when `__v` has moved since the
document was read (`stale`), a push is not refused and moves `__v`, and scalar fields,
the computed total among them, are neither; nor is a body, which is written by id. A body
that sets `__v` itself and an index that is not a natural number are left out. In `Plans` a name is found in another by
the pairs `Within`, because `findByName` matches a pattern; a plan's duration, limits
and features are one value of `Terms`.

**History variables** record what a handler met and are read by no guard:

| module | variable | records |
|---|---|---|
| `HiringStore` | `raced` | subjects two requests were in flight about at once |
| | `down` | jobs an admin blocked and neither an admin nor a body of their company verified since |
| | `skew` | by how much bodies have moved each job's counter |
| | `asFiled` | applications still in the status their body gave |
| `AccountStore` | `raced` | logins and links two requests were in flight about at once |
| | `proven`, `used` | forms whose code came back, uses of a link |
| | `over` | logins whose newest token a logout deleted |
| `ChatStore` | `disturbed` | conversations and headers that overlaps or failures met |
| `CallSessions` | `overlapped` | users two events of whom overlapped |
| `Notifications`, `Interviews` | `excused`, `unannounced` | sockets, and interviews, somebody was not told of |
| `ProfileStore` | `home` | what a key was made for |
| | `given` | keys a client gave himself: in a body to be named, or to be deleted when his list did not name them |
| | `totalled` | the lines the total was computed from, or a body's total is that of |
| | `raced` | places of files, the total and the verdict, spoilt by overlaps, failures or bodies |
| `Plans` | `flips` | flags that requests have left the other way than a new plan or skill has them |
| | `raced` | flags written between the read and the save of a toggle since a body last set them; plans renamed to the free one with a price kept or on its way |

Some modules hold an operator that replaces one of the code's steps by a plausible slip
(marked `Mutant:`). No action uses it; `PROJECT.json` says which definition it stands in
for and which property notices.

## 4. The runs

| run | shows | bounds |
|---|---|---|
| `subscription_races` | two handlers at a time, one may fail anywhere: `CompletedMeansInvoiced`, `WalkInLiveMeansPaid`, `StrandedOnlyByFailure`, `ImplementsLifecycle`, `TypeOK` | 1 company, 2 subscriptions, 2 payments, 3 ticks, 1 failure; create, confirm, retry, cancel, job |
| `subscription_serial` | whole requests, one at a time, failing half way, with retries and an add-on: `QueuedFlagAgrees`, `NoEarlyExpiry`, `QueueIsLed`, `CompletedMeansCharged` | 3 subscriptions, 3 payments and intents, 1 of them charged (`OneCharge`), 4 ticks, 1 add-on, 1 failure |
| `subscription_live` | the hourly job beside a client: `DueIsServed` | 3 subscriptions, 3 ticks, 1 failure; create, cancel, job |
| `invoicing` | two confirmations, a month's end, numbers past the width: `NumbersGapless`, `ImplementsLedger` | 3 subscriptions, 2 months |
| `hiring_applications` | `BlockedStaysHidden`, `CountAgrees`, `OneApplicationUnlessRaced` | 1 job, 2 candidates, 3 applications, which bodies may file as withdrawn, 1 count that bodies may write, 2 requests, 1 failure |
| `hiring_offers` | `OneActiveOfferUnlessRaced`, `HiredMeansVerified`, `WithdrawnInTimeUnlessRaced`, `ImplementsProtocol` | 1 application, which bodies may file with any status, 2 offers, 2 requests, 1 failure |
| `calls` | `OneEntryUnlessOverlapped`, `ActiveMeansTwoUsers`, `OneInitiator`, `EmptyMeansEnded`, `OverForGood` | 2 users, 3 events in flight, 1 failure |
| `accounts` | `SignedUpMeansProven`, `OneSessionPerLogin`, `LinkOnceUnlessRaced` | 1 role, 1 address, 2 forms, 2 codes, 1 link, 3 tokens (`Budget`: 4 codes and tokens together), 2 requests, 1 failure |
| `chat` | `OneConversationUnlessRaced`, `LastIsNewestUnlessRaced`, `UnreadExplained`, `NothingTakenBack` | 2 participants, 2 conversations, 2 messages, a page of 1 to read and of 2 to acknowledge, 2 requests, 1 failure |
| `notifications` | `BellAgrees`, `NoticeAgrees` | 1 candidate, 2 sockets, 2 notifications, 2 rounds, none or one interview brought by the application, 3 changes of interviews, that one counted, 2 requests |
| `profiles` | `NamedFilesExist`, `StraysExplained`, `TotalAgreesUnlessRaced`, `VerdictsSoundUnlessRaced` | 2 keys, 2 lines, 4 requests of which 2 at a time, bodies of one field, 1 failure; cut after a second place spoilt or key given (`Budget`) |
| `catalogue` | `FreeCostsNothingUnlessRaced`, `AskedAsSold`, `TogglesCountUnlessRaced` | 2 plans, 1 skill, 1 checkout, 3 names, 2 prices, 4 requests of which 2 at a time, 1 failure |

**Why the bounds are enough to mean something.** Two handlers are enough for every race of
two: the handlers keep no state of their own beyond a request, so a third one acts on
the same documents as one of the two would have before or after. Two subscriptions,
offers, plans or conversations give a second to be confused with the first; three are
used where an order among those waiting matters, and three subscriptions to invoice
reach the number after the widest one. One failure can strike at any await of any
handler. The clock runs to the end of the second subscription. Runs with failures also
cover none failing. In `chat` a page smaller than what was sent is the case in which the counter and the
messages part. In `profiles` the three forms of a company lie above, at and below
what reapplying asks for. In `notifications` one constraint, `OneSocketForInterviews`, keeps a second socket
out once an interview was filed or has changed: what sockets show does not depend on what a
notification says. One address is enough for `accounts` because entries, accounts and tokens of two
addresses never meet; with the other role the same cache entry is shared, which the
theorems of `AccountProofs` cover for both roles. Its third token is there for a client
that logs out with a token already exchanged, and for two refreshes of one token. One
charged intent in `subscription_serial` is the case to look at: it confirms every
subscription and every add-on, beside intents nobody paid. In `profiles` and
`hiring_applications` bodies write what a property relates to something else, a name, a
total, lines, a verdict, a counter; a second one of the same kind shows nothing more.

`subscription_serial` runs one handler at a time because its first three properties do
not survive every overlap (section 7). Which overlaps break them is what their theorems
say: a promotion beside a confirm, a cancel request's promotion beside the job's loop, and
a purchase beside the end of the subscription it queues behind. That overlaps cannot break `CompletedMeansCharged`, add-ons and retries
included, is what the theorem `CompletedPaymentsAreCharged` says.

`UnlessRaced` properties name the only way the code can break them: requests about
the same subject overlapping, or, where the property says so, one rejecting between
two writes. That is weaker than the plain property and it is what the code, without
unique indexes and transactions, gives; the same properties without the exception are
what one request at a time keeps.

In `hiring_offers` companies set "reviewing" and "shortlisted" by hand (`Manual`), and
applications are filed with any of the eight statuses (`FiledAs`). The code accepts all
eight from a company too, "hired" and "withdrawn" included: it may write any of
them over anything, so properties that tie a status to an offer or to a candidate's
request are about the statuses that neither its company nor the body it was filed with wrote.

Of the type invariants only `TypeOK` is checked by a run. The others say nothing about
the program by themselves; each is proved (`...TypesCorrect`) as a part of the inductive
invariant its module's theorems rest on.

**Fairness.** Only `subscription_live` assumes any: `WF_vars(ProcessStep(p))` for
each `Worker` slot. The job is scheduled every hour, BullMQ retries a run that
rejects three times and the next hour starts another, so a worker keeps taking
runs to their end. Nothing is assumed of clients, of Stripe or of the clock. Nothing
else in the program retries or polls, so no other part promises that anything happens.

**Deadlock** is checked in the subscription, invoicing, hiring and call runs. The
other five bound what may be started (requests, codes, tokens, messages, notifications)
and the bounded system stops when the bound is reached; the program has no locks and
waits for nothing but its own awaits.

## 5. Proofs

All theorems hold for any number of documents and slots, under the named
assumptions on the constants: `StoreAssumption` (finite sets of ids that are
naturals, a `Null` outside them), `InvoicingAssumption`, `HiringAssumption`,
`CallAssumption`, `AccountAssumption`, `ChatAssumption`, `CatalogueAssumption`,
`NotificationAssumption`, `ProfileAssumption`.

- `SubscriptionProofs!TypesCorrect`: `TypeOK` is inductive by itself.
- `SubscriptionProofs!CompletedPaymentsAreCharged`: a slot that passed Stripe's
  check carries a charged intent, and charges are never undone; the strengthening
  `ChargeInv` says so of every slot between that check and its write.
- `SubscriptionProofs!CompletedPaymentsAreInvoiced`: the invariant `BooksInv` says
  that a slot about to complete a payment names a subscription that is invoiced
  and a payment of that subscription, and that a payment keeps its subscription
  once it has one. It is needed because a confirmation finds its payment by
  subscription and completes it by id, two awaits later.
- `SubscriptionProofs!WalkInsArePaid`, `OnlyFailuresStrand`, `SystemImplementsLifecycle`:
  from `MoneyInv`, which adds two parts to the above. `LifeInv` says that a walk-in is
  never flagged queued, that every queue, batch or snapshot a slot holds lists queueable
  subscriptions only, and that a confirm about to write the status has settled a payment of
  its own subscription. `Settled` asks for a transaction of Stripe's on such a payment
  (`gatewayResponse`, which a retry that overlapped leaves); `ResponsesHold`, a part of
  `ChargeInv`, says that those transactions are charged ones. Which intent confirms which
  subscription is looked at by nobody, and by neither theorem. `Change` is what an update
  of a subscription may do; each step is one `Change`, a charge, a settlement, or leaves
  all lives as they are.
- `SubscriptionProofs`, the serial properties. Each theorem names in its hypothesis the
  overlap that breaks its property and allows all the others, at any number of handlers
  and failures. A step writes one subscription in one of five ways (`Files`, `Turns`,
  `Promotes`, `Inserts`, or not at all: `JobWrites`, `RequestWrites`, `CalmSteps`).
  - `FlagsAgree` (`QueuedFlagAgrees`), unless a handler is about to promote while a confirm
    is in flight. `FlagInv` adds that the list the job still has to expire and the one a
    cancellation is about to write are not queued, and that a confirm's flag is the
    document's. Only promotions clear a flag, so only they can make a confirm's stale.
  - `NobodyExpiresEarly` (`NoEarlyExpiry`), unless a cancellation is about to promote while
    the job is in its loop. `ExpiryInv` adds that everything the job still has to expire is
    over; nothing but that promotion gives an old subscription a new end.
  - `QueuesAreLed` (`QueueIsLed`), unless a purchase is in flight while a cancellation or
    the job is about to end a subscription, or a promotion runs beside a confirm. `LedInv`
    adds that, until something fails, a company whose queue nobody leads is owed a
    promotion by a handler in flight (`Owes`), and that a purchase about to queue still has
    the active subscription it found. A handler that owes a promotion makes it or finds
    nobody waiting, whatever the others do. It uses `FlagInv`: a confirm never turns a
    leader into a waiting one.
  - `OneSlotIsSafe`: a single slot satisfies all three hypotheses, which is what
    `subscription_serial` instantiates.
- `InvoiceAndCallProofs!NumbersNeverSkip`: the numbers of a month are `1..n`. The
  invariant adds that a number a slot is about to insert is at most one past the
  end; the unique index removes the ones taken.
- `InvoiceAndCallProofs!BooksImplementLedger`: the refinement. With gapless numbers, an insert
  appends one entry to the list of one month of `InvoiceLedger`; all other steps stutter.
- `HiringProofs!BlockedJobsStayHidden`: a blocked job is not verified, and only
  the steps that lift the block, a body that says `isVerified` among them, verify it.
- `HiringProofs!VerifiedOffersAreSigned`: a slot about to verify aims at a signed
  offer; signatures are never removed and ids never reused (`Aimed`).
- `HiringProofs!HiringTypesCorrect`: needs that an offer names an application.
- `HiringProofs`, the histories: every other property of `hiring_applications` and
  `hiring_offers`, from `HistoryInv`. `MeetingsRecorded` says that two requests in
  flight about one subject are in `raced`; so a request about an unraced one still
  holds what it saw when it looked: no application of the pair (`ApplyInv`), a status
  that may be withdrawn (`WithdrawInv`), no active offer, a pending offer that has not
  lapsed or an accepted one (`ActiveInv`, `AimsAt`), a signed offer behind an
  application about to be hired (`HiredInv`). `Standing` keeps applications that offers
  and requests name filed, `CountIs` is the counter of one job, less
  what bodies moved it by.
  `WithdrawnInTime` needs that companies do not write "withdrawn" by hand, which
  the code lets them do.
- `HiringProofs!OffersFollowProtocol`: the refinement. A step maps to a `Contest` of the
  offers an overlap puts on record, to an `Advance` of one offer, or to a stutter.
- `InvoiceAndCallProofs`, the calls: every property of `calls`, for any number of users and events.
  `CallInv` adds that the events of a user outside `overlapped` come one at a time,
  that a join about to push finds its user unlisted and one past the push stays
  connected, that two users are listed wherever a join is about to activate, and
  that an open call nobody is in has an event about to fill or end it.
- `AccountProofs`: every property of `accounts`, for any roles, addresses and
  requests. `ProvenInv` adds that an entry on its way back to the cache, or a form on
  its way to an account, is proven if it claims to be. `SessionInv` adds that the
  requests of an unraced login come one at a time, that the stored token of a login is
  its last, and that a refresh about to save finds none stored. A logout with an older token ends nothing, so
  `over` counts those with the last one only. `LinkInv` adds that a
  link that was used is no longer in the cache, or is about to be deleted from it by the
  request that used it.
- `ChatProofs`: every property of `chat`, for any page size and number of messages.
  `ChatInv` adds that slots name open conversations and their own messages
  (`SlotsKnown`, `MessagesFiled`, `PagesFiled`), that an unraced opening about to insert
  still finds nothing (`OpenInv`), and that an undisturbed send in flight carries the
  newest message and has done what it says it has (`LastInv`). For the counters,
  `CountInv` compares a counter with the unread messages it was already raised for
  (`Counted`, the unread ones less those a send in flight still owes it) at every await:
  it is never above them unless a reader is about to reset it, and, while one page holds
  every message, never below the visible ones, since a reader at the counter has left
  none unread.
- `CatalogueProofs`: every property of `catalogue`. `SaleInv` adds that a sale in
  progress has asked and recorded the price its request read, and that nobody else
  sells it; `FreeInv` that an update about to price the free plan has seen it free and
  will be refused; `ToggleInv` that a toggle about to save on an unraced flag has seen it as
  it still is, and is the only one; a body that says the flag starts its count again.

- `NoteProofs`: both properties of `notifications`, for any people, sockets and requests.
  `HeldRight` says that a count on its way which nothing overtook is the count as of now,
  `ToldOrComing` that a socket which is not excused shows it or is going to hear of it;
  `NoticeInv` adds to `NoticeAgrees` that a notice in flight is of an interview there is,
  and that one not marked stale says what that interview is.
- `ProfileProofs`: the four properties of `profiles`. `PictureAlone` and `ListAlone` say
  that on a place not in `raced` a request on a picture is alone and holds the picture as
  it is, and that a request about to cut a list has no push of the resume builder beside it
  and, unless Mongoose will refuse it, holds the list as it is. `FileInv`
  follows each file through the hands it passes: it is stored where it was made for, about
  to be named by one request only (`FreshAlone`), about to be deleted only when no profile
  names it (`GoingUnnamed`), and what a request holds to write back is still shown or the
  request is stale (`HeldNamed`, `CutShown`); `NamedFilesExist` needs all of it because a
  delete comes an await after the write that made it safe. Keys in `given` are excepted
  in each part: nothing holds of a key whose name or deletion a client asked for at will. `EntryInv` and `VerdictInv` say
  that an edit, or a decision, that nothing raced, a body included, is alone and holds
  what it read.

The first named lemma of each proof module gives what a slot holds at each await; then
come the types, one lemma per group of actions, then the strengthening with a frame
lemma for the steps that touch none of it.

## 6. Only model-checked

Every invariant and action property of every run, and the three refinements, have a
theorem; the runs show each of them on an instance, without the proofs' assumptions.
`DueIsServed` is liveness under fairness and stays with TLC: the prover handles neither
fairness with `ENABLED` nor induction over data. What stays with TLC, too, is that the
hypotheses of the serial properties' theorems are needed: with two slots TLC finds each
plain property violated, and `QueueIsLed` with either of its two hypotheses dropped.

## 7. Seen while modelling

Where the code and what it says of itself part, or where a reader might expect more
than it does. None of these is a property of a run; the models contain them.

Bodies and keys:

- bodies are stored as they come, by `PUT /company/jobs/:jobId` and `POST /company/jobs`,
  `POST /user/jobs/apply`, `PATCH /user/profile`, `PUT /company/profile` and the
  administrator's plans and skills: a company may verify its job and itself and set the
  counter, an application may be filed as hired or with interviews, a total may differ
  from its lines, a name of a file may be any. The bodies of the two profiles may also say
  `isBlocked`, `password` or `activeSubscriptionId`: no property depends on those
  three, and the models leave them out of bodies;
- the deletion of a certificate, resume or document deletes the file of the key in the
  query, whether the profile lists it or not;
- a confirmation does not compare the intent with the subscription, so one charged
  intent confirms any pending payment, and an add-on may be confirmed with it, too;
- a logout with a token that was exchanged already (the answer to the refresh was lost)
  leaves the session's current one stored.

Subscriptions:

- "Unique constraint: one active subscription per company"
  (`models/company-subscription/company-subscription.schema.ts:276`): the index is
  commented out, and two become active even without an overlap of requests;
- "If subscription is queued, keep it queued": a flag read before the invoice is made
  overwrites what the job did meanwhile, and the subscription is then out of reach of
  every query; a cancellation that promotes a subscription the job has just found over
  gives it a full duration, and the job expires it at once; a purchase that queues behind
  a subscription cancelled meanwhile waits for the job's second pass;
- a retry replaces an intent that may have been charged; two overlapping confirmations
  insert an invoice each; the confirmation of an add-on may be repeated;
- the leader of a queue need not have position 1, `cancelledAt` survives a
  confirmation that brings the subscription back;
- after number 9999 of a month the last number found is still 9999 and every later
  insert of that month is refused;
- a checkout does not ask whether the plan is active; an update of a plan runs no
  validators; a plan's name is refused when it occurs inside another's.

Hiring:

- applying does not look at the job's status or verification; unblocking also reopens
  a job its own company closed, and a job the company closed cannot be blocked;
- an offer that lapses unanswered still counts as active, and no request removes it:
  no further offer can be made on that application;
- an interview is cancelled by id and announced by round; a completed or cancelled one
  may be rescheduled; updating and completing tell the candidate nothing;
- the route `/:id/add-notes` is bound to `markAsViewed`
  (`routes/company/company.applications.routes.ts:75`);
- deleting a resume leaves applications that name its file.

Accounts and profiles:

- Google login and refresh do not look at `isBlocked`; resetting a password leaves its
  sessions; `signupCompany` looks for an existing company among the users;
- the verification rule for the phone looks at the logo; reapplying asks for 80 points and
  says 90 (`services/company/implementations/profile.service.ts:40`);
- `updateUserEducation` does not await its save: a version conflict surfaces after the
  answer (`services/user/implementations/profile.service.ts:213`);
- deleting a skill leaves it in the profiles that name it.

Sockets:

- a user who leaves and comes back while another joins is reconnected without the call
  becoming active ("If both participants joined, set status to active",
  `services/Webrtc/implementations/Webrtc.service.ts:80`, happens on a first join
  only); two simultaneous first joins tell nobody to initiate; the room of an ended call
  is joined again but never active again;
- the receipt of a joined conversation goes to the sender of the newest message, who may
  be the one who joined (`chat-eventHandler.service.ts:91`); marking all
  notifications as read tells 0 without counting;
- `DELETE /delete-all` reaches the handler that deletes one notification, without an id
  (`routes/notification.routes.ts:11`), so `deleteAllRead` is never called;
  `GET /unread-count` of chat is shadowed by `/:id` (`routes/chat.routes.ts:13`, `:24`).

## 8. Not modelled

- Of applications: stars, notes, the viewed mark and the status history. Each is a
  single write that no later step reads.
- Of jobs: the fields other than status, verification and counter, views and search.
- Of profiles: fields no model reads and the list of skills (`$addToSet` and `$pull`,
  atomic). Of resumes: the draft, one atomic upsert.
- Of chat: editing a text and uploading an attachment, typing and presence.
- Code no request reaches: `incrementUsage`, `deleteAllRead`, the cancellation
  service's other entry points, the BullMQ jobs that are only stubs.
- Statistics only read. PDF, e-mail, templates, DTOs, mappers, validators, routes and
  the container format or wire.
- MongoDB, Redis, S3, Stripe, BullMQ and Mongoose's version check appear through what
  the code uses of them and are marked external in `PROJECT.json`.
