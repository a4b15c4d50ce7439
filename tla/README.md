# Teacher-OS in TLA+

Models of Teacher-OS (a NestJS, TypeORM, PostgreSQL and Redis backend and a Flutter app for
tuition teachers and institutes), model-checked with TLC, and theorems about them checked with
TLAPS. Paths below are relative to `src/`.

What makes this system hard to test is that almost nothing in it is atomic. The services run in
one or more Node processes; every `await` in a service method lets other requests run, and only
five operations open a database transaction (`createSchedule`, `bulkMark`, `addGuardian`, and creation
and merge of students). Few invariants are backed by a UNIQUE constraint. So the modules below have one
action per statement: what happens between two `await`s. A request may be interleaved with others
anywhere and may die anywhere, leaving what it has written.

## 1. Inventory

| Component | State | Operations | Hard behaviour |
|---|---|---|---|
| fees: payments (`backend/src/modules/fees`) | tables `payments`, `refunds`, `credit_notes`, `payment_audit_log`, `student_credit_ledger_entries`, `institute_teacher_payouts`, status of `invoices` | createCreditNote, recordPayment, initiateGatewayPayment, confirmGatewayWebhook, refundPayment; each ends in recomputeInvoiceStatus, some in generatePayoutIfApplicable | repeated and overlapping webhooks, requests that die between the payment and its audit row, status, credit and payout, sums read before a concurrent write |
| fees: invoicing | `fee_structures`, `discounts`, `invoices`, `invoice_line_items`, the ledger | createFeeStructure, createDiscount, generateInvoices, generateOneInvoice | check-then-insert without a constraint; credit read by one statement and consumed by a later one |
| fees: read side | none | overviews, revenue summary | queries only |
| fees: gateway adapter | external | sessions, outcomes, webhooks | environment of payments |
| auth | `users`, `user_roles`, `refresh_tokens`, `guardians.user_id` | register, login, refresh, logout, logoutAll, me, deleteAccount | rotation of single-use tokens in separate statements; deletion racing a refresh; an account, its role and its guardians saved one by one |
| mobile: network and token storage (`mobile/lib/core/network`, `core/storage`) | secure storage (two keys), the shared refresh future, calls in progress | interceptor, login, restore, logout, deletion | several refused calls at once, a refresh whose answer is lost, an app killed between two writes |
| mobile: offline sync (`mobile/lib/core/sync`) | queue file, cache files | enqueue, drain, bulkMark through the repository | read-modify-write of whole files, stale replays, drains that overlap |
| attendance | `attendance_sessions`, `attendance_records`, `attendance_audit_log` | bulkMark (one transaction), updateRecord, overrides | two devices mark a class; audit row and record in separate statements |
| notifications | `notifications`, preferences, push tokens | notify, digests of the scheduler, markRead, markAllRead, preferences, device tokens | a digest that dies after it has pushed, a stale save over the delivered mark |
| classes | `classes`, `class_schedule_versions`, `schedule_exceptions`, `enrollments`, `waitlist_entries` | create, update, createSchedule, createException, enroll, waitlist, conflict warnings | capacity and duplicates counted before the insert; versions that start before the current one |
| students | `student_profiles`, assignments to teachers, guardians and links, the merge log, invites | create, update, archive, addGuardian, mergeStudents, createInvite | rows written to a student while it is merged away; whole-row saves |
| students: imports; reports | `student_import_jobs`, `export_jobs`, files in the storage | createImportJob, createExportJob and their work after the answer | jobs lost with their process |
| institutes | `institutes`, branches, `teacher_institute_invites`, `institute_teacher_payouts` | archive, createInvite, redeemInvite, markPaid | one code redeemed twice, check-then-save |
| teacher profiles | `teacher_profiles`, `verification_requests` | create, update, submit, review | whole-row saves that revert a review; a review of two statements |
| assignments | `assignments`, `assignment_submissions` | createAssignment, createSubmission, reviewSubmission | attempt numbers counted before the insert |
| notes, announcements | `documents`, `document_shares`, access log, `announcements` | createDocument, createShare, getFileContent, createAnnouncement | several copies of who may see what, over records that merge and change |
| performance | metric definitions, records | define, record, list | the same rules once more |
| calendar | none | the occurrences of an owner's calendar and their conflicts | computes what classes computes, apart |
| users, admin | `users`, `user_roles` | lists, single-row updates | little of it concurrent |
| common (guards, throttler, storage, filters) | Redis counters, files | permissions, rate limits | counters read and written in separate round trips |
| mobile: feature screens | none beyond what the API returns | | |

How they interact. Controllers call one service method per request. The services share one database
and read each other's tables directly: `generateInvoices` reads enrollments and attendance, payments
write institutes' payouts, and almost every service asks students, guardians, assignments to teachers and
enrollments whom a caller may see, each with a copy of the rule of its own. Assignments, notes,
attendance, fees and announcements hand events to notifications. The app reaches the backend only
through the interceptor; its attendance repository falls back to the queue of offline sync.
`repo.save(entity)` of TypeORM re-reads the row and writes each column in which the entity differs, so
saving an entity that was loaded some statements ago writes stale values back; several of the
hazards in `PROJECT.json` are of this kind.

What makes each correct, in one line each: money is never invented, lost or counted twice
(payments); nobody is billed twice for a period and credit is spent once (invoicing); a refresh
token is exchanged once and a deleted account stays out, registration reaches the family (auth); a user
is never logged out by the app's own races (mobile network); an action taken offline reaches the
server once (sync) and a roll call is entered as a whole (attendance); every notification is pushed,
once (notifications); a class is never over capacity and no day is without a schedule (classes); a merge
loses nobody (students); a job that has ended says what it did (imports, reports); a code is used once
(institutes); a teacher is verified only by a review (profiles); attempts are numbered without gaps
(assignments); what a service lists it also opens, and all copies of a rule agree (everything that
reads).

## 2. Modules

| Module | Models | Kind |
|---|---|---|
| `PaymentLifecycle` | the status column of one `payments` row, as a state machine | abstract specification |
| `Payments` | `FeesService` once invoices are issued, statement by statement | detailed specification |
| `MCPayments` | symmetry for the above | instance |
| `PaymentsProofs` | theorems about `Payments`: types, money, history | proofs |
| `Billing` | generating invoices as if billing a student were atomic | abstract specification |
| `Invoicing` | `FeesService` up to the invoice | detailed specification |
| `MCInvoicing` | classes, students and discounts of the instances | instance |
| `InvoicingProofs` | theorems about `Invoicing`, that it implements `Billing` among them | proofs |
| `Sessions` | `AuthService` and, on each device, `AuthInterceptor`, `SecureTokenStorage` and `AuthRepositoryImpl`, composed | detailed specification |
| `MCSessions` | symmetry | instance |
| `SessionsProofs` | theorems about `Sessions` | proofs |
| `AttendanceBook` | marks and their log, a roll call entered at once | abstract specification |
| `Attendance` | `AttendanceService.bulkMark` and `updateRecord`, statement by statement | detailed specification |
| `AttendanceProofs` | theorems about `Attendance` | proofs |
| `MCAttendance` | the roll calls of the instance, symmetry | instance |
| `OfflineSync` | the app's saves, queue file, drains and replays, over a server that enters a roll call at once | detailed specification |
| `OfflineProofs` | theorems about `OfflineSync` | proofs |
| `Server` | requests in progress, their memory, calls, deaths and plans; what the modules below share | library |
| `School` | the tables several services read, callers with roles and permissions | library |
| `StudentRecords`, `Registration`, `Affiliation`, `Classroom`, `Sharing`, `Coursework` | `StudentsService`; `AuthService.register`; profiles, verification, institutes, invites and payouts; `ClassesService` and `CalendarService`; `NotesService` and `AnnouncementsService`; `AssignmentsService` and `PerformanceService` | components |
| `Scopes` | who may read what in fees, reports, attendance and performance | pure operators |
| `SchoolService` | the composition of the six components over `School`, with `Scopes` | detailed specification |
| `MCSchool` | a small school and the plans | instance |
| `SchoolProofs`, `SchoolAccess` | theorems about `SchoolService`: types and what is counted; who may see what | proofs |
| `Notifications`, `Jobs` | `NotificationsService` and its scheduler; `StudentImportService` and the jobs of `ReportsService` | components |
| `Workflows` | the composition of the two, in one process | detailed specification |
| `MCWorkflows` | plans, the rows of the imports | instance |
| `WorkflowsProofs` | theorems about `Workflows`: its jobs, its notifications | proofs |

### Payments

A handler is a request in progress: `pc[h]` names its next statement, `job[h]` is what it holds in
memory (the entity it loaded, with the invoice status it saw) and `sums[h]` what getFinancials has
answered so far. One action per statement:

| Code (`fees.service.ts`) | Actions |
|---|---|
| createCreditNote | `StartNote`, `InsertNote`, then the recomputation |
| recordPayment | `StartRecord`, `InsertPayment` (UNIQUE idempotency key), recomputation, `GeneratePayout` |
| initiateGatewayPayment | `StartInitiate`, `ReadNotes`/`ReadPayments`, `OpenSession` |
| confirmGatewayWebhook | `DeliverWebhook`, `SettlePayment`, `AuditSettle`, recomputation, `GeneratePayout` |
| refundPayment | `StartRefund`, `InsertRefund`, `MarkRefunded`, `AuditRefund`, recomputation |
| recomputeInvoiceStatus | `ReadNotes`, `ReadPayments` (two queries sent together, answered in either order), `SaveStatus`, `CheckCredit`, `GrantCredit` |

The gateway (`GatewayDecides`, `DeliverWebhook`) decides a session once and repeats a webhook
until it is acknowledged. `Fail` kills a request between any two statements. Amounts are whole units
(cents). The sums of getFinancials are not: they are binary floating-point numbers that nothing rounds
before `SaveStatus` and `CheckCredit` compare them. The model counts them in grains, `Grain` of which
make a unit. A sum of one term, or a difference that is 0, is exact; any other may be one grain off
either way (`FloatSums`), which stands for an error far below half a cent. Amounts made from the sums
(`AmountDue`, `Overpay`) are rounded to units, as `round2` and `toFixed` do. So a fully paid invoice may
stay partial and an excess of nothing may be credited with 0.00, and both are findings (section 5).

### Invoicing

`generateInvoices` reads the fee and the enrollments and then, per student, `CheckExisting`,
`Price` (discounts in whatever order the query returns them), `ReadCredit`, `InsertInvoice`,
`InsertLine` for each item and `ConsumeCredit`. Enrollment rows are a sequence: nothing keeps two
rows from naming the same student. Money is in hundredths and `Round` rounds halves up, as
`Math.round` does; that JavaScript multiplies binary fractions before it rounds is abstracted to
the exact product. The running total is abstracted in the same way: the code subtracts rounded amounts
from a binary number without rounding the difference, whose error of the last bits may decide the rounding
of an exact half cent either way, or leave a credit of "-0.00" to consume where the exact total is 0.
Neither is modelled. Credit granted by overpayments is the action `GrantCredit`, the interface with
`Payments`.

### Sessions

One user, several devices. A pair is an access token and a refresh token issued together. The
server keeps the row of the refresh half (`token`), the access half is only signed and expires
(`stale`). On the server a request has a statement (`pc`) and memory (`job`); in each app `call`
holds the calls in progress, `flow` the login and the shared `_refreshFuture`, `store` the two keys
of the secure storage, written and deleted one at a time. Names of pairs that nobody holds any more
are used again, which keeps the state space finite without a bound on logins.

| Code | Actions |
|---|---|
| `AuthService.refresh` | `Find` (row and its user), `Revoke`, `Insert` |
| `AuthService.login` | `Login` (user found, password compared), `Insert` |
| `AuthService.deleteAccount` | `Delete`, `RevokeAll`, `SoftDelete` |
| logout, me, other calls | `Accepted` |
| `AuthInterceptor.onRequest`, `onError` | `StartCall`, `GiveUp`, `JoinRefresh`, `StartRefresh` |
| `AuthInterceptor._doRefresh` | the same, and `HearPair`, `HearRefusal` within the server's answer |
| `SecureTokenStorage` | `SaveAccess`, `SaveRefresh`, `ClearAccess`, `ClearRefresh` |
| `AuthRepositoryImpl`, `AuthNotifier` | `SendMe`, `Restore`, `End` |
| killed apps, lost connections, expiry, logout from elsewhere | `Kill`, `Disconnect`, `Lose`, `AccessExpires`, `TokensEnd` |

### Attendance

One class on one day. `bulkMark` is `StartMark` (the checks), `FindSession`, `SaveSession`, per student
`FindRecord` and `SaveRecord`, and `Commit`. A transaction's writes are its draft (`job[h].draft`)
until it commits. What keeps two roll calls apart is not the isolation level (READ COMMITTED) but the
session's row, which every one of them writes first: `lock` is the request that holds it, and of two
that insert the row the second is refused by UNIQUE (class, date) with a 500. `updateRecord` has no
transaction: `StartEdit` (load and compare), `EditLog`, `EditRead` and `EditSave` (`repo.save`).
`Cancel` and `Withdraw` stand for what the classes component may do meanwhile. Notes, who marked
and when are left out.

### OfflineSync

One device, one class and day. A task is an asynchronous call in progress: a save (`Save`, `Send`,
`Hear` or, after a network failure, `EnqueueRead`, `EnqueueWrite`) or a drain (`Drain`, `Replay`,
`Send`, `Hear`, `RemoveRead`, `RemoveWrite`, `DrainEnds`). The queue's file is read and written as a
whole, so two tasks that update it at once overwrite each other, and a read that meets a write may
see nothing. `TimeOut` is an answer that does not arrive, while the server goes on; `Kill` ends every
task and may cut the file short. The server is the abstract one of `AttendanceBook`: `Enter` or
`Refuse`; an error that is neither a network failure nor an answer (a broken connection) has the
effect of `Refuse` on the app. Rosters in the cache are for display and left out, and so is the error
text that `updateError` keeps with an action, since the only replayer does not throw.

### Server

`req[h]` is the memory of request `h`, a record whose `at` names its next statement; what a handler has
read stays there and may be stale when it is used. `Arrives` and `Start` are the routing of a call and
its handler up to the first write, `Goes` and `Reply` the statements after it, `Die` the failure of one
request and `Crash` the end of the process. A transaction's writes are one action, its commit, since no
other request sees them earlier. A request that is refused changes nothing and is left out.

A behaviour has a `plan`: the group of operations it calls, how often, and whether one after the other
(`Serial`) or two at once. Operations are grouped by the rows they share, which is what makes a small
number of calls interesting; all plans are initial states of one run.

### School and its services

`School` holds what several services read: `student`, `assigned`, `linked`, `login` (guardians.user_id),
`enrolled`, `profile` and `told` (whom notifyStudentParty told of what). Callers are access tokens: a user,
a role and an institute; `With` is the permissions guard. A guardian is the contact that
findOrCreateGuardian looks up.

| Code | Actions |
|---|---|
| StudentsService | `CreateStudent`, `CreateCommit`; `UpdateStudent`, `ArchiveStudent`, `SaveStudent` (whole row); `AddGuardian`, `LinkGuardian`; mergeStudents: `StartMerge`, `MergeFind`, `MergeCommit` |
| AuthService.register | `Register` (the check), `CreateUser`, `AssignRole`, `FindGuardians`, `JoinGuardian` for each guardian found |
| TeacherProfilesService, VerificationReviewService | `CreateProfile`, `InsertProfile`, `UpdateProfile`, `SubmitVerification`, `Review`, `SaveRequest`, `SaveProfile` |
| TeacherInvitesService, InstitutesService, PayoutsService | `CreateInvite`, `Expire`, `Redeem`, `Affiliate`, `Redeemed`, `Archive`, `MarkPaid`, `SavePayout` |
| ClassesService | `CreateClass`, `UpdateClass`, `SaveClass`, `CreateSchedule`, `OpenVersion` (its transaction), `CreateException`, `Enroll`, `CountSeats`, `TakeSeat`, `AddToWaitlist`, `Wait` |
| NotesService, AnnouncementsService | `CreateDocument`, `CreateShare`, `GetFileContent`, `Lapse`, `CreateAnnouncement` |
| AssignmentsService, PerformanceService | `CreateAssignment`, `Due`, `CreateSubmission`, `Submit`, `ReviewSubmission`, `SaveReview`, `CreateMetricDefinition`, `RecordPerformance` |
| notifyStudentParty | `TellStudentParty`, the last statement of what tells somebody |

The queries are operators, one for each copy in the code: what a service lists (`ListedStudents`,
`ListedClasses`, `ListedDocuments`, `ListedAssignments`, `ListedMetrics`, `OwnCalendar`, `InvoiceOverview`,
`ReportClasses`) and what it opens (`HasReadAccess`, `CanReadClass`, `CanReadDocument`, ...). A recurrence
rule is the set of days it names and an interval of hours; the expansion of RRULE strings is a library.
A class without capacityMax takes everybody and is left out, since nothing is counted for it. That
the relation to an archived institute loads as null is modelled where `Affiliation` reads it; what
the archive does to other services' queries is not.

### Notifications and Jobs

| Code | Actions |
|---|---|
| notify, pushNow | `Notify`, `Insert`, `FindTokens`, `Send`, `Prune`, `Deliver` |
| runDigestBatch, the scheduler | `RunDigest`, then the actions of pushNow for each user's batch |
| markRead, markAllRead | `MarkRead`, `SaveRead` (the row it loaded), `MarkAllRead` |
| updatePreference, registerDeviceToken | `UpdatePreference`, `SavePreference`, `RegisterDevice`, `SaveDevice` |
| softDeleteUser of UsersService | `DeleteAccount` |
| a statement that fails, a push that is rejected | `Throws` |
| createExportJob, processExportJob | `CreateJob`, `Begin`, `Generate`, `WriteObject`, `Complete`, `Throw`, `Catch` |
| createImportJob, processImportJob | `CreateJob`, `Begin`, `ImportRow` for each row, `Finish` |

The push provider is external: it may report any of a user's tokens as invalid. All events are of one
category with one default channel. A run of a digest is a request of its own (`Digests`), named as its channel.
A soft-deleted user's rows stay, but a query that goes through the relation to the user does not find
them: `DevicesOf` is empty, no preference is found, markRead throws, and so does every run of a digest that
has such a row to deliver, before it pushes anything (`Stuck`).
Both work in the process that accepted the call, so `Crash` ends everything at once. The module is of one
process. `docs/02-architecture.md:26` draws stateless, autoscaled pods; each of them would run the timers
of its own, and two digests of one channel would push the same rows twice. `PushedOnce` says nothing of
such a deployment.

## 3. Runs

| Run | Instance | Shows |
|---|---|---|
| `payments_concurrent` | two requests, one invoice, a client key and a gateway session, overlapping deliveries, one death | the rows back each other (`GatewayTruth`, `RefundBacked`, `PayoutBacked`, `StatusBacked`) and nothing written is rewritten (`HistoryKept`) |
| `payments_serial` | one request at a time, one death, several payments | the stored status is one that the rows give (with the error of their sums), no credit twice, audit rows complete |
| `payments_live` | as the first, with fairness and no overlapping deliveries | settled sessions are reconciled, `PaymentLifecycle` is implemented |
| `payments_redelivery` | overlapping deliveries | **violation**: a repeated webhook turns a refunded payment back into a confirmed one |
| `payments_lost_payout` | a death after the status was saved, fairness | **violation**: the payout of a confirmed payment is never generated |
| `invoicing` | two requests, three classes, two students, up to two of three discounts (300 %, 50 %, a flat one), one credit, one death; requests that share a student do not overlap | `Billing` is implemented, credit is consumed once, line items explain the total, which exceeds the fee only where a percentage above 100 makes it, a repetition bills exactly who was left out |
| `sessions_calls` | one device, two calls at once, a lost connection or killed app | a refresh token is exchanged once by a healthy app, and its user is never sent to the login screen |
| `sessions_live` | one device, one call at a time, one fault, one logout or deletion, fairness | every call of the app ends; after a deletion no request gets to know the user any more |
| `attendance` | two requests, two students, two roll calls, one death, one correction by itself | `AttendanceBook` is implemented (a roll call is entered as a whole and each change is logged with the mark it replaced), and a roll call that commits is in force |
| `offline` | two tasks, two saves, one outage, one kill, one overlap in the file, fairness | a save is answered, queued or on its way unless the app was killed or two tasks met in the file; the queue runs empty |
| `school` | four students, four teachers, three guardians, three classes, two institutes, eleven callers (two of them users with a second role) and two who register; sixteen groups of operations, two or three calls, one after the other and two at once, one death | merges lose nobody (`MergeKeepsPeople`), seats, days, attempts, reviews, codes and payouts are right up to the calls that overlap (`SeatsBounded`, `EveryDayScheduled`, `AttemptsNumbered`, `VerificationBacked`, `UsedOnce`), registration reaches the family (`FamilyReached`), whoever was told of something can open it (`ToldCanRead`), a list shows nothing that would be refused (`ListedIsReadable`) and the copies of a rule agree (`CopiesAgree`, `CalendarAgrees`) |
| `workflows` | two requests and a digest, two users, a device, one export and two imports, one death of the process, fairness | a notification is pushed once (`PushedOnce`) and every row of a digest is delivered unless its channel waits behind a row of a deleted account (`DigestDelivered`); every job ends unless its process died (`JobsEnd`), and what it says then is so (`JobsAccounted`) |

Bounds, and why they are enough. Requests interact only through rows, and each of the races above
needs two of them on one invoice, one student or one account; a third would have to conspire with
both. One death is enough to leave any of the partial writes behind; a second one leaves two of
them behind, each of which the invariants already allow. Amounts are chosen so that a payment is less
than, equal to or more than the invoice. `MaxNotes`, `MaxRefunds`, `MaxFails`, `MaxFaults`,
`MaxOuts`, `MaxDiscounts`, `MaxGrants`, `MaxEdits`, `MaxLog`, `MaxSaves`, `MaxOutages`, `MaxKills`,
`MaxOverlaps`, `MaxDeaths` and `MaxRows` stop counters, `MaxInFlight` and `MaxOverlap` say how much
may overlap. `Pairs` has as many names as devices, calls and requests can hold. `Plans` bounds the calls
of `Server`: two calls are one race, or a call and the repetition of one that died; three are a race
after a call that prepared it (a schedule version, an attempt, a profile under review). Three calls
among merges and shares have more states than all other plans together and are left to the theorems:
`Told` and `Merged` hold for any number. The first rows
of the school are what earlier calls would have left: a student with two teachers and two guardians,
students who share a teacher, a class that is one enrollment away from full, a household whose parents
share a phone. `MaxRows` is two: a batch of two rows of one user, or one row each of two users. The
theorems below need none of the bounds.

Several properties of `school` are stated for two situations at once. One call at a time (`Serial`) they
are exact, whatever died; with two at once they say by how much two calls that both read before either
writes can be off (`Racing`), which is what the code, with neither locks nor constraints, still keeps. The
exact statements fail there, and those failures are findings (section 5).

Deadlock is checked where the system goes on for ever; runs that use up their bounds, or end with
a deleted account, say so in their cfg.

Fairness. `Payments`: weak fairness of the next statement of each accepted request (the event
loop goes on with what it has begun, and a death is a step of its own), and of the gateway's
repetition of each unacknowledged webhook, which every gateway promises and the docs assume
("never left stuck", `docs/01-product-analysis.md:63`; "a retried gateway webhook",
`docs/03-database-schema.md:242`). `Sessions`: weak fairness of each request on the server and of
each app's own steps. `OfflineSync`: weak fairness of each request and each task, of the timer
that starts a drain every two minutes, and of the network's return; `RunsEmpty` promises something
only if the network stays and the attendance screen is opened. `Workflows`: weak fairness
of what is in progress (the event loop serves it) and of the timer of a digest, which fires again and
again; no call has to arrive, and none to be repeated. Clients and users promise nothing. With overlapping deliveries the life
cycle is not implemented (`payments_redelivery`), which is why `payments_live` gives each session
one delivery at a time; a gateway that waits for its time-out to pass is of that kind.

## 4. Theorems

All are proved for any number of requests, rows, devices, jobs, classes and days and any amounts, from
the constants' assumptions only. Some assume a setting of the model besides, as the runs do: two theorems
of attendance `EditsAlone`; four of invoicing `MaxOverlap = 1`; of payments
one `MaxInFlight = 1` and three `Serial`, that there is one request slot.

| Theorem | States |
|---|---|
| `PaymentsProofs!TypeCorrect` | `Spec => []TypeOK` |
| `PaymentsProofs!Invariant` | `Spec => []IInv` |
| `PaymentsProofs!GatewayTold`, `RefundsBacked`, `PayoutsBacked`, `StatusesBacked` | the four money invariants |
| `PaymentsProofs!NothingRewritten` | `Spec => HistoryKept` |
| `PaymentsProofs!LifecycleImplemented` | `MaxInFlight = 1` implies `Spec => ImplementsLifecycle` |
| `PaymentsProofs!StatusesAgree` | `Serial` implies `Spec => []StatusAgrees` |
| `PaymentsProofs!CreditedOnce`, `AuditTold` | `Serial` implies `Spec => []NoDuplicateCredit`, `Spec => []AuditComplete` |
| `InvoicingProofs!TypeCorrect` | `Spec => []TypeOK` |
| `InvoicingProofs!Billed` | `Spec => []AllBilled` |
| `InvoicingProofs!CreditEntered` | `Spec => []CreditAccounted` |
| `InvoicingProofs!BilledOnce`, `CreditBacked` | `MaxOverlap = 1` implies `Spec => []NoDoubleBill`, `Spec => []BalanceKept` |
| `InvoicingProofs!Explained` | `MaxOverlap = 1` implies `Spec => []ItemsExplainTotal` |
| `InvoicingProofs!BillingImplemented` | `MaxOverlap = 1` implies `Spec => ImplementsBilling` |
| `SessionsProofs!TypeCorrect` | `Spec => []TypeOK` |
| `SessionsProofs!DeletedOut` | `Spec => DeletedStaysOut` |
| `SessionsProofs!UsedOnce` | `Spec => []SingleUse` |
| `SessionsProofs!NotForcedOut` | `Spec => []NeverForcedOut` |
| `AttendanceProofs!TypeCorrect` | `AttendanceSpec => []AttendanceTypeOK` |
| `AttendanceProofs!RollsInForce` | `EditsAlone` implies `AttendanceSpec => RollInForce` |
| `AttendanceProofs!BookImplemented` | `EditsAlone` implies `AttendanceSpec => ImplementsBook` |
| `OfflineProofs!TypeCorrect` | `Spec => []TypeOK` |
| `OfflineProofs!SavesAccounted` | `Spec => []Accounted` |
| `SchoolProofs!TypeCorrect` | `Spec => []TypeOK` |
| `SchoolProofs!OneAtATime` | `Spec => []Alone` |
| `SchoolProofs!Scheduled` | `Spec => []EveryDayScheduled` |
| `SchoolProofs!Seated` | `Spec => []SeatsBounded` |
| `SchoolProofs!Numbered` | `Spec => []AttemptsNumbered` |
| `SchoolProofs!Verification` | `Spec => []VerificationBacked` |
| `SchoolProofs!Invited` | `Spec => []UsedOnce` |
| `SchoolAccess!Listed` | `Spec => []ListedIsReadable` |
| `SchoolAccess!Flagged` | `Spec => []CalendarAgrees` |
| `SchoolAccess!Agreed` | `Spec => []CopiesAgree` |
| `SchoolAccess!Merged` | `Spec => MergeKeepsPeople` |
| `SchoolAccess!Told` | `Spec => []ToldCanRead` |
| `SchoolAccess!Families` | `Spec => []FamilyReached` |
| `WorkflowsProofs!Accounted` | `Spec => []JobsAccounted` |
| `WorkflowsProofs!Pushed` | `Spec => []PushedOnce` |

**Payments.** Type correctness is not inductive by itself: that an amount stays within bounds when
a gateway payment's amount is a difference of two sums read at other times, or that a credit is
positive, depends on what a handler at that statement has already checked. `TypeInv` adds, per
handler, what its statement says of its memory (`HandlerOK`), that the payment it works on exists
(`TargetOK`), and per row what its key says of it (`RowOK`). The money invariants need what a
handler has already written or checked (`WorkOK`): a webhook past its save stands for a received
payment, a refund past its insert for a refund row, a sum above zero for a received payment of that
invoice. The heart of the proof is that no step takes back what another handler relies on (`Kept`):
a row once received stays received, although a webhook's handler writes a status it decided on
earlier, because by then the gateway has decided the session and decides once. Then each action has
to look only after its own handler and the rows it writes. `HistoryKept` follows action by action.

That the handlers implement `PaymentLifecycle` needs `DeliveryInv`: of each session at most one delivery is
in progress, and while it is about to settle the payment, that is still pending, as nobody else settles it.
With overlapping deliveries the second one overwrites what came after the first (`payments_redelivery`).
The other three properties hold of one request at a time, since a handler acts on what it read by an
earlier statement. `AgreeInv` says that what it read is then still so, also when others have died: the
status it saw is the one in the row (`Seen`), so the comparison before the write is sound, and the sums are
among those its rows may give (`Summed`). An invoice whose status does not fit its rows is then the invoice of the
handler in progress, which has still to recompute it (`Owes`), unless a request has died; and whatever has
died, the status fits once a handler is past the write. `GrantInv` says that a credit about to be granted
is not in the ledger, `AuditInv` that the one row missing from the audit log is the one the handler is about
to write, and `FoundInv`, which the last and `AgreeInv` need, that a handler about to settle or refund a
payment finds it pending or confirmed as it was.

**Invoicing.** Two invariants hold however requests overlap. `Sound` is the types with what each statement
says of its request (its row exists, the student is enrolled in its class, the credit is at most what is
due) and `AllBilled`; since no step removes an invoice, whoever has one keeps it. `Accounted` is the
account of the credit: what the invoices of a student consumed, less what requests past the insert still have to
enter, is what the ledger says, as long as none of them died. The other properties need requests in
progress to have no student in common (`MaxOverlap = 1`), because the code checks by one statement and
acts by a later one. `Alone` says what that buys: what a request has found, that there is no invoice
(`Fresh`) and that there is so much credit (`Funded`), is still so when it acts, as only a request of
the same student undoes it. `Clear` says of a request's line items that those it has saved and those it
is still to save add up to the total of its invoice, for any discounts in any order. With these
`InsertInvoice` is the step `Bill` of `Billing`. The grant of credit is `Add`, and so is the death of a
request that had inserted an invoice and not yet entered the credit it consumes; all other steps,
`ConsumeCredit` among them, change neither the bills nor what is left of a balance.

No invoice is dearer than its fee as long as no discount in the table is above 100 percent
(`OnlyReductions`). Nothing in the code sees to that (section 5), so it is a condition on the state, and
`ItemsExplainTotal` and the theorem hold with such discounts too: the run has one of 300 %. Since discounts
are only added, the condition, once false, stays false, which is what the proof needs.

The sums are folds of the community modules, so what they add up to is a fact about a function
defined by recursion on finite sets. The library's induction theorems are of no use to the provers; what
is used in their place is a least counterexample (`WFMin`): `AddsExists` and `AddsAgree` say that there is
one such function, and `TotalMore` that another element adds its amount. The price, a fold over the
discounts, is treated in the same way.

**Sessions.** `TypeInv` adds to the types what each statement says of its request. `DeletedStaysOut`
is an action property: only `Find` lets a request know the user, and it looks at the account; only
`Insert` makes a row live, and its request is over. `SingleUse` needs `Rotation`, which holds for as
long as nothing has failed: the app waits for every refresh it asked for (`Asks`) and asks for one at a
time (`Alone`), what it stores was issued to it (`Owns`), and a row that was used is dead (`Once`). A
server-side check would not need the app for this; the code's does, since check and revocation are
separate statements. `NeverForcedOut` rests on it: a refresh that an app waits for finds its row live,
because nobody else exchanges that token, and so is never refused. `Undisturbed`, which holds while nothing
has failed and nobody has logged out, says that of the requests (`AskOK`), and of each device that
what it relies on between two refreshes can be exchanged (`StoreOK`), that of a pair written half by half
the other half is still at hand (`FlowOK`), and that a refresh in progress has a call that waits for it
(`PlaceOK`), so that a login, which begins only when all calls are at rest, and a refresh never write
the storage at once. What a request revokes is not what a device relies on (`ReliedOnApart`).

**Attendance.** `MarkInv` says what a roll call past the session's row may rely on: it alone holds
the row (`lock`), each record in its draft replaces the mark that is in the table by the one it
calls (`Drafted`), and every student it has looked at is in the draft, about to be, or marked
already (`Seen`). So no other roll call changes a mark under it, and at `Commit` the draft is the
roll of `Book!Enter`. `EditInv` says of a correction that it has seen the mark in the table and that,
once logged, its audit row is the last: `EditLog` is a stutter of the book and `EditSave` enters the
one student. Both need `EditsAlone`: `updateRecord` takes no lock, and without the assumption TLC
finds the log that does not explain the marks (section 5).

**OfflineSync.** `Accounted` is inductive only together with what makes the rewriting of a file atomic.
`Exclusive` says that, as long as the app was not killed and no two tasks met, at most one task is
between its read and its write of the file, and what it has read is the file; `Carries`, that a task
about to remove an action from the queue has had it answered, and that one about to write has the
action it adds. Then a write adds one action or takes out one that has been answered.
That `Remaining` takes out nothing else is a fact about a function defined by recursion on positions:
that there is one is proved by a smallest counterexample (`KeptExists`), as for the folds of invoicing.

**School.** Two modules share one argument. `TypeOK` says of every table what its columns and unique
indexes say, and of every request what its next statement uses: that the rows it found are still there,
the handler it belongs to, who is in its list. `OneAtATime` (`Alone`) makes the serial plans usable: at
most one request is in progress. `Moves` says once what a step of each service may touch, so a proof about
one service has one case for all the others.

*Days.* That no day is without a version is not inductive: the step that inserts a version ends another
one on the day before, and what it ends was read by an earlier step. `ScheduleInv` adds that a request
between the two remembers a well-formed open version; that the version may have been ended by another
transaction meanwhile does no harm, because the new one covers every day from its start on.

*What is counted* is bounded together with what is still to be written. `SeatInv` adds to the seats of a
class the requests that are about to take one, `AttemptInv` to the attempts of a student the submissions
on their way, `PaidInv` to the payouts the requests that will save one as paid. Whoever enters that set has
just counted, and saw less than the bound, or found others in the set, which are fewer than `Racing`. For
the numbers of attempts one more fact is needed: every number is at most the count of the attempts
(`NumbersCounted`), so a request that counts later takes a number that none before it has. `VerifyInv`
relates a profile to the requests for verification and to the reviewer who has saved one of the two.
`UsedOnce` needs two: `JoinInv` bounds the teachers who joined by the codes used, plus the requests that
have affiliated a teacher and not yet used the code (`Owing`), less those that will affiliate one with a
code used already (`Late`); `InviteInv` says for serial plans that the redeemer of a code is a member.

*Who may see what.* `ListedIsReadable`, `CalendarAgrees` and `CopiesAgree` compare queries over the same
tables: they follow from the type invariant and `KnownOK` (who a guardian's login may be, which metrics
exist) without looking at steps, so they hold in every state of that form, not only in reachable ones.
`MergeKeepsPeople` needs what a merge remembers to be the rows of the merged record (`MergeInv`).
`ToldCanRead` needs two invariants: `ReachInv`, that what someone was told is still shared with the student
it was about, and `ConnectInv`, that the reader is still that student or a guardian's account, unless
one of the exceptions holds. `FamilyInv` says which guardian is reached, or by which request in progress it
will be: `RegisteredOnce` keeps two requests from registering one user, `Parental` says whose account a
guardian may have.

The proofs changed the model in three places. `ToldCanRead` was false as first stated: of two overlapping
merges of one record the second moves on the guardians the first had moved, and a survivor's guardians
lose what they were told. It takes three calls, one more than the run makes; the exception is in the
property now and the race among the findings. Registration could give a row to a user `None`, or an
account no role: what the identifiers of users and rows are is now assumed by name
(`RegistrationAssumption`, `InvitesAssumption`, `ServicesAssumption`, `TablesAssumption`,
`RecordsAssumption`, `ClassroomAssumption`, `CourseworkAssumption`): the rows at first obey the schema's
foreign keys and unique indexes, None is no row and no id, and ids of different tables differ, as uuids do.
`RolesAssumption` says that who owns the record of a teacher, student or guardian can act in that role
too, and that new accounts may be parents. The code gives a teacher's record to teachers, a student's
and a guardian's by `register` and invites; it leaves out an institute_admin without the teacher role who
makes a teacher profile, of whom `CopiesAgree` says nothing (section 5).

**Jobs.** `JobsAccounted` speaks of jobs that have ended; `JobsInv` says what leads there: a job is
worked on by one request (`Alone`), whose memory agrees with the tables (`MemoryOK`: an import's counts
in memory are the students created so far, an export about to complete has its file), and a job that
was not asked for has created nobody (`Fresh`). A crash keeps all of it, since it forgets memory only.

**Notifications.** `PushedOnce` counts how often a row was pushed and compares that with the deaths of the
process, so the invariant has to say where the row is in between. `InboxInv`: a row waits in the batches of
one request at most (`Single`), since a digest takes only the rows of its own channel and nobody else
takes those (`Owned`); one in hand and unread has not been marked as delivered (`Unmarked`), so the next
digest, which takes unmarked rows, cannot take it again once it is marked; and a row that is unread,
unmarked and not yet sent was pushed no more often than the process has died or a statement has failed
(`Counted`). A death or a failure between the push and the mark is what makes the row be pushed again. It needs that a digest
is not called like one of the two channels it never takes, `push` and `off` (`NotificationsAssumption`).

Only model-checked: liveness (`SettledIsReconciled`, `CallsEnd`, `RunsEmpty`,
`DigestDelivered`, `JobsEnd`), which needs ENABLED. Every invariant and action property that a passing run
checks is a theorem, under the settings named above, and so are the three refinements.

## 5. Where the code and its documentation part

The two violation runs, and findings listed without a run (their counterexamples are easily had from the
models by stating the sentence as an invariant, or with the constant named):

- two generations of invoices that overlap bill a student twice for a period (`fees.service.ts:271`;
  `NoDoubleBill` with `MaxOverlap = 2`), and consume the same credit, so the balance becomes negative
  (`:356`);
- two refund rows of the full amount for one payment, after a request that died or in two that overlap
  (`fees.service.ts:709`);
- a fully paid invoice stays partial where the floating-point sum of its payments falls short of it by
  the last bit: 0.70 and 0.10 on 0.80 (`fees.service.ts:813`; `StatusAgrees` with exact sums), and an
  error the other way, 1.10 and 2.20 on 3.30, writes a credit of 0.00 (`:825`);
- a grown overpayment is credited in full on top of the earlier credit (`fees.service.ts:827`);
- a refresh that passed its check inserts its row after `deleteAccount` has revoked all rows
  (`auth.service.ts:281`); `DeletedStaysOut` says that the row is of no use to anyone;
- a registration that dies after its first statement leaves an account without a role, guardians that
  stay unlinked and an e-mail that is taken; of two parents who register at once and share a guardian's
  contact, the later takes over a row the earlier was just linked to (`auth.service.ts:105`;
  `FamilyReached` without `deaths = 0`);
- an older roll call that was queued or slow is entered over a newer one
  (`attendance_repository_impl.dart:63`);
- the replayer gives up a queued save at any error but four (`attendance_providers.dart:31`), so also
  at a 500, a 429 or an expired login, and nobody is told;
- a queue file that was cut short is read as an empty queue (`json_file_store.dart:32`), which is
  called recoverable, but a queued save has no other source;
- a correction that dies after its audit row, or overlaps a roll call, leaves a log that does not
  explain the marks (`attendance.service.ts:283`; `ImplementsBook` with `EditsAlone = FALSE`);
- of two merges of one record that overlap, the second moves on the guardians that the first had moved
  (`students.service.ts:368`; `ToldCanRead` without its last exception, three calls among merges and shares);
- a merge into an archived record leaves both archived, and moves assignments and guardians only
  (`students.service.ts:368`);
- a class is filled beyond its capacity by two enrollments (`classes.service.ts:269`; `SeatsBounded` with
  `Racing = 1`);
- a version that starts in the future ends the current one, and its last occurrences vanish from
  calendars, which look at the open version only (`classes.service.ts:502`);
- a review that dies between its statements leaves a pending profile with no request
  (`verification-review.service.ts:97`; `VerificationBacked` without `deaths = 0`);
- one invite code serves two teachers, and a code of an archived institute clears the teacher's own
  (`teacher-invites.service.ts:124`);
- whether a teacher may report on a student is read from invoices and attendance records instead of
  the assignments (`reports.service.ts:501`; `CopiesAgree` without its exception);
- two submissions get one attempt number (`assignments.service.ts:303`; `AttemptsNumbered` with
  `Racing = 1`);
- a job whose process died stays in progress for ever (`reports.service.ts:373`; `JobsEnd` without
  `Abandoned`);
- a pending row of a deleted account ends every later digest of its channel before anything is pushed
  (`notifications.service.ts:280`; `DigestDelivered` without `Stuck`);
- a percentage above 100 passes validation (`create-discount.dto.ts:27` asks for `@Min(0)` only), and a
  second percentage is then of a negative running total and a surcharge: two of 300 % make an invoice of 400
  for a fee of 100 (`fees.service.ts:343`; `ItemsExplainTotal` without `OnlyReductions`);
- rows of a digest are marked as delivered although the provider refused every token
  (`notifications.service.ts:127`).

Noted while reading, not modelled or visible only in part:

- the replayer is registered when the attendance screen is first opened, so after a restart drains
  pass over the queue until then (`sync_engine.dart:76`; `OpenScreen`);
- of two first roll calls of a class at once the second is answered 500 (`SaveSession`), and if it is a
  replay it is dropped;
- the queue belongs to the device, not to the user: after a logout the next user's login replays it;
- a discount may target a student and a class at once although the DTO says exactly one of the two
  (`fees.service.ts:178` rejects only neither; the lookup at 337-339 is an OR);
- of a user with two roles, reports and announcements look at the role of the token alone, while
  students, fees and notes look at all the user's profiles and children, so a parent who teaches may
  read a child's record but not export it with the teacher's token (`CopiesAgree`);
  of an institute_admin who has a teacher profile but not the role, notes follow the profile and
  announcements do not (`RolesAssumption`);
- `overdue` is never recomputed on a read, though `docs/07-roadmap.md:149` says so;
- of two classes of one teacher only the first is ever billed for a period (271-279): the check is
  per teacher, not per class;
- a death after the invoice was saved leaves it without line items, and a repetition skips it;
- a parent who deletes the account and registers again is not linked: `guardians.user_id` still names
  the deleted user, and `register` looks for rows without one (`auth.service.ts:105`);
- `schedule_exceptions` are stored, but calendar and conflict warnings ignore them, as a comment says
  (`calendar.service.ts:205`);
- a logout that overlaps a refresh leaves the new tokens on the device
  (`auth_repository_impl.dart:69-74`);
- a wrong password on deletion is a 401 and makes the app refresh and repeat the call;
- two calls that are refused for good each clear the tokens, the second one possibly those of a new
  login.

## 6. Not modelled

- Users and admin, the throttler, the storage's bytes and the app's screens keep no state that another
  component reads between two steps; the permissions guard is `School.With`.
- The contents of reports and exports, the sums of the revenue summary, and due dates of assignments and
  invoices in calendars are pure functions of rows.
- Students' invites (`createInvite`) write one row that no endpoint redeems.
- Creating and renaming institutes and branches, editing profiles beyond the verification, and setting an
  institute's payout percentage write single rows. What an archived institute hides from the queries
  of other services is not modelled: their relation to it loads as null, so its administrator no longer
  administers what they compare with it (`Administers`).
- Signature checks, password hashing, validation, wording, layout and pagination are data.
- Corrections that overlap a roll call are modelled (`EditsAlone = FALSE`) but no run promises anything of
  them: the log then does not explain the marks (section 5).
- Deleting an account is in `Sessions` and, as far as its notifications go, in `Notifications`;
  registering is in `Registration`. The three are not composed, nor is the deletion with `School`.
- Several server processes that each run the timers of the digests (section 2).

## 7. Plan

Of the modules planned at first all are written. Worth doing next, in this order:

1. The revenue summary and the contents of reports as operators over the rows of `Payments` and
   `Invoicing`, checked against a reference definition.
2. The throttler's counters, and the account's deletion composed with `School`.
3. Proofs of what the serial theorems say for requests that overlap on different invoices or students only.
