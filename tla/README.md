# TLA+ models of the NexSMSID V4 school management system

This directory keeps formal models of the parts of NexSMSID whose correctness
depends on the order in which requests, jobs and failures interleave, the TLC
runs that check them, and theorems about them checked by TLAPS. `PROJECT.json`
is the index: components, runs, the source lines each definition stands for,
the hazards of the code and the theorems.

Contents: 1 the system · 2 how it is modelled · 3 the modules · 4 the runs ·
5 what the models show about the code · 6 the proofs · 7 not modelled · 8 what remains

## 1. The system

`apps/api` is a NestJS application over PostgreSQL (through Prisma, READ
COMMITTED) with BullMQ/Redis for report jobs and in-process cron jobs
(`@nestjs/schedule`); several API processes may run. `apps/web` is the Next.js
front end, `packages/api-client` the browser client. Paths below are relative
to `apps/api/src` unless they say otherwise.

A request handler is a sequence of SQL statements with awaits in between. The
prevalent pattern is *read a row, check its status, then update it by id*; at
READ COMMITTED anything may happen between the two statements. A few operations
protect themselves: `SELECT ... FOR UPDATE`, a conditional `updateMany` used as
an atomic claim, a unique index with a retry. Most of the models are about what
those protections guarantee and what their absence allows.

### Inventory of components

| component | state | operations | what is hard | what makes it correct |
|---|---|---|---|---|
| Billing (`invoices`, `payments`) | `invoices.status/total/paidAmount`, `payments.status` | create, update, issue, cancel, delete an invoice; record, verify, reject, cancel a payment; nightly and on-read overdue sweep | two transactions on one invoice, rejection and cancellation by stale status, crash inside a transaction | balance = sum of verified payments; never above the total; status agrees with balance |
| Identity (`auth`, `users`, sessions) | users' counters and locks, refresh tokens | login with lockout, refresh with rotation and reuse detection, logout, change and reset of passwords, session revocation | replayed and concurrent refreshes, revocation against a token about to be inserted, guesses in flight | a token is used once; a revocation ends sessions; guesses are bounded |
| Report jobs | `report_jobs`, `export_histories`, BullMQ entries | generate, cancel, enqueue with fallback, process, two cron jobs | at-least-once delivery, crashes and stalls, errors after success | generated once; status agrees with the export; nothing waits for ever |
| Library | loans, copies, members, fines | lend, return, lose, cancel; edit and delete copies and members | limit by count, copy claimed by a condition, returns by stale status, lock order | loan limit; one loan per copy |
| Letters | letters, approvals, number sequences | draft, submit, decide, number, issue, archive, cancel, reopen | double issue, numbers given up by failed transactions, decisions against resubmission | unique numbers without gaps; issued only if approved |
| PPDB admission | periods, registrations, students | public and office registration, selection, conversion | quota by count under a lock, number from a count, conversion checked outside its transaction | quota; one student per registration |
| Payroll | periods, runs, items, payslips | open, calculate, approve, pay, close, cancel, mark a payslip paid | several statements without a transaction; calculation overtaken by approval | a run has the items of one calculation; a paid period has paid runs and payslips |
| Inventory | items' quantity, loans | movements, lend, return, delete | quantity checked outside the transaction; lending in three writes | quantity and loans account for every unit; shortage bounded by the requests in flight |
| Grades | scores, notifications of students | input, correction, approval | approval against input and correction; a second approval is deduplicated away | students with an active account are told that their scores are approved |
| Exams | participants and their numbers, results | add one, many, remove, submit | numbers by maximum; results looked up before they are written, answers listed twice | numbers 1..n; one result per question |
| HR and leave | leave requests | create, edit, decide, cancel, delete | stale status, partial edits | days agree with dates |
| Internships | status, score, final score in two rows | start, score, complete, update, cancel, delete | the final score is copied by two operations | the copies agree |
| Timetable and teaching assignments | lessons, assignments | create, update, delete; reassign | conflicts are checked across rows (SERIALIZABLE), reassignment is not | nobody and no room has two lessons at a time |
| Attendance | session and records of a lesson | create the session, record | upserts by hand, locks in the order of the input | recordings do not mix |
| Academic years, semesters | `isActive` | create, update, activate, delete | the others are deactivated in a second statement | at most one is active |
| Browser client, session route | cookie jar, one refresh in flight per tab | request, 401, refresh, retry, navigation, logout, revocation | tabs and the web server refresh independently; a revocation leaves the cookies | a user who did nothing wrong stays logged in |
| Roles and permissions | `user_roles`, `role_permissions` | replace, delete a role | DELETE and INSERT at READ COMMITTED | an owner has what the last replacement gave |
| Portal provisioning | users, `students.userId` | provision, reset a password, delete | two provisionings of one student | the student's account is linked, and the last password opens it while its user exists |
| Announcements, notification dispatch | announcements, notifications with `dedupeKey` | publish, update, archive, delete, notify | deduplication by look-up before the insert; failure halfway through the audience; the audience is edited | the audience notified, and nobody again and again |
| Expenses, internship logs and job placement, counseling, discipline | one status column each | guarded status changes | stale guard, lost decision | only the listed transitions happen |
| Document numbers | count + 1 and a unique index | creation with five attempts | exhaustion under contention | unique; a retry makes progress |
| Internal messages, notification lists and templates, portals, people and master data, reports and dashboards, PDF/Excel, audit, platform, web | rows, files, messages | CRUD, aggregation, rendering, delivery | little interleaving of their own | database constraints |

Interactions: payments write invoices under the invoice's row lock; letters,
report jobs and PPDB call notifications and audit inline, so that their failure
is a failure of the operation; report jobs append to the export history; PPDB
conversion creates students (and portal accounts in the same transaction); the
browser client and the web server both call `auth/refresh` on the same cookie
(`RefreshClient` composes them with the server's sessions).

## 2. How it is modelled

* One action is **one SQL statement with the computation that follows it**; a
  request is a process whose field `at` names the statement it executes next.
  Statements of different requests interleave in every way.
* READ COMMITTED: variables hold committed rows. A transaction's writes appear
  in its last step. Its row locks are derived from where it is (`HoldsInvoice`,
  `HoldsCopy`, `Holds`, `HoldsPeriod` ...), and statements that need a locked
  row are not enabled. A plain update outside a transaction waits for locks
  too, and then writes without looking again: that is the code's behaviour.
* `Abandon` (every module) is a crash, a lost connection, a transaction timeout
  or an error thrown by a statement: nothing uncommitted survives, what earlier
  statements committed does.
* Inputs come from small sets; ids are model values. Amounts, totals, limits and
  quotas are numbers, because arithmetic on them is what can go wrong. Audit
  records, wording and personal data are left out.
* Variables marked *history* in the modules are not in the code. They record
  what a property needs to know of the past; no action is enabled or disabled
  by them, with the exception of bounds that say so (`MaxEpoch`, `MaxNumber`) and
  of `Timetable!reassigned`: a clash brought about by a reassignment does not
  make a serializable transaction fail (it may fail anyway, see `Abandon`).
* Definitions named `X_Y` with the comment "Variant with a defect" are the code
  with a plausible bug. No specification uses them. Each property is known to
  fail when its variant (the `mutants` of `PROJECT.json`) replaces the original.

## 3. The modules

| module | models | composes / used by |
|---|---|---|
| `PaymentLedger` | abstract: settlement, reversal, closing and striking of payments as single steps | implemented by `Billing` |
| `Billing` | `invoices.service.ts`, `invoice-overdue.service.ts`, `payments.service.ts` | `MCBilling`, `BillingProofs` |
| `AuthSession` | `auth.service.ts`, `users.service.ts` (deletion, password), `sessions.service.ts` | `MCAuthSession`, `AuthSessionProofs`, `RefreshClient` |
| `ReportJobs` | `report-jobs.service.ts`, `report-queue.service.ts`, `report-schedule.service.ts`, BullMQ | `MCReportJobs`, `ReportJobsProofs` |
| `LibraryCirculation` | `library-circulation`, copies of `library-catalog`, `library-members` | `MCLibraryCirculation`, `LibraryProofs` |
| `Letters` | `letters.service.ts`, `letter-number.service.ts` | `MCLetters`, `LettersProofs` |
| `Admission` | `public-ppdb.service.ts`, `ppdb-registrations.service.ts`, `ppdb-periods.service.ts` | `MCAdmission`, `AdmissionProofs` |
| `Payroll` | `payroll.service.ts`, `payroll-calculation.service.ts` | `Office`, `OfficeProofs` |
| `InventoryStock` | `inventory-items.service.ts`, `inventory-loans.service.ts` | `Office`, `OfficeProofs` |
| `Grades` | `grades.service.ts`, `notification-event`, `notification-dispatch` | `Office`, `SchoolProofs` |
| `Exams` | `exams.service.ts` | `Office`, `SchoolProofs` |
| `LeaveRequests` | `hr.service.ts` | `Office`, `OfficeProofs` |
| `Internships` | `internships.service.ts` | `Office`, `SchoolProofs` |
| `Timetable` | `schedules.service.ts`, `teaching-assignments.service.ts` | `Office`, `SchoolProofs` |
| `Attendance` | `attendance.service.ts` | `Office`, `SchoolProofs` |
| `ActiveTerm` | `academic-years.service.ts`, `semesters.service.ts`, `base-master-data.service.ts` | `Office`, `SchoolProofs` |
| `RefreshClient` | `packages/api-client/src/client.ts`, the web's `middleware.ts` and session route; extends `AuthSession` | `Office`, `AuthSessionProofs` |
| `RoleAssignments` | `roles.service.ts`, roles of `users.service.ts` | `Office`, `OfficeProofs` |
| `PortalAccounts` | `portal-provisioning.service.ts`, deletions of students and users | `Office`, `OfficeProofs` |
| `Announcements` | `announcements.service.ts`, `notification-event`, `-recipient-resolver`, `-dispatch` | `Office`, `OfficeProofs` |
| `Office` | the thirteen components from `Payroll` to `Announcements` side by side | `MCOffice`, `SchoolProofs`, `OfficeProofs` |

**Billing.** `invStatus`, `total`, `paid`, `deleted`, `pastDue`, `payStatus` and
`payInvoice` are columns; `h` are the requests. `verify` is `VerifyPaymentRead`,
`LockInvoice` (FOR UPDATE), `ClaimPayment` (conditional update), `SumPayments`,
`VerifyPaymentCommit`; cancellation of a verified payment likewise.
Cancelling an invoice is three separate statements (`CancelInvoiceRead`,
`CancelInvoiceCount`, `CancelInvoice`), rejecting a payment two. `overruled`
and `lateEdit` record where a write by stale status has struck, so that the
properties can promise everything else.

**AuthSession.** One account, its refresh tokens (`token`, `parent`) and the
requests on them. Rotation is claim (conditional update) and insert, with
everything else in between. `epoch` counts revocations of all sessions, `since`
dates each token's last proof of password or of an unrevoked predecessor.

**ReportJobs.** A job's row, its BullMQ entry (absent, waiting, active at a
worker, failed) and what each worker, request and cron run is doing. BullMQ's
promises are those its documentation gives and the code relies on: an entry per
id, delivery at least once, one redelivery after a stall. `Fault` selects the
failures that may occur; the run uses all of them.

**LibraryCirculation.** `createLoan` is a transaction (lock the member, claim the
copy, count, insert); closing a loan is a transaction on loan, copy and fine.
Both take locks in different orders, so PostgreSQL's deadlock victim is an action.

**Letters.** Every operation reads and then writes; `issueLetter` and
`generateNumber` take the next number of the series in the transaction that
writes the letter. A submission deletes pending approvals and asks every
approver again.

**Admission.** One period. A public registration locks the period's row, counts
and inserts; the office counts without a lock, and its number is the count plus
one; a conversion checks outside its transaction, and relies on the unique NIS.
The period's dates are compared with a clock read before the lock: either
outcome is possible in `ReadPeriod`.

**The smaller components.** Thirteen modules of one machine each: *find, check,
write by id*, in as many statements as the code has.

* `Payroll`: one period. A calculation deletes and creates the items of one
  employee after the other and then writes CALCULATED; an approval or a payment
  writes the period and then its runs, in a statement or transaction of its own.
  `half`, `torn` and `overtaken` name the failures and overlaps that part them.
* `InventoryStock`: a movement by hand, or the movement of a loan, checks the
  quantity and then adds up in a transaction; the loan's status is a statement of
  its own (`astray`).
* `Grades`: `inputScores` is a transaction that holds the rows it has written;
  `approveScores` writes what is SUBMITTED and then tells the students what it
  had read, one notification per student and status (`dedupeKey`). Who has no
  active account then is not told, nor is anybody after a failure (`missed`).
  The notification holds no score, so that scores are left out of the model.
* `Exams`: participants get the numbers after the largest one read, removed ones
  included; results are looked up and written in one transaction without a key,
  one for each time a question is listed (`doubled`).
* `LeaveRequests` and `Internships`: edits and decisions by stale status; the
  property is about two columns, or two rows, that each write computes together.
* `Timetable`: conflicts are checked and written in a SERIALIZABLE transaction,
  which fails if a lesson it would have found was written after its snapshot;
  reassignment of a teacher or classroom is a plain update (`reassigned`).
* `Attendance`: a recording looks each record up and writes it, in the order of
  its input, and keeps the rows until it commits; PostgreSQL's deadlock victim is
  an action.
* `ActiveTerm`: academic years and semesters have the same code; the rows other
  than the one written are made inactive in a second statement.
* `RefreshClient`: extends `AuthSession`, whose actions are the server's side of
  each refresh. A tab has one refresh in flight, its other calls wait; a
  navigation goes through the web server; all of them send the one cookie of the
  browser (`jar`). A logout of the browser ends its session and clears the
  cookie with its answer; a revocation through the list of sessions leaves the
  cookie, whoever asks for it. `disturbed` names what makes the browser's next
  refresh a replay: requests of two tabs, or of a tab and a logout, that cross;
  an answer that is lost; a session revoked behind its cookie.
* `RoleAssignments`: the DELETE of a replacement looks for rows once, waits for
  those another transaction is deleting and does not see those it inserts, also
  where they are the rows it has found, inserted anew.
* `PortalAccounts`: provisioning is a transaction whose new user others meet in
  the unique index only; links and passwords are written by id, also those of a
  user that is deleted, whom no login finds (`opens`).
* `Announcements`: the status, and then a notification per active user of the
  audience, each looked up and created in two statements. `TEACHERS` stands for
  the audiences that go by a role; roles, accounts and the audience itself change
  meanwhile (`altered`, `added`).

`Office` puts all thirteen side by side (an instance of each, except that it
extends `RefreshClient`): in a behaviour one of them acts (`part`) and the others
have no rows, so that TLC, which runs it through `MCOffice`, explores the sum of
their states. `Worker` are the requests of every component but the browser's,
and `OfficeProofs` proves that what is an invariant of each component is one of
`Office`.

## 4. The runs

| run | instance | states | shows |
|---|---|---|---|
| `billing` | 1 invoice, payments of 1 and 2, totals {2, 3}, 2 requests | 227k | exact balance, status against balance, growth within the total, what reopens a cancelled invoice, the overdue sweep (liveness), and that the requests implement `PaymentLedger` |
| `auth_session` | 3 tokens, 2 requests, threshold 2, 1 revocation | 0.9M | single use, what can outlive a revocation, bounded guesses, no rotation on a deleted account |
| `report_jobs` | 1 job, 2 workers, 1 request, 1 cron run, all faults | 11k | generated once, status against export, PROCESSING is attended, what is over stays over, PENDING is taken and PROCESSING ends (liveness) |
| `library` | 2 loans, 2 copies, 1 member, 2 requests, limits {1, 2} | 2.9M | loan limit, copy lent once |
| `letters` | 2 letters, 1 series of 2 numbers, 1 approver, 2 approvals, 2 requests | 5.5M | unique numbers without gaps, approval on record |
| `admission` | 2 registrations, 2 requests, quotas {0, 1}, 2 attempts | 1.8M | quota, next number free, one student per registration and its status |
| `office` | 2 rows and 2 requests of each component (see below) | 4.9M | one property or two of each of the thirteen components |
| five more, each of one property | those of the first five | | what a comment or message of the code says and the code does not do (section 5) |

The properties of `office` promise everything but what a history variable names:

| property | says | except |
|---|---|---|
| `ItemsOfOneCalculation`, `RunsFollowPeriod` | a run has the items of one calculation; runs and payslips follow their period | `torn`; `half`, `overtaken` |
| `StockConserved`, `ShortageBounded` | shelf and loans account for every unit; the quantity is overdrawn by no more than the other requests in flight took | `astray`; none |
| `ApprovedAreTold` | students have a notification of the status their grade was approved with | `missed` |
| `NumbersAreConsecutive`, `OneResultEach` | participants are 1..n; one result per question | `raced`; `doubled` |
| `DaysMatchDates` | days are those of the dates | none |
| `FinalScoreIsTheScore` | both copies of the final score agree | `stale` |
| `NoDoubleBooking` | nobody and no room has two lessons at once | `reassigned` |
| `RecordingsDoNotMix` | the records of two recordings' common students are all of one of them | none |
| `OneActive` | one active row once nobody is between the two statements | `failed` |
| `OwnReplayExplained` | the browser's own refreshes are not taken for theft | `disturbed` |
| `AssignedAsGiven` | the rows of an owner are what the last replacement gave | `mixed` (then they include it) |
| `AccountIsLinked` | a student's one account is linked, and the password set last opens it, until its user is deleted | `raced` (then as many as requests) |
| `AnnouncedOnce` | everybody of the audience is notified, at most once per request in flight | `broken`, `altered`, `added` |

**Bounds, and why they are enough.** Two concurrent requests are the least with
which every race of the code happens, each being between a check and a write of
one request and a write of another; two rows compete where a property compares
rows (payments of one invoice, letters of one series, loans of one member,
registrations of one period, students of one classroom, lessons in one slot). In
billing the two amounts and totals reach the total together, exceed it together,
and meet it by one alone. A third token in `auth_session` lets a rotated token be
rotated again while the first is replayed; in `office` the browser's third
request is a navigation beside the two calls of a tab, and a third academic year
lets two be replaced at once. Threshold 2 instead of 5 keeps "below", "at" and
"above" (1 in `office`, where passwords do not matter). Letters' bound on numbers
stops a series when both numbers are used; a third number behaves as the second.
In `office`: `MaxDay` 3 (a partial
edit can move either end), `MaxRecording` 3 (two that overlap and one after
them), `MaxInbox` 3 (one more notification than requests), `MaxAltered` 1 (one user
whose account or roles change beside one whose do not), stock within 0..2,
three e-mail addresses for two students. The proofs (section 6) hold without
bounds, and cover the invariants where small instances would worry us most.

Symmetry is used only in runs without liveness properties; `office` permutes two
rows and the two requests of equal role. `MCLetters` takes a view that drops the
history variable `agreed`, which nothing but `IssuedIsApproved` reads. Deadlock is
not checked: all requests may be over and nobody need make another.

Every type invariant is proved (section 6); `OfficeTypeOK` also checks those of
the components it runs.

**Fairness.** Safety runs use `Spec`. `Billing!FairSpec` gives strong fairness
to the overdue sweep (a cron job every night and every listing of invoices) and
to the acquisition of a row lock (PostgreSQL queues waiters), and weak fairness
to the steps of a transaction that has its locks (nothing can disable them).
`ReportJobs!LiveSpec` gives weak fairness to a worker's next step and to BullMQ's
delivery and stall check, and strong fairness to claims, enqueueing,
cancellations and the cron's loop, which wait for a lock or are interrupted by
faults. No fairness makes a user do anything, and none makes a failure stop. The
other components are request handlers only: nothing in them must happen unless a
user asks for it, so they have no liveness properties.

## 5. What the models show about the code

Five statements of the code's own comments and messages are refuted by a run
each; `PROJECT.json` quotes them under `findings`.

* `NoStrandedPayments`: a verification that commits between the count and the
  write of an invoice's cancellation leaves a verified payment on a cancelled
  invoice, which `invoices.service.ts:192` sets out to prevent.
* `ReuseEndsFamily`: when a rotated token is replayed, a refresh that is past its
  claim inserts its successor after the revocation: that session goes on.
* `FailedWasNotGenerated`: a failing notification marks a stored and exported
  report FAILED.
* `NotLentTwice`: a return that was overtaken frees a copy lent to someone else.
* `IssuedIsApproved`: an edit that read DRAFT is written while the letter is
  being issued, so that what is issued was never approved.

Other consequences of *check, then write by id* that the models reach, without a
run of their own; properties exclude them by history variables, and name them:

* a rejection overwrites VERIFIED, and the balance keeps the payment
  (`payments.service.ts:186`; `overruled`, `PaymentLedger!Strike`);
* a verified payment that is stranded on a cancelled invoice and cancelled there
  makes the invoice ISSUED or PARTIAL again (`payments.service.ts:230`). Only
  this, and an issue by a request that had read the draft, reopens a cancelled
  invoice, stranded payments or not: `CancelledReopens` makes no other exception;
* an invoice edited, issued or deleted by a request that read DRAFT before
  payments arrived (`invoices.service.ts:175`; `lateEdit`);
* a report cancelled after it has completed, or completed after it was cancelled
  (`report-jobs.service.ts:83`);
* a copy deleted while it is lent (`library-catalog.service.ts:327`);
* a letter that two requests number at once loses one number
  (`letters.service.ts:340`; `lost`);
* a decision on a registration written over CONVERTED
  (`ppdb-registrations.service.ts:154`; `late`);
* a payroll period that is PAID while its runs are not, after a failure between
  the two (`payroll.service.ts:298`; `half`), and PAID written over CLOSED by
  marking a payslip (`payroll.service.ts:523`);
* an inventory loan whose movement is made twice when a failed lending is
  repeated (`inventory-loans.service.ts:101`; `astray`);
* scores that are approved a second time notify nobody, because the key of the
  first notification is the same (`notification-dispatch.service.ts:78`); students
  without an active account are not told at all
  (`notification-recipient-resolver.service.ts:58`; `missed`);
* answers that list a question twice make two results of it in one submission
  (`exams.service.ts:356`; `doubled`);
* an edit that changes the audience of a PUBLISHED announcement notifies none of
  those it adds (`announcements.service.ts:88`; `added`);
* one decision on a leave request overwriting another (`hr.service.ts:421`);
* a lesson conflict made by reassigning a teacher (`Timetable`; `reassigned`);
* two active academic years after a failure between the two statements
  (`academic-years.service.ts:39`; `failed`), until one is activated again;
* a user logged out everywhere because two tabs refreshed at once
  (`client.ts:27`; `disturbed`), or because the browser revoked all sessions,
  kept its cookies and refreshed with them (`sessions.controller.ts:40`): its
  refresh counts as a replay;
* two replacements of a user's roles whose result is the union of both
  (`users.service.ts:331`; `mixed`). The comment at `users.service.ts:107` ("so we
  never persist a partial update") holds for refused roles, not for a failure
  between the user's row and its roles, which are written in two transactions;
* two provisionings of one student leave an account nobody is linked to
  (`portal-provisioning.service.ts:116`; `raced`), and a student whose user was
  deleted stays linked to it and cannot be provisioned again. A reset for that
  student succeeds and gives out a password that opens nothing
  (`portal-provisioning.service.ts:74`, `auth.service.ts:346`).

## 6. The proofs

For all values of the constants under the named assumptions, which TLC evaluates
in the runs: amounts and quantities are positive, limits,
bounds and quotas are numbers, `None` and the model values of different columns
are distinct, and the sets of rows or requests that a model counts are finite,
as those of a database are. Nothing else is assumed: the number of requests,
payments, tokens, tabs, jobs, loans, letters, registrations, students, lessons
and the rest is arbitrary. The bounds that keep TLC finite (`MaxEpoch`,
`MaxNumber`, `MaxStock`, `MaxRecording`, `MaxInbox`, `MaxAltered`) are arbitrary
numbers in the proofs.

| module | theorems | inductive invariant |
|---|---|---|
| `BillingProofs` | `TypeCorrect`, `TransactionsExclude`, `BalanceIsExact`, `VerifiedOnce` | `IInv`: types, lock exclusion, `RowsExist`, and for every request `HandlerKnows` |
| | `LedgerImplemented` | `IInv`, plus `VerifyWithin`: the sum a verification is about to commit is within the total, which nobody changes while the row is locked; then each step is mapped to a ledger step or a stutter |
| | `CancelledIsNotResurrected` | `VerifyCollectable`: a verification that is about to commit has seen under the lock that the invoice is not cancelled, and CANCELLED is written only while nobody has the lock; so only the cancellation of a payment, or a late issue, leaves CANCELLED |
| | `BalanceIsBounded`, `StatusTellsBalance` | `CoverInv`: the balance covers what is verified even where a rejection has disturbed it, and a cancellation commits no more than the balance it replaces |
| `AuthSessionProofs` | `TypeCorrect`, `RotatedOnce`, `OutlivesOnlyInFlight`, `DeletedCannotRotate`, `GuessesAreBounded` | `ClaimExclusive` and `Witnessed` for tokens; `GuessesCounted` relates guesses, counter and requests that are on their way to count |
| | `ClientKeepsSessions`, `OwnReplayIsExplained` | `ClientInv`: until the browser is disturbed, one refresh is in flight and none with a logout, it works with the browser's token, and that token or its successor is live until the browser logs out |
| `ReportJobsProofs` | `TypeCorrect`, `ReportsOnce`, `StatusMatchesExports`, `ProcessingIsAttended`, `FinishedStaysFinished` | `Progress`: what the place of a processor says about its job |
| `LibraryProofs` | `TypeCorrect`, `LimitIsHeld`, `CopyAgreesWithLoans` | the member's and the copy's lock are exclusive (`MemberExclusive`, `CopyExclusive`), a transaction's loan, copy and member agree with the rows it holds (`RequestsAgree`, `LoansAgree`), and no limit exceeds the largest one recorded (`HighestIsHighest`) |
| `LettersProofs` | `TypeCorrect`, `NoNumberIsMissing`, `ApprovalsAreRecorded` | `NumbersAreHeld`: who holds a series is alone with it and has its next number, every other number was committed; `OneOwner`: a number is of one letter, also while a request only holds it; `RowsAreOwn`: the approvals a request has found are its letter's |
| `AdmissionProofs` | `TypeCorrect`, `OneStudentEach`, `QuotaBindsThePublic`, `OfficeNumberIsFree` | `PeriodExclusive` for the count under the lock, `NisExclusive` for the unique index with uncommitted rows, `NumbersWithinCount`: the numbers in use are at most the number of rows |
| `SchoolProofs` | `TermTypeCorrect`, `AtMostOneActive`, `ExamSafe`, `GradeSafe`, `AttendSafe`, `LessonSafe`, `InternSafe` | one per component, see below |
| `OfficeProofs` | `PaySafe`, `StockSafe`, `LeaveSafe`, `RoleSafe`, `NoticeSafe`, `PortSafe`; for `Office`, `OfficeTypeCorrect` and a theorem for each of its sixteen other properties | one per component, and `OfficeInv`: that of the component that acts |

The components of `Office`; each `...Safe` theorem is about the component's own
specification, and states its type invariant and its properties:

| invariant | what it adds to the property |
|---|---|
| `TermInv` | of two active rows, one is that of a request which has still to make the others inactive, or one has failed |
| `PayInv` | while the items of a run that is not torn are rewritten there are none, and items and rewriters together are no more than requests; whoever approves or pays still has every run that lags behind on its list |
| `StockInv` | a loan's stock is moved by one request at a time, and one that is taken back is BORROWED until then; of the requests between check and transaction, the last one to check has found enough for itself (`Shortage`) |
| `GradeInv` | a student whose grade is approved and who is not missed has been told, or is on the list of a request that tells this status |
| `ExamInv` | no number exceeds the number of rows; who has not raced has read the largest one, and has found the results there are; a result of which there are two is that of a participant in `doubled` |
| `InternInv` | a completion that was not overtaken has read the current score |
| `LeaveInv` | what an update is about to write is a pair of dates in order with its days, or none of them |
| `LessonInv` | a lesson about to be written does not clash with the snapshot of its check, whatever the fields are that the request leaves as they are |
| `AttendInv` | a recording goes through its students in order, and the records there are belong to recordings that have started |
| `RoleInv` | a replacement that is not behind has found every row there is |
| `NoticeInv` | notifications and requests about to create one are no more than requests; while an announcement is published, or was when a request in progress read it, everyone of the audience who is neither altered nor added has a notification or is on the list of a request |
| `PortInv` | accounts of a student and requests that can still create one are no more than requests; an e-mail about to be committed is nobody's; the password of a student opens the linked account, and none once its user is deleted (`Opened`), for which a deleted e-mail must be that of a row |

Why a strengthening is needed: `BalanceExact` is not inductive, since from an
arbitrary state a commit may write any sum. `HandlerKnows` says that the sum a
transaction carries is that of the payments its own commit leaves verified, and
that the status it has claimed still stands. Both survive other requests'
steps because these cannot touch the locked payment or commit on the locked
invoice; a rejection of *another* payment of the invoice can, which is the
exception the property names (`Undisturbed`). Likewise `LoanLimitHeld` says
nothing of a transaction that has counted and not yet inserted: what it has
counted stays an upper bound because whoever adds a loan of this member waits
for its row. `ShortageBounded` forgets how many requests have checked: `Shortage`
counts them, and a check finds enough for its own request only.

`BalanceGrowsWithinTotal` and `SettlementMatchesBalance` compare sums, and so
rest on what a sum is. The models compute sums with `MapThenSumSet`, whose
definition recurses over subsets; `AmountRemove` (billing) and `TotalRemove`
(inventory) prove that the sum over a finite set is that of one element and the
rest, by looking at a smallest subset for which it is not. The payments of an
instance may be infinitely many, but only finitely many are ever recorded, which
is part of `CoverInv`. The proof of `StatusTellsBalance` then needs that the sum
of no payments is zero, and that of some is more than zero.

`ClientKeepsSessions` shows that every step of the browser and the server
together is one of `AuthSession` or changes nothing of it, so that `IInv` holds
there too. The step lemmas of `SchoolProofs` and `OfficeProofs` have the form
`Inv /\ [Next]_vars => Inv'`; in `Office` the acting component makes such a step
and the others keep their rows, which gives `OfficeInv`.

TLC checked each property, and on a small instance the parts of an invariant
that are not obvious, before they were proved.

Only model-checked: the three liveness properties (`OverdueIsMarked`,
`PendingIsTaken`, `ProcessingEnds`), since fairness and ENABLED
are out of the prover's reach; and that the five statements of section 5 are
violated, which is a matter of an example.

## 7. Not modelled

Every component is listed in `PROJECT.json` with its status. Within the modelled
ones: the creation of users and access tokens (`AuthSession` covers one
account's sessions); reservations, fine settlement, the deletion of loans and the
catalogue (library); templates' edits, attachments and PDF (letters); documents
and personal data (admission); invoice and payment numbers (billing); salary
components and amounts, adjustments, cancelled payslips (payroll); an item's
status, maintenance, categories (inventory); assessments, weights and report
cards (grades); an exam's own status, check-in and the question bank (exams);
employments and positions (HR).

Left out, because what they keep is a single row guarded by database constraints
or by its own status, which `LeaveRequests`, `Internships`, `Admission` and
`Letters` show the behaviour of: expenses, internship logs and partners, job
placement, counseling and discipline, document numbers, internal messages,
notification lists and templates, people and master data.

Left out for good, because they keep no state of their own: dashboards, report
contents, rendering, mail and WhatsApp delivery, audit rows, configuration,
health checks, the web front end and the shared types, which are the larger part
of the repository.

## 8. What remains

Worth modelling next: the fines and reservations of the library, the documents
of a registration, and the primary guardian of a student, which two statements
set as `ActiveTerm` does (`students.service.ts:116`); document numbers (progress
of five attempts against concurrent creations, `invoices.service.ts:87`).

Worth proving next: every invariant and action property of the runs is proved, so
that it is the abstractions that are left. A specification of what a component
promises, as `PaymentLedger` is for billing, could be stated for the numbers of a
series (taken one after the other), the stock of an item and the loans of a
library, and be refined as `LedgerImplemented` shows; and what the history
variables except could be bounded (how far a disturbed balance may be off, how
many notifications a second approval omits).

Hazards of the code without a property, and not in `PROJECT.json`: a copy or a
member deleted while a loan of it is being created
(`library-catalog.service.ts:327`, `library-members.service.ts:93`); the lock order
of lending and closing (`library-circulation.service.ts:79`; the deadlock's victim
is an action of the model); two submissions of a letter that both delete the
pending approvals first (`letters.service.ts:267`, in the model); a period marked
PAID through a payslip after it was closed (`payroll.service.ts:523`, in the
model); a user's row and roles in two transactions (`users.service.ts:116`).
