# HireSettle backend: specifications

HireSettle holds recruiting fees in an escrow contract on Stellar. The backend
is a NestJS service (`src/src`) that prepares the contract's transactions,
listens to its events, keeps the engagements, milestones and disputes in a
PostgreSQL database, and runs the deadlines as cron jobs on every replica. The
money moves on chain and the rules are half on chain, half in the database, so
what can go wrong is mostly between the two: a row written before or after the
payment it stands for, an event handled twice or never, two replicas or two
requests that read the same row.

The project has five specifications, each with TLC instances:

| specification | modules | what it is |
|---|---|---|
| disputes | `Disputes`, `MCDisputes`, `DisputesProofs` | disputes and appeals: opening, arbiter assignment, decision, appeal, appeal window, settlement on chain, and the events that report back |
| events | `ChainEvents`, `MCChainEvents`, `ChainEventsProofs` | how events of the contract reach the database: poller, indexer, retry job, dead letters, Redis lock |
| milestones | `Milestones`, `MCMilestones`, `MilestonesProofs` | proofs and their versions, approvals, the review deadline, partial releases, retention, and what the contract's events write |
| engagements | `Engagements`, `IncomingPayments`, `MCEngagements`, `EngagementsProofs` | the engagement row beside the contract: invitation, cancellation, replacement, synchronisation, reconciliation, reminders; and the payments Horizon lists |
| services | `Services`, `MCServices`, composing `Accounts`, `Companies`, `CreditLedger`, `Idempotency`, `Deliveries`, `DisputeSla`, `Files`, `Sponsorship`, all over `Handlers`; `ServicesProofs`, `AccountsProofs`, `JobsProofs`, `ServicesTypeProofs` | the services around them, on one pool of workers |

`PrepaidCredit` is an abstract specification, which `CreditLedger` is shown to
implement.

Operators whose name ends in `Bug` are wrong variants of the definition that
follows them. No specification uses them; they are there to see each property
fail when the code it is about is changed.

## The system

Paths are below `src/src` (the repository's sources).

| component | state | operations | hard behaviour |
|---|---|---|---|
| Disputes and appeals `modules/disputes/{disputes,appeal,arbiter-assignment}.service.ts` | `Dispute`, `DisputeAppeal`, `Refund`, `ArbiterPayout` rows | open, assign, decide, appeal, decide appeal, finalise (cron), settle | check and update on different reads; claim, pay, release; timeouts of submitted transactions |
| Dispute SLA `modules/disputes/dispute-sla.service.ts` | due dates and escalations of a dispute | start and end stages, escalate (cron) | batch read before single writes |
| Uploads: evidence, attachments, KYC, avatars `modules/{milestones,disputes,recruiters,users}` | objects in a bucket, the rows that refer to them, `kycStatus` | upload, review | two stores without a transaction |
| Malware scan, bucket cleanup `common/{file-scan,s3}` | queue, verdicts, quarantine | scan, sweep, clean up | lost jobs, a listing older than the references |
| Fee sponsorship `modules/stellar/fee-sponsorship.service.ts` | recorded fees | check budget, submit, record | requests that do not see each other's spending |
| Escrow contract, RPC `common/stellar` | contract state (external), circuit breaker, failover endpoint | prepare, submit and confirm, read events | confirmation times out before the transaction expires |
| Chain event poller `modules/events/events.service.ts` | cursor in memory, `chain_events` | poll, process an event, handlers | at-least-once delivery, restart, partial batches |
| Retry job, dead letters, indexer `modules/events/{chain-event-retry,horizon-indexer}.service.ts`, `modules/admin/admin-dead-letter.service.ts` | `chain_events`, `dead_letter_events`, persisted cursor | retry, bury, requeue, index, backfill | workers without a common lock on one table |
| Distributed lock `common/lock` | Redis keys | acquire, release | expiry under a slow holder, fail-open |
| Milestones and approvals `modules/milestones/milestones.service.ts` | `Milestone`, `MilestoneApproval` | proof, approve, confirm, dispute, admin transitions | threshold reached twice |
| Proof versions, proof SLA `modules/milestones` | proof versions, reminders | supersede, lock, escalate | version numbers under concurrency |
| Partial release `modules/milestones/partial-release.service.ts` | release rows | propose, sign, reject, pay | claim before payment |
| Engagements `modules/engagements` | `Engagement` | create, fund, cancel, replace, archive | event and request write the same row |
| Retention and placement schedulers `modules/events` | retention records | advance, remind (cron) | elapsed time, repeated ticks |
| Multi-signature `modules/multisig` | proposals, signatures | propose, sign, submit, expire | threshold reached twice |
| Credit ledger `modules/billing/credit-ledger.service.ts` | ledger entries per company | append, apply to a fee | optimistic sequence numbers, keys |
| Billing, tax `modules/billing` | invoices | compute | rounding |
| Idempotency `common/idempotency`, `common/interceptors` | cached responses | look up, store | two first requests |
| Authentication `modules/auth` | users, sessions, refresh tokens, signing keys, API keys | login, refresh, revoke, rotate | rotation reuse, key overlap |
| Team invites `modules/team-invites` | invites | invite, accept, revoke | check then use |
| Webhooks `modules/webhooks`, `queues` | subscriptions, deliveries, queue | dispatch, deliver, resend | retries of external calls |
| Incoming payments, reconciliation `modules/admin` | cursor, payments | poll, match | batch abandoned midway |
| Notifications, users, GDPR, retention, configuration, companies, reports | their own rows | CRUD, cron sweeps | little protocol of their own |

The components meet in three places. Rows: the milestone row is written by
requests, by the event handlers and by `settle`; the dispute row by the arbiter,
the parties, the cron job and the event handler. Events: everything the contract
does comes back as an event which the poller and the retry job route to
`MilestonesService`, `DisputesService` and `EngagementsService`. The lock: every
cron job is fired on every replica, and the lock lets one of them run.

What makes the components correct:

- disputes: funds wait for the appeal window and for an open appeal; an appeal
  is decided by another arbiter than the one assigned; an appeal's decision is final;
  what is paid on chain is the last ruling; a final decision is eventually executed; an
  arbiter is paid for what was settled;
- events: no event is lost by a restart, a failing handler or two workers, a full answer
  of the server apart; no row is marked as processed before its handler has run;
- lock: one holder per job;
- milestones: only the newest proof is open, approvals count for the proof they
  were given for, a rejected partial release is never paid, and what the database
  has booked is what the contract has paid;
- engagements: once its events are handled the status of a row is the contract's,
  completion apart, a difference is reported, no transaction that pays in is lost;
- credit ledger: entries of a company form one sequence that never goes below zero
  and applies no key twice;
- accounts and companies: one live refresh token per session, a lock exactly when
  the failures reach the limit, no credential and no email left of an anonymised
  account but a pending change of email, one owner per company;
- queues, jobs, files: no event drops out between queue and log but with a job that
  stalled twice, nobody is told twice, no file is lost or left unscanned, no POST is
  done twice.

`PROJECT.json` lists every component with its status and every hazard with its
line and the properties that cover it.

## Disputes

`Disputes` models one database statement, transaction or RPC call per action, by a
request, cron tick or event handler (a *worker*) in flight. `req[w]` holds the worker's
label, the row it read, and its arguments: what the code keeps in local variables across
an `await`. `dispute`, `appeal`, `payout` and `refund` are the tables; `msStatus` is the
status of the milestone row and `chain` what the contract holds; `tx[w]` is the
transaction a worker submitted, which may still land; `events` are the contract's events
that are not processed yet. Some variables are history, kept for the properties only:
`verdict`, how each round was settled on chain, and in a row `round`, the dispute on
chain it was opened for, `decider`, who recorded its first ruling, `assigned`, the
arbiter it named then (both until the row is final or released), and `owed`, whether
`settle` released it with an arbiter to pay.

Correspondence, in the order of the code: `HandleDisputeRaised`, `OpenFind`,
`OpenCreate` (`handleDisputeRaised`, `openForMilestone`); `AutoAssignRead`,
`AutoAssignWrite` with `SelectArbiter` (`autoAssign`: the pool is queried anew at each
call, so the answer is any candidate who is not excluded, or none); `DecideRead`,
`RecordDecision`, `DecideWrite` (controller, `recordDecision`, `decide`);
`OpenAppealRead`, `OpenAppealWrite`, `DecideAppealRead`, `DecideAppealWrite`
(`AppealService`); `FinalizeRead`, `FinalizeWrite` (the appeal-window job);
`SettleClaim`, `SettleLoad`, `ResolveMilestoneDispute`, the three outcomes of
`submitAndConfirm`, `SettleRollback`, `MarkMilestone`, `SettleRelease`,
`RecordArbiterPayout` (`settle`); `HandleDisputeResolved`, `MarkSettledOnChain`,
`AckEvent` (`handleDisputeResolved`). Time is a counter `now`; deadlines are
values of it, compared exactly as the code does (`<=` on the route, `<` in the
job). Faults are RPC errors, expired transactions, confirmation timeouts (the
code gives up after 30 s, the transaction is valid for 60 s), failing handlers
and crashes; a run names the kinds it allows and their number.

| run | instance | question |
|---|---|---|
| `disputes_sequential` | one worker, two disputes of one milestone, two rounds, two arbiters, RPC errors and expired transactions | Does the workflow do what it promises when requests do not overlap? Safety and `DecisionsSettle`. |
| `disputes_concurrent` | two workers, one dispute, timeouts, failing handlers, crashes, an arbiter who also resolves on chain directly | What survives every interleaving? |
| `disputes_stale_decision` | two workers, no fault | A second decision that read the row early overwrites an appealed row: `AppealHoldsFunds` fails. |
| `disputes_untracked_path` | two workers, no fault | A resolve request between the two statements of `markDisputed` pays without an appeal window: `TrackedFundsWait` fails. |
| `disputes_crash` | one worker, one crash | A crash inside `settle` leaves the row CLOSED and unpaid for ever: `DecisionsSettle` fails. |
| `disputes_own_appeal` | one worker, two arbiters, no fault | A dispute nobody was assigned to is decided by an arbiter, who is then selected for its appeal: `AppealIndependence` fails. |

The last four are disagreements between the code and its own comments;
`PROJECT.json` quotes them. Because of them the properties say what they say:

- `TrackedFundsWait` and `AppealHoldsFunds` are checked where they hold, for requests
  that do not overlap. The overlap that overwrites an appealed row is caught by
  `disputes_stale_decision` alone.
- `AssignedNeverHears`, the part of the appeal's independence the code keeps, is about
  disputes that had an arbiter when they were decided.
- `AppealVerdictFinal` lets the row of a decided appeal leave its review where the
  appeal had no arbiter: a late write of `autoAssign` finds `arbiterId` still null and
  puts the row back under the first arbiter, who may decide again.
- `MilestoneSettledFirst` is weaker than "the row's own round was settled":
  `markSettledOnChain` closes whatever dispute of the milestone is not released yet
  (`disputes.service.ts:383`), so a late `dispute_resolved` of one round closes the row
  of the next as settled before anybody decided it. No property forbids that, since
  the code lets it happen.
- `FeesLostToFailures` holds in every interleaving, crashes included, and says what a
  crash between release and payout costs: the fee of one dispute, never more.
- That an event is delivered twice to handlers that overlap is not in the sequential
  run; of its properties `EveryRoundTracked` is the one that would feel it.

Bounds: two disputes of one milestone are needed for leftovers of the first to
disturb the second, two rounds for a dispute to be raised again after the first
was resolved, a window of one tick with time up to four lets a deadline pass,
be met exactly, or be missed in both. Two workers exhibit every pairwise race. The
sequential instance has 266 850 states, the concurrent one 3 132 475; the appeal
before its own decider is found among the first few hundred.
Worker symmetry is used only in runs without liveness.

Fairness (`FairSpec`): handlers in flight go on, the network applies or rejects
what it was given, the clock advances (weak fairness), and the timers that poll
and retry events and the appeal-window job fire again and again (strong fairness,
since a worker may be busy with other work when they are due). Users, arbiters
and faults have no fairness: nobody must decide or appeal.

## ChainEvents

A worker is a tick of a cron job or an admin's request on one replica.
`rows` is `chain_events`, `dead` is `dead_letter_events`, `cursor` the poller's
`lastProcessedLedger` (in memory, per replica), `idxCursor` the indexer's
`horizon_last_ledger` (persisted), `lock` the Redis keys. `run[w]` is the batch,
item and row a run holds. The effects of the handlers are abstracted to
`handled`, how often the handler of an event ran; what the dispute handlers do is
in `Disputes`. `cut` is history: the events the indexer's cursor passed unread since an
answer ended at its limit.

| code | actions |
|---|---|
| `DistributedLockService.tryAcquireLock`, `releaseLock`, key expiry | `TryAcquireLock`, `ReleaseLock`, `Expire` |
| `EventsService.pollEvents` | `PollEvents`, `NextItem`, `Advance`, `EndBatch` |
| `EventsService.processEvent` | `CheckProcessed`, `FindRow`, `SaveRawEvent`, `Handle`, `MarkProcessed` |
| `EventsService.processUnprocessedEvents` | `ProcessUnprocessedEvents`, then the same loop |
| `HorizonIndexerService.indexEvents`, `readCursor`, `persistEvent`, `writeCursor` | `ReadCursor`, `InitCursor`, `IndexEvents`, `FindRow`, `SaveRawEvent`, `WriteCursor` |
| `HorizonIndexerService.backfillEvents` | `BackfillEvents`, then `FindRow`, `SaveRawEvent` |
| `ChainEventRetryService.retryUnprocessed`, `recordFailure`, `moveToDeadLetter` | `RetryUnprocessed`, `RecordFailure`, `FindDead`, `MoveToDeadLetter`, `BackoffOver` |
| `AdminDeadLetterService.requeue` | `Requeue` |
| the environment | `CloseLedger`, `Crash` |

`Catch` says where an exception ends up: the retry job records it, the manual route goes
on with the next row, the poller and the indexer drop the rest of the batch. `Handle`
keeps a handler's effect even if the transaction around it fails, because the handlers
call services that write through their own connection. The name of an event is what
`topics[0].toString()` yields for it; both services use the same expression. The backoff
of a failed row is a flag the environment clears. Failures of a fetch return no events
in the code and are a batch of none here; a rate-limit answer makes the indexer start
again at once, which is a failed run followed by another.

| run | instance | question |
|---|---|---|
| `chain_events` | two workers on two replicas with overlapping duties, three events of one ledger in answers of at most two, five rows, one failure of any kind (handler, database, Redis, expiry, crash) | Safety in every interleaving: 4 484 417 states |
| `chain_events_delivery` | all three jobs, two events in two transactions, handler failures and crashes, two retries | `EveryEventRouted` under fairness |
| `chain_events_one_tx` | the same two events in one transaction, no failure | The second event is never routed: the idempotency check compares the transaction hash only, and `EveryEventRouted` fails |

Bounds: one failure of any kind at any point; five rows are never used up (with
six or seven the number of states is the same); several events of one ledger are what
makes the poller's cursor move past an event it has not handled, and a third one makes
an answer end at its limit inside a ledger. `MaxRetries` is
one in the safety run, so that the first failure leads to the dead letters, and
two in the other, so that a retry can succeed. `Lookback` is the code's ten
ledgers cut to the size of the instance.

Fairness: runs in flight go on, ledgers close, backoffs and keys of dead replicas
run out (weak); each cron job wins its lock again and again (strong: the cron
fires for ever, and whichever replica holds the lock in between releases it or
loses it). Admins have none, so `EveryEventRouted` counts an event as settled
when its retries are used up, wherever its row lies then.

`CursorCoversStored` names the one way the indexer loses an event: it asks for a
hundred events from its cursor on and then sets the cursor to the ledger after the
last one (`horizon-indexer.service.ts:75`), so the events of that ledger which did not
fit are passed, and are stored only if the poller or a backfill fetched them in an
answer that began elsewhere. Such an event is in `cut`; nothing else gets between
cursor and tables.

Not promised by the code, hence not a property: that a handler runs at most once
(poller and retry job use different locks), or that duplicates of a row are processed
(they stay unprocessed once their twin is processed).

## Milestones

A worker is a request, a tick of a job or an event handler; `req[w]` is its label
and what it has read. `row` is the `Milestone` table with what is booked as paid,
`versions` the proof versions, `approvals` and `given` the approvals and the
version each was given for (history), `release` the partial releases, `chain` what
the contract holds, `events` its unprocessed events, `net` the transactions whose
outcome nobody has seen yet.

| code | actions |
|---|---|
| `submitProofForReview`, `ProofVersionsService.recordVersion` with its retry | `SubmitProof`, `Supersede`, `RecordVersionFind`, `RecordVersionCreate`, `SetProofSubmitted` |
| `rejectProof` | `RejectProof`, `AssertReviewable`, `RejectVersion`, `Reopen`, `ForgetApprovals` |
| `approveMilestone`, `markConfirmed`, `markApproved` | `ApproveMilestone`, `CreateApproval`, `CountApprovals`, `MarkConfirmed`, `MarkApprovedFind`, `ApproveVersion` |
| `adminOverride`, `bulkUpdateStatus` | `AdminOverride`, `OverrideStatus`, `BulkUpdateStatus` |
| `MilestoneProofSlaService` | `RunProofSlaChecks`, `EvaluateVersion`, `Unclaim`, `EndSlaChecks` |
| `PartialReleaseService` | `ProposeRelease`, `ProposeCheck`, `InsertRelease`, `ApproveRelease`, `RejectRelease`, `FindOpen`, `SignRelease`, `HasDualApproval`, `DeclineRelease`, `ClaimRelease`, `BookRelease`, `FinishRelease`, `FailRelease` |
| the retention job | `RetentionTick`, `SendRetentionWarning`, `MarkUnlockedByJob` |
| `StellarService.submitAndConfirm` | `Submit`, `Raise` |
| `EventsService` as far as it writes milestones | `HandleEvent`, `ClearApprovals`, `Acknowledge` |
| the contract and its parties | `SubmitProofOnChain`, `RaiseDispute`, `ApproveDispute`, `RejectDispute`, `RequestReplacement`, `ResetForReplacement` |

A behaviour keeps to one *scope*: which operations run, how often, which failures
may happen, at which instants the clock is read. The scopes of the run
`milestones` (two workers, one milestone of amount 3, two of two approvers, two
versions, one release, one failure; 892 422 states): proofs and approvals with RPC
errors; the review deadline at half, nine tenths and all of the window, with slow
runs, crashes and lapsing keys; a partial release with every way its payment can
fail; retention with replacement and disputes and events out of order; a retention
milestone whose proof is submitted and approved around its unlock event; an
administrator. Together they reach every action.

- `OnlyLatestOpen`, `RemindedOnce`, `RejectedNeverPaid` hold in every interleaving.
  `RemindedOnce` and `RejectedNeverPaid` rest on conditional updates, which is
  what their mutants remove.
- `ClaimsEnd` excepts a crash: a claim of the deadline job that dies before the
  payout is never looked at again. A database error of `markConfirmed` or of the
  statement that gives the claim back (`milestone-proof-sla.service.ts:169`, `:173`) is
  not modelled; it would leave the claim as a crash does.
- `ApprovalsFresh` and `BooksAgree` are stated for requests that do not overlap and
  where nothing irregular is noted in `upset`: an administrator's override, a late
  transaction, a crash, a dispute, a replacement, an outdated event. Each of these
  really breaks them. After a confirmation that timed out, for instance, a partial
  release stays FAILED although the contract has paid it; and of two approvals that
  reach the threshold together both ask the contract to pay, whose refusal of the second
  is the only thing that keeps it from being paid twice. An event is *outdated*
  (`Outdated`) when the row has moved past what it says: `markUnlocked` and
  `markProofSubmitted` write the status whatever it was. A `milestone_unlocked` event
  handled after the job unlocked the row and its proof was approved once puts the row
  back to `PENDING`, and the next proof inherits the approval of the first; a
  `proof_submitted` event handled after a partial release settled the milestone reopens
  a confirmed row.

## Engagements

`eng` is the `Engagement` table, `split` and `due` the percentages and due date of
its milestones, `chain`, `events` and `net` as above, `report` what the nightly
reconciliation found. `IncomingPayments` extends it: `payments` is Horizon's list,
`unmatched` the table of payments kept for an administrator, `cursor` and `key` the
poller's saved cursor and its Redis key, `poller` and `admin` who works on them.

| code | actions |
|---|---|
| `prepareEngagement` by `create` and `preview` | `CreateEngagement`, `Preview`, `PrepareEngagement`, `InsertEngagement` |
| `acceptInvite`, `declineInvite`, `cancel` | `AcceptInvite`, `DeclineInvite`, `CancelEngagement`, `Submit`, `Activate`, `SetCancelled` |
| replacement, admin status, archive | `RequestReplacement`, `UpdateStatusByAdmin`, `WriteStatus`, `Archive`, `WriteArchived` |
| bulk creation, percentages, due dates, the reminder job | `BulkCreate`, `AppendMilestones`, `AdjustPercents`, `RewritePercents`, `SetPlacementDueDate`, `WriteDueDate`, `SendPlacementReminders`, `Remind`, `MarkReminded` |
| `syncFromChain` | `SyncFromChain`, `SyncRow`, `SyncWrite` (reached by rows without a `txHash` only) |
| event handlers | `HandleEvent`, `Acknowledge` |
| `ReconciliationService` | `RunReconciliation`, `CheckEngagement` |
| `IncomingPaymentPollerService` | `PollIncomingPayments`, `FetchPayments`, `MatchMemo`, and the steps that store, save the cursor and alert |
| `UnmatchedPaymentsService` | `Resolve`, `WriteVerdict` |

Run `engagements` (two workers, two engagements, two payments in pages of one, two
pollers, two administrators, one failure; 1 645 061 states) has six scopes:
the invitation with every failure; release, replacement and cancellation;
reconciliation beside an administrator; percentages, bulk creation, archive and
preview; due dates and reminders with a crash; payments and verdicts with crashes
and a lapsing key. Two engagements are needed for a report to be half done; two
pollers for one to work on a page the other has saved. Instances, administrators
and transaction hashes are symmetric.

- `NoTransactionLost` holds in every interleaving, the overlap of two pollers included:
  of every payment before the saved cursor the memo named an open engagement or the
  transaction is kept. Horizon lists each payment operation of a transaction, so several
  payments share a hash, in the model as there. The poller looks up and stores by hash
  (`incoming-payment-poller.service.ts:146-149`), and all but the first such payment
  are passed over: the row keeps one of them, and the property promises no more.
- `RowAgrees` is about the status, completion excepted, since no completion reaches a
  funded row: `syncFromChain` asks for an exchange rate when a row has a `txHash` and
  no rate, which is every row that was funded; `fetchUsdRate` is defined nowhere
  (`engagements.service.ts:850-852`), the error is caught and logged (`:889`), and the
  update before it (`:854`) is never reached. What a row says it owes to the requests and
  to the event handlers. The property excepts what `upset` notes: overlapping requests,
  an administrator's status, a late transaction, a crash after the contract call (the
  row then stays without its `txHash`).
- `ReportMissesNothing` is about a run of the job with no other request in flight:
  the report compares two reads of different moments. It excepts besides `overlap`
  only what puts two writers on one contract later (`late`, `crash`): an
  administrator's status or a synchronisation that failed makes rows differ, and those
  differences must be reported. It is the report that still finds a completed
  engagement whose row says otherwise.

## Services

`Handlers` holds what the parts share. A worker takes up an operation (`Call`), goes
from one program point to the next (`Goto`, `End`), and one step is one statement,
one transaction or one call; a step may fail (`FailTo`) and the process may die
before any (`Crash`), which notes the program point in `upset`. Time passes only
while no request is in flight: requests take moments, the deadlines here hours or
days. Each part has tables of its own and `Services` interleaves them over the same
workers.

| module | code | state |
|---|---|---|
| `Accounts` | `AuthService` (registration, password and Google login, lockout, refresh families, logout, password reset, TOTP), `UsersService` (email change, wallet rebinding, deactivation), `GdprService`, the anonymisation job, team invitations, the retention job's share | `user`, `tokens`, `invites`, `deletions`, `engaged` |
| `Companies` | ownership transfer in two steps, members, SSO login | `roles`, transfers |
| `CreditLedger` | `append`, `applyToFee` | `ledger` |
| `Idempotency` | the interceptor, its store, the purge | `expiry` |
| `Deliveries` | `notifyUser`, the mail and chat jobs, webhook dispatch, attempts, log, resend, replay, removal | `queue`, `log`, `reached` |
| `DisputeSla` | the deadlines that dispute services write, the job that escalates, the one that warns | `clock` |
| `Files` | uploads, KYC review, scan jobs, sweep, bucket cleanup | `object`, `quarantined`, `file`, `scanJob`, `unfinished` |
| `Sponsorship` | budget check, submission, record | `sponsored`, `charged` |

The one run, `services` (902 062 states), has two workers (symmetric), up to three
failures and twenty-seven scopes, listed in `MCServices`: each names the operations of
one part that can disturb one another, three to seven calls, the failures the code
answers to, and the instants the clock reaches. Four accounts calls and a clock that
passes the lock, the token and the erasure window are enough for a lock to lapse and be
set again, for a token to be exchanged twice and for an erased account to be used before
its window ends; four company requests for a transfer to expire and another to follow,
five for one to follow an accepted one; two uploads of a kind and a batch of one for the
sweep to be cut short.

- `OneLiveToken`, `EscalatedOnce` and, apart from quarantined files,
  `StoredFilesKept` hold in every interleaving, crash included.
- `LockoutCounts` excepts overlapping requests and crashes (the counter is read and
  written in two steps). `OnlyPendingEmailStays` excepts a request that overlaps the job
  or a use of the account after it, and says what the job leaves: the address, and a
  change of email that was never confirmed, with its token.
- `OneOwner` excepts overlapping requests and the member routes that can make or
  remove an owner by hand.
- `OncePerKey` excepts two first requests in flight at once, a handler that raises
  and an answer that could not be stored: the code stores it after it was given.
- `EveryEventAccounted` excepts a job an administrator removed, a log entry whose
  insert failed, and an event whose job *stalled out*. The processor sets no options
  (`webhook.processor.ts:26`), so the queue's own limit applies: a job whose worker died
  is handed out once more, and failed when that worker dies too. `onFailed` then finds
  attempts left and returns without logging (`:91-95`). The limit is `MaxStalled`.
- `UploadsScanned` is about what a sweep leaves behind; it excepts an upload whose job
  was failed for good since the sweep began, by its attempts or by the queue's limit on
  workers that died (the next sweep's case), and two sweeps at a time of which one
  failed. A sweep cut short by its batch promises nothing: the
  batch is not ordered, so the same uploads may fill it again and again.
- `StoredFilesKept` needs the cleanup's grace period to be longer than an upload: the
  clock's rule makes an upload shorter than one unit, and the configuration refuses a
  period below one (`S3_CLEANUP_GRACE_PERIOD_HOURS`, `env.validation.ts:75`), which is
  `FilesAssumption`. A key that was once signed is not given to another upload; a
  quarantined file may be lost if the move failed or the cleanup came upon it, since the
  row names the new key before it exists.
- `SpendBounded` is the bound the code really keeps: the daily cap plus one fee for
  each request in flight and for each charge that went unrecorded, not the cap.
- `ImplementsPrepaidCredit` is a refinement: the balance of `PrepaidCredit` is the
  `balanceAfter` of the latest row, its used keys the keys of the rows. Reads and
  conflicts are stutters, an insert is `Apply`. It uses the uniqueness of
  `(companyId, sequence)` and of the keys; without the first the balance would be
  computed from a row that is no longer the latest.

These runs check safety only. The code gives their jobs no promise that needs
fairness beyond that the next tick comes, except where a crash breaks it for good,
which is what `ClaimsEnd` and `UploadsScanned` are about.

## What is proved

The theorems hold for every value of the constants that satisfies the modules'
named assumptions: any number of workers, rows, disputes, events and faults.
Every invariant and action property of the passing runs is stated by a theorem. Type
correctness is `TypeCorrect` in the proofs of `Disputes`, `ChainEvents` and
`Milestones`.

`DisputesProofs`
- `WindowHonoured` (`FinalityJustified`): an unpaid dispute is final only when its
  appeal was decided or its window lapsed.
- `AppealIsFinal` (`AppealVerdictFinal`): after the appeal's decision no step of
  any handler, however old its reads, changes the outcome.

The invariant is `Base` (types, and what each worker's local state says about the
row it is working on) with, per dispute, `AppealInv` (a decided appeal whose dispute is
still under appeal review leaves it decided and final) and `FinalityInv` (the goal, of
one dispute). Neither goal is inductive: without `Base` a worker about to write could
hold any row. `VerdictKept` is the step `AppealVerdictFinal` allows, of one dispute; the
late write of `autoAssign`, which compares the arbiter but not the status, is why it
promises less of an appeal without an arbiter.

- `ArbitersPaid` (`FeesLostToFailures`), under any interleaving and any fault: the
  disputes whose fee is lost are never more than the failures. Only the release makes a
  fee owed (`OwedByRelease`), and its handler holds it until the payout is written or the
  process dies, so `Unpaid` grows by one dispute at most, and with it the count of
  failures.
- `DisputesWait` (`TrackedFundsWait`), `AppealHolds` (`AppealHoldsFunds`),
  `OutcomeExecuted` (`OutcomeAgrees`), `RoundsTracked` (`EveryRoundTracked`),
  `AppealElsewhere` (`AssignedNeverHears`) and `RefundsReal` (`RefundOnlyIfRefunded`)
  assume `OneAtATime`: handlers do not overlap, a failure is an error of the RPC server
  or an expired transaction, and nobody but this backend resolves on chain. That is what
  `disputes_sequential` checks, here for every number of milestones, disputes, rounds
  and arbiters. The hypothesis is needed: the findings break the first two by
  overlapping requests alone.

Their common invariant is `Orderly`, one conjunct per kind of thing. Of a row: what
each status says about ruling and appeal (`StageSound`), whose it is
(`ArbiterSound`), and that it is released exactly when the contract settled it or is
asked to (`SettledSound`). Of a milestone: each round has one row or a raised event
(`RoundsSound`), the newest is open exactly while the milestone is disputed
(`DisputedSound`), and a refund was ruled (`RefundSound`). Of an event: it is of a
round the contract has seen (`EventSound`). Of the handler: what its label says of
the row, the transaction and the milestone in its hands (`HandlerSound`). No
conjunct is inductive alone, since a raise, a settlement and the handling of either
event pass from each to the next.

- `SettledAfterVerdict` (`MilestoneSettledFirst`), under any interleaving and any fault:
  a row is marked released or unlocked only when the contract settled some round of its
  milestone.

`VerdictFirst` carries it: the rows, handlers, transactions and events that claim a
settlement belong to a milestone with a verdict, which the contract never takes back.

`ChainEventsProofs`
- `MarkedAfterHandled` (`ProcessedMeansHandled`): a row is processed only if a
  handler ran for its transaction and event name.
- `OneHolder` (`OneTokenPerJob`): one run per job holds the key.
- `CursorNeverSkips` (`CursorCoversStored`): the indexer's cursor passes no event
  that is in neither table but those an answer of `FetchLimit` events cut off from
  earlier ones of their ledger, for every limit and every number of events.

The invariant has five parts besides types. `WorkersOK` says what a run relies on:
the row in hand exists or is a dead letter, with the item's key; a run about to
mark its row has had its handler run; and every event below the ledger an indexer
has reached is stored, in its batch, the item it is storing, or cut off. `TokenOK` ties a
token to its key, `TablesOK` keeps a row out of both tables, `ProcessedMeansHandled`
and `CursorOK` are the goals. `idents`, the event each row id stands for in
whichever table, never changes once set: that is why what one worker relies on
survives the steps of the others (`RunKept`), moves to the dead letters included.

`MilestonesProofs`
- `OneOpenVersion` (`OnlyLatestOpen`), `RejectedUnpaid` (`RejectedNeverPaid`),
  `ReminderOnce` (`RemindedOnce`) and `ClaimsCleared` (`ClaimsEnd`).
- `ApprovalsStayFresh` (`ApprovalsFresh`) and `BooksStayInAgreement` (`BooksAgree`).

`Base` holds the types, each handler's locals at each label, and that a transaction
with a sender is the call its sender waits for. Each goal then has an invariant of
its own over it. `VersionInv` adds that a handler about to create a version has
found no open one, unless another version came in between, in which case its insert
fails on the unique number: that is what the retry in `recordVersion` rests on.
`ReleaseInv` says that a release some handler, transaction or contract payment
*holds* is committed (claimed, or paid), which the conditional updates of `approve`,
`reject` and `execute` keep true. `RemindInv` ties the reminders that went out to
the flag that was set before. `ClaimInv` says that every claim of the deadline job
still has a worker that will pay or take it back.

The last two goals speak of a service at rest, and are far from inductive: while a
handler runs, the approvals and the books are wrong in the middle of it. `CalmInv` says
that as long as `upset` is empty at most one handler is in flight (`InFlight`; `Begin`
notes a second one), and says three things of it and the contract. `Knows` is what the
handler may rely on at each of its labels: the status of its row, the version it read,
that the contract has nothing left once a payout was answered. `ContractInv` is what the
contract says: no transaction is left without a sender, no two events share an
identifier, and a payout event carries all that was paid. `Books` and `Fresh` are the
two goals with what the handler at its label may still owe them; `Books` also lets a row
lag behind a payout whose event is pending. No step refills an escrow, so `left = 0` is
stable, and every clause about approvals speaks of a milestone that still has something
to pay. TLC checked `CalmInv` on wider scopes than those of the run before it was
proved, and that is how the outdated events came to light. `MaxVersions` is at least 1,
or no first proof could be stored.

`EngagementsProofs` (over `IncomingPayments`)
- `PaymentsKept` (`NoTransactionLost`), for any number of payments of one transaction:
  `PollerOK` says that the transaction of every payment between the saved cursor and a
  run's position is stored, or the payment is in the run's hand.
- `ReportComplete` (`ReportMissesNothing`): while a report runs alone, the rows it
  has not reached are as it read them, and of those it has passed a live one that
  differs is among the found.
- `RowsFollow` (`RowAgrees`), with no help of a synchronisation: `LastFixes` says that
  the last unhandled event of an engagement is one whose handler gives the row the
  contract's present status, completion apart;
  `Agreement` says of each row that it agrees, or has such an event, or a handler
  about to write what agrees.

`ServicesProofs`, `AccountsProofs`, `JobsProofs`, `ServicesTypeProofs`. Parts share workers,
so the first section of `ServicesProofs` proves once that the steps of a part move a
worker only between that part's own program points (`Steps`, `Elsewhere`), and every
proof about a part reduces `Next` with it.
- `LedgerImplements` (`ImplementsPrepaidCredit`): `CreditInv` says that a row about to
  be inserted under the next free sequence number was computed from the latest row.
  The amounts of the abstract specification are those of the entries and the charges
  between minus a fee and -1, which is all `applyToFee` can take.
- `EscalatesOnce` (`EscalatedOnce`): the flag is set by a conditional update before
  the administrators are told, and a clock never goes back.
- `HandledOnce` (`OncePerKey`).
- `EventsAccounted` (`EveryEventAccounted`), for any number of crashes: the job of an
  event that is neither delivered nor logged is in the queue, and either a worker may
  take it or the queue has failed it.
- `OneTokenPerFamily` (`OneLiveToken`), `LockedAtLimit` (`LockoutCounts`),
  `AnonymizedKeepsPendingEmail` (`OnlyPendingEmailStays`), with one invariant `AccountsInv`:
  what a worker is about to write leaves the fields that carry the lock and the
  erasure alone, or was computed from the row as it still is.
- `OneOwnerEach` (`OneOwner`): a pending transfer comes from the company's one owner.
- `StoredFilesSafe` (`StoredFilesKept`): what the cleanup has on its list was put and
  is old or gone already, and what it is about to delete no row refers to, for good:
  the row of an upload is written while its object is of this moment (`FilesInv`).
- `UploadsSwept` (`UploadsScanned`): `SweepInv` says that what was overdue when the
  sweeps began has a job, is still on the list of a running sweep, or its job was failed
  for good since. A sweep that took all there was met at most one batch of each kind, so
  a second one beside it takes all too: the clock stands still while a handler runs.
- `ServicesTyped` (`ServicesTypeOK`): the tables, the program points and operations in
  flight and the noted irregularities of all the parts at once. A handler writes what
  it has had in hand since an earlier step, so the argument carries the types of those
  locals (`HandTyped`, `NoteLocal`, `InfectedLocal`, `FeeLocal`) beside the parts' own
  invariants, which supply the rest: that a resent log row exists, say.
- `SpendStaysBounded` (`SpendBounded`): `SpendInv` keeps two books for each day.
  `ChargeKnown`: what was charged was recorded, is in the hands of a worker, or is
  lost, and a lost fee is a counted failure. `CheckKept`: what was recorded, with the
  largest fee for each worker in flight, fits what the last check of the day left and
  the largest fee for every worker; a check starts this afresh. Nobody carries a fee
  into the next day, because the clock stands still while a handler runs. `Spent` adds
  up rows by a recursive function, and the induction theorems of the library cannot be
  used on it, so the lemmas from `LeastNat` to `SpentMore` argue from a least
  counterexample: the sums exist up to every row, two runs of them agree, and a row
  appended adds its fee. The fees in hand are counted stroop by stroop, as pairs of a
  worker and a number (`HandIn`), so that a cardinality adds them up. The assumptions
  are that requests in flight and the fees the network charges are finitely many.

Only model-checked, and why:

- `DecisionsSettle` and `EveryEventRouted` are liveness properties under fairness.

## Not modelled, and why

The contract, the Soroban RPC server, Horizon, Redis with BullMQ, the bucket, clamd
and Prisma are modelled from how the code uses them. In particular:

- the circuit breaker's state belongs to the opossum library; the failover of
  Horizon endpoints serves the payment poller alone and changes which endpoint
  answers, never what a modelled row holds;
- configuration and feature flags are rows behind a cache of each process. A refresh or
  a lookup in flight while a value changes may put the old value back until the next
  refresh or the end of its minute, and without Redis a change of a flag clears the
  cache of one process only; readers of a setting are modelled for any constant value of
  it. Maintenance mode is read from its row at each request. Branding, templates, tags,
  notes, comments, reviews, reports, exports, calendar feeds, GraphQL and the CLI read
  or write single rows;
- invoices and tax are computed on request; signing keys and API keys are read at
  start or written once, and SEP-10 challenges are stateless;
- audit rows, security events and web push are side effects no modelled state
  depends on.

Some of the code cannot run as it stands. Where its purpose is clear from the names
it imports, its migrations and its tests, it is modelled as it would then run:

- the Prisma schema refers to `MilestoneProofVersion`, `MilestonePartialRelease` and
  `CreditLedger` and does not define them, nor `SponsoredFee`; the migrations create
  the four tables, and their columns and unique indexes are what is modelled;
- `MilestonesService` uses `this.proofVersions`, which it does not inject, and
  `partial-release.service.ts:233` calls `releasePartialMilestonePayment`, which
  `StellarService` does not define: taken for the service the import names and for a
  contract call like the others;
- `webhook.processor.ts` and `webhooks.service.ts` use names they neither import nor
  declare (`Optional`, `MetricsService`, a logger): taken as resolved, so that metrics are
  there. What is then missing is a value, `startTime` (`webhook.processor.ts:70`), and is
  modelled as it is: the processor raises after every delivery its receiver accepted,
  which is tried again like a failed one and logged as FAILED in the end;
- `create` and `preview` look, after the insert, for fields the stored row does not
  have, and raise; the insert is modelled. Rows of the CSV import always fail the
  check of the percentages;
- `fetchUsdRate` is undefined, and `syncFromChain` ends there for every funded row, as
  said under Engagements: modelled as it is.

Where nothing would happen, it is left out:

- multi-signature proposals: `submitSignature` calls two methods `StellarService`
  does not define before it records anything;
- `applyManualOverride`, `confirmFlow`, `submitProofFlow`, `disputeFlow`,
  `confirmMilestone` and `enforceSpendingLimit` have no caller; rows of
  `arbiterRecusal` are read but never created; nothing flushes a batch of
  notifications; webhook subscriptions are dispatched by replay and test only;
- session, two-factor, OAuth and wallet services are provided by no module,
  WebAuthn is a stub, `modules/events/retention-scheduler.service.ts` is not
  scheduled, and the legacy modules directly under `src/src` are not loaded;
- the detector of merged accounts never moves its cursor (it compares the digits of
  a paging token with `now` as strings).

In these places the code differs from a comment of its own, and the difference is part
of the model or of a property rather than the subject of a run:

- anonymisation "Nulls all remaining PII / credential fields on the User row."
  (`pii-anonymization-scheduler.service.ts:25`, likewise `:142`) but keeps `pendingEmail`
  and `emailChangeToken` (`:162-180`): `OnlyPendingEmailStays` says so;
- an unmatched payment is to be kept for review (`incoming-payment-poller.service.ts:43`),
  but of the payments of one transaction only the first is (`:146-149`):
  `NoTransactionLost` says so;
- the validation `create` and `preview` share "Has no side effects."
  (`engagements.service.ts:165`) and the preview shows costs "without creating anything"
  (`:94`), but it stores the engagement (`:233`): `InsertEngagement` is the step of both;
- "Successful subscription deliveries are logged" (`webhook.processor.ts:79`), but the
  processor raises before (`:70`), so none is: `PostMessage` counts them as failed.

Other things the code does are forbidden by no property, because they happen:

- a funded row never becomes COMPLETED and never learns what was released
  (`engagements.service.ts:850`);
- a webhook job whose workers died twice is dropped and logged nowhere
  (`webhook.processor.ts:91`);
- the indexer passes the rest of a ledger that did not fit an answer
  (`horizon-indexer.service.ts:75`);
- a late resolution event closes the row of the milestone's next round
  (`disputes.service.ts:383`), and a late assignment takes an appeal nobody was assigned
  to out of its review (`arbiter-assignment.service.ts:113`);
- a bulk creation appends another hundred per cent; a due date that changes while the
  reminder job runs counts as reminded; a KYC review covers documents that arrive while
  it is written; an uploader is never told of a quarantine if the first notification
  fails; the cleanup sees the first page of a listing only.
