# A formal model of Alta's banking core

This directory specifies in TLA+ the part of the repository in which money can
be lost without a test noticing: the bank ledger and the executors that move
money through it on a schedule, the cash of the terminal, the subscription that
companies pay, the Alta Card with its monthly statements, and the delivery of messages about all this. TLC checks the specifications on small
instances, TLAPS proves the most important safety properties for every
instance. Paths below are relative to the repository's root (`src/` here is the
repository's own `src/`).

## 1. Inventory

The repository is one TanStack Start application: server functions and API routes call
the services in `src/server`, which keep all state in PostgreSQL through
Prisma. Nothing is shared in memory between requests. Concurrency comes from
requests that overlap (customers, operators, the Discord bots, cron calls that
are repeated or overlap), and each request is a sequence of statements of which
only those inside a `prisma.$transaction` belong together. A request may be
lost between any two statements, and nothing in the repository bounds how long one lives: the 30 seconds
of `docs/scheduled-transfers.md:203` are the time after which the caller, cron-job.org, stops waiting.

| Component | State | Operations | What is hard | What makes it correct |
|---|---|---|---|---|
| Bank ledger (`bank.service.ts`, `ops-account-ops.service.ts`, `financial-integrity.service.ts`, `account-balance.service.ts`) | `BankAccount` (status, balance, restrictions), `BankTransaction`, `BankAccountHold` | open, deposit and withdrawal requests, their reviews, transfers, status changes, restrictions, holds, adjustments, reversals | checks outside of transactions, reviews long after requests, holds placed on torn reads, concurrent operators | balance = sum of approved rows; pending withdrawals stay covered; debits respect holds; a review is final; an adjustment is reversed once |
| Reconciliation (`balance-reconciliation.service.ts`) | none of its own | recompute every balance | tells debits by their text | reports drift only when there is some |
| Scheduled transfers (`scheduled-transfer-executor.service.ts`, `-admin`, `scheduled-transfer.service.ts`) | `ScheduledPayment`, `ScheduledTransferExecution` | find due, run now, claim, pay, record, cancel, pause, resume | overlapping calls, requests lost half-way, failures after the payment | each run is paid at most once; a due payment gets past its run |
| Payroll (`payroll-executor.service.ts`, `business-banking.service.ts`) | `PayrollRun`, its executions and lines, the employees' pay dates | make runs by hand or from pay dates, claim or take over a run, pay line by line, retry | half-paid runs that are taken over by age or retried, without an idempotency key | an executed run has paid everyone; a due batch ends; a paid line is not paid again |
| Financial idempotency (`financial-idempotency.service.ts`) | `FinancialIdempotencyRecord` | read, execute, record | execution before the record | same key, same effect |
| Discord outbox and retry queue (`discord-outbox*.ts`, `notification-retry-queue.service.ts`, `customer-notification-delivery.service.ts`, `staff-audit-notification.service.ts`) | `DiscordOutbox`, `NotificationDeliveryQueue` | enqueue, claim, deliver, finalise, recover, retry, hand off | two delivery paths, unguarded writes, stale recovery | a message is not lost, and not sent again once it is known to be sent |
| Terminal cash (`terminal-funding.service.ts`, orders, sweeps and contributions in `lib/terminal/crypto`) | bank balance, `TerminalPortfolioCashAccount` and its ledger, `TerminalCryptoMarketState`, wallets | transfer either way, buy and sell the stable coin, sweep revenue, fund the stabilization | row locks in two orders, absolute writes, rounding, retries with a key | nothing overdrawn; cash follows its ledger; the coin is backed; florins are conserved; one effect for each key |
| Commercial Pro billing (`commercial-*.ts`) | `Company` plan and billing columns, charges | subscribe, renew, past due, grace, downgrades, grants | overlapping jobs, lists used late, writes without the lock | paid through the next date, never ahead; Pro is taken only when forfeited, and then it is |
| Alta Card (`alta-card-*.service.ts`) | `AltaCard` (status, balance, available credit), its rows, statements and fees | purchase, pay, correct, generate statements, pay automatically, mark overdue, charge late fees and interest, waive | absolute writes of a card and of statements read without a lock, lists of a daily job used late, a job lost half-way | never beyond the limit; the balance follows the rows; a statement adds up; who pays in time pays no fee and no interest; an overdue statement is noticed |
| Alta Pay, payments engine, loans and deal rooms, deposit interest | their own rows, and the ledger's balances | payments, invoices, statements, servicing | long workflows over the same balances | see the notes in `PROJECT.json` |
| Bonding curves, portfolios, scheduled trades | curve state, orders on the exchange | quote, trade, reconcile | decimal arithmetic, external exchange | not modelled |
| Daily jobs and their gate (`lib/cron`) | a lock row, `OpsJobRun` | gate, lock, release | check, then write | each job once a day |
| Sessions, companies, onboarding, operations desk, intelligence, UI | their own rows | short handlers | little interaction | not modelled |

`PROJECT.json` lists every component with its status, and under `hazards` what
can go wrong in this code at which line, with the property that would notice.

## 2. Modules

| Module | What it is |
|---|---|
| `AccountBook` | What the ledger promises: accounts with a balance and a reserved part, and the eight ways in which they may change. |
| `BankLedger` | The ledger as the handlers implement it, and its refinement of `AccountBook`. |
| `MCBankLedger` | Symmetry for TLC. |
| `BankLedgerProofs` | Theorems about `BankLedger`. |
| `ScheduledTransfers` | The executor of scheduled intrabank transfers with the requests of the operations desk, and its refinement of `OneEffect`. |
| `ScheduledTransfersProofs` | Theorems about `ScheduledTransfers`. |
| `Payroll` | The payroll executor and the scan of the pay dates. |
| `MCPayroll` | Symmetry for TLC. |
| `PayrollProofs` | Theorems about `Payroll`. |
| `DiscordOutbox` | Messages to Discord: direct delivery, the outbox with its workers, the retry queue, the desk. |
| `MCDiscordOutbox` | Entities and symmetry for TLC. |
| `DiscordOutboxProofs` | Theorems about `DiscordOutbox`. |
| `CommercialBilling` | The subscription of a company, the billing job and the requests that change it. |
| `CommercialBillingProofs` | Theorems about `CommercialBilling`. |
| `OneEffect` | What an idempotency key promises. |
| `TerminalCash` | Transactions on bank, cash, coin and market with their locks and keys, and their refinement of `OneEffect`. |
| `MCTerminalCash` | The requests of an instance. |
| `TerminalCashProofs` | Theorems about `TerminalCash`. |
| `AltaCard` | A personal card, its statements and fees, and the daily billing job. |
| `AltaCardProofs` | Theorems about `AltaCard`. |

Definitions marked *Mutant* are not part of the specifications. Each is a
plausible mistake in one operation, put in its place to see that a property
notices it; `PROJECT.json` says which.

### BankLedger

*Steps.* PostgreSQL runs at READ COMMITTED. A handler that checks outside of a
transaction and writes later is two actions (`Begin...` and the write), with
what it has read kept in `calls[c]`; any other handler may run in between. A
`prisma.$transaction` is one action. This is sound for the transactions of this
component: each takes the rows of its accounts or of the request under review
with `FOR UPDATE` before it reads what it decides on; inserting a hold or a
transaction that references a locked account row needs a key-share lock on it
and waits; and what can still commit meanwhile (a hold released, a withdrawal
denied) only raises the available balance that was computed. `applyAccountHold`
has no lock and no transaction: its three reads are three actions
(`ReadForHold`), the insertion a fourth. Reading the statuses of a transfer's two
accounts is one action, since no property relates the two statuses.

*Data.* Amounts are whole numbers. Of a description the model keeps whether it
matches "debit adjustment" or "admin debit" (`debitText`), because reversals and
reconciliation decide by that text; a free reason that contains these words is
not modelled. Of a review note it keeps the adjustment that it names
(`reverses`). `overridden` is a history variable: accounts debited with
`allowOverdraft`, which an administrator may do on purpose.

*Correspondence.* One action per handler and part of a handler, under the
handler's name; `Reject` stands for every failed check, rollback or crash between
the check and the write, which leave no trace in the rows.

*Not in the module.* Other services move the same balances through the same
locked functions (Alta Pay, cards, loans, interest, billing). They are more
debits and credits of the kinds that are modelled, but a claim about the whole
application needs them in the model.

### ScheduledTransfers

A worker is one call of `executeSinglePayment`. Its statements are separate
actions: the row created under the unique constraint (`CreateExecution`), the
conflict (`FindExisting`), the transfer (`MoveMoney`), the outcome
(`MarkExecuted`, `RecordFailure`), each of which may be the last one (`Crash`).
`FindDue` is the scheduler's list, used as it was read. `RunNow`, `Unpause`,
`Reread` are `executeScheduledTransferNow`. `BeginRequest` and `FinishRequest` are
cancel, pause and resume: a check and an unconditional write.

Time is in minutes, which is the grain of the run-now key, and `Deadline` says
that a request does not live for long compared with the period of a recurring
payment: `DeadlineAssumption` asks that two requests in a row fit into a period. The code has no such bound;
its calls are sized to end within 30 seconds (`docs/scheduled-transfers.md:206`), and a period is a day or more.
The conflict's read and its write
on a FAILED row are one action: only such conflicts change a FAILED row. The age
of a PENDING row is not modelled: both branches leave the database as it is.
Balances and permissions are abstracted into success or failure of the
transfer. The idempotency key is derived from the execution row, so it is used by one
worker only and does not appear. `next` stands for `scheduledDate` or
`nextRunDate`; a recurring payment has a frequency, and every period has the
same length.

`OneEffect`, which `TerminalCash` refines with the keys of its requests, is also what the executor promises of each
run: the run is its own key, its money moves once (`Attempts`), and only what has moved is recorded as executed
(`Executed`). `RunsHaveOneEffect` is that refinement.

### Payroll

A worker is one call of `executeSinglePayrollRun`, a scanner one round of the loop of
`createAutoPayrollRunsForDueEmployees`; both exist side by side in overlapping
scheduler calls, and an administrator may start another. Each statement that commits is an action:
the execution row under its unique constraint (`CreateExecution`), the conflict
(`FindExecution`, `ResetExecution`), the lines (`ReadLines`), and for each line the transfer, its
record and the employee's next date (`PayLine`, `MarkLine`, `AdvanceEmployee`) or its failure
(`FailLine`), then the outcome (`RecordPayrollFailure`, `FinishRun`). The insertions of missing
lines and the reading of all lines are one action: an insertion changes no line that exists,
and only the final read decides. What that read found is kept in `todo` and never
looked up again, as in the code; so are the number of failures (`failures`) and the
pay date of the scanned employee.

*Age.* A PENDING row is taken over when it was created two minutes before the call began.
`old` says that the row is that old, `late` that it was when the call began, `made`
that the call has created the row. A row grows old whoever is at work on it (`GrowOld`), since the code looks at
the time of its creation only and nothing ends a call. So a creator that pays for more than two
minutes is joined by others, and both pay what is not marked yet. In the code one
call begins once for all the runs it lists; here it begins when it lists the
run, which lets it see a row as old that the code would still see as fresh, and not the
other way round.

*Dates* are pay periods. `AdvanceEmployee` sets the next date strictly after the call's own
period, as `computeNextPayDate` does. *Faults*: `MaxFaults` bounds the requests that are lost
(`Crash`) and the writes after a transfer that are refused (`RecordingFails`); a transfer that is
refused, or an account that is not active, is free.

*Not in the module.* Edits of the registry, pay dates that are filled in when
missing, the plan check before each run, and the cancellation of runs on a downgrade.

### DiscordOutbox

A message (a customer's direct message, or a staff audit) is sent at once by the request that
causes it, while its outbox row is inserted in the background (`inserting`); the request
then reports the outcome to the row by a write that it does not await (`mark`), or hands a refused customer
message to the retry queue and the row with it (`HANDED_OFF`). Workers list due rows, claim
one by a conditional update, send it and write the outcome by identifier
(`FindDue`, `Claim`, `Send`, `FinalizeOutboxAttempt`); retry jobs list
queue entries and send them without a claim (`ListQueue`, `RecordQueueAttempt`); a
recovery puts stale claims back; an operator forces a retry in a read and a write, or
replays a message as a new row.

An attempt to send (`Attempt`) tries the direct way and, unless that reports success, the bot. Its answer is that it arrived or
that it did not (`Arrives`, `NotSent`), and any of the answers on the way may have been lost although the message arrived, so that
one attempt may deliver twice. `copies` counts what arrives and
`extra` what the code has a reason for: a stale recovery, a forced retry, a hand-over,
an answer that was lost. `CopiesAreAccountedFor` compares the two. `Entity` says which messages share
a queue entry: the dedupe key is made from the reference of the business object. A message handed over to an
entry that is waiting or sent is not sent itself; `HandedOverIsServed` says what is left of the hand-over then.
A claim grows stale, and a row due again, only when nobody is at work on its message: every send has a timeout of
5 or 8 seconds, against minutes.
`faults` bounds lost answers, lost insertions, lost marks and requests, workers and jobs that die;
`retries` what operators do. Delays (`BecomeDue`, `BecomeDueInQueue`) pass at any time.

Left out: the fanout to several channels, preferences that suppress a message, the routing of rows to
bots (a worker here is a worker of the row's bot), batches (a worker lists one row at a
time, as late as it likes).

### CommercialBilling

The row of a company keeps the plan, its source (purchased or granted), the billing status, whether
a paying account is set, and four dates. A job reads `now` once, and each phase's list when the
phase begins (`NextPhase`); a renewal is one transaction under the company's lock and looks
at the row again (`Renew`, `RenewReconciled`, `RenewFails`), marking past due is a read
and a write (`ReadPastDue`, `MarkPastDue`), a downgrade looks at the plan only and then
writes Core over the row (`BeginDowngrade`, `WriteCore`). The requests of customers and
administrators read, compute and write without the lock (`BeginRequest`, `FinishRequest`);
a purchase has the lock and is one action.

The `try` around a renewal holds more than the renewal: the audit entry and the message to the customer that follow the
commit. An error there is answered as if the charge had been refused (`AfterRenewal`), and marks a company past due that has just been
charged. An error elsewhere in the loop lets the job pass over the company (`PassOver`).

`charges` counts the months charged since `begun`. Two more history variables say on what the job's decisions rest. `stale[j]`
are the companies whose row has changed, by somebody else's hand, since job `j` looked at it; it is empty again when the job reads its next
list, and a company leaves it when a refusal under the lock has looked at its row again. `doubtful` are the companies past due by the mark of a job that was not
up to date: somebody else has renewed or changed the row in between, or the mark answers an error behind a renewal.
A company leaves it when it is no longer past due. `TakenOnlyWhenForfeited` says that the code takes Pro for cause from all others, and makes no
exception for overlapping calls as such. Where it makes one, the code is wrong, and section 3 says so.
The charge itself, which debits the paying account, succeeds or fails freely.
Left out: the cleanup that a downgrade makes among invoices and payroll runs, the columns
for fees and features, reminders. `Month` and `Grace` are in days of the model's clock, and
every month has the same length.

### TerminalCash

A request (transfer, order, sweep, contribution) is a call with a key. `Submit` looks for a record of the
key, as `beginFinancialIdempotency` does; `Lock` takes the next row of the request's `Path`, and the
last lock comes with the reads (`Snapshot`), since what is read is locked; `Fund`, `Buy`,
`Sell`, `Sweep`, `Contribute` check and write absolute values; `Record` stores the
result in a statement of its own. `Crash` may end a call anywhere: before the commit nothing has happened,
after it the effect stays without a record, and the client sends the request again.

A call waits when another one holds the row it needs (`WaitsFor`), or the portfolio to which a row that it
inserts refers (`References`). Orders lock portfolio, cash, market; sweeps market, cash: calls can
wait in a ring, and PostgreSQL aborts one of it (`Deadlocked`, `AbortDeadlocked`).

*Data.* Money and coins are counted in a unit of a thousandth of a cent: the fee of an
NPFC order is the thousandth part of its gross value, and is whole in this unit. `Rounded` and
`RoundedDown` are the columns of two decimals and the payout. Two requests may carry the same key with another
payload. The quote of an order names a version of the market that the client has seen
at some time; its expiry is not modelled.

`OneEffect` is the promise: of the requests that carry one key at most one takes effect, and an answer of
success is the result of that one. `ImplementsOneEffect` refines it: the unique columns
(`Rows`) make it true where the record of the key comes too late.

Left out: the bonding curves of NVA and VLT, frozen wallets, average cost and candles, contributions from
outside, restrictions of the bank account (`BankLedger` has them), assets in preparation.

### AltaCard

Only a purchase locks the card's row before it reads it, and is one action. A payment, a correction, a
late fee, interest and a waiver read the card (and the statement) inside their transaction without a lock and
write back what they have computed: a check before the transaction
(`RequestPayment`, `RequestInterest`, ..., `ChargeStatement` for the job), the reads with the checks on them
(`Read`), and the writes (`CommitPayment`, `CommitAdjustment`, `CommitSurcharge`,
`CommitWaiver`). The first write takes the card's row until the commit, so what follows it is one step with
it: a payment allocates itself to the statements as they are then, and a waiver reads the statement again, while a fee
and interest overwrite the statement with what they have read before.

The billing job is six phases (`NextPhase`), each over a list that it reads when it begins: automatic payment, overdue marks,
delinquency (a read and a write of the card's status), late fees, interest. It may be lost anywhere (`Crash`);
what it has marked is then forgotten. Requests of the cardholder and of operators run at any time.

*Time.* A month has three parts: the 1st, the days until the payment is due on the 15th, and the days
after it. Statement `n` covers month `n - 1`; the last one is open.

*History.* `rows`, `cut` and `lost` are the sums of the card's rows, of credits beyond the balance that they met, and
of what was overwritten; `inTime` are the statements that were paid before they were past due;
`raced` the statements that were written by one while another stood between reading and writing them, or that were charged or
marked when nothing remained on them. The code promises little about these, and the
invariants say what holds of the others.

Left out: business and employee cards, lost and closed cards, changes of limit and rate, reversals, fees made by hand,
statements of custom periods, regenerated and void ones, two generations of one statement at a time, the two
steps of a freeze, the look whether automatic payment has run today, the bank's side of a payment.

## 3. What is checked

| Run | Instance | Properties |
|---|---|---|
| `bank_ledger` | 2 accounts, 3 rows, 1 hold, 1 handler, the `transfers` flag | `DriftIsReversals`, `WithdrawalsCovered`, `ReviewsAreFinal`, `ImplementsBook` |
| `bank_races` | 1 account, 3 rows, 2 holds, 2 handlers | `IInv`, `DebitsRespectReservations` |
| `scheduled_runs` | 1 payment, 2 scheduler calls, 1 run-now, 3 minutes, 1 lost request | `DatesInv`, `PaidOncePerRun`, `NeverScheduledForThePast`, `RunsHaveOneEffect` |
| `scheduled_live` | 1 payment, 1 scheduler call, 1 run-now, 1 desk request, no lost request | `RecurringRunsFinish` |
| `scheduled_stuck` | as above, without the desk, 1 lost request | `RecurringRunsFinish` is violated |
| `payroll_runs` | 2 employees, 1 run, 2 calls, 1 scan, 1 period, 1 fault | `IInv`, `ExecutedRunsArePaid`, `FirstAttemptIsExclusive` |
| `payroll_live` | 2 employees, 1 run, 1 call at a time, 1 scan, 2 periods, 1 fault | `BatchesEnd`, `PaidLinesAreNotPaidAgain` |
| `outbox_delivery` | 2 customer messages about one object (or one and its replay), 2 workers, 2 jobs, 1 operator with 1 retry, 1 attempt, 1 fault | `CopiesAreAccountedFor`, `NothingIsLost`, `HandedOverIsServed`, `AttemptsAreBounded`, `SentIsFinal` |
| `outbox_live` | 1 customer message and 1 audit or replay, 1 worker, 1 job, 2 attempts, 1 fault | `MessagesSettle` |
| `billing` | 1 company, 2 overlapping jobs, 1 desk, 1 request, 1 fault, a month of 2 days, 1 day of grace, 3 days | `IInv`, `PaidThrough`, `NeverChargedAhead`, `OneStory`, `TakenOnlyWhenForfeited`, `ForfeitedPlansEnd`, `DueSubscriptionsAreBilled` |
| `terminal_cash` | 2 portfolios, 3 calls, 3 submissions of 8 requests, 1 fault, 1 change of the asset's status | `NothingIsOverdrawn`, `CoinsAreBacked`, `CashFollowsItsLedger`, `FlorinsAreConserved`, `ImplementsOneEffect` |
| `alta_card` | 1 card with a limit of 3, amounts, fee and interest of 1, 1 request at a time, 2 requests, 1 lost job, 3 months of which two are closed | `IInv`, `WithinLimit`, `BalanceIsItsRows`, `StatementsAddUp`, `PaidInTimeIsFree`, `DueStatementsAreNoticed` |

*Bounds.* The number of rows, holds, concurrent handlers, minutes and lost
requests is a constant of each module; a call that finds no free row identifier
waits or is rejected. All amounts of the ledger are 1: with three rows, that is
enough for a deposit, a withdrawal that reserves it and a competing debit, and
for an adjustment with two reversals, and the proofs are for all amounts. Two accounts are
what a transfer needs; two handlers are what a race needs. Rows, handlers and
accounts are interchangeable, so the bank's runs use symmetry; none of the runs with symmetry checks
liveness. In `ScheduledTransfers` three minutes with a period of two hold two
runs of a recurring payment and a run-now between them, and three failures in a row.
In `Payroll` two employees make a run that can stop half-way, two calls
make a takeover, and one fault is enough for a lost request or for a payment that is
recorded as failed; the failures of transfers are unbounded up to the threshold of three.
In `DiscordOutbox` two workers and a recovery make a claim that is taken over from a lost worker, two jobs an entry
that is sent twice, and two messages about one object an entry that is handed a second message, or filled with it after it was given up while a
job still sends the first. There a row has one attempt, and one more by the operator's retry; `outbox_live` has two, with rows and
entries that are put back. In `CommercialBilling` a month of two days, a day of grace and three days hold a renewal
and what follows when it fails, before or after the charge: a mark, the end of the grace and the loss of Pro; and a grant that expires; a customer who
schedules and cancels a downgrade for ever evades the end of the grace, which
`MaxRequests` keeps out. In `TerminalCash` three calls make every ring of waiting
transactions that the paths allow, and a request that is sent three times is an original with two
retries, together or after a lost process. In `AltaCard` time ends when the first statement is past due and the second, which
carries it over, is up for automatic payment; two requests are a purchase, and what races the job on its statement, or two purchases
of which the job pays a part; one lost job is one that marks a statement and never makes the card delinquent.

*Deadlock.* The bank's runs check for it. A `ScheduledTransfers` instance ends when
time and payments are used up, a `Payroll` instance when its runs are done, the others when the messages are
settled, the days are over, or the submissions or requests are used up; their runs do not. The deadlocks of transactions are part of
`TerminalCash` itself.

*Fairness.* `ScheduledTransfers` assumes weak fairness of the scheduler's next call
for each payment (cron calls every 1 to 15 minutes) and of the steps of each
worker: a request that is not lost goes on to its end. Nothing is assumed of operators,
customers, the clock or the outcome of a transfer. `Payroll` assumes weak fairness of the steps of a call and of
the passing of two minutes, and strong fairness of the listing of each run: a scheduler call
goes through every run that is due, so a call that is free again and again takes each of them
up in the end. `DiscordOutbox` assumes weak fairness of the steps of requests, workers and jobs, of insertions and marks, of the delays
and of the stale recovery, which the workers' calls make, and strong fairness of listing each row and
entry, for the same reason; nothing is assumed of Discord or of operators. `CommercialBilling` assumes weak fairness of the
clock, of the daily start of each job and of its steps; nothing of customers and administrators. `AltaCard` assumes weak fairness
of the steps of the job, which is called every day and again after it was lost; nothing of the clock, of cardholders
and of operators. `BankLedger` and
`TerminalCash` need no fairness: their properties are safety properties.

*Disagreements.* One run shows where the code does something else than its
documents say; `findings` in `PROJECT.json` quotes both sides: a run whose request was lost is never
resumed, and its payment stays due (`scheduled_stuck`).

Others were met while modelling. The actions are in the modules, no run is spent on them:

- a closed account is credited when a deposit that was pending at its closing is approved (`bank.service.ts:1508`, against `docs/bank-account-status.md:13`);
- an adjustment can be reversed twice by two operators (`ops-account-ops.service.ts:492`, against line 514);
- every reversal of an adjustment makes reconciliation report a critical drift, for ever (`balance-reconciliation.service.ts:48`); `DriftIsReversals` says how much;
- a run-now just before the date and the scheduler at the date both pay a one-time payment (`scheduled-transfer-executor.service.ts:442`, against `docs/scheduled-transfers.md:231`);
- a second message about the same object finds the queue entry of the first, is handed over to it and is never sent (`notification-retry-queue.service.ts:40`, against the comment "Legacy retry queue owns redelivery" at `customer-notification-delivery.service.ts:204`): the run `outbox_delivery` has this case, and `HandedOverIsServed` promises one message for each object, not each message;
- an error in the audit entry or the message behind a renewal that has been committed marks a company past due that has just been charged (`commercial-pro-billing-job.service.ts:171` and `:190`), a mark may follow a renewal by another call, and a row is written to Core that somebody else has changed since it was listed (`commercial-billing.service.ts:880`): a company that has paid loses Pro when the grace is over, for "Pro billing unpaid" (line 251 of the job), and the panel tells it to add funds (`commercial-settings-panel.tsx:167`). `doubtful` and `stale` are these companies, and `TakenOnlyWhenForfeited` is about all others;
- the fee and the principal of an order are two ledger rows, each rounded to cents, and do not always add up to the settlement: reconciliation reports the cent as critical (`crypto-reconciliation.service.ts:508`, `terminal-crypto-execution.service.ts:587`); `CashFollowsItsLedger` says how far they are apart;
- a payroll run whose execution row is two minutes old is worked on by all overlapping calls, the one that created the row included, and they pay the same lines (`payroll-executor.service.ts:83`; `FirstAttemptIsExclusive` holds of the two minutes, `PaidLinesAreNotPaidAgain` of calls that do not overlap);
- a card statement that is not paid is carried over into the next one and stays open itself, so that what is due on the statements exceeds the card's balance, and a card can be paid off with a statement left unpaid (`alta-card-statement.service.ts:159`, against `docs/banking/alta-card.md:269`);
- a statement of a card that was frozen on the 1st is generated when an operator does it, and may be past due when it is issued (`alta-card-billing-cycle.ts:24`, against `docs/banking/alta-card.md:262`);
- a late fee that was waived is charged again by the next job, since only active and paid fees are looked for (`alta-card-fee.service.ts:92`, against `docs/banking/alta-card.md:382`);
- a fee or interest that has read the statement before a payment commits writes the amount before the payment back (`alta-card-fee.service.ts:173`), and a payment that has read the card before a purchase commits takes the purchase off the balance (`alta-card-transaction.service.ts:491`): `raced` and `lost` measure both;
- a payment larger than the balance that its transaction meets is recorded, and taken from the bank account, in full (`alta-card-transaction.service.ts:491`): `cut`;
- a card without available credit escapes the late fee and the interest, which go through the check of a purchase (`alta-card-transaction.service.ts:416`);
- a job lost between the overdue mark and the card's status never makes the card delinquent: the next job looks for statements that are not marked yet (`alta-card-fee.service.ts:380`); and the status is written whatever it has become since it was read, a freeze included (`alta-card-delinquency.service.ts:26`);
- an order that has passed the check of the asset's status fills after a halt (`terminal-crypto-execution.service.ts:276`, against `docs/terminal-crypto-operations.md:230`).

## 4. What is proved

`tlapm` checks every proof in `AccountBook`, `BankLedgerProofs`,
`ScheduledTransfersProofs`, `PayrollProofs`, `DiscordOutboxProofs`, `CommercialBillingProofs`,
`TerminalCashProofs` and `AltaCardProofs`.

*The ledger*, for any set of accounts and handlers, any finite set of rows and holds,
any amounts and flags (`LedgerAssumption`).

The sums are cardinalities of sets of pairs (row, unit), so that they need no recursion;
the first lemmas of `BankLedgerProofs` say how such a sum changes when one row does
(a row's *weight* in a class of rows). From them follows how each action changes
what is reserved, held, credited and debited.

- `LedgerInvariant`: `IInv`, the inductive invariant. `DriftIsReversals` alone is not
  inductive: a step that posts a call's adjustment needs to know that the call's
  direction agrees with its description (`CallsAgree`), and a review needs to know that the
  row under review is not an adjustment (`RowsAgree`).
- `ReconciliationDrift`: `DriftIsReversals`, the exact difference between a stored
  balance and what reconciliation computes.
- `LedgerImplementsBook`: every step of the ledger is a step of `AccountBook` or a
  stutter under `reserved <- Reserved(a)`.
- `LedgerCoversWithdrawals`: `WithdrawalsCovered`, from the refinement and `BookIsCovered`,
  the invariant of the abstract book: coverage is argued once, about eight actions,
  and carried over.
- `DebitsKeepReservations`, `ReviewsStayFinal`: two action properties.

*Scheduled transfers*, for any number of payments, scheduler calls, operators, desk
requests, minutes and lost requests (`ScheduleAssumption`), and any deadline of which two fit into a period
(`DeadlineAssumption`).

- `ClaimInvariant`: `IInv`. `PaidOncePerRun` alone is not inductive: nothing would keep two
  workers from both standing before the transfer. `OneOwner` says that a run has one owner,
  and `ClaimsAgree` that a row without an owner cannot be claimed again: an owned run is
  PENDING, so neither the creation of a row nor the reset of a FAILED one concerns it.
  A step either claims nothing and pays nothing (`QuietStep`), or concerns one run
  that no other worker owns (`RunStep`); each action is one of the two.
- `RunsPaidOnce`, `RunsHaveOneOwner`: the two parts that matter by themselves.
- `DatesInvariant`: `DatesInv`, that is `IInv` and `DatesAgree`. A worker that has paid writes the date after its run
  over the payment's date, without looking at it, so the danger is a late worker that sets the
  date back. `RunsInFlightAgree` says whose runs may still be in flight: that of the date itself, or one that the date has
  moved away from and whose worker began before the new date; what such a worker writes is then still
  beyond every executed run (`ExecutedRunsArePast`), since no request outlives its deadline (`RequestsAreYoung`).
- `DatesMoveOn`: `NeverScheduledForThePast`. `DeadlineAssumption` is needed: with a period of three
  minutes and a deadline of two, TLC finds a run-now and a late call of the scheduler that overlap and leave the date on a run that
  was executed. A call that ends within half a day satisfies it; the code has no bound, its documents say 30 seconds.
- `ScheduleImplementsOneEffect`: every step is a step of `OneEffect` or a stutter (`StepsMoveOrRecord`). It needs that a
  run without an owner that has moved money cannot be claimed again, from `IInv`, and that nothing takes an
  executed row back (`ExecutedIsFinal`).

*Payroll*, for any employees, runs, calls, scans, periods and faults (`PayrollAssumption`).

- `PayrollInvariant`: `IInv`. `ExecutedRunsArePaid` needs `LinesArePaid`: what is recorded as executed
  has been paid, and everyone whom a working call no longer has on its list has been paid,
  although that list is a snapshot and others write the lines meanwhile. `FirstAttemptIsExclusive`
  needs `FirstClaim`: as long as the call that made the row is at work and the row is fresh, it is
  PENDING, and every other call on the run stands before its claim and has not
  read the row as old. Such a call can then only skip. Nothing is assumed of how long a call takes: when the
  row has grown old the theorem has no more to say, and the code no more to promise. `CallsHaveRuns` says that
  the rows which calls and scans refer to exist.
- `ExecutedIsPaid`, `FirstClaimIsExclusive`: the two parts that matter by themselves.
- `RetriesPayOnlyTheRest`: `PaidLinesAreNotPaidAgain`, for behaviours in which no two calls are on one run at a time
  (`CallsDoNotOverlap`). Without that it is false of this code: two calls that take over the same old row read the same
  lines and pay them both. With it, the property follows from `ListsAreUnpaid`: what a call still has on its
  list is not executed, although the list was read once and lines of earlier, lost or failed calls are on it.

*Discord outbox and retry queue*, for any messages, any way in which they share queue entries, any workers, jobs and operators, any
number of attempts, faults and retries (`OutboxAssumption`).

- `OutboxInvariant`: `IInv`. Its heart is `CopiesAreBudgeted`, a budget of rights to send: a request that has not sent yet,
  a row that may be claimed, a sender at work and a queue entry each hold one (`FromRequest`, `FromRow`,
  `Sending`, `FromEntry`), and what has arrived together with the rights that are left never exceeds one and what `extra`
  allows. Every action spends a right, hands it on, or has a reason to make one. `RowsFollowRequests`
  and `WorkIsSettled` say why the background insertion and the mark of a request cannot meet a worker;
  `JobsAgree` that the jobs on an entry have listed the same message; `AttemptsAreLeft` that a worker
  who has claimed a row has an attempt left, by counting the retries that are not over; `ClaimsAreExclusive` that a
  claimed row is one worker's, as long as no operator has forced a retry.
- `CopiesAreExplained`, `NoMessageIsLost`, `AttemptsAreFew`: what follows from it.
- `HandOversAreServed`: `HandedOverIsServed`, however many messages share an entry. Its part of the invariant,
  `HandOversAreKept`, says that what is handed over has an entry, and that an entry closed as sent has sent a message about its object: a job that
  closes it may have listed it with another message than it carries by then (`JobsAgree` says of which object). That each message
  that was handed over is sent is false of this code (section 3).
- `SentStaysSent`: an action property.

This `IInv` is not a property of a run. It was checked on the instance of `outbox_delivery` before it was proved.

*Commercial billing*, for any companies, jobs, desks, days, months and grace (`BillingAssumption`).

- `BillingInvariant`: `IInv`. That nobody is charged ahead and that subscriptions are paid through their next date hold by the
  second look under the lock. That Pro is taken only for cause is an action property of jobs that
  have decided long before. `LooksAreRight` says of a company that a job has in hand or on its list, and whose row nobody else has changed since, that
  it is still what the job takes it for: it owes the month, or has forfeited Pro. `MarksAreRight` says of a company that is past due
  that its month is unpaid, unless the mark is doubtful, and `StepsAgree` which phase a job's step belongs to. Jobs that
  overlap with each other and with the desk are not excluded, and errors behind a renewal neither.
- `SubscriptionsArePaidThrough`, `NobodyIsChargedAhead`, `RowsTellOneStory`, `ProIsTakenOnlyWhenForfeited`: its parts.

*Terminal cash*, for any finite sets of portfolios and requests, any clients, amounts, fees and faults (`TerminalAssumption`).

- `TerminalInvariant`: `IInv`. Absolute writes are correct because what has been read is still
  current (`ReadsAreCurrent`), because whoever changes it holds the same lock
  (`LocksAreExclusive`, `PathsAreFollowed`). `OncePerKey` and `ResultsAreMade` tie records, rows and
  answers together.
- `NothingIsSpentTwice`, `CashStaysNearItsLedger`: the second adds the two roundings of each order to the
  distance between cash and ledger, and counts the orders.
- `TerminalImplementsOneEffect`: every step is a step of `OneEffect` or a stutter.
- `CoinsStayBacked`, `FlorinsStayConserved`: sums over all portfolios and over all purchases. The fold that defines them is
  recursive over a set; what the proofs need of it is one lemma, that changing the value of one element changes
  the sum by the difference (`TotalUpdate`). Induction being out of reach, it is proved from a least
  counterexample (`LeastNumber`): the fold takes some element first, and the smaller set is no counterexample.
  `CoinsMove` and `FlorinsMove` then say what one step moves, and `PurchasesGrow` how many roundings there may be.

*Alta Card*, for any limit, fee, amounts, interests, months, requests and lost jobs (`CardAssumption`).

- `CardInvariant`: `IInv`. None of the four properties is inductive: a transaction writes what it computed some
  steps ago. `CallIsCovered` says that the balance it will write stays within the limit, because balance and
  available credit were read together; `CallIsLate` and `JobIsLate` that a statement on a list of the job or in the
  hands of a charge is past due and was not paid in time, which no later step can change; and
  `StatementsAreInOrder` that a fee on a statement that was not raced is still part of what remains. The lemma `Frame` says once
  what every step has to respect; each action is then an argument about the card and the one statement it writes,
  and a payment one about how it is allocated (`AllocationIsRight`, `ReceiveIsRight`).
- `CardStaysWithinLimit`, `BalanceFollowsRows`, `StatementsAlwaysAddUp`, `PayingInTimeIsFree`: its parts.

Only model-checked: liveness (`RecurringRunsFinish`, `BatchesEnd`, `MessagesSettle`, `ForfeitedPlansEnd`, `DueSubscriptionsAreBilled`,
`DueStatementsAreNoticed`), which is out of the prover's reach, and the violation. One theorem has a hypothesis
that the run does not: `CallsDoNotOverlap`, which holds of the instance of `payroll_live` because it has one call at a time.

## 5. Plan

1. Done: `AccountBook`, `BankLedger`, `ScheduledTransfers` and `Payroll` with proofs. Left: a run
   for payments recorded as failed after their money has moved; two scans that make two
   runs of one pay date, and the liveness of pay dates.
2. Done: `DiscordOutbox`, `CommercialBilling` with proofs, `TerminalCash` with proofs and the
   abstract `OneEffect`, `AltaCard` with proofs. Left: cards that are reversed, lost or closed, and several
   cards on one bank account.
3. Done: every safety property of a run is a theorem. Left: that billing keeps the promise of `OneEffect` for each
   month, and that a bank transfer does so for its two legs.
4. Alta Pay and the payments engine over `AccountBook`; the daily gate.

## 6. Not modelled

Notifications other than their delivery, audit rows, permissions, proof images, formatting and pages; the
arithmetic of interest and the bonding curves, which TLC cannot enumerate in a
useful way; external services (Discord, the exchange, storage) beyond what can go wrong with a
call to them. Loans, sessions, companies, onboarding and the operations desk are request handlers
around rows of their own. Most of the repository's lines are pages, components, fixtures and lists. The
reasons for each part are in `components` of `PROJECT.json`.
