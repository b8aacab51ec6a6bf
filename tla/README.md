# Formal models of bayram

bayram sells personal songs through a Telegram bot. A customer fills a wizard,
pays with a credit (bought over the Payme rail, minted by a plan or an
allowance), and a worker renders the song and sends it; operators broadcast to
the customers and answer their support tickets. This directory models the parts
of the system that hold the money and the promises made about it, and those
where processes meet: TLA+ modules translated from the source, TLC runs over
small instances, and TLAPS proofs for every instance.

Paths below are relative to `src/src/bayram/` unless they start with `src/`.

## 1. The system

Four processes share one PostgreSQL database (READ COMMITTED) and one Redis:

| process | entry | holds |
|---|---|---|
| bot | `main.py`, aiogram dispatcher with a lock per chat | wizard sessions (Redis), a queue of touches |
| worker | `worker.py`, `runtime/jobs.py`, ARQ | render jobs, crons (retention, sweeps, broadcasts, support) |
| gateway | `payme/app.py` | nothing: answers Payme's JSON-RPC out of the database |
| admin API | `admin/app.py` | operators' sessions (database, mirrored in Redis) |

### Components

| component | state | operations | meets the others by | what makes it correct |
|---|---|---|---|---|
| credit ledger (`db/credits.py`, `credit_sql.py`, `credit_settlement.py`, `credit_erasure.py`, `plan_sql.py`) | `credit_accounts`, `credit_ledger`, `plan_purchases.songs_used` | charge, refund, consume, grant, mint, sweep, forget | called by the worker (charge, settle), the bot (balance), the rail and the operator (grant), the retention cron (sweep) | one credit per render, none minted or lost, never below zero |
| Payme rail (`db/payme.py`, `payme_sql.py`, `fulfilment.py`) | `payment_intents`, `payme_transactions`, receipts | create, perform, cancel, check, statement, operator settlement, sweep, expiry | called by Payme through the gateway, by the bot (links) and crons; grants credits | an intent is paid once, all rows or none, answers repeat and are true |
| render job (`runtime/jobs.py`, `runtime/submitter.py`, `pipeline/orchestrator.py`, `db/repository.py`) | orders, kits, ARQ job, the parked session | confirm, submit, attempt, retry, deliver, settle, release | bot → Redis queue → worker → ledger, Telegram | the song arrives, its credit is spent; or neither; nobody is stuck |
| settlement notification and resume (`runtime/payme_jobs.py`, `render_resume.py`) | `notified_at`, `resumed_at`, the parked draft, progress messages | announce, stamp, claim, submit, park, re-enqueue | gateway → queue → worker → submitter; the customer at the confirm screen | announced, repeated only for a cause, one song a draft, the session freed |
| checkout handler (`bot/handlers/checkout.py`) | the draft, an intent | open a link, settle | bot → rail | no second link for one press |
| wizard and gate (`bot/states.py`, `screens.py`, `handlers/*`, `gate.py`) | FSM state, draft, a parked id; a lock per chat | one handler per button and text, a lyric write, park | bot only, except the worker's release | ordered words were approved; no circle of screens |
| broadcasts, pacer (`db/broadcasts.py`, `runtime/broadcast_job.py`, `pacer.py`) | campaign, recipients, a park key | expand, claim, send, age, finish, sweep; revise, send, pause, resume, cancel | several workers and the panel on one campaign | one message each, one text, the brake obeyed, an end |
| support (`db/support_tickets.py`, `runtime/support_jobs.py`, `bot/handlers/support.py`) | tickets, card latch, timeline | open, describe, post, press, move, answer, relay | bot ↔ worker ↔ staff group ↔ panel | one card a ticket, an answer once, a true timeline |
| lyric budget, throttle (`db/lyric_budget.py`, `ratelimit.py`) | counters by day and window | charge and decide | every update, every lyric | a ceiling that holds |
| admin sessions, audit (`admin/sessions.py`, `admin/audit_sink.py`, `db/admin/audit.py`) | session rows and mirror, a MAC chain with anchors, a pool of ten connections | log in, resolve, revoke; append, sweep, verify | admin API; the retention cron cuts the log | revoked is revoked; the chain never forks, its cuts are explained, an untouched log verifies |
| retention and purge (`db/purge.py`, `runtime/retention_job.py`) | deletes | batches, sweeps | cron; runs the ledger's and the rail's sweeps | nothing live is deleted |
| the rest: names, audio, vendors, i18n, dashboards, usage, balances, churn | — | computation, lookups, upserts | — | not a matter of interleaving |

What is hard: the ledger and the rail run under READ COMMITTED with several
statements per transaction and no long locks; the queue delivers a job at least
once and abandons it after five attempts; a worker may be killed, stopped or
timed out at any await; Payme repeats, reorders and overlaps its calls; time
(twelve-hour windows, graces, expiries) races all of them. `PROJECT.json` lists
the hazards line by line, with the property that covers each or the reason why
none does.

## 2. The modules

### CreditLedger

One SQL statement, or one read with the writes it decides, per step; `tx[s]` is
the transaction a database session is running.

| model | code |
|---|---|
| `account`, `ledger`, `plan` | the committed rows |
| `tx[s].rows`, `.credit`, `.opened`, `.touched`, `.deleted`, `.erased` | what the session has done and not committed; others wait for the rows and keys it holds (`InsertFree`, `AccountFree`, `KeyFree`) |
| `BeginCharge` .. `TakePayment`, `RefuseInsufficient`, `CoverShortfall` | `credits.charge`: open account, mint the allowance, read the balance, replay probe, cap, plan song, generation, debit row, balance |
| `BeginSettle` .. `WriteRefund`, `WriteConsume` | `credit_settlement.refund` and `consume`, from the job or from the sweep |
| `BeginGrant`, `WriteGrant` | an operator's grant, or the grant of a sale |
| `BeginForget`, `AnonymiseRows`, `DeleteAccount` | `credit_erasure.forget_account` |
| `Commit`, `Abort` | `db/guard.run_guarded`: a lost answer is a commit whose caller calls again; anything else rolls back |
| `contested`, `torn` | history, nothing the program keeps: the orders refunded while another transaction had read their position and not committed, and the accounts written to between the two statements of their erasure |

Nothing is kept apart: charges, settlements, grants and erasures overlap as the
database lets them. The code takes no lock over a settlement, so that some of what
it promises is not true of every order; the properties are stated of all orders but
the contested ones (`RefundsMatchDebits`, `AnswerMeansPaid`) and all accounts but
the torn ones (`BalanceIsTheSum`), and the run `double_refund` shows the first
exception. `NeverDoubleCharged` and `NeverOverdrawn` have none.

`OrderPayment` is its promise without rows, keys and transactions: a wallet, and
how often an order was paid for and refunded. Only a
contested order may be refunded there when it is not paid. `ImplementsPayment` maps
the committed rows to it.

### PaymeRail

A call is one transaction (`call[s]`), one statement per step: `ReadCreate` (a
charge that is there is answered again, or timed out when its window is past),
`ClimbLadder` (for a new one, refuse an intent that is not payable: held, settled,
lapsed or erased), `InsertCharge`, `HoldIntent`; `ReadPerform`, `Flip`, `ReadBuyer`,
`Claim`, `WriteSale`; `ReadCancel`, `Void`, `Release`; `ReadSettle`,
`OperatorClaim`; the sweep; the erasure. `clock` tells which charges are past
their twelve hours and which links past their validity: time moves on
(`CloseWindow`, `Lapse`, `EndPlan`) whenever it likes, also inside a call, which
reads the clock once, before its transaction. The conditional updates of
`payme_sql.py` are the guards of `Flip`, `HoldIntent`, `Claim` and `Void`.

### RenderJob

From the Confirm button to the settled credit, one step between two awaits that
matter. Every order belongs to one customer with one session.

| model | code |
|---|---|
| `row[o]` | `orders.state`, and whether nothing was written for a whole grace (`quiet`) |
| `kits`, `credit[o]` | `kits`; the order's position in the ledger and whether it is settled as spent |
| `job[o]` | the ARQ job: its attempt and the step it is at |
| `session`, `desk` | the FSM data of the customer; the confirm handler at work (one update of a chat at a time) |
| `Confirm`, `Refuse`, `CreateOrder`, `Enqueue`, `Remember` | `bot/handlers/confirm.py`, `runtime/submitter.py` |
| `Start` | ARQ's count of attempts, and the job's read of its order |
| `Ends` | how a job is over: its session let go, its order not read, its release refused by Redis, or dropped by the queue; in the last three nobody frees the session |
| `Replay`, `Gate`, `Render`, `Persist`, `Mark`, `MarkFailed` | `KitPipeline._run` |
| `Send`, `SettleSent`, `SettleFailed`, `Tell`, `Release` | `_send_kit`, `_settle`, `_tell_the_customer_why`, `_release_session` |
| `Interrupt`, `Timeout`, `Crash` | cancelled by a stop (run again), by its time (not), killed |
| `FallQuiet`, `Sweep` | a grace passes; `settle_stale_debits` |

`Faults` says which of the things that may go wrong do so in a run. The ledger's
charge and settlement appear here as single commits: how they overlap is
CreditLedger's subject, and what RenderJob assumes of them is what
`ImplementsPayment` checks there. Two assumptions are part of the model: a
render outlasts the one write that parks the session (`BotIsDone`), and a served
queue keeps no job waiting longer than the settlement grace, which
`entitlements.derive_settlement_grace_s` sizes to the whole ladder of attempts.

### Resume

From the settled payment to the song it was made for. `ticket[i]` is what ARQ
holds under the job's deterministic id, `run[w]` an execution of
`notify_payment_settled`; two may be alive at once, because the queue hands a
job out again that it takes for lost.

| model | code |
|---|---|
| `intent[i]` | the row of `payment_intents`: settled, its buyer erased, announced, its resume claimed |
| `Settle`, `ReadBacklog`, `Sweep` | the gateway's enqueue after the commit, and the third arm of `run_payme_sweep` |
| `Read`, `Plan`, `Send`, `Stamp`, `StampGone` | `notify_payment_settled` up to the stamp |
| `Verify`, `Claim`, `Frame`, `Create`, `Enqueue`, `Park`, `SetState`, `SetData` | `resume_render`, one step per await |
| `Press`, `CreateOrder`, `EnqueueOrder`, `Remember` | the customer's own press, with the same submitter |
| `Edit`, `Show`, `StartOver`, `Erase` | the customer changes the draft, leaves it, or is forgotten |
| `Take`, `RetryOrGiveUp`, `Crash`, `Redeliver` | ARQ's tries |
| `Done`, `ResultExpires` | the result ARQ keeps of a finished job, and with it the id: the sweep's enqueue is taken again when the hour of `queue_result_ttl_s` is over |

A version of the draft is the id of its order, as `order_id_for` makes it: the
id, and the insert that fails on a second use of it, are what keeps one draft
from becoming two songs. `Init` starts at the confirm screen with a link open. The park
is two writes, state and data (`SetState`, `SetData`), each of which may fail or be
the last one of a dying worker.

### Broadcast

One campaign. Accounts are numbered in the order in which the audience is walked.

| model | code |
|---|---|
| `TakeExpand`, `Page`, `Unsound` | `expand_broadcast_audience` and `expand_chunk`, one transaction a page |
| `TakeSend`, `Start`, `Bodies`, `Claim` | a chunk until its rows are claimed |
| `Check`, `Deliver`, `Undeliverable`, `Flood`, `Release` | its rows one by one, the look at the campaign between blocks, the pacer's park |
| `Tally`, `Close`, `Finish` | `_close_chunk`, `_finish`: retire, count, and finish or hand on |
| `Sweep` | `sweep_due_broadcasts` |
| `Revise`, `Authorise`, `Pause`, `Resume`, `Cancel` | the panel's routes |
| `Lapse`, `Grow`, `Arrive`, `Unpark` | the lease of a claim and of the campaign, the instant, the end of a park |

`messaged` and `texts` record what the audience got: a text is `replaced` when
the campaign has had a newer one since. Ageing, counting and the campaign's
stamp are one step, and so are the sweep's read and its enqueue, and a request of
the panel, which enqueues before it commits (a job that comes too early is a job
lost: `Init` and `Ask` choose).

### Support

One ticket. The bot, the card syncs, the relay and the panel's requests are
processes that read the row and write it later.

| model | code |
|---|---|
| `Prompt`, `Describe`, `FollowUp` | the customer's side of `bot/handlers/support.py` |
| `SendCard`, `ClaimCard`, `Undo` | `post_card` and its latch `claim_group_post`, shared by the bot and the sync |
| `SyncRead`, `SyncCheck`, `SyncEdit` | `sync_support_card` |
| `Press`, `Move` | a staff button, and `move_status` from the status that was read |
| `Board`, `Compose` | the panel moves a ticket, or answers it |
| `Answer`, `RelayRead`, `Deliver`, `Stamp`, `Listen`, `ClaimByAnswering` | an answer, from the group at once or by `relay_support_reply` |
| `Repoint` | an operator selects or clears the staff group |

A call of Telegram's that fails may have been carried out, its answer lost: a card
may stand that nobody knows the number of, and an answer that arrived is told again
by the relay's next try (`SendCard`, `Deliver`). `spared` counts, for each answer,
the messages that were told and not stamped for such a cause.

### AuditChain

The audit log of the panel. A row stands for its MAC: it names the row whose MAC
is its `prev_hmac`.

| model | code |
|---|---|
| `log`, `seqs` | the committed rows of `admin_audit_log`, and its sequence, which a rollback leaves behind |
| `cuts`, `pin` | the anchors TRUNCATION and HEAD |
| `req[r]`, `lock` | a request with its transaction and the one beside it; the advisory lock of appenders |
| `Begin`, `End`, `Abort` | `get_db_session`: one transaction per request |
| `Record`; `Refuse`, `Connect`, `PoolTimeout` | `audit_sink.record`, in the request's transaction; `record_refusal` and `record_reveal`, in one beside it, on a second connection |
| `TakeLock`, `ReadHead`, `Insert`, `CommitBeside` | `append` |
| `Expire`, `SweepDelete`, `SweepCut`, `SweepPin`, `SweepCommit`, `SweepAbort` | the audit part of `purge_expired`, one transaction |
| `VerifyStart`, `VerifyBatch`, `VerifyTail` | `verify_chain`, a statement per step |

That no handler records a refusal after it has recorded an action is what
`Refusable` says, and `RequestsEnd` depends on: the lock it would wait for is its
own.

### Wizard

The screens between the menu and a queued order, on the writer's path and on the
path of the customer's own words; `draft` keeps the answers the order of the
screens depends on.

| model | code |
|---|---|
| `Path`, `After`, `Previous`, `Resolve` | `states.py` and `resolve_step`: which screen comes next and which can be drawn |
| `PickOccasion` .. `PickTongue` | the questions |
| `EnterLyricsStep`, `Claim`, `WriterAnswers` | a lyric write: the cap of the draft, the day's budget (`db/lyric_budget.py`), and the landing of what was written |
| `TypeLyrics`, `LyricsOk`, `Regenerate`, `TryAgain` | the preview |
| `Confirm`, `ReleaseReads`, `ReleaseWipes` | the order is queued and the session parked; the worker lets it go |
| `Back`, `Retype`, `Generate`, `Leave`, `Cancel`, `Forget` | what may be pressed in any state: the router filters these buttons by nothing but their name, so that `Retype` on an old name screen jumps there from anywhere, on either path |

The updates of one chat wait for each other (`lock`), except that the lock has a
time to live and a lyric may take longer (`LockExpires`); a release holds no lock
at all. `agreed` and `hurry` are history: whether the last words were approved,
and whether the customer has decided to press on. Words are "skipped" when a retype on the
path of the own words led past their preview.

How they meet: the park, the submitter and the release are in `RenderJob`,
`Resume` and `Wizard`, each time in the detail of that module and as one step in
the others; `Resume`'s `Settle` is the commit of `PaymeRail`'s perform, and
`RenderJob`'s charge and settlement are transactions of `CreditLedger`.

## 3. The runs

| run | instance | shows |
|---|---|---|
| `ledger_race` | one account under the cap of one, enforced, two orders, two sessions, a plan song, an allowance, a grant | `NeverOverdrawn`, `PlanSongsMinted` |
| `ledger_promise` | one account, one order that may be charged again after a refund, two sessions, two windows, an erasure, dark deployment | `NeverDoubleCharged`, `BalanceIsTheSum`, `RefundsMatchDebits`, `AnswerMeansPaid`, and the refinement `ImplementsPayment` |
| `payme` | one link, two charges, two calls at once, operator, erasure, sweep, expiry | `HoldIsLive`, `ChargedOnce`, `SettledTogether`, `AnswersAreTrue` |
| `payme_sweep` | a plan's link, two charges, fair sweep | `LateChargesClose` |
| `render` | one order, five attempts (the default), workers lost at any step, reads and writes of the job lost, a failing queue, a failing release | `DeliveredIsPaid`, `SpentOnAKit`, `DebitCloses`, `PromiseKept`, `SessionReleased` |
| `resume` | one link, two versions of the draft, two executions of its job, two tries, every call of the job failing, lost enqueues, crashes, redelivery, erasure | `ResumedOnce`, `ToldAgainOnlyForCause`, `OneSongPerDraft`, `PaidIsAnnounced`, `SessionFreed` |
| `broadcast` | two accounts on two pages, chunks of two, a look after each, two workers, one failure of any kind, the panel | `NeverTwice`, `WholeAudience`, `BrakesHold`, `OneText`, `NothingStalls` |
| `support` | one ticket, one sync, one press, one answer, two failures of any kind, two tries | `OneCard`, `AnsweredOnce`, `TimelineTrue`, `AnswerArrives` |
| `audit` | two requests, two connections, four sequence numbers, a sweep of one row at a time, walks in batches of two with a ceiling of three | `OneChain`, `CutsExplained`, `NoFalseAlarm`, `RequestsEnd` |
| `wizard` | one name, two languages, two writes a draft and a day, two days; the lock expires, the bot restarts, the budget's store fails | `AgreedWords`, `PressingOnArrives` |

The type invariants of CreditLedger, RenderJob and Resume are in these runs; those
of all eight components are proved. Two more runs refute a sentence the repository
states of itself. The schedule is legal, the code does as the trace says, and the
sentence is quoted in `PROJECT.json`:

| run | the sentence | what happens |
|---|---|---|
| `double_refund` | a settlement is safe to run twice (`db/credit_settlement.py:15`) | position and generation are two reads; the later refund gets a key of its own |
| `resume_park` | the park is one write, because a half-written one is a session the customer can neither use nor leave (`runtime/render_resume.py:506`) | state and data are two writes; a refusal or a dead worker in between leaves the session submitting with no order, which no render frees |

What these two find is excepted, by name, in the properties of the runs that pass:
`contested` in `ledger_promise`, `HalfParked` in `SessionFreed`.

### Other things the models showed

These follow from the modules, as traces of TLC or by reading what the actions
let happen, and have no run of their own.

- Two charges of different orders of one account both count zero open debits and
  both pass a cap of one, where `db/credits.py:384` says one render at a time.
- A charge that commits between the two statements of `forget_account` leaves
  named ledger rows without an account (`db/credit_erasure.py:306`; `torn`).
- A charge that finds its order paid answers "already paid" when it commits; a
  settlement that overlaps it may have refunded the order by then (`contested`).
- A cancel overtaken by its perform answers success with the performed charge
  (`db/payme.py:690`); line 663 says -31007, unconditionally.
- A second plan paid for while one runs is a performed charge without a receipt
  (`db/fulfilment.py:203`), against `payme/ports.py:185`.
- A worker dies between the save of a kit and its mark, the replay sends the song
  and is lost as well: the sweep refunds an order whose kit exists, against
  `db/credit_settlement.py:226`.
- An order whose row was inserted and whose job was not queued (a failed enqueue,
  or a crash of the resuming job) refuses every later press of the same draft by
  its primary key; `runtime/render_resume.py:62` calls it one press away.
- An own-lyrics order chosen after a name was given keeps the name, which
  `bot/draft.py:118` says such an order never has, and sings it as a hook.
- A name retyped and the same language picked again keeps the lyric written for
  the old name. After another language was picked, a write that is refused or
  fails leaves the lyric in the old language on the preview, approvable;
  `bot/handlers/questions.py:238` says that changing the language rewrites.
- Five failed writes leave a draft whose language screen leads back to itself
  (`bot/handlers/lyrics.py:166`); a restart of the bot in mid-write leaves the
  session submitting until Cancel or /start.
- The landing of a write looks at the state and not at the run
  (`bot/handlers/lyrics.py:219`): with the lock expired it may overwrite another
  run's write, or take a queued order's session back to the preview. A write
  whose result is dropped is not counted on the draft, only on the day.
- A release reads the parked id and wipes in a second call
  (`runtime/jobs.py:477`): a song begun in between is wiped.
- A resuming job that dies after the stamp and before its render is queued leaves
  a paid song that does not start by itself: the customer, who was told of the
  payment, presses Confirm.
- A notification that gives up is back in the sweep's backlog after five minutes, as
  `runtime/payme_jobs.py:329` says, but the queue keeps its result for an hour and
  declines the same job id until then (`queue_result_ttl_s`).
- A relay whose message arrived and whose answer was lost tells the customer again
  (`runtime/support_jobs.py:1059`), and at the staff's door a message that arrived
  is reported as refused (`bot/handlers/support.py:1453`); both are in the run.
- On the path of the own words, a Retype button of an old name screen leads to the
  name and from there past the preview of the pasted words: the order is queued
  with words its customer typed and never said yes to, where
  `bot/handlers/lyrics.py:6` says that it is queued only once the customer has said
  yes to those exact words. `AgreedWords` excepts this path by name. The same button,
  pressed before all questions are answered, leads to a language screen that leads
  back to itself; only Back gets out (`Astray`).
- A chunk that read a campaign as ready goes on when `mark_sending` matched
  nothing: a campaign cancelled in between still sends one block. Parks of up to
  600 s are longer than the lease of 300 s, so the sweep starts chains of chunks
  beside a waiting one (`db/broadcasts.py:763` says a live campaign is not
  found). Revising a campaign stamps it, so one that is revised in every lease is
  never found stalled.
- A campaign has no instant until it is sent, and the last page of its expansion
  starts one that has none (`runtime/broadcast_job.py:467`): what was only
  composed goes out, where `admin/schemas/broadcasts.py:490` says that composing
  messages nobody.
- After 730 days without an audited action the sweep deletes the whole log; an
  append that read the old head and commits later leaves a row that no anchor
  explains, against `db/purge_admin.py:142` (fault `"idle"`). Rows carry the clock
  of their request, read before the lock, so that two of them may expire in the
  other order: the sweep then cuts a hole, and verification reports a break until
  a later sweep takes the row before it (fault `"skew"`). A verification that
  overlaps a sweep may report a break at either end: it reads the cuts before the
  rows and the pin after them.
- A follow-up of the customer that loses its race with a resolve leaves the
  ticket resolved; two syncs that overlap may leave the card showing the older
  state, where `runtime/support_jobs.py:20` calls them safe out of order.

### Bounds

Two sessions are enough for every pair of overlapping transactions of an
account, and the properties that fail do so with two. `LastGen = 1` lets an order
be charged, refunded and charged again; `LastWindow = 1` lets an allowance fall
due again; `LastGrant = 1` gives each operation its neighbour. `ledger_race` has
the plan, the grant and two orders with one charge each, `ledger_promise` the
second charge, the windows and the erasure: together they are too many states.
Two charges against one link are what the hold is about. Five attempts is
`queue_max_tries`. One order is enough in `render`: its properties speak of one
order at a time, no step of another order touches its row, its job or its credit,
and another order that takes the session is to it what `StartOver` is, as a release
looks at the order the session is parked on. `Cost`, `Allowance` and the cap are
constants; the proofs take any. Sessions, and the orders of one account, are interchangeable and reduced by
symmetry in the runs without liveness.

In `resume`, two versions of a draft are the one paid for and the one it was
edited into; two executions with two tries let a job be retried, redelivered and
given up, and the sweep starts the tries over without bound. `told` and `frames`
stop counting at two. In `broadcast`, two pages of one account let an expansion
be interrupted, chunks of two with a look after each row let a stop come in the
middle, and two workers run any two jobs side by side; `MaxJobs = 1` drops a
second waiting job of a kind, as if its enqueue were lost, and `MaxFaults = 1`
puts one failure at any place. In `support` the two failures may
meet in one delivery, and two tries run out. In `wizard` two writes reach the
draft's cap and the day's budget, and two days its reset; `Writers = {1}` allows
one write at a time, and a second one after the lock expired waits for it.

In `audit` two requests are the two appenders that may fork a chain, and two
connections let each hold one and want another; four numbers give two batches, a
row beyond the ceiling, and a log that is cut, appended to and cut again. One
sweep runs at a time, and one verification.

The runs `resume`, `resume_park` and `broadcast` switch the deadlock check
off: a customer who has their song may do nothing more, and a campaign that is
over is over. Every other run checks it.

### Fairness

`RenderJob!Spec`: the bot's handler and the worker go on (weak fairness of their
steps, of each job by itself, because `worker_concurrency` jobs run side by
side), a grace passes, and the sweep is an hourly cron. No fairness is assumed of
the customer, of vendors' success, of Telegram or of any fault. That a job is run
again after a crash is ARQ's at-least-once delivery.
`PaymeRail!FairSpec`: no transaction runs for ever (it goes on or is ended), the
sweep's cron looks at a late charge again and again, a sweep that waits for a row
gets it when others keep letting it go (PostgreSQL queues its waiters), and the
database stops ending the sweep's transactions at some point. That Payme calls at
all is not assumed.
`Resume!Spec`: the worker's steps, the bot's handler, the render's end and both
halves of the sweep go on, a result ends with its hour (weak fairness); a queued job is taken, and a read, a
plan and a sent message succeed if they are possible again and again (strong
fairness): the database and Telegram are not down for ever for one job. Nothing
is assumed of stamps, claims, enqueues or the customer.
`Broadcast!FairSpec`: workers, leases, instants and parks go on; the five-minute
sweep finds a campaign that is stale again and again, which asks of operators not
to revise in every lease for ever; failures are finitely many (`luck`).
`AuditChain!FairSpec`: a handler goes on or its wait for a connection is timed out,
and a waiter gets the appenders' lock if it comes free again and again
(PostgreSQL queues its waiters); nothing is assumed of the sweep or of a
verification. `Support!FairSpec`: only the relay goes on; nothing is assumed of customer,
staff or operators. `Wizard!FairSpec`: a customer in a hurry answers the screen
in front of them, and the writer answers or fails.

## 4. The proofs

Every invariant, every action property and the refinement that the passing runs
check is a theorem too. Eight modules, one beside each component
(`CreditLedgerProofs`, `PaymeRailProofs`, `RenderJobProofs`, `ResumeProofs`,
`BroadcastProofs`, `SupportProofs`, `AuditChainProofs`, `WizardProofs`), are checked
by TLAPS for every value of the constants that satisfies the named assumptions
(`CreditAssumption`, `RailAssumption`, `RenderAssumption`, `ResumeAssumption`,
`BroadcastAssumption`, `SupportAssumption`, `AuditAssumption`, `WizardAssumption`):
any number of accounts, orders, sessions, links, charges, calls, executions,
answers and requests, any policy and limit.

They hold for any combination of the faults a module knows, but for these
theorems, which name the one thing they need:

| theorem | needs | otherwise |
|---|---|---|
| `RenderJobProofs!WhatIsDeliveredIsPaid` | not both of `"replay"` and `"mark"` | section 5, last paragraph |
| `AuditChainProofs!TypeCorrect` | `IsFiniteSet(Requests)` | those about to append cannot be counted against the bound on numbers |
| `AuditChainProofs!CutsAreExplained` | `"idle" \notin Faults` | a log silent for 730 days (section 3) |
| `AuditChainProofs!NeverAFalseAlarm` | `Faults = {}`: not `"skew"` either | rows that expire out of order (section 3) |

The arguments, by module. In all of them the property is a part of the inductive
invariant or follows from it.

**CreditLedgerProofs**, in five parts.

1. `TypeCorrect`, `ChargedOnce` (`[]NeverDoubleCharged`). The invariant adds that
   the refunds of an order are numbered without gaps (`Segments`), that a debit
   stands on the refund before it, that no two open transactions hold rows of one
   key (`KeysApart`), and what a transaction has read: a generation once read
   stays at or below the next. It holds of contested orders too.
2. `SongsAreCounted` (`[]PlanSongsMinted`). The song a transaction has minted and
   not committed is the one the plan counts next, within what was sold (`PlanTx`),
   and its key keeps every other claim of it out.
3. `NeverNegative` (`[]NeverOverdrawn`). At most one open transaction holds an
   account's row (`OneHolder`), so what it has made of the balance is what it
   commits.
4. `RefundsAreOwed`, `AnswersArePaid`, `LedgerKeepsThePromise` (`ImplementsPayment`),
   `PaidAtMostOnce`. Which operation is at which step, with which rows, and what it
   has moved (`Course`, `Moves`). Some of what a transaction has read and written of its
   order nothing can change (`Certain`: the key of its row, the amount it settles);
   the rest, that its generation is the next and that the credit is held, still
   holds as long as the order is not contested (`Current`), because a refund that
   commits under it contests the order in the same step. From the two counts of an order its
   position is `Cost` or nothing (`Position`). For the refinement, a commit is
   shown to be one step of `OrderPayment` by what the transaction did (pay,
   refund, gain, forget), and every other step to be none; the invariant of part
   3 says that what is committed is the balance that was moved. `PaidAtMostOnce`
   is `OrderPayment`'s invariant, seen through the mapping.
5. `BalancesAreSums` (`[]BalanceIsTheSum`). A transaction owes the account's row
   exactly the sum of the rows it has written, but for a debit row whose credit
   is not taken yet (`Booked`), the covering row of a debit comes with it
   (`Covered`), and an erasure sums to nothing, or its account is torn (`Leaving`). The sums themselves
   need induction over a finite set, for which the library's theorems are out of
   reach (they take an operator): the lemmas take a least counterexample among
   the sizes instead (`LeastNat`), which first-order logic can state.

**PaymeRailProofs**: `TypeCorrect`, `HoldsAreLive`, `CardsChargedOnce`,
`SettlesTogether`, `AnswersAreSo`. The four properties are one invariant. An open
call knows what it is about, what it has written and where that leaves it
(`CallOK`: `About`, `Written`, `Done`, `Standing`, `Answering`), and no two open calls
write one charge or touch one intent (`Apart`): that is what the row locks of the
conditional updates give, and why an answer decided early is true at the commit.

**RenderJobProofs**: `TypeCorrect`, `NeverSpentOnNothing` (`[]SpentOnAKit`),
`WhatIsDeliveredIsPaid` (`[]DeliveredIsPaid`). An order marked delivered, and a job
at the steps after the save, have their kit (`MadeKits`); the sweep consumes only
what is so marked. For the second, a job that renders, saves or marks has paid; a
job about to refund is not marked delivered; a quiet order has no job that lives;
and where replays find their kits, a job whose kit is saved is at none of the
steps that render or refund (`Charged`).

**ResumeProofs**: `TypeCorrect`, `ResumesOnce`, `ToldTwiceForCause`, `NoSecondSong`.
An execution under way reads a payment; one past its second look was opened for a
draft; one about to post the progress message holds the claim alone while nothing
was posted; a waiting ticket has a try left; a screen that shows a draft has one.
`ToldAgainOnlyForCause` adds that while nothing of a payment was lost one
execution reads it, one that is about to send has seen no message, and a message
without its stamp is that execution's own (`OnceInv`); `OneSongPerDraft`, that a
draft without a row has no song, and that one hand at most is between a row and
the queue (`HandInv`).

**BroadcastProofs**: `MessagedOnce`, `AudienceIsWhole`, `BrakesAreKept`,
`OneTextForAll`, `TypeCorrect`. For the first: what an execution has claimed and not dealt with
is out, fresh and unmessaged (`Mine`); no two hold one row (`Apart`); a row that may
still be claimed was never messaged (`Counted`), which is why an abandoned row may
not go back to pending. For the others, the course of the campaign (`CourseInv`):
rows are there up to the cursor, and an execution walks on from rows that are
there; nothing moves a settled row or brings a campaign back to where it can be
revised (`On`), so a tally of nothing left stays one until the finish, and a text
read for sending stays current; what went after a stop is counted in blocks. For
the types: the rows an execution holds and those it has dealt with are a chunk
together, as it claims once and then only moves rows from one to the other; a
look that failed was paid for with a failure; and a cursor, a tally and a count of
sent rows are sizes of sets of accounts (`Within`, `Limits`).

**SupportProofs**: `TypeCorrect`, `OneCardStands`, `ToldOnce`, `TimelineIsTrue`. A
post holds the card it sent until it has claimed or withdrawn it, no two hold one,
and the cards nobody answers for are no more than the failures spent (`CardInv`);
an answer that may be told again was told no more often than a relay was killed
between the message and its stamp or an answer of Telegram's was lost (`Answers`). There are enough numbers for the
cards of every post and failure, which a count of the cards shows.

**AuditChainProofs**: `NeverForks` (`[]OneChain`), `CutsAreExplained`,
`NeverAFalseAlarm`, `TypeCorrect`. Only the holder of the lock has rows it has not committed;
they are linked to each other and to the newest committed row, and the head it
has read stays the newest it sees. The sweep only takes rows away, and a subset
of a chain has nothing between a row and the one it names. For the cuts: the
newest row stays, so an append names a row that is there, and the cut a sweep
commits names what it leaves first (`CutsInv`). For the walk: every row but the
oldest names another, what is due is the beginning of the log, no anchor is ahead
of it, and a walk no sweep has overtaken stands at a row of the log, or before an
oldest row that one of its cuts names (`WalkInv`). For the types, where the
requests are finitely many: a number is left for everybody who may still append,
as the bound of the model is looked at before the pool is waited for (`Fits`);
rows have distinct numbers, so that the first rows of a walk or a sweep are no
more than were asked for (`FirstIsFew`), and the batches of a walk stay within its
ceiling together (`Places`).

**WizardProofs**: `TypeCorrect`, `AgreesFirst` (`[]AgreedWords`). Whoever stands at
the summary has agreed to the words on it; on the path of the customer's own
words the screens after them need the yes as well, as the ways back lead over
them, unless a retype led there (`Words`); a write under way is for an answered draft of the other path.

Only model-checked: all liveness (`LateChargesClose`, `DebitCloses`, `PromiseKept`,
`SessionReleased`, `PaidIsAnnounced`, `SessionFreed`, `NothingStalls`, `AnswerArrives`,
`RequestsEnd`, `PressingOnArrives`), which is out of TLAPS's reach as is `ENABLED`,
and with it the absence of deadlock.

The leaves are small on purpose: each of them is found in a tenth of the time the
prover allows by itself (`tlapm --stretch 0.1`), so that the proofs do not depend
on the speed of a machine.

## 5. What is not modelled

Of the ledger: `set_blocked`, the touch of `last_seen_at` and the retention of
old rows. A sale's grant is the operator's grant under another key. Of the rail:
the purge of expired intents, the maintenance pause; the sweep of many charges in
one transaction is one charge per transaction, and an order that an operator sets
to CANCELLED never occurs, as nothing in the code writes it. Of the render: retries within a stage, what vendors return, the
several messages of a kit (but for whether the song arrived), the in-process
submitter of the demo.

Of the notification: the announcement of a plan, the grace that leaves a payment
to the gateway's own enqueue, the staff's notice, a customer's next song after
/start. It is assumed that a render outlasts the last write of the session by its
submitter. Of broadcasts: test sends, the cached image, the recorder of blocks,
the content of the bodies, the budget per second, and the campaign's copy of the
counters, where an older count may overwrite a newer one
(`db/broadcasts.py:1094`). The kinds of settled rows that nothing tells apart are
one; the lease is assumed longer than a chunk's time, which `config.py` demands.
A message whose send broke after it left counts as sent and is recorded as
failed. Of support: the quota of open tickets (advisory), notes, assignment, the
verification of the group, which prompt is listened on (two doors may re-point it
out of order, `bot/handlers/support.py:482`), what the card shows, and the
buttons of a stray card. Of the wizard: onboarding, the interface language, the
checkout buttons at confirm, the note's text; a lyric landing in the middle of a
confirmation. Of the audit log: what its rows say and the scrubbing of it, the
90-day sweep of reasons, the appends of the worker and of the CLI, which have
pools of their own, and any change made to the table by hand, which is what the
chain is there to show. Of the admin API: sessions and their mirror.
`PROJECT.json` lists the components left out and why.

With the faults `replay` and `mark` together `DeliveredIsPaid` fails (a spent
order is rendered again, fails and is refunded, and the row keeps its old mark), so
that the run has the second alone. A job that waits in a queue nobody serves for
longer than the settlement grace would be refunded and run
(`db/credit_sql.py:621`). Of the open-debit count the age limit is left out
(`db/credits.py:391`), which makes the model's cap the stricter one.

## 6. The plan

What is left, in order.

Proofs: every safety property of a run and every type invariant is proved; what
is left to prove comes with new modules.

Modules: `AdminSession` (the mirror against revocation), `Purge` (the batches
against the rows other parts still read), and a composition of `PaymeRail`,
`Resume` and `RenderJob` on one order. They would take the place of runs that are
settled, as the runs stay at a dozen.

## 7. Running

    tlc -config mc_ledger_race.cfg MC_CreditLedger
    tlapm CreditLedgerProofs.tla

Each `mc_*.cfg` names its instance in its first lines; `PROJECT.json` pairs
configurations with modules, properties with the faulty definitions that break
them (the operators marked "Fault" in the modules), and definitions with lines of
the source.
