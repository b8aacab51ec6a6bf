---------------------------- MODULE CreditLedger ----------------------------
(***************************************************************************)
(* The credit ledger (bayram.db.credits, credit_sql, credit_settlement,    *)
(* credit_erasure, plan_sql) as concurrent PostgreSQL transactions at READ *)
(* COMMITTED, the isolation level the deployment runs at.                  *)
(*                                                                         *)
(* Every operation is a transaction run by a database session, one SQL     *)
(* statement (or one read plus the writes it decides) per step. A read     *)
(* sees the committed rows and the session's own writes; a write waits     *)
(* while another open transaction holds the same account row, plan row or  *)
(* idempotency key; a refusal or a failure rolls everything back.          *)
(***************************************************************************)
EXTENDS Integers, FiniteSets, FiniteSetsExt

CONSTANTS
    Users,          \* Telegram accounts
    Nobody,         \* the erased owner of a ledger row (NULL)
    Orders,         \* render orders
    Owner,          \* Owner[o]: the account order o belongs to
    Sessions,       \* database sessions, each running one transaction at a time
    Cost,           \* what one render costs (DEFAULT_COST)
    Allowance,      \* policy.allowance_credits, minted once per window
    MaxInFlight,    \* policy.max_orders_in_flight
    Enforced,       \* policy.is_balance_enforced; FALSE is the dark deployment
    PlanSize,       \* songs_included of a plan
    Leavers,        \* bound: the accounts that may ask to be forgotten
    LastWindow,     \* bound: the last allowance window the clock reaches
    LastGrant,      \* bound: grants per account are numbered 1..LastGrant
    LastGen         \* bound: an order past this generation is not charged again

ASSUME CreditAssumption ==
    /\ Nobody \notin Users
    /\ Owner \in [Orders -> Users]
    /\ Cost \in Nat \ {0}
    /\ Allowance \in Nat
    /\ MaxInFlight \in Nat \ {0}
    /\ Enforced \in BOOLEAN
    /\ PlanSize \in Nat
    /\ Leavers \subseteq Users
    /\ LastWindow \in Nat /\ LastGrant \in Nat /\ LastGen \in Nat

VARIABLES
    account,    \* account[u]: the committed credit_accounts row, if it is open
    ledger,     \* the committed credit_ledger rows
    plan,       \* plan[u]: the account's plan_purchases row
    window,     \* the clock, as the allowance window it is in
    tx,         \* tx[s]: the transaction session s is running
    \* History the program does not keep: what its own overlaps have put in doubt.
    contested,  \* the orders refunded under a transaction that relied on their position
    torn        \* the accounts written to under an erasure that had named their rows

history == <<contested, torn>>
vars == <<account, ledger, plan, window, tx, contested, torn>>

-----------------------------------------------------------------------------
\* Rows and keys. A row's idempotency key names its kind, what it is about and
\* which attempt it is, so kind, order and generation are read off the key.

OrderKinds == {"debit", "refund", "consume"}
AccountKinds == {"period", "plan", "grant"}
Key == ((OrderKinds \union {"unenforced"}) \X Orders \X Nat)
         \union (AccountKinds \X Users \X Nat)
Row == [key : Key, user : Users \union {Nobody}, delta : Int]

\* minted is the last window the account's allowance was minted for; a plan
\* runs until the end of a window and counts the songs it has handed out.
Never == -1
Windows == Nat \union {Never}
Account == [open : BOOLEAN, balance : Int, minted : Windows]
NoAccount == [open |-> FALSE, balance |-> 0, minted |-> Never]
Plan == [owned : BOOLEAN, ends : Windows, used : Nat]
NoPlan == [owned |-> FALSE, ends |-> Never, used |-> 0]

Has(rows, k) == \E r \in rows : r.key = k
Generations(rows, kind, o) ==
    {r.key[3] : r \in {x \in rows : x.key[1] = kind /\ x.key[2] = o}}

\* Fault: attempts counted by the debits of the order instead of its refunds.
GenerationByDebits(rows, o) == Cardinality(Generations(rows, "debit", o))

\* generation_for: one per refund the order has had.
Generation(rows, o) == Cardinality(Generations(rows, "refund", o))

\* net_position. Every debit carries -Cost and every refund gives one Cost
\* back, so this is SUM(delta) of the order's rows.
NetPosition(rows, o) ==
    Cost * (Cardinality(Generations(rows, "refund", o))
            - Cardinality(Generations(rows, "debit", o)))

\* count_in_flight without its cutoff: the debits of the account that have
\* neither a CONSUME nor a REFUND of their own generation.
OpenDebits(rows, u) ==
    {r \in rows : /\ r.key[1] = "debit"
                  /\ r.user = u
                  /\ ~Has(rows, <<"consume", r.key[2], r.key[3]>>)
                  /\ ~Has(rows, <<"refund", r.key[2], r.key[3]>>)}
InFlight(rows, u, excluded) ==
    Cardinality({r \in OpenDebits(rows, u) : r.key[2] # excluded})

-----------------------------------------------------------------------------
\* Transactions. n is the window (charge) or number (grant) the call was given;
\* net, gen, full and seen are what it has read; rows, credit, opened, touched,
\* deleted and erased what it has done and not yet committed.

Ops == {"none", "charge", "settle", "grant", "forget"}
Steps == {"idle", "open", "mint", "state", "net", "live_plan", "claim",
          "generation", "debit", "take", "settle_net", "settle_account",
          "settle_generation", "settle_write", "open_grant", "write_grant",
          "forget_rows", "forget_account", "commit"}
Answers == {"none", "charged", "already_paid", "settled", "unsettled"}
NotSeen == -1

Tx == [op : Ops, pc : Steps, user : Users \union {Nobody},
       order : Orders \union {Nobody}, close : {"refund", "consume"}, n : Nat,
       full : BOOLEAN, net : Int, gen : Nat, seen : Nat \union {NotSeen},
       opened : BOOLEAN, touched : BOOLEAN, deleted : BOOLEAN, credit : Int,
       rows : SUBSET Row, erased : SUBSET Key, answer : Answers]

Idle == [op |-> "none", pc |-> "idle", user |-> Nobody, order |-> Nobody,
         close |-> "consume", n |-> 0, full |-> FALSE, net |-> 0, gen |-> 0,
         seen |-> NotSeen, opened |-> FALSE, touched |-> FALSE,
         deleted |-> FALSE, credit |-> 0, rows |-> {}, erased |-> {},
         answer |-> "none"]

\* What session s sees: committed rows and its own.
Seen(s) == ledger \union tx[s].rows
AccountSeen(s) == account[tx[s].user].open \/ tx[s].opened
BalanceSeen(s) == account[tx[s].user].balance + tx[s].credit

\* The other open transactions of an account, and the locks they hold. A row
\* another transaction has inserted is invisible: it blocks an insert of the
\* same key, and an update passes it by.
Others(s, u) == {t \in Sessions \ {s} : tx[t].user = u}
InsertFree(s, u) == \A t \in Others(s, u) : ~tx[t].opened /\ ~tx[t].deleted
AccountFree(s, u) ==
    \A t \in Others(s, u) : tx[t].opened \/ ~(tx[t].touched \/ tx[t].deleted)
KeyFree(s, k) == \A t \in Sessions \ {s} : ~Has(tx[t].rows, k)
PlanFree(s, u) ==
    \A t \in Others(s, u) :
        /\ \A r \in tx[t].rows : r.key[1] # "plan"
        /\ tx[t].op = "forget" => tx[t].pc = "forget_rows"

-----------------------------------------------------------------------------
Init ==
    /\ account = [u \in Users |-> NoAccount]
    /\ ledger = {}
    /\ plan = [u \in Users |-> NoPlan]
    /\ window = 0
    /\ tx = [s \in Sessions |-> Idle]
    /\ contested = {} /\ torn = {}

At(s, step) == tx[s].pc = step
Become(s, t) == /\ tx' = [tx EXCEPT ![s] = t]
                /\ UNCHANGED <<account, ledger, plan, window, history>>
Goto(s, step) == Become(s, [tx[s] EXCEPT !.pc = step])
Rollback(s) == Become(s, Idle)
Answer(s, a) == Become(s, [tx[s] EXCEPT !.pc = "commit", !.answer = a])
NewRow(k, u, d) == [key |-> k, user |-> u, delta |-> d]

\* A row of its own account, written together with the balance move it stands
\* for (write_entry, then add_credits).
Credited(s, k, d, step) ==
    [tx[s] EXCEPT !.rows = @ \union {NewRow(k, tx[s].user, d)},
                  !.credit = @ + d, !.touched = TRUE, !.pc = step]

\* A transaction of operation op for account u starts at its first step.
Begin(s, op, u, o, k, step) ==
    [Idle EXCEPT !.op = op, !.pc = step, !.user = u, !.order = o, !.n = k]

-----------------------------------------------------------------------------
\* charge: pay for an order exactly once.

BeginCharge(s, o) ==
    /\ At(s, "idle")
    /\ Generation(ledger, o) <= LastGen
    /\ Become(s, Begin(s, "charge", Owner[o], o, window, "open"))

\* open_account: insert the account row unless it is there.
OpenAccount(s) ==
    /\ At(s, "open") \/ At(s, "open_grant")
    /\ InsertFree(s, tx[s].user)
    /\ Become(s, [tx[s] EXCEPT !.opened = ~account[tx[s].user].open,
                               !.pc = IF @ = "open" THEN "mint" ELSE "write_grant"])

\* _mint_due_allowance. The key decides which of two racing mints is the one.
AllowanceKey(s) == <<"period", tx[s].user, tx[s].n>>
AllowanceDue(s) == Allowance > 0 /\ account[tx[s].user].minted < tx[s].n
MintNothing(s) ==
    /\ At(s, "mint")
    /\ ~AllowanceDue(s) \/ (KeyFree(s, AllowanceKey(s)) /\ Has(ledger, AllowanceKey(s)))
    /\ Goto(s, "state")
MintAllowance(s) ==
    /\ At(s, "mint")
    /\ AllowanceDue(s)
    /\ KeyFree(s, AllowanceKey(s)) /\ ~Has(ledger, AllowanceKey(s))
    /\ AccountFree(s, tx[s].user)
    /\ IF AccountSeen(s)
       THEN Become(s, Credited(s, AllowanceKey(s), Allowance, "state"))
       ELSE Rollback(s)

\* read_balance: whether the cap is reached is remembered, because an order
\* already paid for is answered first. A barred account is refused at once; an
\* operator bars and unbars at any moment, so the read may find either.
ReadState(s) ==
    /\ At(s, "state")
    /\ Become(s, [tx[s] EXCEPT
         !.full = InFlight(Seen(s), tx[s].user, tx[s].order) >= MaxInFlight,
         !.pc = "net"])
RefuseBarred(s) == At(s, "state") /\ Rollback(s)

\* Fault: replay decided by whether the order was ever debited.
AlreadyDebited(s) ==
    /\ At(s, "net")
    /\ Generations(ledger, "debit", tx[s].order) # {}
    /\ Answer(s, "already_paid")

AlreadyPaid(s) ==
    /\ At(s, "net")
    /\ NetPosition(ledger, tx[s].order) < 0
    /\ Answer(s, "already_paid")
RefuseStacked(s) ==
    /\ At(s, "net")
    /\ NetPosition(ledger, tx[s].order) >= 0
    /\ tx[s].full
    /\ Rollback(s)
MayRender(s) ==
    /\ At(s, "net")
    /\ NetPosition(ledger, tx[s].order) >= 0
    /\ ~tx[s].full
    /\ Goto(s, "live_plan")

\* _mint_plan_song: read the live plan, then claim the song after the ones it
\* had handed out when read. A lost claim mints nothing.
LivePlan(s) ==
    LET p == plan[tx[s].user]
    IN  p.owned /\ tx[s].n <= p.ends /\ p.used < PlanSize
ReadPlan(s) ==
    /\ At(s, "live_plan")
    /\ IF LivePlan(s)
       THEN Become(s, [tx[s] EXCEPT !.seen = plan[tx[s].user].used, !.pc = "claim"])
       ELSE Goto(s, "generation")
\* Fault: a read-then-write claim, without WHERE songs_used = :seen.
ClaimUnseen(s) ==
    LET u == tx[s].user
    IN  /\ At(s, "claim")
        /\ PlanFree(s, u) /\ AccountFree(s, u) /\ AccountSeen(s)
        /\ Become(s, Credited(s, <<"plan", u, tx[s].seen>>, 1, "generation"))

ClaimPlanSong(s) ==
    LET u == tx[s].user
    IN  /\ At(s, "claim")
        /\ PlanFree(s, u)
        /\ plan[u].used = tx[s].seen
        /\ AccountFree(s, u)
        /\ IF AccountSeen(s)
           THEN Become(s, Credited(s, <<"plan", u, tx[s].seen>>, 1, "generation"))
           ELSE Rollback(s)
LosePlanSong(s) ==
    /\ At(s, "claim")
    /\ PlanFree(s, tx[s].user)
    /\ plan[tx[s].user].used # tx[s].seen
    /\ Goto(s, "generation")

\* Fault: the generation is one short.
ReadGenerationShort(s) ==
    /\ At(s, "generation")
    /\ Become(s, [tx[s] EXCEPT !.gen = Generation(ledger, tx[s].order) - 1,
                               !.pc = "debit"])

ReadGeneration(s) ==
    /\ At(s, "generation")
    /\ Become(s, [tx[s] EXCEPT !.gen = Generation(ledger, tx[s].order), !.pc = "debit"])

\* _write_debit: the key of this order and generation is taken once.
DebitKey(s) == <<"debit", tx[s].order, tx[s].gen>>
WriteDebit(s) ==
    /\ At(s, "debit")
    /\ KeyFree(s, DebitKey(s)) /\ ~Has(ledger, DebitKey(s))
    /\ Become(s, [tx[s] EXCEPT
         !.rows = @ \union {NewRow(DebitKey(s), tx[s].user, -Cost)}, !.pc = "take"])
\* Fault: the answer of write_entry is ignored and the balance moves anyway.
LoseDebitAndTake(s) ==
    /\ At(s, "debit")
    /\ KeyFree(s, DebitKey(s)) /\ Has(ledger, DebitKey(s))
    /\ Goto(s, "take")

LoseDebit(s) ==
    /\ At(s, "debit")
    /\ KeyFree(s, DebitKey(s)) /\ Has(ledger, DebitKey(s))
    /\ Answer(s, "already_paid")

\* debit_balance, one conditional UPDATE; then the refusal, or the shortfall
\* a dark deployment covers with a row that names no order.
\* Fault: the UPDATE has lost its balance predicate.
CanAlwaysPay(s) == AccountSeen(s)

CanPay(s) == AccountSeen(s) /\ BalanceSeen(s) >= Cost
TakePayment(s) ==
    /\ At(s, "take")
    /\ AccountFree(s, tx[s].user)
    /\ CanPay(s)
    /\ Become(s, [tx[s] EXCEPT !.credit = @ - Cost, !.touched = TRUE,
                               !.pc = "commit", !.answer = "charged"])
RefuseInsufficient(s) ==
    /\ At(s, "take")
    /\ AccountFree(s, tx[s].user)
    /\ ~CanPay(s)
    /\ Enforced \/ ~AccountSeen(s)
    /\ Rollback(s)
\* Fault: the shortfall skips the balance move and writes no row for it.
CoverSilently(s) ==
    /\ At(s, "take")
    /\ AccountFree(s, tx[s].user)
    /\ AccountSeen(s) /\ ~CanPay(s)
    /\ ~Enforced
    /\ Answer(s, "charged")

CoverKey(s) == <<"unenforced", tx[s].order, tx[s].gen>>
CoverShortfall(s) ==
    /\ At(s, "take")
    /\ AccountFree(s, tx[s].user) /\ KeyFree(s, CoverKey(s))
    /\ AccountSeen(s) /\ ~CanPay(s)
    /\ ~Enforced
    /\ Become(s, [tx[s] EXCEPT
         !.rows = @ \union {NewRow(CoverKey(s), tx[s].user, Cost)},
         !.touched = TRUE, !.pc = "commit", !.answer = "charged"])

-----------------------------------------------------------------------------
\* settle: refund (the render failed) or consume (it was delivered, or the
\* customer would not take it). The job and the sweep run this same operation.

BeginSettle(s, o, close) ==
    /\ At(s, "idle")
    /\ Become(s, [Begin(s, "settle", Owner[o], o, 0, "settle_net")
                    EXCEPT !.close = close])

\* Fault: an order at position zero is settled as well.
HoldsCreditOrZero(s) ==
    LET net == NetPosition(ledger, tx[s].order)
    IN  /\ At(s, "settle_net")
        /\ net <= 0
        /\ Become(s, [tx[s] EXCEPT !.net = net,
             !.pc = IF tx[s].close = "refund" THEN "settle_account"
                                              ELSE "settle_generation"])

\* An order that holds no credit is left alone, and so is the refund of an
\* account that has been erased.
HoldsCredit(s) ==
    LET net == NetPosition(ledger, tx[s].order)
    IN  /\ At(s, "settle_net")
        /\ net < 0
        /\ Become(s, [tx[s] EXCEPT !.net = net,
             !.pc = IF tx[s].close = "refund" THEN "settle_account"
                                              ELSE "settle_generation"])
HoldsNothing(s) ==
    /\ At(s, "settle_net")
    /\ NetPosition(ledger, tx[s].order) >= 0
    /\ Answer(s, "unsettled")
AccountThere(s) ==
    /\ At(s, "settle_account")
    /\ AccountSeen(s)
    /\ Goto(s, "settle_generation")
AccountErased(s) == At(s, "settle_account") /\ ~AccountSeen(s) /\ Answer(s, "unsettled")
SettleGeneration(s) ==
    /\ At(s, "settle_generation")
    /\ Become(s, [tx[s] EXCEPT !.gen = Generation(ledger, tx[s].order),
                               !.pc = "settle_write"])

SettleKey(s) == <<tx[s].close, tx[s].order, tx[s].gen>>
WriteRefund(s) ==
    /\ At(s, "settle_write") /\ tx[s].close = "refund"
    /\ KeyFree(s, SettleKey(s)) /\ ~Has(ledger, SettleKey(s))
    /\ AccountFree(s, tx[s].user)
    /\ IF AccountSeen(s)
       THEN Become(s, [Credited(s, SettleKey(s), -tx[s].net, "commit")
                         EXCEPT !.answer = "settled"])
       ELSE Rollback(s)
WriteConsume(s) ==
    /\ At(s, "settle_write") /\ tx[s].close = "consume"
    /\ KeyFree(s, SettleKey(s)) /\ ~Has(ledger, SettleKey(s))
    /\ Become(s, [tx[s] EXCEPT
         !.rows = @ \union {NewRow(SettleKey(s), tx[s].user, 0)},
         !.pc = "commit", !.answer = "settled"])
LoseSettlement(s) ==
    /\ At(s, "settle_write")
    /\ KeyFree(s, SettleKey(s)) /\ Has(ledger, SettleKey(s))
    /\ Answer(s, "unsettled")

-----------------------------------------------------------------------------
\* grant: credits on an operator's or a sale's say-so, under the caller's key.

BeginGrant(s, u, k) ==
    /\ At(s, "idle")
    /\ Become(s, Begin(s, "grant", u, Nobody, k, "open_grant"))
GrantKey(s) == <<"grant", tx[s].user, tx[s].n>>
WriteGrant(s) ==
    /\ At(s, "write_grant")
    /\ KeyFree(s, GrantKey(s)) /\ ~Has(ledger, GrantKey(s))
    /\ AccountFree(s, tx[s].user)
    /\ IF AccountSeen(s) THEN Become(s, Credited(s, GrantKey(s), 1, "commit"))
                         ELSE Rollback(s)
GrantAgain(s) ==
    /\ At(s, "write_grant")
    /\ KeyFree(s, GrantKey(s)) /\ Has(ledger, GrantKey(s))
    /\ Answer(s, "unsettled")

-----------------------------------------------------------------------------
\* forget_account: the rows keep everything but their owner, then the balance
\* goes. Each statement reaches the rows committed when it runs.

BeginForget(s, u) ==
    /\ At(s, "idle")
    /\ Become(s, Begin(s, "forget", u, Nobody, 0, "forget_rows"))
AnonymiseRows(s) ==
    LET u == tx[s].user
    IN  /\ At(s, "forget_rows")
        /\ PlanFree(s, u)
        /\ Become(s, [tx[s] EXCEPT
             !.erased = {r.key : r \in {x \in ledger : x.user = u}},
             !.seen = IF plan[u].owned THEN plan[u].used ELSE NotSeen,
             !.pc = "forget_account"])
DeleteAccount(s) ==
    /\ At(s, "forget_account")
    /\ AccountFree(s, tx[s].user)
    /\ Become(s, [tx[s] EXCEPT !.deleted = account[tx[s].user].open, !.pc = "commit"])

-----------------------------------------------------------------------------
\* The end of a transaction: everything it did, at once, or nothing.

Merged(s) ==
    {[r EXCEPT !.user = IF r.key \in tx[s].erased THEN Nobody ELSE @] : r \in ledger}
        \union tx[s].rows
AccountAfter(s, a) ==
    IF tx[s].deleted THEN NoAccount
    ELSE [open |-> a.open \/ tx[s].opened, balance |-> a.balance + tx[s].credit,
          minted |-> IF Has(tx[s].rows, AllowanceKey(s)) THEN tx[s].n ELSE a.minted]
PlanAfter(s, p) ==
    [p EXCEPT !.owned = @ /\ ~(tx[s].op = "forget" /\ tx[s].seen # NotSeen),
              !.used = IF \E r \in tx[s].rows : r.key[1] = "plan" THEN @ + 1 ELSE @]

\* What a commit of s puts in doubt: an order it refunds while another transaction has
\* read the position it acts on, an account it writes to between an erasure's two
\* statements.
Restores(s) == tx[s].answer = "settled" /\ tx[s].close = "refund"
Relies(t, o) ==
    tx[t].order = o /\ tx[t].pc \notin {"open", "mint", "state", "net", "settle_net"}
Contests(s) ==
    {o \in Orders : /\ Restores(s) /\ tx[s].order = o
                    /\ \E t \in Sessions \ {s} : Relies(t, o)}
Tears(s) ==
    {u \in Users : /\ tx[s].user = u /\ tx[s].rows # {}
                   /\ \E t \in Others(s, u) : tx[t].op = "forget" /\ ~At(t, "forget_rows")}

Commit(s) ==
    /\ At(s, "commit")
    /\ ledger' = Merged(s)
    /\ account' = [account EXCEPT ![tx[s].user] = AccountAfter(s, @)]
    /\ plan' = [plan EXCEPT ![tx[s].user] = PlanAfter(s, @)]
    /\ tx' = [tx EXCEPT ![s] = Idle]
    /\ contested' = contested \union Contests(s)
    /\ torn' = torn \union Tears(s)
    /\ UNCHANGED window

\* The database refuses a statement, ends a deadlock, or loses the session.
Abort(s) == ~At(s, "idle") /\ Rollback(s)

-----------------------------------------------------------------------------
\* What happens around the ledger.

\* insert_plan, one for each account.
PlanSale(u) ==
    /\ plan[u] = NoPlan
    /\ PlanSize > 0
    /\ plan' = [plan EXCEPT ![u] = [NoPlan EXCEPT !.owned = TRUE, !.ends = window]]
    /\ UNCHANGED <<account, ledger, window, tx, history>>

NextWindow ==
    /\ window < LastWindow
    /\ window' = window + 1
    /\ UNCHANGED <<account, ledger, plan, tx, history>>

ChargeStep(s) ==
    \/ OpenAccount(s) \/ MintNothing(s) \/ MintAllowance(s)
    \/ ReadState(s) \/ RefuseBarred(s)
    \/ AlreadyPaid(s) \/ RefuseStacked(s) \/ MayRender(s)
    \/ ReadPlan(s) \/ ClaimPlanSong(s) \/ LosePlanSong(s)
    \/ ReadGeneration(s) \/ WriteDebit(s) \/ LoseDebit(s)
    \/ TakePayment(s) \/ RefuseInsufficient(s) \/ CoverShortfall(s)
SettleStep(s) ==
    \/ HoldsCredit(s) \/ HoldsNothing(s) \/ AccountThere(s) \/ AccountErased(s)
    \/ SettleGeneration(s) \/ WriteRefund(s) \/ WriteConsume(s) \/ LoseSettlement(s)
BeginSome(s) ==
    \/ \E o \in Orders : BeginCharge(s, o)
    \/ \E o \in Orders, close \in {"refund", "consume"} : BeginSettle(s, o, close)
    \/ \E u \in Users, k \in 1..LastGrant : BeginGrant(s, u, k)
    \/ \E u \in Leavers : BeginForget(s, u)

Next ==
    \/ \E s \in Sessions :
          \/ BeginSome(s)
          \/ ChargeStep(s) \/ SettleStep(s)
          \/ WriteGrant(s) \/ GrantAgain(s) \/ AnonymiseRows(s) \/ DeleteAccount(s)
          \/ Commit(s) \/ Abort(s)
    \/ \E u \in Users : PlanSale(u)
    \/ NextWindow

Spec == Init /\ [][Next]_vars

-----------------------------------------------------------------------------
TypeOK ==
    /\ account \in [Users -> Account]
    /\ ledger \subseteq Row
    /\ plan \in [Users -> Plan]
    /\ window \in Nat
    /\ tx \in [Sessions -> Tx]
    /\ contested \subseteq Orders /\ torn \subseteq Users

\* An order is charged at most once more than it is refunded, at generations
\* without gaps: a debit of generation g > 0 stands on the refund of g - 1, so
\* two racing charges, or a job and its retry, take one credit between them
\* (the replay probe, generation_for and the debit key together).
NeverDoubleCharged ==
    \A o \in Orders :
        /\ \A g \in Generations(ledger, "debit", o) :
              g > 0 => g - 1 \in Generations(ledger, "refund", o)
        /\ Cardinality(Generations(ledger, "debit", o)) <= Generation(ledger, o) + 1

SumDelta(rows) == MapThenSumSet(LAMBDA r : r.delta, rows)

\* credit_accounts.balance is SUM(credit_ledger.delta) of the account's rows, and an
\* account without a row has rows that sum to nothing: what credit_sql.verify_balances
\* reports is empty, whatever overlaps, but for an account somebody wrote to between the
\* two statements of its erasure.
BalanceIsTheSum ==
    \A u \in Users \ torn : account[u].balance = SumDelta({r \in ledger : r.user = u})

\* No balance is ever negative, in a committed row or in what an open
\* transaction has made of it: debit_balance decides on the row it locks.
NeverOverdrawn ==
    /\ \A u \in Users : account[u].balance >= 0
    /\ \A s \in Sessions : tx[s].touched => BalanceSeen(s) >= 0

\* The songs a plan counts as handed out are the songs minted from it, each
\* under its own number, and never more than were sold (claim_plan_song).
PlanSongsMinted ==
    \A u \in Users :
        /\ {k[3] : k \in {r.key : r \in {x \in ledger : x.key[1] = "plan" /\ x.key[2] = u}}}
              = 0 .. (plan[u].used - 1)
        /\ plan[u].used <= PlanSize

\* What was given back was first taken: every refund has the debit of its own
\* generation, so a settlement mints no credit (credit_settlement.refund).
RefundOwed(o) == Generations(ledger, "refund", o) \subseteq Generations(ledger, "debit", o)
EveryRefundOwed == \A o \in Orders : RefundOwed(o)

\* The code keeps that for every order that was never refunded while another transaction
\* had read its position and not yet committed: charges, consumes, erasures and refunds
\* one after the other may overlap as they will.
RefundsMatchDebits == \A o \in Orders \ contested : RefundOwed(o)

\* A charge that answers CHARGED or ALREADY_PAID leaves the order paid for at the moment
\* its transaction commits, so the render it lets through is paid; unless the order was
\* refunded under the charge's feet.
AnswerMeansPaid ==
    [][\A s \in Sessions :
         /\ Commit(s) /\ tx[s].answer \in {"charged", "already_paid"}
         /\ tx[s].order \notin contested
         => NetPosition(ledger', tx[s].order) < 0]_vars

-----------------------------------------------------------------------------
\* The committed rows implement what the ledger promises: the wallet is the
\* balance, the charges and refunds of an order are its debit and refund rows.
Payment == INSTANCE OrderPayment WITH
    wallet <- [u \in Users |-> account[u].balance],
    charges <- [o \in Orders |-> Cardinality(Generations(ledger, "debit", o))],
    refunds <- [o \in Orders |-> Generation(ledger, o)]

\* Every transaction of the ledger takes effect as one step of the promise: a charge pays
\* once out of what is there, a settlement gives one cost back for an order that is paid
\* or contested, and nothing else moves an order (credits.charge, refund, consume).
ImplementsPayment == Payment!Spec
=============================================================================
