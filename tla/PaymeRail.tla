------------------------------ MODULE PaymeRail ------------------------------
(***************************************************************************)
(* The payment rail (bayram.db.payme, payme_sql, fulfilment): the inbound  *)
(* Payme calls, the operator's settlement, the sweeps and the erasure of a *)
(* buyer, as concurrent READ COMMITTED transactions over the tables        *)
(* payment_intents, payme_transactions and the two receipt tables.         *)
(*                                                                         *)
(* A call is one database transaction, one statement per step. It writes   *)
(* at most one payme_transactions row (its charge), one change of its      *)
(* intent and one sale, all of which other calls see when it commits and   *)
(* wait for when they write the same row. Payme repeats, reorders and      *)
(* overlaps its calls at will: an answer that is lost is a call made again.*)
(***************************************************************************)
EXTENDS Naturals, FiniteSets

CONSTANTS
    Users, Nobody,
    Intents,        \* checkout links, one for each bot-minted idempotency key
    Buyer,          \* Buyer[i]: the account that opened intent i
    Plans,          \* the intents that sell a plan; the others sell one song
    Charges,        \* Payme's own transaction ids
    For,            \* For[c]: the intent charge c is made against
    Sessions,       \* database sessions of the gateway, the worker and the bot
    Operated,       \* bound: the intents an operator may settle by hand
    Leavers         \* bound: the accounts that may ask to be forgotten

ASSUME RailAssumption ==
    /\ Nobody \notin Users \union Charges
    /\ Buyer \in [Intents -> Users]
    /\ Plans \subseteq Intents
    /\ For \in [Charges -> Intents]
    /\ Operated \subseteq Intents
    /\ Leavers \subseteq Users

VARIABLES
    intent,     \* intent[i]: the committed payment_intents row
    charge,     \* charge[c]: the committed payme_transactions row, as its state
    receipt,    \* receipt[i]: the topup_purchases or plan_purchases row of i's key
    clock,      \* the charges past their twelve hours, the intents past valid_until
    call        \* call[s]: the transaction session s is running

vars == <<intent, charge, receipt, clock, call>>

-----------------------------------------------------------------------------
IntentStates == {"none", "pending", "awaiting", "paid", "expired"}
Notes == {"none", "payme", "operator"}
Intent == [state : IntentStates, holder : Charges \union {Nobody},
           buyer : Users \union {Nobody}, note : Notes]
ChargeStates == {"none", "created", "performed", "cancelled"}
Receipt == [sold : BOOLEAN, user : Users \union {Nobody}, running : BOOLEAN]
NoReceipt == [sold |-> FALSE, user |-> Nobody, running |-> FALSE]

\* What a call has written of its charge row, and done to its intent.
Rows == {"same", "created", "performed", "cancelled"}
Deeds == {"nothing", "hold", "release", "claim", "operate", "erase"}
Ops == {"none", "create", "perform", "cancel", "sweep", "settle", "forget"}
Steps == {"idle", "read", "ladder", "insert", "hold", "flip", "buyer", "claim",
          "sale", "void", "release", "operate", "receipts", "intents", "commit"}
Answers == {"none", "created", "performed", "cancelled", "settled", "refused"}

Call == [op : Ops, pc : Steps, c : Charges \union {Nobody}, i : Intents \union {Nobody},
         user : Users \union {Nobody}, late : BOOLEAN, buyer : Users \union {Nobody},
         lapsed : BOOLEAN, row : Rows, deed : Deeds, sale : BOOLEAN, touched : SUBSET Intents,
         hidden : SUBSET Intents, answer : Answers]
NoCall == [op |-> "none", pc |-> "idle", c |-> Nobody, i |-> Nobody, user |-> Nobody,
           late |-> FALSE, lapsed |-> FALSE, buyer |-> Nobody, row |-> "same", deed |-> "nothing",
           sale |-> FALSE, touched |-> {}, hidden |-> {}, answer |-> "none"]

\* A row another open transaction has written is waited for.
ChargeFree(s, c) == \A x \in Sessions \ {s} : call[x].row # "same" => call[x].c # c
IntentFree(s, i) == \A x \in Sessions \ {s} : i \notin call[x].touched
SaleFree(s, i) == \A x \in Sessions \ {s} : call[x].sale => call[x].i # i

-----------------------------------------------------------------------------
Init ==
    /\ intent = [i \in Intents |-> [state |-> "none", holder |-> Nobody,
                                    buyer |-> Nobody, note |-> "none"]]
    /\ charge = [c \in Charges |-> "none"]
    /\ receipt = [i \in Intents |-> NoReceipt]
    /\ clock = [closed |-> {}, lapsed |-> {}]
    /\ call = [s \in Sessions |-> NoCall]

At(s, step) == call[s].pc = step
Become(s, k) == /\ call' = [call EXCEPT ![s] = k]
                /\ UNCHANGED <<intent, charge, receipt, clock>>
Goto(s, step) == Become(s, [call[s] EXCEPT !.pc = step])
Answer(s, a) == Become(s, [call[s] EXCEPT !.pc = "commit", !.answer = a])
\* A refusal raised inside the transaction takes everything it wrote with it.
Refuse(s) == Become(s, NoCall)

-----------------------------------------------------------------------------
\* Calls begin. Every one reads the clock once, before its transaction.

Begin(s, op, c, i) ==
    Become(s, [NoCall EXCEPT !.op = op, !.pc = "read", !.c = c, !.i = i,
                             !.late = c \in clock.closed,
                             !.lapsed = op = "create" /\ i \in clock.lapsed])
BeginCharge(s, c) ==
    /\ At(s, "idle")
    /\ \E op \in {"create", "perform", "cancel"} : Begin(s, op, c, For[c])
\* Fault: the cutoff is compared the wrong way round.
SweepEarly(s, c) ==
    /\ At(s, "idle")
    /\ charge[c] = "created" /\ c \notin clock.closed
    /\ Become(s, [NoCall EXCEPT !.op = "sweep", !.pc = "void", !.c = c, !.i = For[c],
                                !.late = TRUE])
\* expire_stale_transactions: the worker looks at charges still open and late.
BeginSweep(s, c) ==
    /\ At(s, "idle")
    /\ charge[c] = "created" /\ c \in clock.closed
    /\ Become(s, [NoCall EXCEPT !.op = "sweep", !.pc = "void", !.c = c, !.i = For[c],
                                !.late = TRUE])
BeginSettle(s, i) ==
    /\ At(s, "idle")
    /\ intent[i].state # "none"
    /\ Begin(s, "settle", Nobody, i)
BeginForget(s, u) ==
    /\ At(s, "idle")
    /\ Become(s, [NoCall EXCEPT !.op = "forget", !.pc = "receipts", !.user = u])

\* open_intent: insert or ignore under the bot-minted key.
OpenIntent(i) ==
    /\ intent[i].state = "none"
    /\ intent' = [intent EXCEPT ![i] = [state |-> "pending", holder |-> Nobody,
                                        buyer |-> Buyer[i], note |-> "none"]]
    /\ UNCHANGED <<charge, receipt, clock, call>>

-----------------------------------------------------------------------------
\* CreateTransaction.

ReadCreate(s) ==
    LET state == charge[call[s].c]
    IN  /\ At(s, "read") /\ call[s].op = "create"
        /\ \/ state = "none" /\ Goto(s, "ladder")
           \/ state = "created" /\ ~call[s].late /\ Answer(s, "created")
           \/ state = "created" /\ call[s].late /\ Goto(s, "void")
           \/ state \in {"performed", "cancelled"} /\ Refuse(s)

\* _payable_intent_or_refuse, the ladder CheckPerformTransaction shares.
Payable(s) ==
    /\ intent[call[s].i].state = "pending"
    /\ intent[call[s].i].buyer # Nobody
    /\ ~call[s].lapsed
ClimbLadder(s) ==
    /\ At(s, "ladder")
    /\ IF Payable(s) THEN Goto(s, "insert") ELSE Refuse(s)

\* insert_transaction: the loser of the unique index answers with the winner.
InsertCharge(s) ==
    LET c == call[s].c
    IN  /\ At(s, "insert")
        /\ ChargeFree(s, c)
        /\ \/ charge[c] = "none"
              /\ Become(s, [call[s] EXCEPT !.row = "created", !.pc = "hold"])
           \/ charge[c] = "created" /\ Answer(s, "created")
           \/ charge[c] \in {"performed", "cancelled"} /\ Refuse(s)

\* hold_intent, the mutex: one charge at a time may hold the intent.
HoldIntent(s) ==
    /\ At(s, "hold")
    /\ IntentFree(s, call[s].i)
    /\ IF intent[call[s].i].state = "pending"
       THEN Become(s, [call[s] EXCEPT !.deed = "hold", !.touched = {call[s].i},
                                      !.pc = "commit", !.answer = "created"])
       ELSE Refuse(s)

-----------------------------------------------------------------------------
\* PerformTransaction.

ReadPerform(s) ==
    LET state == charge[call[s].c]
    IN  /\ At(s, "read") /\ call[s].op = "perform"
        /\ \/ state \in {"none", "cancelled"} /\ Refuse(s)
           \/ state = "performed" /\ Answer(s, "performed")
           \/ state = "created" /\ Goto(s, IF call[s].late THEN "void" ELSE "flip")

\* mark_performed: who loses the flip re-reads and answers what it finds.
Flip(s) ==
    LET c == call[s].c
    IN  /\ At(s, "flip")
        /\ ChargeFree(s, c)
        /\ \/ charge[c] = "created"
              /\ Become(s, [call[s] EXCEPT !.row = "performed", !.pc = "buyer"])
           \/ charge[c] = "performed" /\ Answer(s, "performed")
           \/ charge[c] \in {"none", "cancelled"} /\ Refuse(s)
\* intent_by_id: the buyer the sale will be made to is the one read here.
ReadBuyer(s) ==
    /\ At(s, "buyer")
    /\ Become(s, [call[s] EXCEPT !.buyer = intent[call[s].i].buyer, !.pc = "claim"])

\* The intent is held by this charge, or an operator has settled it meanwhile.
Held(s) == /\ intent[call[s].i].state = "awaiting"
           /\ intent[call[s].i].holder = call[s].c
SettledForUs(s) == /\ intent[call[s].i].state = "paid"
                   /\ intent[call[s].i].holder = call[s].c

\* Fault: the claim commits on its own, and the sale is left for later.
ClaimAndCommit(s) ==
    /\ At(s, "claim")
    /\ IntentFree(s, call[s].i)
    /\ Held(s)
    /\ Become(s, [call[s] EXCEPT !.deed = "claim", !.touched = {call[s].i},
                                 !.pc = "commit", !.answer = "performed"])

Claim(s) ==
    /\ At(s, "claim")
    /\ IntentFree(s, call[s].i)
    /\ IF Held(s) THEN Become(s, [call[s] EXCEPT !.deed = "claim", !.pc = "sale",
                                                 !.touched = {call[s].i}])
       ELSE IF SettledForUs(s)
       THEN Become(s, [call[s] EXCEPT !.buyer = intent[call[s].i].buyer, !.pc = "sale"])
       ELSE Refuse(s)

-----------------------------------------------------------------------------
\* The sale, in the transaction that took the money (write_single_sale,
\* write_plan_sale): insert or ignore under the intent's key. A plan bought
\* while one runs opens nothing, and an erased buyer is sold nothing.
HasPlan(u) == \E i \in Plans : receipt[i].user = u /\ receipt[i].running
Sellable(s) ==
    /\ call[s].buyer # Nobody
    /\ call[s].i \in Plans => ~HasPlan(call[s].buyer)
    /\ ~receipt[call[s].i].sold
WriteSale(s) ==
    /\ At(s, "sale")
    /\ SaleFree(s, call[s].i)
    /\ Become(s, [call[s] EXCEPT
         !.sale = Sellable(s), !.pc = "commit",
         !.answer = IF call[s].op = "perform" THEN "performed" ELSE "settled"])

-----------------------------------------------------------------------------
\* CancelTransaction, and the time-out every late call and the sweep share.

ReadCancel(s) ==
    LET state == charge[call[s].c]
    IN  /\ At(s, "read") /\ call[s].op = "cancel"
        /\ \/ state \in {"none", "performed"} /\ Refuse(s)
           \/ state = "cancelled" /\ Answer(s, "cancelled")
           \/ state = "created" /\ Goto(s, "void")

\* mark_cancelled, from created only; nobody looks at whether it matched.
Void(s) ==
    /\ At(s, "void")
    /\ ChargeFree(s, call[s].c)
    /\ Become(s, [call[s] EXCEPT
         !.row = IF charge[call[s].c] = "created" THEN "cancelled" ELSE "same",
         !.pc = "release"])

\* Fault: a cancel answers that it cancelled, without reading the row back.
OutcomeAsAsked(s) == IF call[s].op # "cancel" THEN "refused" ELSE "cancelled"

\* A cancel answers with the row it reads back; a late call refuses only now,
\* when its cancellation is about to be committed.
Outcome(s) ==
    IF call[s].op # "cancel" THEN "refused"
    ELSE IF call[s].row = "same" THEN charge[call[s].c] ELSE call[s].row

\* Fault: the hold is given back by its holder alone, without the state term.
ReleaseSettled(s) ==
    /\ At(s, "release")
    /\ IntentFree(s, call[s].i)
    /\ IF intent[call[s].i].holder = call[s].c
       THEN Become(s, [call[s] EXCEPT !.deed = "release", !.touched = {call[s].i},
                                      !.pc = "commit", !.answer = Outcome(s)])
       ELSE Answer(s, Outcome(s))

\* release_intent: back to pending, for this holder only.
Release(s) ==
    /\ At(s, "release")
    /\ IntentFree(s, call[s].i)
    /\ IF Held(s)
       THEN Become(s, [call[s] EXCEPT !.deed = "release", !.touched = {call[s].i},
                                      !.pc = "commit", !.answer = Outcome(s)])
       ELSE Answer(s, Outcome(s))

-----------------------------------------------------------------------------
\* force_settle, the operator's recovery button.

ReadSettle(s) ==
    /\ At(s, "read") /\ call[s].op = "settle"
    /\ \/ intent[call[s].i].state = "paid" /\ Answer(s, "settled")
       \/ /\ intent[call[s].i].state # "paid"
          /\ IF intent[call[s].i].buyer = Nobody THEN Refuse(s)
             ELSE Become(s, [call[s] EXCEPT !.buyer = intent[call[s].i].buyer,
                                            !.pc = "operate"])
\* claim_intent_for_operator: pending or awaiting, whoever holds it.
OperatorClaim(s) ==
    /\ At(s, "operate")
    /\ IntentFree(s, call[s].i)
    /\ IF intent[call[s].i].state \in {"pending", "awaiting"}
       THEN Become(s, [call[s] EXCEPT !.deed = "operate", !.touched = {call[s].i},
                                      !.pc = "sale"])
       ELSE Refuse(s)

-----------------------------------------------------------------------------
\* forget_account: the receipts lose their owner, then the intents do.

EraseReceipts(s) ==
    /\ At(s, "receipts")
    /\ Become(s, [call[s] EXCEPT
         !.hidden = {i \in Intents : receipt[i].sold /\ receipt[i].user = call[s].user},
         !.pc = "intents"])
EraseIntents(s) ==
    LET mine == {i \in Intents : intent[i].buyer = call[s].user}
    IN  /\ At(s, "intents")
        /\ \A i \in mine : IntentFree(s, i)
        /\ Become(s, [call[s] EXCEPT !.deed = "erase", !.touched = mine, !.pc = "commit"])

-----------------------------------------------------------------------------
\* The end of a call: all of it at once, or nothing.

IntentAfter(s, r) ==
    CASE call[s].deed = "hold" -> [r EXCEPT !.state = "awaiting", !.holder = call[s].c]
      [] call[s].deed = "release" -> [r EXCEPT !.state = "pending", !.holder = Nobody]
      [] call[s].deed = "claim" -> [r EXCEPT !.state = "paid", !.note = "payme"]
      [] call[s].deed = "operate" -> [r EXCEPT !.state = "paid", !.note = "operator"]
      [] call[s].deed = "erase" -> [r EXCEPT !.buyer = Nobody]
      [] OTHER -> r
Commit(s) ==
    /\ At(s, "commit")
    /\ intent' = [i \in Intents |-> IF i \in call[s].touched THEN IntentAfter(s, intent[i])
                                                            ELSE intent[i]]
    /\ charge' = [c \in Charges |-> IF c = call[s].c /\ call[s].row # "same"
                                    THEN call[s].row ELSE charge[c]]
    /\ receipt' = [i \in Intents |->
          IF call[s].sale /\ i = call[s].i
          THEN [sold |-> TRUE, user |-> call[s].buyer, running |-> i \in Plans]
          ELSE [receipt[i] EXCEPT !.user = IF i \in call[s].hidden THEN Nobody ELSE @]]
    /\ call' = [call EXCEPT ![s] = NoCall]
    /\ UNCHANGED clock

\* The database ends a deadlock, a statement fails or the process dies.
Abort(s) == ~At(s, "idle") /\ Refuse(s)

-----------------------------------------------------------------------------
\* Fault: a lapsed intent expires under a live charge as well.
ExpireHeld(i) ==
    /\ intent[i].state \in {"pending", "awaiting"} /\ i \in clock.lapsed
    /\ \A s \in Sessions : i \notin call[s].touched
    /\ intent' = [intent EXCEPT ![i].state = "expired"]
    /\ UNCHANGED <<charge, receipt, clock, call>>

\* expire_intent, one conditional UPDATE: pending and lapsed when it runs.
ExpireIntent(i) ==
    /\ intent[i].state = "pending" /\ i \in clock.lapsed
    /\ \A s \in Sessions : i \notin call[s].touched
    /\ intent' = [intent EXCEPT ![i].state = "expired"]
    /\ UNCHANGED <<charge, receipt, clock, call>>

\* Time passes: a charge's twelve hours, a link's validity, a plan's thirty days.
CloseWindow(c) ==
    /\ c \notin clock.closed
    /\ clock' = [clock EXCEPT !.closed = @ \union {c}]
    /\ UNCHANGED <<intent, charge, receipt, call>>
Lapse(i) ==
    /\ intent[i].state # "none" /\ i \notin clock.lapsed
    /\ clock' = [clock EXCEPT !.lapsed = @ \union {i}]
    /\ UNCHANGED <<intent, charge, receipt, call>>
EndPlan(i) ==
    /\ receipt[i].running
    /\ receipt' = [receipt EXCEPT ![i].running = FALSE]
    /\ UNCHANGED <<intent, charge, clock, call>>

Step(s) ==
    \/ ReadCreate(s) \/ ClimbLadder(s) \/ InsertCharge(s) \/ HoldIntent(s)
    \/ ReadPerform(s) \/ Flip(s) \/ ReadBuyer(s) \/ Claim(s) \/ WriteSale(s)
    \/ ReadCancel(s) \/ Void(s) \/ Release(s)
    \/ ReadSettle(s) \/ OperatorClaim(s)
    \/ EraseReceipts(s) \/ EraseIntents(s)
    \/ Commit(s)
BeginSome(s) ==
    \/ \E c \in Charges : BeginCharge(s, c) \/ BeginSweep(s, c)
    \/ \E i \in Operated : BeginSettle(s, i)
    \/ \E u \in Leavers : BeginForget(s, u)

Next ==
    \/ \E s \in Sessions : BeginSome(s) \/ Step(s) \/ Abort(s)
    \/ \E i \in Intents : OpenIntent(i) \/ ExpireIntent(i) \/ Lapse(i) \/ EndPlan(i)
    \/ \E c \in Charges : CloseWindow(c)

Spec == Init /\ [][Next]_vars

\* No transaction runs for ever. The sweep is a cron: a late charge is looked at
\* again and again, a sweep that waits for a row gets it when others keep letting
\* it go, and its transaction is not for ever the one the database ends.
Sweeping(s, c) == call[s].op = "sweep" /\ call[s].c = c
SweepFairness ==
    /\ \A s \in Sessions : WF_vars(Step(s) \/ Abort(s))
    /\ \A c \in Charges :
          /\ SF_vars(\E s \in Sessions : BeginSweep(s, c))
          /\ \A s \in Sessions : SF_vars(Sweeping(s, c) /\ Step(s))
    /\ <>[][\A s \in Sessions : call[s].op = "sweep" => ~Abort(s)]_vars
FairSpec == Spec /\ SweepFairness

-----------------------------------------------------------------------------
\* Every variable has its type.
TypeOK ==
    /\ intent \in [Intents -> Intent]
    /\ charge \in [Charges -> ChargeStates]
    /\ receipt \in [Intents -> Receipt]
    /\ clock \in [closed : SUBSET Charges, lapsed : SUBSET Intents]
    /\ call \in [Sessions -> Call]

\* The hold and the charge agree: an awaiting intent is held by a charge that is
\* still open, and a charge that is open holds its intent, so no expiry, cancel
\* or second charge takes an intent from under a card that is being charged.
HoldIsLive ==
    /\ \A i \in Intents : intent[i].state = "awaiting" =>
          /\ intent[i].holder \in Charges
          /\ charge[intent[i].holder] = "created" /\ For[intent[i].holder] = i
    /\ \A c \in Charges : charge[c] = "created" =>
          intent[For[c]].holder = c /\ intent[For[c]].state \in {"awaiting", "paid"}

\* A card is charged once for an intent: a performed charge is the holder of a
\* paid intent (so no two charges of one intent are ever performed).
ChargedOnce ==
    \A c \in Charges : charge[c] = "performed" =>
        intent[For[c]].state = "paid" /\ intent[For[c]].holder = c

\* Nothing is sold without money, and money for a song is never without its
\* song: a receipt has a paid intent, an intent settled by the rail has its
\* performed charge, and if it is for a song also the receipt, unless the buyer
\* was erased first (SqlPaymeLedger._settle, all four rows or none).
SettledTogether ==
    \A i \in Intents :
        /\ receipt[i].sold => intent[i].state = "paid"
        /\ intent[i].note = "payme" =>
              /\ charge[intent[i].holder] = "performed"
              /\ i \notin Plans /\ ~receipt[i].sold => intent[i].buyer = Nobody

\* What Payme is told about money is so when it is told: a call that answers
\* performed commits with its charge performed and its intent paid by it, and a
\* cancel that answers cancelled leaves no hold behind.
AnswersAreTrue ==
    [][\A s \in Sessions : Commit(s) =>
         LET c == call[s].c
         IN  /\ call[s].answer = "performed" /\ call[s].op = "perform" =>
                   charge'[c] = "performed" /\ intent'[For[c]].holder = c
             /\ call[s].answer = "cancelled" =>
                   /\ charge'[c] = "cancelled"
                   /\ intent'[For[c]].state = "awaiting" => intent'[For[c]].holder # c]_vars

\* A charge Payme never mentions again does not hold its intent for ever: past
\* its twelve hours it is performed or cancelled (expire_stale_transactions).
LateChargesClose ==
    \A c \in Charges : charge[c] = "created" /\ c \in clock.closed ~> charge[c] # "created"

=============================================================================
