------------------------------ MODULE RenderJob ------------------------------
(***************************************************************************)
(* A render, from the Confirm button to the settled credit: the bot's      *)
(* handler (handlers.confirm), the submitter, the queued job               *)
(* (runtime.jobs), the pipeline it runs (pipeline.orchestrator) and the    *)
(* sweep of stale debits (credit_settlement).                              *)
(*                                                                         *)
(* Every order belongs to one customer, who has one wizard session. A step *)
(* is what a process does between two awaits that matter: a database       *)
(* commit, a vendor's or Telegram's answer, a write of the session. The    *)
(* credit is the order's position in the ledger, one commit at a time; how *)
(* those commits overlap is CreditLedger's subject.                        *)
(***************************************************************************)
EXTENDS Naturals, FiniteSets

CONSTANTS
    Orders,     \* the drafts the customer may confirm, one order id for each
    MaxTries,   \* queue_max_tries
    Faults      \* bound: what may go wrong besides a vendor, a send and a refusal

\* crash, interrupt, timeout: a worker killed, told to stop, or over its time.
\* enqueue, find, replay, mark, settle, free: Redis or the database refuses that call.
AllFaults == {"crash", "interrupt", "timeout", "enqueue", "find", "replay", "mark",
              "settle", "free"}

ASSUME RenderAssumption ==
    /\ MaxTries \in Nat \ {0}
    /\ Faults \subseteq AllFaults
    /\ Orders \intersect {"free", "submitting"} = {}

VARIABLES
    row,        \* row[o]: the orders row
    kits,       \* the orders whose kit is persisted
    credit,     \* credit[o]: is its price taken, and is that settled as spent
    job,        \* job[o]: the queued or running job
    session,    \* the wizard session: free, submitting, or parked on an order
    desk,       \* the confirm handler at work
    told        \* told[o]: what the customer has received

vars == <<row, kits, credit, job, session, desk, told>>

-----------------------------------------------------------------------------
\* quiet: neither the row nor the order's debit was written for a whole grace.
Row == [state : {"none", "working", "delivered", "failed"}, quiet : BOOLEAN]
Credit == [paid : BOOLEAN, spent : BOOLEAN]
\* A job ends with its session let go, without having read its order, with its session
\* out of reach, or dropped by the queue.
Ends == {"ended", "unread", "unfreed", "discarded"}
JobSteps == {"none", "queued", "replay", "gate", "render", "persist", "mark",
             "failed", "given_up", "send", "refund", "consume", "tell", "release"}
                \union Ends
Job == [pc : JobSteps, try : 0..MaxTries]
Desk == [pc : {"idle", "create", "enqueue", "remember"}, order : Orders \union {"none"}]
AtRest == [pc |-> "idle", order |-> "none"]

Running(o) == job[o].pc \notin {"none", "queued"} \union Ends
Alive(o) == Running(o) \/ job[o].pc = "queued"

Init ==
    /\ row = [o \in Orders |-> [state |-> "none", quiet |-> FALSE]]
    /\ kits = {}
    /\ credit = [o \in Orders |-> [paid |-> FALSE, spent |-> FALSE]]
    /\ job = [o \in Orders |-> [pc |-> "none", try |-> 0]]
    /\ session = "free"
    /\ desk = AtRest
    /\ told = [o \in Orders |-> {}]

\* A call succeeds; if its fault may happen, it also fails.
Succeeds(fault) == IF fault \in Faults THEN BOOLEAN ELSE {TRUE}

At(o, step) == job[o].pc = step
Goto(o, step) == job' = [job EXCEPT ![o].pc = step]
\* set_order_state: no transition is refused, and a lost write is only logged.
SetState(o, state, written) ==
    row' = IF written THEN [row EXCEPT ![o] = [state |-> state, quiet |-> FALSE]] ELSE row
\* _release_session: only the session that is parked on this order, and none if Redis
\* refuses; it never raises.
FreeSession(o, ok) == session' = IF ok /\ session = o THEN "free" ELSE session
Released(ok) == IF ok THEN "ended" ELSE "unfreed"

-----------------------------------------------------------------------------
\* The bot. Updates of one chat are handled one at a time.

Confirm(o) ==
    /\ desk = AtRest /\ session = "free"
    /\ session' = "submitting"
    /\ desk' = [pc |-> "create", order |-> o]
    /\ UNCHANGED <<row, kits, credit, job, told>>

BackToConfirm == session' = "free" /\ desk' = AtRest

\* A gate refuses the order, or its row cannot be written: create_order inserts,
\* and a second insert of the same id breaks the primary key.
Refuse ==
    /\ desk.pc = "create"
    /\ BackToConfirm
    /\ UNCHANGED <<row, kits, credit, job, told>>

CreateOrder ==
    /\ desk.pc = "create" /\ row[desk.order].state = "none"
    /\ SetState(desk.order, "working", TRUE)
    /\ desk' = [desk EXCEPT !.pc = "enqueue"]
    /\ UNCHANGED <<kits, credit, job, session, told>>

Enqueue ==
    LET o == desk.order
    IN  /\ desk.pc = "enqueue"
        /\ \E ok \in Succeeds("enqueue") :
              IF ok
              THEN /\ Goto(o, "queued")
                   /\ desk' = [desk EXCEPT !.pc = "remember"]
                   /\ UNCHANGED session
              ELSE BackToConfirm /\ UNCHANGED job
        /\ UNCHANGED <<row, kits, credit, told>>

\* remember_submission: the session is parked on the order it waits for.
Remember ==
    /\ desk.pc = "remember"
    /\ session' = desk.order
    /\ desk' = AtRest
    /\ UNCHANGED <<row, kits, credit, job, told>>

\* /start and the Start-over button leave a running order behind.
StartOver ==
    /\ desk = AtRest /\ session # "free"
    /\ session' = "free"
    /\ UNCHANGED <<row, kits, credit, job, desk, told>>

-----------------------------------------------------------------------------
\* The job. The queue counts an attempt before it enters the function, and drops
\* a job that has used them up without entering it. A job that cannot read its
\* order ends there: nothing is settled and the session is not freed.
Attempt(j, found) == [pc |-> IF found THEN "replay" ELSE "unread", try |-> j.try + 1]
Discard(j) == [j EXCEPT !.pc = "discarded"]

\* Fault: the attempt is compared after it is counted.
StartPast(o) ==
    /\ At(o, "queued")
    /\ \E found \in Succeeds("find") :
          job' = [job EXCEPT ![o] = IF @.try > MaxTries THEN Discard(@) ELSE Attempt(@, found)]
    /\ UNCHANGED <<row, kits, credit, session, desk, told>>

Start(o) ==
    /\ At(o, "queued")
    /\ \E found \in Succeeds("find") :
          job' = [job EXCEPT ![o] = IF @.try = MaxTries THEN Discard(@) ELSE Attempt(@, found)]
    /\ UNCHANGED <<row, kits, credit, session, desk, told>>

\* _replay: a kit that is found is sent again; any error reads as no kit.
Replay(o) ==
    /\ At(o, "replay")
    /\ \E ok \in Succeeds("replay") : Goto(o, IF ok /\ o \in kits THEN "send" ELSE "gate")
    /\ UNCHANGED <<row, kits, credit, session, desk, told>>

\* _fail: an error that may pass, or one that another attempt would not cure.
Fail(o) == Goto(o, "failed") \/ Goto(o, "given_up")

\* _gated: the order is charged unless it holds its credit already, before any
\* vendor is called; the gate refuses, or the database does.
Gate(o) ==
    /\ At(o, "gate")
    /\ \/ /\ credit' = [credit EXCEPT ![o].paid = TRUE]
          /\ row' = IF credit[o].paid THEN row ELSE [row EXCEPT ![o].quiet = FALSE]
          /\ Goto(o, "render")
       \/ Fail(o) /\ UNCHANGED <<credit, row>>
    /\ UNCHANGED <<kits, session, desk, told>>

\* Moderation, lyrics, song: the vendors' minutes, and the states on the way.
Render(o) ==
    /\ At(o, "render")
    /\ \E written \in Succeeds("mark") : SetState(o, "working", written)
    /\ Goto(o, "persist") \/ Fail(o)
    /\ UNCHANGED <<kits, credit, session, desk, told>>

Persist(o) ==
    /\ At(o, "persist")
    /\ \/ kits' = kits \union {o} /\ Goto(o, "mark")
       \/ Fail(o) /\ UNCHANGED kits
    /\ UNCHANGED <<row, credit, session, desk, told>>

\* _deliver marks the order delivered before anything is sent.
Mark(o) ==
    /\ At(o, "mark")
    /\ \E written \in Succeeds("mark") : SetState(o, "delivered", written)
    /\ Goto(o, "send")
    /\ UNCHANGED <<kits, credit, session, desk, told>>

\* Assumed: the render's minutes outlast the bot's one write of the session.
BotIsDone(o) == ~(desk.pc = "remember" /\ desk.order = o)

\* A retryable end is queued again unless this attempt was the last.
Again(o) == job[o].try < MaxTries
MarkFailed(o) ==
    /\ At(o, "failed") \/ At(o, "given_up")
    /\ \E written \in Succeeds("mark") : SetState(o, "failed", written)
    /\ Goto(o, IF At(o, "failed") /\ Again(o) THEN "queued" ELSE "refund")
    /\ UNCHANGED <<kits, credit, session, desk, told>>

\* _send_kit. The song is one message of several: it may arrive in a send that
\* fails. A kit that is refused for good is settled as one that arrived.
Send(o) ==
    /\ At(o, "send")
    /\ \E arrived \in SUBSET {"song"} : told' = [told EXCEPT ![o] = @ \union arrived]
    /\ Goto(o, "consume") \/ (Again(o) /\ Goto(o, "queued"))
    /\ UNCHANGED <<row, kits, credit, session, desk>>

\* refund and consume, each a no-op on an order that holds no credit.
Refund(o) == credit' = [credit EXCEPT ![o] = [paid |-> FALSE, spent |-> FALSE]]
Consume(o) == credit' = [credit EXCEPT ![o].spent = credit[o].paid]

\* Fault: the outcomes are swapped, a failure is settled as spent.
SettleFailedConsumes(o) ==
    /\ At(o, "refund")
    /\ \E ok \in Succeeds("settle") : IF ok THEN Consume(o) ELSE UNCHANGED credit
    /\ Goto(o, "tell")
    /\ UNCHANGED <<row, kits, session, desk, told>>
\* Fault: the end of a send is refunded.
SettleSentRefunds(o) ==
    /\ At(o, "consume")
    /\ \E ok \in Succeeds("settle") : IF ok THEN Refund(o) ELSE UNCHANGED credit
    /\ Goto(o, "release")
    /\ UNCHANGED <<row, kits, session, desk, told>>

\* _settle never raises: a settlement that is refused leaves the debit open.
SettleFailed(o) ==
    /\ At(o, "refund")
    /\ \E ok \in Succeeds("settle") : IF ok THEN Refund(o) ELSE UNCHANGED credit
    /\ Goto(o, "tell")
    /\ UNCHANGED <<row, kits, session, desk, told>>
SettleSent(o) ==
    /\ At(o, "consume")
    /\ \E ok \in Succeeds("settle") : IF ok THEN Consume(o) ELSE UNCHANGED credit
    /\ Goto(o, "release")
    /\ UNCHANGED <<row, kits, session, desk, told>>

\* Fault: the failed end forgets the session.
TellAndEnd(o) ==
    /\ At(o, "tell")
    /\ told' = [told EXCEPT ![o] = @ \union {"lost_nothing"}]
    /\ Goto(o, "ended")
    /\ UNCHANGED <<row, kits, credit, session, desk>>

Tell(o) ==
    /\ At(o, "tell")
    /\ told' = [told EXCEPT ![o] = @ \union {"lost_nothing"}]
    /\ Goto(o, "release")
    /\ UNCHANGED <<row, kits, credit, session, desk>>

Release(o) ==
    /\ At(o, "release")
    /\ BotIsDone(o)
    /\ \E ok \in Succeeds("free") : FreeSession(o, ok) /\ Goto(o, Released(ok))
    /\ UNCHANGED <<row, kits, credit, desk, told>>

\* A worker that is told to stop cancels the job: it settles nothing, frees the
\* session and is run again. One over its time does the same and is not. A
\* worker that dies does nothing, and the queue hands the job out again.
Interrupt(o) ==
    /\ "interrupt" \in Faults
    /\ Running(o)
    /\ \E ok \in Succeeds("free") : FreeSession(o, ok)
    /\ Goto(o, "queued")
    /\ UNCHANGED <<row, kits, credit, desk, told>>
Timeout(o) ==
    /\ "timeout" \in Faults
    /\ Running(o)
    /\ BotIsDone(o)
    /\ \E ok \in Succeeds("free") : FreeSession(o, ok) /\ Goto(o, Released(ok))
    /\ UNCHANGED <<row, kits, credit, desk, told>>
Crash(o) ==
    /\ "crash" \in Faults
    /\ Running(o)
    /\ Goto(o, "queued")
    /\ UNCHANGED <<row, kits, credit, session, desk, told>>

-----------------------------------------------------------------------------
\* A grace passes. It is sized to the whole ladder of attempts, and the queue is
\* assumed to be served, so that no job outlives it.
FallQuiet(o) ==
    /\ row[o].state # "none" /\ ~row[o].quiet
    /\ ~(desk.pc = "enqueue" /\ desk.order = o)
    /\ ~Alive(o)
    /\ row' = [row EXCEPT ![o].quiet = TRUE]
    /\ UNCHANGED <<kits, credit, job, session, desk, told>>

\* Fault: only orders that are marked failed are looked at.
SweepFailedOnly(o) ==
    /\ credit[o].paid /\ ~credit[o].spent
    /\ row[o].quiet /\ row[o].state = "failed"
    /\ Refund(o)
    /\ UNCHANGED <<row, kits, job, session, desk, told>>
\* Fault: whatever is stale is closed as spent.
SweepConsumes(o) ==
    /\ credit[o].paid /\ ~credit[o].spent
    /\ row[o].quiet
    /\ Consume(o)
    /\ UNCHANGED <<row, kits, job, session, desk, told>>

\* settle_stale_debits: an open debit whose order has gone quiet.
\* (DEAD_ORDER_STATES, the other arm of the selection, is CANCELLED, which nothing
\* in this code writes.)
Sweep(o) ==
    /\ credit[o].paid /\ ~credit[o].spent
    /\ row[o].quiet
    /\ IF row[o].state = "delivered" THEN Consume(o) ELSE Refund(o)
    /\ UNCHANGED <<row, kits, job, session, desk, told>>

JobStep(o) ==
    \/ Start(o) \/ Replay(o) \/ Gate(o) \/ Render(o) \/ Persist(o) \/ Mark(o)
    \/ MarkFailed(o) \/ Send(o) \/ SettleFailed(o) \/ SettleSent(o) \/ Tell(o)
    \/ Release(o)
BotStep == Refuse \/ CreateOrder \/ Enqueue \/ Remember

Next ==
    \/ \E o \in Orders : \/ Confirm(o) \/ JobStep(o)
                         \/ Interrupt(o) \/ Timeout(o) \/ Crash(o)
                         \/ FallQuiet(o) \/ Sweep(o)
    \/ BotStep \/ StartOver

\* The bot's handler and the worker go on, time passes and the sweep is a cron.
Spec ==
    /\ Init /\ [][Next]_vars
    /\ WF_vars(BotStep)
    /\ \A o \in Orders : /\ WF_vars(JobStep(o))
                         /\ WF_vars(FallQuiet(o))
                         /\ WF_vars(Sweep(o))

-----------------------------------------------------------------------------
TypeOK ==
    /\ row \in [Orders -> Row]
    /\ kits \subseteq Orders
    /\ credit \in [Orders -> Credit]
    /\ job \in [Orders -> Job]
    /\ session \in Orders \union {"free", "submitting"}
    /\ desk \in Desk
    /\ told \in [Orders -> SUBSET {"song", "lost_nothing"}]

\* An order that is marked delivered, and whose song has arrived, is paid for and
\* never given its credit back, however the job is killed, run again or left
\* unsettled.
DeliveredIsPaid ==
    \A o \in Orders : row[o].state = "delivered" /\ "song" \in told[o] => credit[o].paid

\* No credit is spent on nothing: it is settled as spent only when the kit it
\* bought is persisted, so it can be sent again (credit_settlement.settle).
SpentOnAKit == \A o \in Orders : credit[o].spent => credit[o].paid /\ o \in kits

\* Nothing stays half-settled: an open debit is consumed or refunded in the end,
\* by the job or, when the job is lost, by the sweep.
DebitCloses ==
    \A o \in Orders : credit[o].paid /\ ~credit[o].spent
                        ~> (~credit[o].paid \/ credit[o].spent)

\* "You have not lost anything" becomes true: the credit comes back, or a later
\* attempt made the song after all (jobs._run_pipeline, progress.failed).
PromiseKept ==
    \A o \in Orders : "lost_nothing" \in told[o] ~> (~credit[o].paid \/ o \in kits)

\* No session waits for ever on an order: it is freed at every end of the job
\* (jobs._release_session), however often it was killed, stopped or run again, except
\* the three at which nobody frees it: the queue dropped the job, the job could not read
\* its order, or Redis refused the release, which is not tried again.
SessionReleased ==
    \A o \in Orders :
        session = o ~> (session # o \/ job[o].pc \in {"discarded", "unread", "unfreed"})

=============================================================================
