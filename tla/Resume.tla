------------------------------- MODULE Resume -------------------------------
(***************************************************************************)
(* What follows a settled payment: the customer is told                    *)
(* (runtime.payme_jobs) and the song the payment was made for is started   *)
(* (runtime.render_resume), while the customer may edit the draft, press   *)
(* the button or start over, and while jobs are retried, redelivered,      *)
(* killed and enqueued anew by the sweep.                                  *)
(*                                                                         *)
(* Intents are payments of one customer, who has one wizard session. A     *)
(* version of the draft is the id of its order (order_id_for takes a       *)
(* fingerprint of the whole draft, the run's session_id included). A       *)
(* render is here what the queue knows of it; RenderJob says how it goes.  *)
(***************************************************************************)
EXTENDS Naturals

CONSTANTS
    Intents,    \* links of one customer
    Drafts,     \* the versions of the draft
    Marker,     \* Marker[i]: resume_order_id, the version link i was opened for, or None
    None,
    Workers,    \* executions of the notification job that may be alive at once
    MaxTries,   \* PAYME_NOTIFY_MAX_TRIES
    Faults      \* bound: what may go wrong besides a message that is not sent

\* gateway: the enqueue after the settlement is lost. read, stamp, claim, create,
\* enqueue, park: that call of the job fails. crash: its worker is killed.
\* redeliver: the queue takes a running job for lost and hands it out again.
\* erase: /forget.
AllFaults == {"gateway", "read", "stamp", "claim", "create", "enqueue", "park",
              "crash", "redeliver", "erase"}

ASSUME ResumeAssumption ==
    /\ MaxTries \in Nat \ {0}
    /\ Faults \subseteq AllFaults
    /\ None \notin Drafts \union Intents
    /\ Marker \in [Intents -> Drafts \union {None}]

VARIABLES
    intent,     \* intent[i]: the payment_intents row
    ticket,     \* ticket[i]: what the queue holds under the job id of intent i
    run,        \* run[w]: an execution of notify_payment_settled
    session,    \* the wizard session, in Redis
    desk,       \* the confirm handler at work
    row,        \* the orders that have a row
    render,     \* render[o]: the render job of order o
    told,       \* told[i]: how often the payment was announced (two stands for more)
    frames,     \* frames[i]: progress messages posted for the resumed render
    backlog,    \* the intents the sweep has read and not enqueued yet
    excused     \* intents whose announcement may legitimately be repeated

vars == <<intent, ticket, run, session, desk, row, render, told, frames, backlog,
          excused>>

-----------------------------------------------------------------------------
\* gone: Telegram answered that the chat cannot be reached.
Intent == [state : {"open", "paid"}, erased : BOOLEAN, gone : BOOLEAN,
           notified : BOOLEAN, claimed : BOOLEAN]
\* kept: the job is over, and the queue still holds its result (queue_result_ttl_s).
Ticket == [at : {"none", "queued", "running", "kept"}, try : 0..MaxTries]
Steps == {"idle", "read", "plan", "send", "stamp", "stamp_gone", "verify", "claim",
          "frame", "create", "enqueue", "park", "set_state", "set_data"}
Run == [pc : Steps, intent : Intents \union {None}, plan : BOOLEAN]
Session == [screen : {"none", "wizard", "confirm", "submitting"},
            draft : Drafts \union {None}, parked : Drafts \union {None}]
Desk == [pc : {"idle", "create", "enqueue", "remember"}, order : Drafts \union {None}]

Idle == [pc |-> "idle", intent |-> None, plan |-> FALSE]
AtRest == [pc |-> "idle", order |-> None]
NoTicket == [at |-> "none", try |-> 0]
Result == [at |-> "kept", try |-> 0]
Cleared == [session EXCEPT !.screen = "none", !.draft = None, !.parked = None]

Init ==
    /\ intent = [i \in Intents |-> [state |-> "open", erased |-> FALSE, gone |-> FALSE,
                                    notified |-> FALSE, claimed |-> FALSE]]
    /\ ticket = [i \in Intents |-> NoTicket]
    /\ run = [w \in Workers |-> Idle]
    /\ \E d \in Drafts : session = [screen |-> "confirm", draft |-> d, parked |-> None]
    /\ desk = AtRest
    /\ row = {}
    /\ render = [o \in Drafts |-> "none"]
    /\ told = [i \in Intents |-> 0]
    /\ frames = [i \in Intents |-> 0]
    /\ backlog = {}
    /\ excused = {}

\* A call succeeds; if its fault may happen, it also fails.
Succeeds(fault) == IF fault \in Faults THEN BOOLEAN ELSE {TRUE}

\* ARQ declines a job id that it still holds, queued, running or with its result.
Enqueued(i) == IF ticket[i].at = "none" THEN [ticket EXCEPT ![i].at = "queued"] ELSE ticket
\* The same for the render, whose id is its order's. The row stays, so an order
\* is submitted once.
Hand(o) == render' = [render EXCEPT ![o] = "queued"]

Reading(w) == run[w].intent
At(w, step) == run[w].pc = step
Goto(w, step) == run' = [run EXCEPT ![w].pc = step]

\* The execution ends. Of the queue's ticket its result is left, unless it was handed
\* to another execution in the meantime.
Alone(w) == \A v \in Workers \ {w} : Reading(v) # Reading(w)
Done(w) ==
    /\ run' = [run EXCEPT ![w] = Idle]
    /\ ticket' = IF Alone(w) /\ ticket[Reading(w)].at = "running"
                 THEN [ticket EXCEPT ![Reading(w)] = Result] ELSE ticket

\* Fault: every failure asks for another attempt.
RetryAlways(w) ==
    /\ run' = [run EXCEPT ![w] = Idle]
    /\ ticket' = [ticket EXCEPT ![Reading(w)].at = "queued"]

\* _retry_or_give_up: another attempt, or the sweep's business from here on.
RetryOrGiveUp(w) ==
    LET i == Reading(w)
    IN  IF ticket[i].try < MaxTries /\ Alone(w) /\ ticket[i].at = "running"
        THEN /\ run' = [run EXCEPT ![w] = Idle]
             /\ ticket' = [ticket EXCEPT ![i].at = "queued"]
        ELSE Done(w)

-----------------------------------------------------------------------------
\* The rail and the queue.

\* A settlement commits; the gateway's enqueue comes after it and may be lost.
Settle(i) ==
    /\ intent[i].state = "open"
    /\ intent' = [intent EXCEPT ![i].state = "paid"]
    /\ \E ok \in Succeeds("gateway") : ticket' = IF ok THEN Enqueued(i) ELSE ticket
    /\ UNCHANGED <<run, session, desk, row, render, told, frames, backlog,
                   excused>>

\* Arm three of run_payme_sweep reads the payments nobody was told of and enqueues
\* them one by one; a job may have announced one in between. How long a payment is
\* left to the gateway's own enqueue (PAYME_NOTIFY_GRACE_S) is not told apart.
ReadBacklog(i) ==
    /\ i \notin backlog
    /\ intent[i].state = "paid" /\ ~intent[i].notified /\ ~intent[i].erased
    /\ backlog' = backlog \union {i}
    /\ UNCHANGED <<intent, ticket, run, session, desk, row, render, told, frames,
                   excused>>

Sweep(i) ==
    /\ i \in backlog
    /\ backlog' = backlog \ {i}
    /\ ticket' = Enqueued(i)
    /\ UNCHANGED <<intent, run, session, desk, row, render, told, frames, excused>>

\* An hour later the result is gone, and the sweep's enqueue is taken again.
ResultExpires(i) ==
    /\ ticket[i].at = "kept"
    /\ ticket' = [ticket EXCEPT ![i] = NoTicket]
    /\ UNCHANGED <<intent, run, session, desk, row, render, told, frames, backlog,
                   excused>>

Take(w, i) ==
    /\ run[w] = Idle /\ ticket[i].at = "queued"
    /\ run' = [run EXCEPT ![w] = [pc |-> "read", intent |-> i, plan |-> FALSE]]
    /\ ticket' = [ticket EXCEPT ![i] = [at |-> "running", try |-> @.try + 1]]
    /\ UNCHANGED <<intent, session, desk, row, render, told, frames, backlog,
                   excused>>

\* The worker is killed. The queue hands the job out again, while it has tries.
Crash(w) ==
    /\ "crash" \in Faults /\ run[w] # Idle
    /\ RetryOrGiveUp(w)
    /\ excused' = excused \union {Reading(w)}
    /\ UNCHANGED <<intent, session, desk, row, render, told, frames, backlog>>

\* The queue takes a running job for lost: another execution may start beside it.
Redeliver(w) ==
    LET i == Reading(w)
    IN  /\ "redeliver" \in Faults /\ run[w] # Idle
        /\ ticket[i].at = "running" /\ ticket[i].try < MaxTries
        /\ ticket' = [ticket EXCEPT ![i].at = "queued"]
        /\ excused' = excused \union {i}
        /\ UNCHANGED <<intent, run, session, desk, row, render, told, frames, backlog>>

\* /forget: the buyer comes off the links and the session is cleared, but for the
\* parking of an order that is being made.
Erase ==
    /\ "erase" \in Faults /\ desk = AtRest
    /\ \E i \in Intents : ~intent[i].erased
    /\ intent' = [i \in Intents |-> [intent[i] EXCEPT !.erased = TRUE]]
    /\ session' = IF session.screen = "submitting" /\ session.parked # None
                  THEN [session EXCEPT !.draft = None] ELSE Cleared
    /\ UNCHANGED <<ticket, run, desk, row, render, told, frames, backlog,
                   excused>>

-----------------------------------------------------------------------------
\* Fault: an announcement that was stamped is not looked at.
ReadAnyway(w, ok) ==
    /\ At(w, "read") /\ ok \in Succeeds("read")
    /\ IF ok THEN Goto(w, "plan") /\ UNCHANGED ticket ELSE RetryOrGiveUp(w)
    /\ UNCHANGED <<intent, session, desk, row, render, told, frames, backlog, excused>>

\* notify_payment_settled. The row is read; the three silences of
\* _announceable_buyer end the job, an unreadable row or meter is tried again.
Read(w, ok) ==
    LET i == Reading(w)
    IN  /\ At(w, "read") /\ ok \in Succeeds("read")
        /\ IF ~ok THEN RetryOrGiveUp(w)
           ELSE IF intent[i].notified \/ intent[i].erased THEN Done(w)
           ELSE Goto(w, "plan") /\ UNCHANGED ticket
        /\ UNCHANGED <<intent, session, desk, row, render, told, frames, backlog, excused>>

\* The session waits at confirm on exactly the draft the link was opened for.
SameDraft(i) ==
    /\ session.parked = None
    /\ session.screen = "confirm"
    /\ Marker[i] # None /\ session.draft = Marker[i]

\* plan_resume: a pure read, made before the sentence is chosen. A storage that
\* cannot be read, or the flag off, is a decision against the render.
Plan(w) ==
    /\ At(w, "plan")
    /\ \E planned \in {FALSE, SameDraft(Reading(w)) /\ Marker[Reading(w)] \notin row} :
          run' = [run EXCEPT ![w].pc = "send", ![w].plan = planned]
    /\ UNCHANGED <<intent, ticket, session, desk, row, render, told, frames, backlog,
                   excused>>

Told(i) == told' = [told EXCEPT ![i] = IF @ = 2 THEN 2 ELSE @ + 1]

\* Fault: any error of Telegram's is taken for a chat that cannot be reached.
SendOnce(w, answer) ==
    /\ At(w, "send")
    /\ IF answer = "sent" THEN Told(Reading(w)) /\ Goto(w, "stamp")
       ELSE UNCHANGED told /\ Goto(w, "stamp_gone")
    /\ UNCHANGED <<intent, ticket, session, desk, row, render, frames, backlog, excused>>

\* _send. An error leaves open whether the message arrived.
Send(w, answer) ==
    LET i == Reading(w)
    IN  /\ At(w, "send")
        /\ \/ /\ answer = "sent"
              /\ Told(i) /\ Goto(w, "stamp")
              /\ UNCHANGED <<intent, ticket, excused>>
           \/ /\ answer = "forbidden"
              /\ intent' = [intent EXCEPT ![i].gone = TRUE]
              /\ Goto(w, "stamp_gone")
              /\ UNCHANGED <<ticket, told, excused>>
           \/ /\ answer = "error"
              /\ RetryOrGiveUp(w)
              /\ Told(i) \/ UNCHANGED told
              /\ excused' = excused \union {i}
              /\ UNCHANGED intent
        /\ UNCHANGED <<session, desk, row, render, frames, backlog>>

\* mark_intent_notified stamps once. A stamp that fails after a message is dropped:
\* the job ends, the song is not started, and the sweep will announce it again.
Stamp(w, ok) ==
    LET i == Reading(w)
    IN  /\ At(w, "stamp") /\ ok \in Succeeds("stamp")
        /\ intent' = [intent EXCEPT ![i].notified = @ \/ ok]
        /\ excused' = IF ok THEN excused ELSE excused \union {i}
        /\ IF ok /\ run[w].plan THEN Goto(w, "verify") /\ UNCHANGED ticket ELSE Done(w)
        /\ UNCHANGED <<session, desk, row, render, told, frames, backlog>>

StampGone(w) ==
    /\ At(w, "stamp_gone")
    /\ \E ok \in Succeeds("stamp") :
          intent' = [intent EXCEPT ![Reading(w)].notified = @ \/ ok]
    /\ Done(w)
    /\ UNCHANGED <<session, desk, row, render, told, frames, backlog, excused>>

-----------------------------------------------------------------------------
\* resume_render: every refusal ends the job, the claim stays taken.
GoOn(w, yes, step) == IF yes THEN Goto(w, step) /\ UNCHANGED ticket ELSE Done(w)

\* _still_the_same_draft; a worker without a queue refuses here as well.
Verify(w) ==
    /\ At(w, "verify")
    /\ GoOn(w, SameDraft(Reading(w)), "claim")
    /\ UNCHANGED <<intent, session, desk, row, render, told, frames, backlog, excused>>

\* Fault: the claim is taken without looking whose it is.
ClaimAgain(w) ==
    /\ At(w, "claim")
    /\ intent' = [intent EXCEPT ![Reading(w)].claimed = TRUE]
    /\ Goto(w, "frame")
    /\ UNCHANGED <<ticket, session, desk, row, render, told, frames, backlog, excused>>

\* claim_intent_resume: the update's row count is the lock.
Claim(w) ==
    LET i == Reading(w)
    IN  /\ At(w, "claim")
        /\ \E ok \in Succeeds("claim") :
              /\ intent' = [intent EXCEPT ![i].claimed = @ \/ ok]
              /\ GoOn(w, ok /\ ~intent[i].claimed, "frame")
        /\ UNCHANGED <<session, desk, row, render, told, frames, backlog, excused>>

\* The progress message, before the submit.
Frame(w) ==
    LET i == Reading(w)
    IN  /\ At(w, "frame")
        /\ \E posted \in BOOLEAN :
              /\ frames' = IF posted THEN [frames EXCEPT ![i] = IF @ = 2 THEN 2 ELSE @ + 1]
                           ELSE frames
              /\ GoOn(w, posted, "create")
        /\ UNCHANGED <<intent, session, desk, row, render, told, backlog, excused>>

\* Fault: create_order overwrites.
FreeAlways(o) == o \in Drafts

\* ArqOrderSubmitter: the row is inserted, and a second insert of an id fails.
Free(o) == o \notin row
\* Fault: the session is parked on the order though it was refused.
CreateRegardless(w) ==
    LET o == Marker[Reading(w)]
    IN  /\ At(w, "create")
        /\ row' = row \union {o}
        /\ Goto(w, IF Free(o) THEN "enqueue" ELSE "park")
        /\ UNCHANGED <<intent, ticket, session, desk, render, told, frames, backlog,
                       excused>>

Create(w) ==
    LET o == Marker[Reading(w)]
    IN  /\ At(w, "create")
        /\ \E ok \in Succeeds("create") :
              /\ row' = IF ok THEN row \union {o} ELSE row
              /\ GoOn(w, ok /\ Free(o), "enqueue")
        /\ UNCHANGED <<intent, session, desk, render, told, frames, backlog, excused>>

Enqueue(w) ==
    LET o == Marker[Reading(w)]
    IN  /\ At(w, "enqueue")
        /\ \E ok \in Succeeds("enqueue") :
              /\ IF ok THEN Hand(o) ELSE UNCHANGED render
              /\ GoOn(w, ok, "park")
        /\ UNCHANGED <<intent, session, desk, row, told, frames, backlog, excused>>

\* _park: a last look, then two writes. A failure or a crash between the two is left at
\* that.
Park(w) ==
    /\ At(w, "park")
    /\ \E ok \in Succeeds("park") :
          GoOn(w, /\ ok
                  /\ session.parked \in {None, Marker[Reading(w)]}
                  /\ session.screen = "confirm", "set_state")
    /\ UNCHANGED <<intent, session, desk, row, render, told, frames, backlog, excused>>

SetState(w) ==
    /\ At(w, "set_state")
    /\ session' = [session EXCEPT !.screen = "submitting"]
    /\ \E ok \in Succeeds("park") : GoOn(w, ok, "set_data")
    /\ UNCHANGED <<intent, desk, row, render, told, frames, backlog, excused>>

SetData(w) ==
    /\ At(w, "set_data")
    /\ session' = [session EXCEPT !.parked = Marker[Reading(w)]]
    /\ Done(w)
    /\ UNCHANGED <<intent, desk, row, render, told, frames, backlog, excused>>

-----------------------------------------------------------------------------
\* The customer and the bot, one update at a time.
rail == <<intent, ticket, run, told, frames, backlog, excused>>

Press ==
    /\ desk = AtRest /\ session.screen = "confirm"
    /\ session' = [session EXCEPT !.screen = "submitting"]
    /\ desk' = [pc |-> "create", order |-> session.draft]
    /\ UNCHANGED <<row, render>> /\ UNCHANGED rail

\* show_confirm writes the draft in hand and the state.
BackToConfirm ==
    /\ session' = [session EXCEPT !.screen = "confirm", !.draft = desk.order]
    /\ desk' = AtRest

\* A gate refuses, or the row cannot be written.
Refuse ==
    /\ desk.pc = "create"
    /\ BackToConfirm
    /\ UNCHANGED <<row, render>> /\ UNCHANGED rail

CreateOrder ==
    /\ desk.pc = "create" /\ Free(desk.order)
    /\ row' = row \union {desk.order}
    /\ desk' = [desk EXCEPT !.pc = "enqueue"]
    /\ UNCHANGED <<session, render>> /\ UNCHANGED rail

EnqueueOrder ==
    /\ desk.pc = "enqueue"
    /\ \E ok \in Succeeds("enqueue") :
          IF ok THEN /\ Hand(desk.order)
                     /\ desk' = [desk EXCEPT !.pc = "remember"]
                     /\ UNCHANGED session
          ELSE BackToConfirm /\ UNCHANGED render
    /\ UNCHANGED row /\ UNCHANGED rail

\* remember_submission
Remember ==
    /\ desk.pc = "remember"
    /\ session' = [session EXCEPT !.parked = desk.order]
    /\ desk' = AtRest
    /\ UNCHANGED <<row, render>> /\ UNCHANGED rail

\* An answer is changed; what is changed back is the same draft again.
Edit(d) ==
    /\ desk = AtRest /\ session.screen = "confirm" /\ session.parked = None
    /\ d # session.draft
    /\ session' = [session EXCEPT !.screen = "wizard", !.draft = d]
    /\ UNCHANGED <<desk, row, render>> /\ UNCHANGED rail

Show ==
    /\ desk = AtRest /\ session.screen = "wizard"
    /\ session' = [session EXCEPT !.screen = "confirm"]
    /\ UNCHANGED <<desk, row, render>> /\ UNCHANGED rail

\* /start, or the Start-over button. The next song is another run of the wizard, whose
\* drafts have other ids: it is not followed.
StartOver ==
    /\ desk = AtRest /\ session.screen # "none"
    /\ session' = Cleared
    /\ UNCHANGED <<desk, row, render>> /\ UNCHANGED rail

\* The render ends and frees the session that waits for it. Assumed: its minutes
\* outlast the last writes of the process that submitted it.
Submitting(o) ==
    \/ desk.pc = "remember" /\ desk.order = o
    \/ \E w \in Workers : /\ run[w].pc \in {"park", "set_state", "set_data"}
                          /\ Marker[Reading(w)] = o
Finish(o) ==
    /\ render[o] = "queued" /\ ~Submitting(o)
    /\ render' = [render EXCEPT ![o] = "over"]
    /\ session' = IF session.parked = o THEN Cleared ELSE session
    /\ UNCHANGED <<desk, row>> /\ UNCHANGED rail

-----------------------------------------------------------------------------
Answers == {"sent", "forbidden", "error"}

RunStep(w) ==
    \/ \E ok \in BOOLEAN : Read(w, ok) \/ Stamp(w, ok)
    \/ \E answer \in Answers : Send(w, answer)
    \/ Plan(w) \/ StampGone(w) \/ Verify(w) \/ Claim(w) \/ Frame(w) \/ Create(w)
    \/ Enqueue(w) \/ Park(w) \/ SetState(w) \/ SetData(w)

BotStep == Refuse \/ CreateOrder \/ EnqueueOrder \/ Remember

Next ==
    \/ \E i \in Intents : \/ Settle(i) \/ ReadBacklog(i) \/ Sweep(i) \/ ResultExpires(i)
                          \/ \E w \in Workers : Take(w, i)
    \/ \E w \in Workers : RunStep(w) \/ Crash(w) \/ Redeliver(w)
    \/ BotStep \/ Press \/ Show \/ StartOver \/ Erase
    \/ \E d \in Drafts : Edit(d) \/ Finish(d)

\* Workers and the bot go on, the sweep is a cron, renders end; and a job that is run
\* again and again reads its payment and sends its message at last.
Spec ==
    /\ Init /\ [][Next]_vars
    /\ WF_vars(BotStep)
    /\ \A o \in Drafts : WF_vars(Finish(o))
    /\ \A w \in Workers : WF_vars(RunStep(w))
    /\ \A i \in Intents :
          /\ WF_vars(ReadBacklog(i)) /\ WF_vars(Sweep(i)) /\ WF_vars(ResultExpires(i))
          /\ SF_vars(\E w \in Workers : Take(w, i))
          /\ SF_vars(\E w \in Workers : Reading(w) = i /\ Read(w, TRUE))
          /\ SF_vars(\E w \in Workers : Reading(w) = i /\ Plan(w))
          /\ SF_vars(\E w \in Workers : Reading(w) = i /\ Send(w, "sent"))

-----------------------------------------------------------------------------
TypeOK ==
    /\ intent \in [Intents -> Intent]
    /\ ticket \in [Intents -> Ticket]
    /\ run \in [Workers -> Run]
    /\ session \in Session
    /\ desk \in Desk
    /\ row \subseteq Drafts
    /\ render \in [Drafts -> {"none", "queued", "over"}]
    /\ told \in [Intents -> 0..2]
    /\ frames \in [Intents -> 0..2]
    /\ backlog \subseteq Intents /\ excused \subseteq Intents

\* Two executions of one notification, the customer's own press and a second link
\* for the same draft do not make one song twice: a render that is over stays over
\* (the orders' primary key, behind the claim and the checks of the session).
OneSongPerDraft == [][\A o \in Drafts : render[o] = "over" => render'[o] = "over"]_vars

\* One payment starts one render attempt, however often its job is run
\* (claim_intent_resume).
ResumedOnce == \A i \in Intents : frames[i] <= 1

\* "Saying it twice is the one failure a customer notices": a payment is announced a
\* second time only after an answer of Telegram's, a stamp or a worker was lost. Two
\* enqueues, or a sweep that read the backlog before the stamp, are no cause.
ToldAgainOnlyForCause == \A i \in Intents : told[i] > 1 => i \in excused

\* A payment is announced, whatever became of its jobs and enqueues: the sweep finds
\* what the last attempt gave up.
PaidIsAnnounced ==
    \A i \in Intents :
        intent[i].state = "paid" ~> told[i] > 0 \/ intent[i].gone \/ intent[i].erased

\* The state of a park was written and its order never will be.
HalfParked ==
    /\ session.screen = "submitting" /\ session.parked = None
    /\ desk = AtRest /\ \A w \in Workers : ~At(w, "set_data")

\* "A half-written park is a session the customer can neither use nor leave": _park
\* claims to write it whole.
ParkIsWhole == ~HalfParked

\* A session never waits for ever for a song: whoever parked it on an order has
\* submitted that order, and the end of the render frees it; a session that submits is
\* parked or given back, except by a park that was left half written.
SessionFreed ==
    /\ \A o \in Drafts : session.parked = o ~> session.parked # o
    /\ session.screen = "submitting" ~> session.screen # "submitting" \/ HalfParked

=============================================================================
