----------------------------- MODULE ResumeProofs -----------------------------
(***************************************************************************)
(* For any payments, drafts, executions, tries and faults: the state is    *)
(* well typed; one payment posts one progress message, however often its   *)
(* job is retried, redelivered beside itself or enqueued anew; it is told  *)
(* twice only for a cause; and one draft is rendered once.                 *)
(***************************************************************************)
EXTENDS Resume, TLAPS

Late == {"claim", "frame", "create", "enqueue", "park", "set_state", "set_data"}

\* An execution that is under way reads one of the payments.
Busy == \A w \in Workers : run[w] = Idle \/ (~At(w, "idle") /\ Reading(w) \in Intents)
\* Past the second look at the draft, the link was opened for one.
Made == \A w \in Workers : run[w].pc \in Late => Marker[Reading(w)] \in Drafts
\* Whoever is about to post has the claim to itself, and nothing was posted.
Claims ==
    /\ \A w \in Workers : At(w, "frame") =>
          /\ intent[Reading(w)].claimed
          /\ frames[Reading(w)] = 0
          /\ \A v \in Workers \ {w} : At(v, "frame") => Reading(v) # Reading(w)
    /\ \A i \in Intents : frames[i] \in 0..1 /\ (~intent[i].claimed => frames[i] = 0)

Executions ==
    /\ run \in [Workers -> Run] /\ intent \in [Intents -> Intent]
    /\ frames \in [Intents -> 0..2]
    /\ Busy /\ Made /\ Claims

\* A ticket that waits has a try left, and one that is not there has used none.
Tickets ==
    /\ ticket \in [Intents -> Ticket]
    /\ \A i \in Intents : /\ ticket[i].at = "none" => ticket[i].try = 0
                          /\ ticket[i].at = "queued" => ticket[i].try < MaxTries

\* A screen that shows a draft has one, and so has the handler that submits it.
Screens ==
    /\ session \in Session /\ desk \in Desk
    /\ session.screen \in {"wizard", "confirm"} => session.draft \in Drafts
    /\ desk.pc # "idle" => desk.order \in Drafts

Records ==
    /\ row \subseteq Drafts /\ render \in [Drafts -> {"none", "queued", "over"}]
    /\ told \in [Intents -> 0..2]
    /\ backlog \subseteq Intents /\ excused \subseteq Intents

IInv == Executions /\ Tickets /\ Screens /\ Records

\* A step that posts nothing and claims nothing.
SameClaims ==
    /\ intent' \in [Intents -> Intent] /\ frames' = frames
    /\ \A i \in Intents : intent'[i].claimed = intent[i].claimed

-----------------------------------------------------------------------------
(***************************************************************************)
(* The steps an execution takes.                                           *)
(***************************************************************************)
LEMMA Parameters ==
    /\ Marker \in [Intents -> Drafts \union {None}] /\ MaxTries \in Nat \ {0}
    /\ Late \subseteq Steps /\ "idle" \notin Late
  BY ResumeAssumption DEF ResumeAssumption, Late, Steps

LEMMA StaysClaimed ==
    ASSUME Executions, UNCHANGED <<intent, frames>>
    PROVE  SameClaims
  BY DEF Executions, SameClaims

\* An execution that ends leaves the others as they are.
LEMMA Retires ==
    ASSUME NEW w \in Workers, run' = [run EXCEPT ![w] = Idle], Executions, SameClaims
    PROVE  Executions'
<1> USE DEF At, Reading
<1>1. run \in [Workers -> Run] /\ run' \in [Workers -> Run]
  BY DEF Executions, Run, Idle, Steps
<1>2. \A v \in Workers : run'[v] = IF v = w THEN Idle ELSE run[v]
  BY <1>1
<1>3. Idle.pc = "idle"
  BY DEF Idle
<1>4. Busy' /\ Made'
  BY <1>1, <1>2, <1>3, Parameters DEF Executions, Busy, Made
<1>5. \A v \in Workers : run[v].pc = "frame" => run[v].intent \in Intents
  BY <1>3 DEF Executions, Busy
<1>6. Claims'
  BY <1>1, <1>2, <1>3, <1>5 DEF Executions, Claims, SameClaims
<1> QED
  BY <1>1, <1>4, <1>6 DEF Executions, SameClaims

\* An execution goes on to a step other than the progress message, and may make its plan.
LEMMA GoesTo ==
    ASSUME NEW w \in Workers, NEW step \in Steps \ {"idle", "frame"}, NEW planned \in BOOLEAN,
           run[w].pc # "idle", run' = [run EXCEPT ![w].pc = step, ![w].plan = planned],
           step \in Late => Marker[Reading(w)] \in Drafts, Executions, SameClaims
    PROVE  Executions'
<1> USE DEF At, Reading
<1>1. run \in [Workers -> Run] /\ run' \in [Workers -> Run]
  BY DEF Executions, Run
<1>2. /\ \A v \in Workers : run'[v].intent = run[v].intent /\ (v # w => run'[v] = run[v])
      /\ run'[w].pc = step
  BY <1>1 DEF Run
<1>3. \A v \in Workers : run[v].pc # "idle" => run[v].intent \in Intents
  BY DEF Executions, Busy, Idle
<1>4. Busy'
  BY <1>2, <1>3 DEF Executions, Busy, Idle
<1>5. Made'
  BY <1>2 DEF Executions, Made
<1>6. Claims'
  BY <1>2, <1>3 DEF Executions, Claims, SameClaims
<1> QED
  BY <1>1, <1>4, <1>5, <1>6 DEF Executions, SameClaims

LEMMA GotoKeeps ==
    ASSUME NEW w \in Workers, NEW step \in Steps \ {"idle", "frame"},
           run[w].pc # "idle", Goto(w, step),
           step \in Late => Marker[Reading(w)] \in Drafts, Executions, SameClaims
    PROVE  Executions'
<1>1. run \in [Workers -> Run]
  BY DEF Executions
<1>2. run' = [run EXCEPT ![w].pc = step, ![w].plan = run[w].plan]
  BY <1>1 DEF Goto, Run
<1>3. run[w].plan \in BOOLEAN
  BY <1>1 DEF Run
<1> QED
  BY <1>2, <1>3, GoesTo

\* The end of an execution gives its ticket back or leaves it.
LEMMA DoneKeeps ==
    ASSUME NEW w \in Workers, run[w].pc # "idle", Executions, Tickets, Done(w), SameClaims
    PROVE  Executions' /\ Tickets'
<1>1. Reading(w) \in Intents
  BY DEF Executions, Busy, At, Idle
<1>2. 0 \in 0..MaxTries
  BY Parameters
<1>3. Tickets'
  BY <1>1, <1>2 DEF Done, Tickets, Ticket, Result
<1> QED
  BY <1>3, Retires DEF Done

\* What is tried again has a try left.
LEMMA RetryKeeps ==
    ASSUME NEW w \in Workers, run[w].pc # "idle", Executions, Tickets, RetryOrGiveUp(w),
           SameClaims
    PROVE  Executions' /\ Tickets'
<1>1. Reading(w) \in Intents
  BY DEF Executions, Busy, At, Idle
<1>2. CASE ticket[Reading(w)].try < MaxTries /\ Alone(w) /\ ticket[Reading(w)].at = "running"
  <2>1. Tickets' /\ run' = [run EXCEPT ![w] = Idle]
    BY <1>1, <1>2 DEF RetryOrGiveUp, Tickets, Ticket
  <2> QED
    BY <2>1, Retires
<1>3. CASE ~(ticket[Reading(w)].try < MaxTries /\ Alone(w) /\ ticket[Reading(w)].at = "running")
  <2>1. Done(w)
    BY <1>3 DEF RetryOrGiveUp
  <2> QED
    BY <2>1, DoneKeeps
<1> QED
  BY <1>2, <1>3

\* A step of an execution that may end it keeps both.
LEMMA GoOnKeeps ==
    ASSUME NEW w \in Workers, NEW yes \in BOOLEAN, NEW step \in Steps \ {"idle", "frame"},
           run[w].pc # "idle", GoOn(w, yes, step),
           yes /\ step \in Late => Marker[Reading(w)] \in Drafts,
           Executions, Tickets, SameClaims
    PROVE  Executions' /\ Tickets'
<1>1. CASE yes
  <2>1. Goto(w, step) /\ UNCHANGED ticket
    BY <1>1 DEF GoOn
  <2>2. Executions'
    BY <1>1, <2>1, GotoKeeps
  <2> QED
    BY <2>1, <2>2 DEF Tickets
<1>2. CASE ~yes
  <2>1. Done(w)
    BY <1>2 DEF GoOn
  <2> QED
    BY <2>1, DoneKeeps
<1> QED
  BY <1>1, <1>2

\* Enqueueing takes a free id, whose ticket has used no try.
LEMMA EnqueuedKeeps ==
    ASSUME NEW i \in Intents, Tickets, ticket' = Enqueued(i)
    PROVE  Tickets'
  BY Parameters DEF Tickets, Ticket, Enqueued

\* A result that expires leaves its id free.
LEMMA ExpiryKeeps ==
    ASSUME NEW i \in Intents, Tickets, ResultExpires(i)
    PROVE  Tickets'
  BY Parameters DEF Tickets, Ticket, NoTicket, ResultExpires

-----------------------------------------------------------------------------
LEMMA InitHolds == Init => IInv
<1> SUFFICES ASSUME Init PROVE IInv
  OBVIOUS
<1>1. Executions
  BY DEF Init, Executions, Busy, Made, Claims, Idle, Run, Steps, Intent, Late, At, Reading
<1>2. Tickets
  BY Parameters DEF Init, Tickets, Ticket, NoTicket
<1>3. Screens
  BY DEF Init, Screens, Session, Desk, AtRest
<1>4. Records
  BY DEF Init, Records
<1> QED
  BY <1>1, <1>2, <1>3, <1>4 DEF IInv

-----------------------------------------------------------------------------
(***************************************************************************)
(* An execution at work: one lemma for what it does to itself and to its   *)
(* ticket, one for the session, one for what is written down.              *)
(***************************************************************************)
WorkOf(w) == RunStep(w) \/ Crash(w) \/ Redeliver(w)

LEMMA Working ==
    ASSUME Executions, NEW w \in Workers, WorkOf(w)
    PROVE  run[w].pc # "idle" /\ Reading(w) \in Intents
<1>1. run[w].pc # "idle"
  BY DEF WorkOf, RunStep, Crash, Redeliver, Read, Plan, Send, Stamp, StampGone, Verify, Claim,
         Frame, Create, Enqueue, Park, SetState, SetData, Executions, Busy, At
<1> QED
  BY <1>1 DEF Executions, Busy, At, Idle

\* The claim goes to one execution; every other step keeps who has it.
LEMMA ClaimKeeps ==
    ASSUME Executions, Tickets, NEW w \in Workers, Claim(w)
    PROVE  Executions' /\ Tickets'
<1> DEFINE i == Reading(w)
<1>0. run[w].pc = "claim" /\ i \in Intents /\ Marker[i] \in Drafts
  BY Working DEF Claim, At, WorkOf, RunStep, Executions, Made, Late
<1>1. PICK ok \in BOOLEAN : /\ intent' = [intent EXCEPT ![i].claimed = @ \/ ok]
                            /\ GoOn(w, ok /\ ~intent[i].claimed, "frame")
  BY DEF Claim, Succeeds
<1>2. frames' = frames /\ intent' \in [Intents -> Intent]
  BY <1>0, <1>1 DEF Claim, Executions, Intent
<1>3. CASE ok /\ ~intent[i].claimed
  <2> USE DEF At, Reading
  <2>1. Goto(w, "frame") /\ UNCHANGED ticket
    BY <1>1, <1>3 DEF GoOn
  <2>2. run \in [Workers -> Run] /\ run' \in [Workers -> Run]
    BY <2>1 DEF Executions, Run, Goto, Steps
  <2>3. /\ \A v \in Workers : run'[v].intent = run[v].intent /\ (v # w => run'[v] = run[v])
        /\ run'[w].pc = "frame"
    BY <2>1, <2>2 DEF Run, Goto
  <2>4. \A v \in Workers : run[v].pc = "frame" => run[v].intent \in Intents /\ run[v].intent # i
    BY <1>3 DEF Executions, Claims, Busy, Idle
  <2>5. /\ intent'[i].claimed /\ frames[i] = 0
        /\ \A j \in Intents : j # i => intent'[j] = intent[j]
    <3>1. intent \in [Intents -> Intent] /\ frames[i] = 0
      BY <1>0, <1>3 DEF Executions, Claims
    <3>2. intent' = [intent EXCEPT ![i] = [@ EXCEPT !.claimed = TRUE]]
      BY <1>1, <1>3, <3>1
    <3> QED
      BY <1>0, <3>1, <3>2 DEF Intent
  <2>6. Busy' /\ Made'
    BY <1>0, <2>3 DEF Executions, Busy, Made, Idle
  <2>7. Claims'
    BY <1>0, <1>2, <2>3, <2>4, <2>5 DEF Executions, Claims
  <2> QED
    BY <1>2, <2>1, <2>2, <2>6, <2>7 DEF Executions, Tickets
<1>4. CASE ~(ok /\ ~intent[i].claimed)
  <2>1. Done(w)
    BY <1>1, <1>4 DEF GoOn
  <2>2. \A j \in Intents : intent'[j].claimed = intent[j].claimed
    BY <1>0, <1>1, <1>4 DEF Executions, Intent
  <2> QED
    BY <1>0, <1>2, <2>1, <2>2, DoneKeeps DEF SameClaims
<1> QED
  BY <1>3, <1>4

\* One execution posts; nobody else has the claim.
LEMMA FrameKeeps ==
    ASSUME Executions, Tickets, NEW w \in Workers, Frame(w)
    PROVE  Executions' /\ Tickets'
<1> USE DEF At, Reading
<1> DEFINE i == run[w].intent
<1>0. run[w].pc = "frame" /\ i \in Intents /\ Marker[i] \in Drafts /\ intent[i].claimed
      /\ frames[i] = 0
  BY Working DEF Frame, WorkOf, RunStep, Executions, Made, Late, Claims
<1>1. PICK posted \in BOOLEAN :
        /\ frames' = IF posted THEN [frames EXCEPT ![i] = IF @ = 2 THEN 2 ELSE @ + 1] ELSE frames
        /\ GoOn(w, posted, "create")
  BY DEF Frame
<1>2. intent' = intent
  BY DEF Frame
<1>3. CASE posted
  <2>1. Goto(w, "create") /\ UNCHANGED ticket
    BY <1>1, <1>3 DEF GoOn
  <2>2. run \in [Workers -> Run] /\ run' \in [Workers -> Run]
    BY <2>1 DEF Executions, Run, Goto, Steps
  <2>3. /\ \A v \in Workers : run'[v].intent = run[v].intent /\ (v # w => run'[v] = run[v])
        /\ run'[w].pc = "create"
    BY <2>1, <2>2 DEF Run, Goto
  <2>4. /\ frames' \in [Intents -> 0..2] /\ frames'[i] = 1
        /\ \A j \in Intents : j # i => frames'[j] = frames[j]
    BY <1>0, <1>1, <1>3 DEF Executions
  <2>5. \A v \in Workers \ {w} : run[v].pc = "frame" => run[v].intent \in Intents \ {i}
    BY <1>0 DEF Executions, Claims, Busy, Idle
  <2>6. Busy' /\ Made'
    BY <1>0, <2>3 DEF Executions, Busy, Made, Idle
  <2>7. Claims'
    BY <1>0, <1>2, <2>3, <2>4, <2>5 DEF Executions, Claims
  <2> QED
    BY <1>2, <2>1, <2>2, <2>4, <2>6, <2>7 DEF Executions, Tickets
<1>4. CASE ~posted
  <2>1. Done(w) /\ UNCHANGED <<intent, frames>>
    BY <1>1, <1>2, <1>4 DEF GoOn
  <2> QED
    BY <1>0, <2>1, DoneKeeps, StaysClaimed
<1> QED
  BY <1>3, <1>4

\* The other steps of a run, its loss and its repetition.
LEMMA SendKeeps ==
    ASSUME Executions, Tickets, NEW w \in Workers, NEW answer, Send(w, answer)
    PROVE  Executions' /\ Tickets'
<1> DEFINE i == Reading(w)
<1>0. run[w].pc # "idle" /\ i \in Intents /\ frames' = frames
      /\ {"stamp", "stamp_gone"} \subseteq Steps \ {"idle", "frame"}
      /\ Late \intersect {"stamp", "stamp_gone"} = {}
  BY Working DEF Send, At, Busy, Executions, Idle, Steps, Late
<1>1. CASE answer = "sent"
  <2>1. Goto(w, "stamp") /\ UNCHANGED <<intent, ticket, frames>>
    BY <1>0, <1>1 DEF Send
  <2> QED
    BY <1>0, <2>1, GotoKeeps, StaysClaimed DEF Tickets
<1>2. CASE answer = "forbidden"
  <2>1. /\ Goto(w, "stamp_gone") /\ UNCHANGED ticket
        /\ intent' = [intent EXCEPT ![i].gone = TRUE]
    BY <1>2 DEF Send
  <2>2. SameClaims
    <3> HIDE DEF i
    <3> DEFINE told_off == [intent[i] EXCEPT !.gone = TRUE]
    <3>1. intent \in [Intents -> Intent] /\ intent[i] \in Intent
      BY <1>0 DEF Executions
    <3>2. told_off \in Intent
      BY <3>1 DEF Intent
    <3>3. told_off.claimed = intent[i].claimed
      BY <3>1 DEF Intent
    <3>4. intent' = [intent EXCEPT ![i] = told_off]
      BY <2>1
    <3> HIDE DEF told_off
    <3> QED BY <1>0, <3>1, <3>2, <3>3, <3>4 DEF SameClaims
  <2> QED
    BY <1>0, <2>1, <2>2, GotoKeeps DEF Tickets
<1>3. CASE answer = "error"
  <2>1. RetryOrGiveUp(w) /\ UNCHANGED <<intent, frames>>
    BY <1>0, <1>3 DEF Send
  <2> QED
    BY <1>0, <2>1, RetryKeeps, StaysClaimed
<1> QED
  BY <1>1, <1>2, <1>3 DEF Send

LEMMA StampKeeps ==
    ASSUME Executions, Tickets, NEW w \in Workers, NEW ok \in BOOLEAN,
           Stamp(w, ok) \/ StampGone(w)
    PROVE  Executions' /\ Tickets'
<1> DEFINE i == Reading(w)
<1>0. run[w].pc # "idle" /\ i \in Intents /\ frames' = frames
      /\ "verify" \in Steps \ {"idle", "frame"} /\ "verify" \notin Late
  BY DEF Stamp, StampGone, At, Busy, Executions, Idle, Steps, Late
<1>1. PICK yes \in BOOLEAN : intent' = [intent EXCEPT ![i].notified = @ \/ yes]
  BY DEF Stamp, StampGone, Succeeds
<1>2. SameClaims
  BY <1>0, <1>1 DEF SameClaims, Executions, Intent
<1>3. Done(w) \/ (Goto(w, "verify") /\ UNCHANGED ticket)
  BY DEF Stamp, StampGone
<1> QED
  BY <1>0, <1>2, <1>3, DoneKeeps, GotoKeeps DEF Tickets

\* The draft is looked at: who goes on was opened for one.
LEMMA LookKeeps ==
    ASSUME Executions, Tickets, NEW w \in Workers, Plan(w) \/ Verify(w)
    PROVE  Executions' /\ Tickets'
<1>0. run[w].pc # "idle" /\ Reading(w) \in Intents /\ UNCHANGED <<intent, frames>>
      /\ {"send", "claim"} \subseteq Steps \ {"idle", "frame"} /\ "send" \notin Late
  BY DEF Plan, Verify, At, Busy, Executions, Idle, Steps, Late
<1>1. SameClaims
  BY <1>0, StaysClaimed
<1>2. CASE Plan(w)
  <2>1. PICK planned \in BOOLEAN : run' = [run EXCEPT ![w].pc = "send", ![w].plan = planned]
    BY <1>2 DEF Plan, SameDraft
  <2>2. UNCHANGED ticket
    BY <1>2 DEF Plan
  <2> QED
    BY <1>0, <1>1, <2>1, <2>2, GoesTo DEF Tickets
<1>3. CASE Verify(w)
  <2>1. GoOn(w, SameDraft(Reading(w)), "claim")
    BY <1>3 DEF Verify
  <2>2. SameDraft(Reading(w)) \in BOOLEAN
        /\ (SameDraft(Reading(w)) => Marker[Reading(w)] \in Drafts)
    BY <1>0, Parameters DEF SameDraft
  <2> QED
    BY <1>0, <1>1, <2>1, <2>2, GoOnKeeps
<1> QED
  BY <1>2, <1>3

\* The submit and the park: each step is taken or refused.
LEMMA SubmitKeeps ==
    ASSUME Executions, Tickets, NEW w \in Workers,
           Create(w) \/ Enqueue(w) \/ Park(w) \/ SetState(w) \/ SetData(w)
    PROVE  Executions' /\ Tickets'
<1>0. /\ run[w].pc \in Late /\ run[w].pc # "idle" /\ UNCHANGED <<intent, frames>>
      /\ {"enqueue", "park", "set_state", "set_data"} \subseteq Steps \ {"idle", "frame"}
  BY DEF Create, Enqueue, Park, SetState, SetData, At, Steps, Late
<1>1. SameClaims /\ Marker[Reading(w)] \in Drafts
  BY <1>0, StaysClaimed DEF Executions, Made
<1>2. \/ Done(w)
      \/ \E yes \in BOOLEAN, step \in {"enqueue", "park", "set_state", "set_data"} :
            GoOn(w, yes, step)
  BY DEF Create, Enqueue, Park, SetState, SetData, Succeeds
<1> QED
  BY <1>0, <1>1, <1>2, DoneKeeps, GoOnKeeps

LEMMA ReadKeeps ==
    ASSUME Executions, Tickets, NEW w \in Workers, NEW ok \in BOOLEAN, Read(w, ok)
    PROVE  Executions' /\ Tickets'
<1>0. run[w].pc # "idle" /\ UNCHANGED <<intent, frames>>
      /\ "plan" \in Steps \ {"idle", "frame"} /\ "plan" \notin Late
  BY DEF Read, At, Steps, Late
<1>1. SameClaims
  BY <1>0, StaysClaimed
<1>2. RetryOrGiveUp(w) \/ Done(w) \/ (Goto(w, "plan") /\ UNCHANGED ticket)
  BY DEF Read
<1> QED
  BY <1>0, <1>1, <1>2, RetryKeeps, DoneKeeps, GotoKeeps DEF Tickets

LEMMA LossKeeps ==
    ASSUME Executions, Tickets, NEW w \in Workers, Crash(w) \/ Redeliver(w)
    PROVE  Executions' /\ Tickets'
<1>0. run[w].pc # "idle" /\ Reading(w) \in Intents /\ UNCHANGED <<intent, frames>>
  BY Working DEF WorkOf, Crash, Redeliver
<1>1. CASE Crash(w)
  BY <1>0, <1>1, RetryKeeps, StaysClaimed DEF Crash
<1>2. CASE Redeliver(w)
  <2>1. UNCHANGED run /\ ticket' = [ticket EXCEPT ![Reading(w)].at = "queued"]
        /\ ticket[Reading(w)].try < MaxTries
    BY <1>2 DEF Redeliver
  <2>2. Tickets'
    BY <1>0, <2>1 DEF Tickets, Ticket
  <2> QED
    BY <1>0, <2>1, <2>2 DEF Executions, Busy, Made, Claims, At, Reading
<1> QED
  BY <1>1, <1>2

LEMMA WorkKeeps ==
    ASSUME Executions, Tickets, NEW w \in Workers, WorkOf(w)
    PROVE  Executions' /\ Tickets'
  BY ReadKeeps, StampKeeps, SendKeeps, LookKeeps, ClaimKeeps, FrameKeeps, SubmitKeeps, LossKeeps
     DEF WorkOf, RunStep

-----------------------------------------------------------------------------
(***************************************************************************)
(* The rail, the queue, the customer and the bot.                          *)
(***************************************************************************)
Elsewhere ==
    \/ \E i \in Intents : Settle(i) \/ ReadBacklog(i) \/ Sweep(i) \/ ResultExpires(i)
    \/ BotStep \/ Press \/ Show \/ StartOver \/ Erase
    \/ \E d \in Drafts : Edit(d) \/ Finish(d)

LEMMA TakeKeeps ==
    ASSUME Executions, Tickets, NEW w \in Workers, NEW i \in Intents, Take(w, i)
    PROVE  Executions' /\ Tickets'
<1> USE DEF At, Reading
<1>1. /\ run' = [run EXCEPT ![w] = [pc |-> "read", intent |-> i, plan |-> FALSE]]
      /\ run[w] = Idle /\ UNCHANGED <<intent, frames>>
      /\ ticket[i].at = "queued" /\ ticket' = [ticket EXCEPT ![i] = [at |-> "running", try |-> @.try + 1]]
  BY DEF Take
<1>2. run \in [Workers -> Run] /\ run' \in [Workers -> Run]
  BY <1>1 DEF Executions, Run, Steps
<1>3. /\ \A v \in Workers : v # w => run'[v] = run[v]
      /\ run'[w].pc = "read" /\ run'[w].intent = i
  BY <1>1, <1>2
<1>4. Busy' /\ Made' /\ Claims'
  BY <1>1, <1>3 DEF Executions, Busy, Made, Claims, Late
<1>5. ticket[i].try + 1 \in 0..MaxTries
  BY <1>1, Parameters DEF Tickets, Ticket
<1>6. Tickets'
  BY <1>1, <1>5 DEF Tickets, Ticket
<1> QED
  BY <1>1, <1>2, <1>4, <1>6 DEF Executions

LEMMA ElsewhereKeeps ==
    ASSUME Executions, Tickets, Elsewhere
    PROVE  Executions' /\ Tickets'
<1>1. run' = run
  BY DEF Elsewhere, Settle, ReadBacklog, Sweep, ResultExpires, BotStep, Refuse,
         CreateOrder, EnqueueOrder, Remember, Press, Show, StartOver, Erase, Edit, Finish, rail
<1>2. SameClaims
  <2>1. CASE \E i \in Intents : Settle(i)
    BY <2>1 DEF Settle, SameClaims, Executions, Intent
  <2>2. CASE Erase
    <3>1. intent' = [i \in Intents |-> [intent[i] EXCEPT !.erased = TRUE]] /\ frames' = frames
      BY <2>2 DEF Erase
    <3> QED
      BY <3>1 DEF SameClaims, Executions, Intent
  <2>3. CASE UNCHANGED <<intent, frames>>
    BY <2>3, StaysClaimed
  <2> QED
    BY <2>1, <2>2, <2>3
       DEF Elsewhere, ReadBacklog, Sweep, ResultExpires, BotStep, Refuse,
         CreateOrder, EnqueueOrder,   Remember, Press, Show, StartOver, Edit, Finish, rail
<1>3. Executions'
  BY <1>1, <1>2 DEF Executions, SameClaims, Busy, Made, Claims, At, Reading, Idle
<1>4. UNCHANGED ticket \/ \E i \in Intents : ticket' = Enqueued(i) \/ ResultExpires(i)
  BY DEF Elsewhere, Settle, ReadBacklog, Sweep, ResultExpires, BotStep, Refuse,
         CreateOrder, EnqueueOrder, Remember, Press, Show, StartOver, Erase, Edit, Finish, rail
<1>5. Tickets'
  BY <1>4, EnqueuedKeeps, ExpiryKeeps DEF Tickets
<1> QED
  BY <1>3, <1>5

LEMMA ExecutionsStep ==
    ASSUME Executions, Tickets, Next
    PROVE  Executions' /\ Tickets'
  BY TakeKeeps, WorkKeeps, ElsewhereKeeps DEF Next, WorkOf, Elsewhere

-----------------------------------------------------------------------------
(***************************************************************************)
(* The session, and what is written down.                                  *)
(***************************************************************************)
LEMMA ScreensStep ==
    ASSUME Executions, Screens, Next
    PROVE  Screens'
<1> USE DEF Session, Desk
<1>1. CASE UNCHANGED <<session, desk>>
  BY <1>1 DEF Screens
<1>2. ASSUME NEW w \in Workers, SetState(w) PROVE Screens'
  BY <1>2 DEF SetState, Screens
<1>3. ASSUME NEW w \in Workers, SetData(w) PROVE Screens'
  <2>1. Marker[Reading(w)] \in Drafts
    BY <1>3 DEF SetData, Executions, Made, Late, At
  <2> QED
    BY <1>3, <2>1 DEF SetData, Screens
<1>4. CASE BotStep
  <2>1. ASSUME BackToConfirm, desk.pc # "idle" PROVE Screens'
    BY <2>1 DEF BackToConfirm, AtRest, Screens
  <2>2. CASE CreateOrder
    BY <2>2 DEF CreateOrder, Screens
  <2>3. CASE Remember
    BY <2>3 DEF Remember, AtRest, Screens
  <2>4. CASE EnqueueOrder
    <3>1. \/ BackToConfirm
          \/ desk' = [desk EXCEPT !.pc = "remember"] /\ UNCHANGED session
      BY <2>4 DEF EnqueueOrder
    <3>2. desk.pc = "enqueue"
      BY <2>4 DEF EnqueueOrder
    <3> QED
      BY <2>1, <3>1, <3>2 DEF Screens
  <2>5. CASE Refuse
    BY <2>1, <2>5 DEF Refuse
  <2> QED
    BY <1>4, <2>2, <2>3, <2>4, <2>5 DEF BotStep
<1>5. CASE Press \/ Show
  BY <1>5 DEF Press, Show, Screens
<1>6. CASE StartOver \/ Erase
  <2>1. CASE StartOver
    BY <2>1 DEF StartOver, Cleared, Screens
  <2>2. CASE Erase
    BY <2>2 DEF Erase, Cleared, Screens
  <2> QED
    BY <1>6, <2>1, <2>2
<1>7. ASSUME NEW d \in Drafts, Edit(d) \/ Finish(d) PROVE Screens'
  BY <1>7 DEF Edit, Finish, Cleared, Screens
<1>8. ASSUME NEW w \in Workers, WorkOf(w) PROVE Screens'
  BY <1>1, <1>2, <1>3, <1>8
     DEF WorkOf, RunStep, Crash, Redeliver, Read, Plan, Send, Stamp, StampGone, Verify, Claim,
         Frame, Create, Enqueue, Park
<1>9. CASE \E i \in Intents : Settle(i) \/ ReadBacklog(i) \/ Sweep(i) \/ ResultExpires(i)
                              \/ \E w \in Workers : Take(w, i)
  BY <1>1, <1>9 DEF Settle, ReadBacklog, Sweep, ResultExpires, Take
<1> QED
  BY <1>4, <1>5, <1>6, <1>7, <1>8, <1>9 DEF Next, WorkOf

\* What a run writes down, and what the other steps do.
LEMMA RunWrites ==
    ASSUME NEW w \in Workers, WorkOf(w)
    PROVE  /\ UNCHANGED row \/ Create(w)
           /\ UNCHANGED render \/ Enqueue(w)
           /\ UNCHANGED told \/ \E answer \in Answers : Send(w, answer)
           /\ UNCHANGED backlog
<1>1. CASE Crash(w) \/ Redeliver(w)
  BY <1>1 DEF Crash, Redeliver
<1>2. CASE \E ok \in BOOLEAN : Read(w, ok) \/ Stamp(w, ok)
  BY <1>2 DEF Read, Stamp
<1>3. CASE \E answer \in Answers : Send(w, answer)
  BY <1>3 DEF Send
<1>4. CASE Plan(w) \/ StampGone(w) \/ Verify(w) \/ Claim(w) \/ Frame(w)
  BY <1>4 DEF Plan, StampGone, Verify, Claim, Frame
<1>5. CASE Create(w) \/ Enqueue(w) \/ Park(w) \/ SetState(w) \/ SetData(w)
  BY <1>5 DEF Create, Enqueue, Park, SetState, SetData
<1> QED
  BY <1>1, <1>2, <1>3, <1>4, <1>5 DEF WorkOf, RunStep

LEMMA OthersWrite ==
    ASSUME Next, ~\E w \in Workers : WorkOf(w)
    PROVE  /\ UNCHANGED row \/ CreateOrder
           /\ UNCHANGED render \/ EnqueueOrder \/ \E o \in Drafts : Finish(o)
           /\ UNCHANGED told /\ UNCHANGED excused
           /\ backlog' \subseteq backlog \union Intents
<1>1. CASE \E i \in Intents : \/ Settle(i) \/ ReadBacklog(i) \/ Sweep(i) \/ ResultExpires(i)
                              \/ \E w \in Workers : Take(w, i)
  BY <1>1 DEF Settle, ReadBacklog, Sweep, ResultExpires, Take
<1>2. CASE BotStep
  BY <1>2 DEF BotStep, Refuse, CreateOrder, EnqueueOrder, Remember, rail
<1>3. CASE Press \/ Show \/ StartOver \/ Erase
  BY <1>3 DEF Press, Show, StartOver, Erase, rail
<1>4. CASE \E d \in Drafts : Edit(d) \/ Finish(d)
  BY <1>4 DEF Edit, Finish, rail
<1> QED
  BY <1>1, <1>2, <1>3, <1>4 DEF Next, WorkOf

LEMMA RecordsStep ==
    ASSUME Executions, Screens, Records, Next
    PROVE  Records'
<1>1. \A w \in Workers : WorkOf(w) => Reading(w) \in Intents
  BY Working
<1>2. \A w \in Workers : run[w].pc \in Late => Marker[Reading(w)] \in Drafts
  BY DEF Executions, Made
<1>3. row' \subseteq Drafts
  <2>1. CASE UNCHANGED row
    BY <2>1 DEF Records
  <2>2. ASSUME NEW w \in Workers, Create(w) PROVE row' \subseteq Drafts
    BY <1>2, <2>2 DEF Create, At, Late, Records
  <2>3. CASE CreateOrder
    BY <2>3 DEF CreateOrder, Screens, Records
  <2> QED
    BY <2>1, <2>2, <2>3, RunWrites, OthersWrite
<1>4. render' \in [Drafts -> {"none", "queued", "over"}]
  <2>1. CASE UNCHANGED render
    BY <2>1 DEF Records
  <2>2. CASE \E o \in Drafts : Hand(o) \/ Finish(o)
    BY <2>2 DEF Hand, Finish, Records
  <2>3. ASSUME NEW w \in Workers, Enqueue(w) PROVE UNCHANGED render \/ \E o \in Drafts : Hand(o)
    BY <1>2, <2>3 DEF Enqueue, At, Late
  <2>4. ASSUME EnqueueOrder PROVE UNCHANGED render \/ \E o \in Drafts : Hand(o)
    BY <2>4 DEF EnqueueOrder, Screens
  <2> QED
    BY <2>1, <2>2, <2>3, <2>4, RunWrites, OthersWrite
<1>5. told' \in [Intents -> 0..2]
  <2>1. CASE UNCHANGED told
    BY <2>1 DEF Records
  <2>2. ASSUME NEW w \in Workers, NEW answer, Send(w, answer) PROVE told' \in [Intents -> 0..2]
    <3>1. Told(Reading(w)) \/ UNCHANGED told
      BY <2>2 DEF Send
    <3> QED
      BY <3>1 DEF Told, Records
  <2> QED
    BY <2>1, <2>2, RunWrites, OthersWrite
<1>6. backlog' \subseteq Intents
  BY RunWrites, OthersWrite DEF Records
<1>7. excused' \subseteq Intents
  <2>1. ASSUME NEW w \in Workers, WorkOf(w)
        PROVE  UNCHANGED excused \/ excused' = excused \union {Reading(w)}
    <3>1. CASE RunStep(w)
      BY <3>1 DEF RunStep, Read, Plan, Send, Stamp, StampGone, Verify, Claim, Frame, Create,
                  Enqueue, Park, SetState, SetData
    <3>2. CASE Crash(w) \/ Redeliver(w)
      BY <3>2 DEF Crash, Redeliver
    <3> QED
      BY <2>1, <3>1, <3>2 DEF WorkOf
  <2>2. CASE ~\E w \in Workers : WorkOf(w)
    BY <2>2, OthersWrite DEF Records
  <2>3. CASE \E w \in Workers : WorkOf(w)
    BY <1>1, <2>1, <2>3 DEF Records
  <2> QED
    BY <2>2, <2>3
<1> QED
  BY <1>3, <1>4, <1>5, <1>6, <1>7 DEF Records

-----------------------------------------------------------------------------
LEMMA Inductive == IInv /\ [Next]_vars => IInv'
<1> SUFFICES ASSUME IInv, [Next]_vars PROVE IInv'
  OBVIOUS
<1>1. CASE Next
  BY <1>1, ExecutionsStep, ScreensStep, RecordsStep DEF IInv
<1>2. CASE UNCHANGED vars
  BY <1>2 DEF vars, IInv, Executions, Busy, Made, Claims, At, Reading, Tickets, Screens, Records
<1> QED
  BY <1>1, <1>2

LEMMA Invariance == Spec => []IInv
  BY InitHolds, Inductive, PTL DEF Spec

\* Every reachable state is well typed: no ticket is given more tries than there are, and
\* nothing is submitted but a draft a link was opened for or the customer pressed.
THEOREM TypeCorrect == Spec => []TypeOK
<1>1. IInv => TypeOK
  BY DEF IInv, Executions, Tickets, Screens, Records, TypeOK
<1> QED
  BY <1>1, Invariance, PTL

\* A payment starts its song once (claim_intent_resume), with any number of executions of
\* its notification side by side, killed, retried and enqueued anew.
THEOREM ResumesOnce == Spec => []ResumedOnce
<1>1. IInv => ResumedOnce
  <2>1. IInv => \A i \in Intents : frames[i] \in 0..1
    BY DEF IInv, Executions, Claims
  <2>2. \A n \in 0..1 : n <= 1
    OBVIOUS
  <2> QED
    BY <2>1, <2>2 DEF ResumedOnce
<1> QED
  BY <1>1, Invariance, PTL

-----------------------------------------------------------------------------
(***************************************************************************)
(* Why a payment is announced once. While nothing of it is lost, one       *)
(* execution reads it, and the queue's ticket says so; one that is about   *)
(* to send has seen no stamp, and a message that is not stamped yet is     *)
(* that execution's own.                                                   *)
(***************************************************************************)
Once(i) == i \notin excused =>
    /\ \A w \in Workers : Reading(w) = i =>
          /\ ticket[i].at = "running"
          /\ \A v \in Workers : Reading(v) = i => v = w
          /\ run[w].pc \in {"plan", "send"} => told[i] = 0
    /\ \/ told[i] = 0
       \/ /\ told[i] = 1
          /\ intent[i].notified \/ \E w \in Workers : Reading(w) = i /\ At(w, "stamp")

OnceInv == \A i \in Intents : Once(i)

LEMMA InitOnce == Init => OnceInv
<1> SUFFICES ASSUME Init, NEW i \in Intents PROVE Once(i)
  BY DEF OnceInv
<1>1. \A w \in Workers : Reading(w) = None
  BY DEF Init, Reading, Idle
<1>2. None # i
  BY ResumeAssumption DEF ResumeAssumption
<1> QED
  BY <1>1, <1>2 DEF Init, Once

\* What the end of an execution does to the queue, whether it is tried again or not.
LEMMA EndOfRun ==
    ASSUME Tickets, NEW w \in Workers, Done(w) \/ RetryOrGiveUp(w), Reading(w) \in Intents
    PROVE  /\ run' = [run EXCEPT ![w] = Idle]
           /\ \A j \in Intents : j # Reading(w) => ticket'[j] = ticket[j]
  BY DEF Done, RetryOrGiveUp, Tickets

\* An execution that ends leaves its payment unannounced, stamped or excused.
LEMMA EndKeepsOnce ==
    ASSUME Executions, OnceInv, NEW w \in Workers, Reading(w) \in Intents,
           run' = [run EXCEPT ![w] = Idle], excused \subseteq excused',
           \A j \in Intents : intent[j].notified => intent'[j].notified,
           \A j \in Intents : j # Reading(w) => ticket'[j] = ticket[j] /\ told'[j] = told[j],
           Reading(w) \notin excused' =>
               /\ told'[Reading(w)] = told[Reading(w)]
               /\ told[Reading(w)] = 1 => intent'[Reading(w)].notified
    PROVE  OnceInv'
<1> SUFFICES ASSUME NEW j \in Intents, j \notin excused' PROVE Once(j)'
  BY DEF OnceInv, Once
<1>1. \A v \in Workers : run'[v] = IF v = w THEN Idle ELSE run[v]
  BY DEF Executions
<1>2. Idle.intent # j
  BY ResumeAssumption DEF ResumeAssumption, Idle
<1>3. Once(j) /\ j \notin excused
  BY DEF OnceInv
<1>4. CASE j = Reading(w)
  <2>1. \A v \in Workers : run'[v].intent # j
    BY <1>1, <1>2, <1>3, <1>4 DEF Once, Reading
  <2>2. told'[j] = 0 \/ (told'[j] = 1 /\ intent'[j].notified)
    BY <1>3, <1>4 DEF Once
  <2> QED
    BY <2>1, <2>2 DEF Once, Reading
<1>5. CASE j # Reading(w)
  BY <1>1, <1>2, <1>3, <1>5 DEF Once, Reading, At
<1> QED
  BY <1>4, <1>5

\* An execution that goes on.
LEMMA PlanKeepsOnce ==
    ASSUME Executions, OnceInv, NEW w \in Workers, Reading(w) \in Intents,
           NEW step \in Steps, NEW planned \in BOOLEAN,
           run' = [run EXCEPT ![w].pc = step, ![w].plan = planned],
           UNCHANGED ticket, excused \subseteq excused',
           \A j \in Intents : intent[j].notified => intent'[j].notified,
           \A j \in Intents : j # Reading(w) => told'[j] = told[j],
           Reading(w) \notin excused' =>
               /\ step \in {"plan", "send"} => told'[Reading(w)] = 0
               /\ \/ told'[Reading(w)] = 0
                  \/ /\ told'[Reading(w)] = 1
                     /\ intent'[Reading(w)].notified \/ step = "stamp"
    PROVE  OnceInv'
<1> SUFFICES ASSUME NEW j \in Intents, j \notin excused' PROVE Once(j)'
  BY DEF OnceInv, Once
<1>1. run \in [Workers -> Run]
  BY DEF Executions
<1>2. /\ \A v \in Workers : run'[v].intent = run[v].intent /\ (v # w => run'[v] = run[v])
      /\ run'[w].pc = step
  BY <1>1 DEF Run
<1>3. Once(j) /\ j \notin excused
  BY DEF OnceInv
<1>4. CASE j = Reading(w)
  <2>1. ASSUME NEW v \in Workers PROVE Reading(v)' = Reading(v)
    BY <1>2 DEF Reading
  <2>2. /\ ticket'[j].at = "running"
        /\ \A v \in Workers : Reading(v) = j => v = w
    BY <1>3, <1>4 DEF Once
  <2>3. run'[w].pc \in {"plan", "send"} => told'[j] = 0
    BY <1>2, <1>4
  <2>4. \/ told'[j] = 0
        \/ /\ told'[j] = 1
           /\ intent'[j].notified \/ (Reading(w)' = j /\ At(w, "stamp")')
    BY <1>2, <1>4, <2>1 DEF At
  <2> QED
    BY <2>1, <2>2, <2>3, <2>4 DEF Once
<1>5. CASE j # Reading(w)
  <2>1. \A v \in Workers : Reading(v)' = Reading(v) /\ (Reading(v) = j => run'[v] = run[v])
    BY <1>2, <1>5 DEF Reading
  <2>2. told'[j] = told[j] /\ (intent[j].notified => intent'[j].notified)
    BY <1>5
  <2>3. \A v \in Workers : Reading(v) = j /\ At(v, "stamp") => At(v, "stamp")'
    BY <2>1 DEF At
  <2>4. \/ told'[j] = 0
        \/ /\ told'[j] = 1
           /\ intent'[j].notified \/ \E v \in Workers : Reading(v)' = j /\ At(v, "stamp")'
    BY <1>3, <2>1, <2>2, <2>3 DEF Once
  <2>5. \A v \in Workers : Reading(v)' = j =>
           /\ ticket'[j].at = "running"
           /\ \A u \in Workers : Reading(u)' = j => u = v
           /\ run'[v].pc \in {"plan", "send"} => told'[j] = 0
    <3> SUFFICES ASSUME NEW v \in Workers, Reading(v)' = j
                 PROVE  /\ ticket'[j].at = "running"
                        /\ \A u \in Workers : Reading(u)' = j => u = v
                        /\ run'[v].pc \in {"plan", "send"} => told'[j] = 0
      OBVIOUS
    <3>1. Reading(v) = j /\ run'[v] = run[v]
      BY <2>1
    <3>2. /\ ticket[j].at = "running"
          /\ \A u \in Workers : Reading(u) = j => u = v
          /\ run[v].pc \in {"plan", "send"} => told[j] = 0
      BY <1>3, <3>1 DEF Once
    <3> QED
      BY <2>1, <2>2, <3>1, <3>2
  <2> QED
    BY <2>4, <2>5 DEF Once
<1> QED
  BY <1>4, <1>5

LEMMA GotoKeepsOnce ==
    ASSUME Executions, OnceInv, NEW w \in Workers, Reading(w) \in Intents,
           NEW step \in Steps, Goto(w, step),
           UNCHANGED ticket, excused \subseteq excused',
           \A j \in Intents : intent[j].notified => intent'[j].notified,
           \A j \in Intents : j # Reading(w) => told'[j] = told[j],
           Reading(w) \notin excused' =>
               /\ step \in {"plan", "send"} => told'[Reading(w)] = 0
               /\ \/ told'[Reading(w)] = 0
                  \/ /\ told'[Reading(w)] = 1
                     /\ intent'[Reading(w)].notified \/ step = "stamp"
    PROVE  OnceInv'
<1>1. run \in [Workers -> Run] /\ run[w].plan \in BOOLEAN
  BY DEF Executions, Run
<1>2. run' = [run EXCEPT ![w].pc = step, ![w].plan = run[w].plan]
  BY <1>1 DEF Goto, Run
<1> QED
  BY <1>1, <1>2, PlanKeepsOnce

\* A step of the submit: nothing is sent or stamped, and it goes on or ends.
LEMMA SilentKeepsOnce ==
    ASSUME Executions, Tickets, OnceInv, NEW w \in Workers, Reading(w) \in Intents,
           run[w].pc # "stamp",
           NEW step \in Steps \ {"plan", "send"},
           Done(w) \/ (Goto(w, step) /\ UNCHANGED ticket),
           \A j \in Intents : intent[j].notified => intent'[j].notified,
           UNCHANGED <<told, excused>>
    PROVE  OnceInv'
<1> DEFINE i == Reading(w)
<1>1. i \notin excused => told[i] = 0 \/ (told[i] = 1 /\ intent[i].notified)
  BY DEF OnceInv, Once, At
<1>2. CASE Done(w)
  <2>1. i \notin excused' => told'[i] = told[i] /\ (told[i] = 1 => intent'[i].notified)
    BY <1>1
  <2> QED
    BY <1>2, <2>1, EndOfRun, EndKeepsOnce
<1>3. CASE Goto(w, step) /\ UNCHANGED ticket
  <2>1. i \notin excused' => told'[i] = 0 \/ (told'[i] = 1 /\ intent'[i].notified)
    BY <1>1
  <2> QED
    BY <1>3, <2>1, GotoKeepsOnce
<1> QED
  BY <1>2, <1>3

LEMMA ReadKeepsOnce ==
    ASSUME Executions, Tickets, OnceInv, NEW w \in Workers, NEW ok \in BOOLEAN, Read(w, ok)
    PROVE  OnceInv'
<1> DEFINE i == Reading(w)
<1>0. i \in Intents /\ run[w].pc = "read" /\ UNCHANGED <<intent, told, excused>>
  BY Working DEF Read, At, WorkOf, RunStep
<1>1. i \notin excused => told[i] = 0 \/ (told[i] = 1 /\ intent[i].notified)
  BY <1>0 DEF OnceInv, Once, At
<1>2. CASE RetryOrGiveUp(w) \/ Done(w)
  <2>1. i \notin excused' => told'[i] = told[i] /\ (told[i] = 1 => intent'[i].notified)
    BY <1>0, <1>1
  <2> QED
    BY <1>0, <1>2, <2>1, EndOfRun, EndKeepsOnce
<1>3. CASE ~intent[i].notified /\ Goto(w, "plan") /\ UNCHANGED ticket
  <2>1. i \notin excused' => told'[i] = 0
    BY <1>0, <1>1, <1>3
  <2>2. "plan" \in Steps
    BY DEF Steps
  <2> QED
    BY <1>0, <1>3, <2>1, <2>2, GotoKeepsOnce
<1> QED
  BY <1>2, <1>3 DEF Read

LEMMA LookKeepsOnce ==
    ASSUME Executions, Tickets, OnceInv, NEW w \in Workers, Plan(w) \/ Verify(w)
    PROVE  OnceInv'
<1> DEFINE i == Reading(w)
<1>0. i \in Intents /\ UNCHANGED <<intent, told, excused>>
  BY Working DEF Plan, Verify, WorkOf, RunStep
<1>1. CASE Plan(w)
  <2>1. PICK planned \in BOOLEAN : run' = [run EXCEPT ![w].pc = "send", ![w].plan = planned]
    BY <1>1 DEF Plan, SameDraft
  <2>2. i \notin excused' => told'[i] = 0
    BY <1>0, <1>1 DEF Plan, At, OnceInv, Once
  <2>3. UNCHANGED ticket /\ "send" \in Steps
    BY <1>1 DEF Plan, Steps
  <2> QED
    BY <1>0, <2>1, <2>2, <2>3, PlanKeepsOnce
<1>2. CASE Verify(w)
  <2>1. Done(w) \/ (Goto(w, "claim") /\ UNCHANGED ticket)
    BY <1>2 DEF Verify, GoOn
  <2>2. run[w].pc # "stamp" /\ "claim" \in Steps \ {"plan", "send"}
    BY <1>2 DEF Verify, At, Steps
  <2> QED
    BY <1>0, <2>1, <2>2, SilentKeepsOnce
<1> QED
  BY <1>1, <1>2

\* An answer of Telegram's: the message is there, is not wanted, or nobody knows.
LEMMA SendKeepsOnce ==
    ASSUME Executions, Tickets, OnceInv, NEW w \in Workers, NEW answer, Send(w, answer),
           told \in [Intents -> 0..2]
    PROVE  OnceInv'
<1> DEFINE i == Reading(w)
<1>0. i \in Intents /\ run[w].pc = "send" /\ {"stamp", "stamp_gone"} \subseteq Steps
  BY Working DEF Send, At, Busy, Executions, Idle, Steps
<1>1. i \notin excused => told[i] = 0
  BY <1>0 DEF OnceInv, Once
<1>2. CASE answer = "sent"
  <2>1. Told(i) /\ Goto(w, "stamp") /\ UNCHANGED <<intent, ticket, excused>>
    BY <1>2 DEF Send
  <2>2. /\ i \notin excused' => told'[i] = 1
        /\ \A j \in Intents : j # i => told'[j] = told[j]
    BY <1>0, <1>1, <2>1 DEF Told
  <2> QED
    BY <1>0, <2>1, <2>2, GotoKeepsOnce
<1>3. CASE answer = "forbidden"
  <2>1. /\ Goto(w, "stamp_gone") /\ UNCHANGED <<ticket, told, excused>>
        /\ intent' = [intent EXCEPT ![i].gone = TRUE]
    BY <1>3 DEF Send
  <2>2. \A j \in Intents : intent[j].notified => intent'[j].notified
    BY <1>0, <2>1 DEF Executions, Intent
  <2> QED
    BY <1>0, <1>1, <2>1, <2>2, GotoKeepsOnce
<1>4. CASE answer = "error"
  <2>1. /\ RetryOrGiveUp(w) /\ UNCHANGED intent
        /\ excused' = excused \union {i}
        /\ Told(i) \/ UNCHANGED told
    BY <1>4 DEF Send
  <2>2. \A j \in Intents : j # i => told'[j] = told[j]
    BY <2>1 DEF Told
  <2> QED
    BY <1>0, <2>1, <2>2, EndOfRun, EndKeepsOnce
<1> QED
  BY <1>2, <1>3, <1>4 DEF Send

\* A stamp that is lost excuses a second announcement.
LEMMA StampKeepsOnce ==
    ASSUME Executions, Tickets, OnceInv, NEW w \in Workers, NEW ok \in BOOLEAN,
           Stamp(w, ok) \/ StampGone(w)
    PROVE  OnceInv'
<1> DEFINE i == Reading(w)
<1>0. i \in Intents /\ told' = told
  BY Working DEF Stamp, StampGone, WorkOf, RunStep
<1>1. i \notin excused => told[i] \in {0, 1}
  BY <1>0 DEF OnceInv, Once
<1>2. CASE Stamp(w, ok)
  <2>1. intent' = [intent EXCEPT ![i].notified = @ \/ ok]
    BY <1>2 DEF Stamp
  <2>2. /\ \A j \in Intents : intent[j].notified => intent'[j].notified
        /\ ok => intent'[i].notified
    BY <1>0, <2>1 DEF Executions, Intent
  <2>3. /\ excused \subseteq excused'
        /\ i \notin excused' => ok
    BY <1>2 DEF Stamp
  <2>4. CASE Done(w)
    <3>1. i \notin excused' => told'[i] = told[i] /\ (told[i] = 1 => intent'[i].notified)
      BY <1>0, <2>2, <2>3
    <3> QED
      BY <1>0, <2>2, <2>3, <2>4, <3>1, EndOfRun, EndKeepsOnce
  <2>5. CASE Goto(w, "verify") /\ UNCHANGED ticket
    <3>1. i \notin excused' => told'[i] = 0 \/ (told'[i] = 1 /\ intent'[i].notified)
      BY <1>0, <1>1, <2>2, <2>3
    <3>2. "verify" \in Steps
      BY DEF Steps
    <3> QED
      BY <1>0, <2>2, <2>3, <2>5, <3>1, <3>2, GotoKeepsOnce
  <2> QED
    BY <1>2, <2>4, <2>5 DEF Stamp
<1>3. CASE StampGone(w)
  <2>1. PICK yes \in BOOLEAN : intent' = [intent EXCEPT ![i].notified = @ \/ yes]
    BY <1>3 DEF StampGone, Succeeds
  <2>2. \A j \in Intents : intent[j].notified => intent'[j].notified
    BY <1>0, <2>1 DEF Executions, Intent
  <2>3. Done(w) /\ run[w].pc # "stamp" /\ UNCHANGED <<told, excused>>
    BY <1>3 DEF StampGone, At
  <2>4. "verify" \in Steps \ {"plan", "send"}
    BY DEF Steps
  <2> QED
    BY <1>0, <2>2, <2>3, <2>4, SilentKeepsOnce
<1> QED
  BY <1>2, <1>3

LEMMA SubmitKeepsOnce ==
    ASSUME Executions, Tickets, OnceInv, NEW w \in Workers,
           \/ Claim(w) \/ Frame(w) \/ Create(w) \/ Enqueue(w) \/ Park(w) \/ SetState(w)
           \/ SetData(w)
    PROVE  OnceInv'
<1> DEFINE next == {"frame", "create", "enqueue", "park", "set_state", "set_data"}
<1>0. /\ Reading(w) \in Intents /\ run[w].pc # "stamp" /\ UNCHANGED <<told, excused>>
      /\ next \subseteq Steps \ {"plan", "send"}
  BY Working DEF Claim, Frame, Create, Enqueue, Park, SetState, SetData, WorkOf, RunStep, At,
                 Steps
<1>1. PICK step \in next : Done(w) \/ (Goto(w, step) /\ UNCHANGED ticket)
  BY DEF Claim, Frame, Create, Enqueue, Park, SetState, SetData, GoOn
<1>2. \A j \in Intents : intent[j].notified => intent'[j].notified
  <2>1. CASE Claim(w)
    <3>1. PICK ok \in BOOLEAN : intent' = [intent EXCEPT ![Reading(w)].claimed = @ \/ ok]
      BY <2>1 DEF Claim, Succeeds
    <3> QED
      BY <1>0, <3>1 DEF Executions, Intent
  <2>2. CASE UNCHANGED intent
    BY <2>2
  <2> QED
    BY <2>1, <2>2 DEF Frame, Create, Enqueue, Park, SetState, SetData
<1> QED
  BY <1>0, <1>1, <1>2, SilentKeepsOnce

\* A worker that is lost, or believed lost, excuses a second announcement.
LEMMA LossKeepsOnce ==
    ASSUME Executions, Tickets, OnceInv, NEW w \in Workers, Crash(w) \/ Redeliver(w)
    PROVE  OnceInv'
<1> DEFINE i == Reading(w)
<1>0. /\ i \in Intents /\ UNCHANGED <<intent, told>>
      /\ excused' = excused \union {i}
  BY Working DEF WorkOf, Crash, Redeliver
<1>1. CASE Crash(w)
  <2>1. RetryOrGiveUp(w)
    BY <1>1 DEF Crash
  <2> QED
    BY <1>0, <2>1, EndOfRun, EndKeepsOnce
<1>2. CASE Redeliver(w)
  <2>1. UNCHANGED run /\ \A j \in Intents : j # i => ticket'[j] = ticket[j]
    BY <1>2 DEF Redeliver, Tickets
  <2> QED
    BY <1>0, <2>1 DEF OnceInv, Once, Reading, At
<1> QED
  BY <1>1, <1>2

\* A job is taken up when nobody reads its payment.
LEMMA TakeKeepsOnce ==
    ASSUME Executions, Tickets, OnceInv, NEW w \in Workers, NEW i \in Intents, Take(w, i)
    PROVE  OnceInv'
<1> SUFFICES ASSUME NEW j \in Intents, j \notin excused' PROVE Once(j)'
  BY DEF OnceInv, Once
<1>1. /\ run[w] = Idle /\ ticket[i].at = "queued"
      /\ UNCHANGED <<intent, told, excused>>
      /\ run' = [run EXCEPT ![w] = [pc |-> "read", intent |-> i, plan |-> FALSE]]
      /\ ticket' = [ticket EXCEPT ![i] = [at |-> "running", try |-> @.try + 1]]
  BY DEF Take
<1>2. /\ run'[w].pc = "read" /\ run'[w].intent = i
      /\ \A v \in Workers : v # w => run'[v] = run[v]
      /\ ticket'[i].at = "running" /\ \A k \in Intents : k # i => ticket'[k] = ticket[k]
  BY <1>1 DEF Executions, Tickets
<1>3. Once(j) /\ j \notin excused /\ run[w].intent # j
  BY <1>1, ResumeAssumption DEF OnceInv, ResumeAssumption, Idle
<1>4. CASE j = i
  <2>1. \A v \in Workers : run[v].intent # i
    BY <1>1, <1>3, <1>4 DEF Once, Reading
  <2>2. told[i] = 0 \/ (told[i] = 1 /\ intent[i].notified)
    BY <1>3, <1>4, <2>1 DEF Once, Reading
  <2> QED
    BY <1>1, <1>2, <1>4, <2>1, <2>2 DEF Once, Reading, At
<1>5. CASE j # i
  BY <1>1, <1>2, <1>3, <1>5 DEF Once, Reading, At
<1> QED
  BY <1>4, <1>5

\* An enqueue adds a ticket only where there is none.
LEMMA ElsewhereKeepsOnce ==
    ASSUME Executions, Tickets, OnceInv, Elsewhere
    PROVE  OnceInv'
<1>1. UNCHANGED <<run, told, excused>>
  BY DEF Elsewhere, Settle, ReadBacklog, Sweep, ResultExpires, BotStep, Refuse,
         CreateOrder, EnqueueOrder, Remember, Press, Show, StartOver, Erase, Edit, Finish, rail
<1>2. \A j \in Intents : intent'[j].notified = intent[j].notified
  <2>1. CASE \E i \in Intents : Settle(i)
    BY <2>1 DEF Settle, Executions, Intent
  <2>2. CASE Erase
    <3>1. intent' = [i \in Intents |-> [intent[i] EXCEPT !.erased = TRUE]]
      BY <2>2 DEF Erase
    <3> QED
      BY <3>1 DEF Executions, Intent
  <2>3. CASE UNCHANGED intent
    BY <2>3
  <2> QED
    BY <2>1, <2>2, <2>3
       DEF Elsewhere, ReadBacklog, Sweep, ResultExpires, BotStep, Refuse,
         CreateOrder, EnqueueOrder,   Remember, Press, Show, StartOver, Edit, Finish, rail
<1>3. UNCHANGED ticket \/ \E i \in Intents : ticket' = Enqueued(i) \/ ResultExpires(i)
  BY DEF Elsewhere, Settle, ReadBacklog, Sweep, ResultExpires, BotStep, Refuse,
         CreateOrder, EnqueueOrder, Remember, Press, Show, StartOver, Erase, Edit, Finish, rail
<1>4. \A j \in Intents : ticket[j].at = "running" => ticket'[j].at = "running"
  BY <1>3 DEF Tickets, Ticket, Enqueued, ResultExpires
<1> QED
  BY <1>1, <1>2, <1>4 DEF OnceInv, Once, Reading, At

LEMMA OnceStep == IInv /\ OnceInv /\ [Next]_vars => OnceInv'
<1> SUFFICES ASSUME IInv, OnceInv, [Next]_vars PROVE OnceInv'
  OBVIOUS
<1>0. Executions /\ Tickets /\ told \in [Intents -> 0..2]
  BY DEF IInv, Records
<1>1. ASSUME NEW w \in Workers, WorkOf(w) PROVE OnceInv'
  BY <1>0, <1>1, ReadKeepsOnce, StampKeepsOnce, SendKeepsOnce, LookKeepsOnce, SubmitKeepsOnce,
     LossKeepsOnce DEF WorkOf, RunStep
<1>2. ASSUME NEW w \in Workers, NEW i \in Intents, Take(w, i) PROVE OnceInv'
  BY <1>0, <1>2, TakeKeepsOnce
<1>3. CASE Elsewhere
  BY <1>0, <1>3, ElsewhereKeepsOnce
<1>4. CASE UNCHANGED vars
  BY <1>4 DEF vars, OnceInv, Once, Reading, At
<1> QED
  BY <1>1, <1>2, <1>3, <1>4 DEF Next, WorkOf, Elsewhere

\* A customer hears of a payment a second time only after an answer of Telegram's, a
\* stamp or a worker was lost; enqueueing it twice, or from a backlog that was read
\* before the stamp, is not enough (payme_jobs.notify_payment_settled).
THEOREM ToldTwiceForCause == Spec => []ToldAgainOnlyForCause
<1>1. IInv /\ OnceInv => ToldAgainOnlyForCause
  <2> SUFFICES ASSUME OnceInv, NEW i \in Intents, i \notin excused, told[i] > 1 PROVE FALSE
    BY DEF ToldAgainOnlyForCause
  <2>1. told[i] = 0 \/ told[i] = 1
    BY DEF OnceInv, Once
  <2>2. ~(0 > 1) /\ ~(1 > 1)
    OBVIOUS
  <2> QED
    BY <2>1, <2>2
<1> QED
  BY <1>1, InitOnce, OnceStep, Invariance, PTL DEF Spec

-----------------------------------------------------------------------------
(***************************************************************************)
(* Why a draft is rendered once. Whoever is about to hand an order to the  *)
(* queue has inserted its row, alone: an insert of a row that is there     *)
(* fails, and the row is never taken away.                                 *)
(***************************************************************************)
Submits(w, o) == At(w, "enqueue") /\ Marker[Reading(w)] = o
Presses(o) == desk.pc = "enqueue" /\ desk.order = o

Handed(o) ==
    /\ o \notin row => render[o] = "none"
    /\ \A w \in Workers : Submits(w, o) =>
          /\ o \in row /\ render[o] = "none" /\ ~Presses(o)
          /\ \A v \in Workers : Submits(v, o) => v = w
    /\ Presses(o) => o \in row /\ render[o] = "none"

HandInv == \A o \in Drafts : Handed(o)

LEMMA InitHand == Init => HandInv
  BY DEF Init, HandInv, Handed, Submits, Presses, At, Idle, AtRest

\* No step but the insert of a row brings an order before the queue.
LEMMA NobodyNew ==
    ASSUME HandInv, UNCHANGED <<row, render>>,
           \A o \in Drafts : Presses(o)' => Presses(o),
           \A v \in Workers, o \in Drafts : Submits(v, o)' => Submits(v, o)
    PROVE  HandInv'
  BY DEF HandInv, Handed

LEMMA EndSubmits ==
    ASSUME Executions, NEW w \in Workers,
           \/ run' = [run EXCEPT ![w] = Idle]
           \/ \E step \in Steps \ {"enqueue"}, planned \in BOOLEAN :
                 run' = [run EXCEPT ![w].pc = step, ![w].plan = planned]
    PROVE  \A v \in Workers, o \in Drafts : Submits(v, o)' => v # w /\ Submits(v, o)
<1> SUFFICES ASSUME NEW v \in Workers, NEW o \in Drafts, Submits(v, o)'
             PROVE  v # w /\ Submits(v, o)
  OBVIOUS
<1>1. run \in [Workers -> Run]
  BY DEF Executions
<1>2. CASE run' = [run EXCEPT ![w] = Idle]
  BY <1>1, <1>2 DEF Submits, At, Reading, Idle
<1>3. ASSUME NEW step \in Steps \ {"enqueue"}, NEW planned \in BOOLEAN,
             run' = [run EXCEPT ![w].pc = step, ![w].plan = planned]
      PROVE  v # w /\ Submits(v, o)
  <2>1. run'[w].pc = step /\ (v # w => run'[v] = run[v])
    <3>1. run'[w] = [run[w] EXCEPT !.pc = step, !.plan = planned]
      BY <1>1, <1>3
    <3>2. run[w] \in Run
      BY <1>1
    <3>3. v # w => run'[v] = run[v]
      BY <1>1, <1>3
    <3> QED
      BY <3>1, <3>2, <3>3 DEF Run
  <2> QED
    BY <2>1 DEF Submits, At, Reading
<1> QED
  BY <1>2, <1>3

LEMMA GotoSubmits ==
    ASSUME Executions, NEW w \in Workers, NEW step \in Steps \ {"enqueue"}, Goto(w, step)
    PROVE  \A v \in Workers, o \in Drafts : Submits(v, o)' => v # w /\ Submits(v, o)
<1>1. run \in [Workers -> Run] /\ run[w].plan \in BOOLEAN
  BY DEF Executions, Run
<1>2. run' = [run EXCEPT ![w].pc = step, ![w].plan = run[w].plan]
  BY <1>1 DEF Goto, Run
<1> QED
  BY <1>1, <1>2, EndSubmits

\* Every step of an execution but the insert, and the enqueue itself.
LEMMA WorkSubmits ==
    ASSUME Executions, Tickets, NEW w \in Workers, WorkOf(w), ~Create(w)
    PROVE  \/ UNCHANGED run
           \/ \A v \in Workers, o \in Drafts : Submits(v, o)' => v # w /\ Submits(v, o)
<1> DEFINE others == {"plan", "send", "stamp", "stamp_gone", "verify", "claim", "frame",
                      "create", "park", "set_state", "set_data"}
<1>1. Reading(w) \in Intents /\ others \subseteq Steps \ {"enqueue"}
  BY Working DEF Steps
<1>2. \/ UNCHANGED run \/ Done(w) \/ RetryOrGiveUp(w)
      \/ \E step \in others : Goto(w, step)
      \/ \E planned \in BOOLEAN : run' = [run EXCEPT ![w].pc = "send", ![w].plan = planned]
  <2>1. CASE Plan(w)
    BY <2>1 DEF Plan, SameDraft
  <2>2. CASE \E ok \in BOOLEAN : Read(w, ok) \/ Stamp(w, ok)
    BY <2>2 DEF Read, Stamp
  <2>3. CASE \E answer \in Answers : Send(w, answer)
    BY <2>3 DEF Send
  <2>4. CASE StampGone(w) \/ SetData(w) \/ Crash(w) \/ Redeliver(w)
    BY <2>4 DEF StampGone, SetData, Crash, Redeliver
  <2>5. CASE Verify(w) \/ Claim(w) \/ Frame(w) \/ Enqueue(w) \/ Park(w) \/ SetState(w)
    BY <2>5 DEF Verify, Claim, Frame, Enqueue, Park, SetState, GoOn
  <2> QED
    BY <2>1, <2>2, <2>3, <2>4, <2>5 DEF WorkOf, RunStep
<1>3. CASE Done(w) \/ RetryOrGiveUp(w)
  BY <1>1, <1>3, EndOfRun, EndSubmits
<1>4. ASSUME NEW step \in others, Goto(w, step)
      PROVE \A v \in Workers, o \in Drafts : Submits(v, o)' => v # w /\ Submits(v, o)
  BY <1>1, <1>4, GotoSubmits
<1>5. ASSUME NEW planned \in BOOLEAN, run' = [run EXCEPT ![w].pc = "send", ![w].plan = planned]
      PROVE \A v \in Workers, o \in Drafts : Submits(v, o)' => v # w /\ Submits(v, o)
  BY <1>1, <1>5, EndSubmits
<1> QED
  BY <1>2, <1>3, <1>4, <1>5

\* The insert: it fails, or it finds no row and thus nobody with the same order.
LEMMA CreateKeepsHand ==
    ASSUME Executions, Tickets, HandInv, NEW w \in Workers, Create(w)
    PROVE  HandInv'
<1> DEFINE d == Marker[Reading(w)]
<1>0. /\ run[w].pc = "create" /\ d \in Drafts /\ Reading(w) \in Intents
      /\ UNCHANGED <<render, desk>>
  BY Working DEF Create, At, Executions, Made, Late, WorkOf, RunStep
<1>1. PICK ok \in BOOLEAN : /\ row' = IF ok THEN row \union {d} ELSE row
                            /\ GoOn(w, ok /\ Free(d), "enqueue")
  BY DEF Create, Succeeds
<1>2. CASE ok /\ Free(d)
  <2>1. Goto(w, "enqueue") /\ row' = row \union {d} /\ d \notin row
    BY <1>1, <1>2 DEF GoOn, Free
  <2>2. \A v \in Workers : /\ v # w => run'[v] = run[v]
                           /\ run'[v].intent = run[v].intent
    BY <2>1 DEF Executions, Run, Goto
  <2>3. \A v \in Workers, o \in Drafts :
           Submits(v, o)' => Submits(v, o) \/ (v = w /\ o = d)
    BY <2>2 DEF Submits, At, Reading
  <2>4. \A v \in Workers : ~Submits(v, d)
    BY <1>0, <2>1 DEF HandInv, Handed
  <2>5. ~Presses(d) /\ render[d] = "none"
    BY <1>0, <2>1 DEF HandInv, Handed
  <2>6. \A o \in Drafts : Presses(o)' = Presses(o)
    BY <1>0 DEF Presses
  <2> SUFFICES ASSUME NEW o \in Drafts PROVE Handed(o)'
    BY DEF HandInv
  <2>7. CASE o = d
    BY <1>0, <2>1, <2>3, <2>4, <2>5, <2>6, <2>7 DEF Handed
  <2>8. CASE o # d
    BY <1>0, <2>1, <2>3, <2>6, <2>8 DEF HandInv, Handed
  <2> QED
    BY <2>7, <2>8
<1>3. CASE ~(ok /\ Free(d))
  <2>1. Done(w) /\ row' = row
    BY <1>1, <1>3 DEF GoOn, Free
  <2>2. \A v \in Workers, o \in Drafts : Submits(v, o)' => v # w /\ Submits(v, o)
    BY <1>0, <2>1, EndOfRun, EndSubmits
  <2>3. \A o \in Drafts : Presses(o)' => Presses(o)
    BY <1>0 DEF Presses
  <2> QED
    BY <1>0, <2>1, <2>2, <2>3, NobodyNew
<1> QED
  BY <1>2, <1>3

\* Whoever hands an order to the queue is the one who may.
LEMMA EnqueueKeepsHand ==
    ASSUME Executions, Tickets, HandInv, Records, NEW w \in Workers, Enqueue(w)
    PROVE  HandInv'
<1> PICK d \in Drafts : d = Marker[Reading(w)]
  BY DEF Enqueue, At, Executions, Made, Late
<1>0. Submits(w, d) /\ UNCHANGED <<row, desk>>
  BY DEF Enqueue, At, Submits
<1>1. \A v \in Workers, o \in Drafts : Submits(v, o)' => v # w /\ Submits(v, o)
  <2>1. run' # run
    BY <1>0 DEF Enqueue, GoOn, Done, Goto, Executions, Run, Idle, Submits, At
  <2>2. ~Create(w)
    BY DEF Enqueue, Create, At
  <2> QED
    BY <2>1, <2>2, WorkSubmits DEF WorkOf, RunStep
<1>2. \A o \in Drafts : Presses(o)' = Presses(o)
  BY <1>0 DEF Presses
<1>3. Hand(d) \/ UNCHANGED render
  BY DEF Enqueue
<1>4. /\ d \in row /\ ~Presses(d)
      /\ \A v \in Workers : ~Submits(v, d)'
  BY <1>0, <1>1 DEF HandInv, Handed
<1>5. \A o \in Drafts : o # d => render'[o] = render[o]
  BY <1>3 DEF Hand, Records
<1> SUFFICES ASSUME NEW o \in Drafts PROVE Handed(o)'
  BY DEF HandInv
<1>6. CASE o = d
  BY <1>0, <1>2, <1>4, <1>6 DEF Handed
<1>7. CASE o # d
  BY <1>0, <1>1, <1>2, <1>5, <1>7 DEF HandInv, Handed
<1> QED
  BY <1>6, <1>7

LEMMA WorkKeepsHand ==
    ASSUME IInv, HandInv, NEW w \in Workers, WorkOf(w)
    PROVE  HandInv'
<1>0. Executions /\ Tickets /\ Records
  BY DEF IInv
<1>1. CASE Create(w)
  BY <1>0, <1>1, CreateKeepsHand
<1>2. CASE Enqueue(w)
  BY <1>0, <1>2, EnqueueKeepsHand
<1>3. CASE ~Create(w) /\ ~Enqueue(w)
  <2>1. UNCHANGED <<row, render, desk>>
    BY <1>3 DEF WorkOf, RunStep, Crash, Redeliver, Read, Plan, Send, Stamp, StampGone, Verify,
                Claim, Frame, Park, SetState, SetData
  <2>2. \A o \in Drafts : Presses(o)' => Presses(o)
    BY <2>1 DEF Presses
  <2>3. \A v \in Workers, o \in Drafts : Submits(v, o)' => Submits(v, o)
    BY <1>0, <1>3, WorkSubmits DEF Submits, At, Reading
  <2> QED
    BY <2>1, <2>2, <2>3, NobodyNew
<1> QED
  BY <1>1, <1>2, <1>3

\* The customer's own press inserts the row and enqueues like a resumed job.
LEMMA DeskKeepsHand ==
    ASSUME IInv, HandInv, CreateOrder \/ EnqueueOrder
    PROVE  HandInv'
<1>0. /\ UNCHANGED run /\ desk.pc # "idle" /\ desk.order \in Drafts
      /\ desk \in Desk /\ render \in [Drafts -> {"none", "queued", "over"}]
  BY DEF CreateOrder, EnqueueOrder, rail, IInv, Screens, Records
<1>1. \A v \in Workers, o \in Drafts : Submits(v, o)' = Submits(v, o)
  BY <1>0 DEF Submits, At, Reading
<1> DEFINE d == desk.order
<1> SUFFICES ASSUME NEW o \in Drafts PROVE Handed(o)'
  BY DEF HandInv
<1>2. CASE CreateOrder
  <2>1. /\ d \notin row /\ row' = row \union {d} /\ UNCHANGED render
        /\ desk'.order = d /\ ~Presses(o)
    BY <1>0, <1>2 DEF CreateOrder, Free, Desk, Presses
  <2>2. \A v \in Workers : ~Submits(v, d)
    BY <1>0, <2>1 DEF HandInv, Handed
  <2>3. render[d] = "none"
    BY <1>0, <2>1 DEF HandInv, Handed
  <2>4. Presses(o)' => o = d
    BY <2>1 DEF Presses
  <2>5. CASE o = d
    BY <1>1, <2>1, <2>2, <2>3, <2>5 DEF Handed
  <2>6. CASE o # d
    BY <1>1, <2>1, <2>4, <2>6 DEF HandInv, Handed
  <2> QED
    BY <2>5, <2>6
<1>3. CASE EnqueueOrder
  <2>1. Presses(d) /\ desk'.pc # "enqueue" /\ UNCHANGED row
    BY <1>0, <1>3 DEF EnqueueOrder, BackToConfirm, AtRest, Desk, Presses
  <2>2. \A p \in Drafts : p # d => render'[p] = render[p]
    BY <1>0, <1>3 DEF EnqueueOrder, Hand
  <2>3. ~Presses(o)'
    BY <2>1 DEF Presses
  <2>4. d \in row /\ \A v \in Workers : ~Submits(v, d)
    BY <1>0, <2>1 DEF HandInv, Handed
  <2>5. CASE o = d
    BY <1>1, <2>1, <2>3, <2>4, <2>5 DEF Handed
  <2>6. CASE o # d
    BY <1>1, <2>1, <2>2, <2>3, <2>6 DEF HandInv, Handed
  <2> QED
    BY <2>5, <2>6
<1> QED
  BY <1>2, <1>3

\* A render that ends was handed over before.
LEMMA FinishKeepsHand ==
    ASSUME IInv, HandInv, NEW d \in Drafts, Finish(d)
    PROVE  HandInv'
<1>0. /\ render[d] = "queued" /\ UNCHANGED <<run, desk, row>>
      /\ \A o \in Drafts : o # d => render'[o] = render[o]
  BY DEF Finish, rail, IInv, Records
<1>1. \A v \in Workers, o \in Drafts : Submits(v, o)' = Submits(v, o)
  BY <1>0 DEF Submits, At, Reading
<1>2. \A o \in Drafts : Presses(o)' = Presses(o)
  BY <1>0 DEF Presses
<1>3. "queued" # "none"
  OBVIOUS
<1> SUFFICES ASSUME NEW o \in Drafts PROVE Handed(o)'
  BY DEF HandInv
<1>4. CASE o = d
  <2>1. o \in row /\ ~Presses(o) /\ \A v \in Workers : ~Submits(v, o)
    BY <1>0, <1>3, <1>4 DEF HandInv, Handed
  <2> QED
    BY <1>0, <1>1, <1>2, <2>1 DEF Handed
<1>5. CASE o # d
  BY <1>0, <1>1, <1>2, <1>5 DEF HandInv, Handed
<1> QED
  BY <1>4, <1>5

LEMMA HandStep == IInv /\ HandInv /\ [Next]_vars => HandInv'
<1> SUFFICES ASSUME IInv, HandInv, [Next]_vars PROVE HandInv'
  OBVIOUS
<1>1. ASSUME NEW w \in Workers, WorkOf(w) PROVE HandInv'
  BY <1>1, WorkKeepsHand
<1>2. CASE CreateOrder \/ EnqueueOrder
  BY <1>2, DeskKeepsHand
<1>3. ASSUME NEW d \in Drafts, Finish(d) PROVE HandInv'
  BY <1>3, FinishKeepsHand
<1>4. ASSUME NEW w \in Workers, NEW i \in Intents, Take(w, i) PROVE HandInv'
  <2>1. /\ UNCHANGED <<row, render, desk>>
        /\ run' = [run EXCEPT ![w] = [pc |-> "read", intent |-> i, plan |-> FALSE]]
    BY <1>4 DEF Take
  <2>2. \A v \in Workers : run'[v] = IF v = w THEN [pc |-> "read", intent |-> i, plan |-> FALSE]
                                     ELSE run[v]
    BY <2>1 DEF IInv, Executions
  <2>3. \A v \in Workers, o \in Drafts : Submits(v, o)' => Submits(v, o)
    BY <2>2 DEF Submits, At, Reading
  <2>4. \A o \in Drafts : Presses(o)' => Presses(o)
    BY <2>1 DEF Presses
  <2> QED
    BY <2>1, <2>3, <2>4, NobodyNew
<1>5. CASE \/ \E i \in Intents : Settle(i) \/ ReadBacklog(i) \/ Sweep(i) \/ ResultExpires(i)
           \/ Refuse \/ Remember \/ Press \/ Show \/ StartOver \/ Erase
           \/ \E d \in Drafts : Edit(d)
           \/ UNCHANGED vars
  <2>1. UNCHANGED <<row, render, run>>
    BY <1>5 DEF Settle, ReadBacklog, Sweep, ResultExpires, Refuse, Remember, Press, Show,
                StartOver, Erase, Edit, rail, vars
  <2>2. UNCHANGED desk \/ desk'.pc # "enqueue"
    <3>1. CASE Refuse \/ Remember \/ Press
      BY <3>1 DEF Refuse, Remember, Press, BackToConfirm, AtRest
    <3> QED
      BY <1>5, <3>1 DEF Settle, ReadBacklog, Sweep, ResultExpires, Show, StartOver, Erase, Edit, vars
  <2>3. \A v \in Workers, o \in Drafts : Submits(v, o)' => Submits(v, o)
    BY <2>1 DEF Submits, At, Reading
  <2>4. \A o \in Drafts : Presses(o)' => Presses(o)
    BY <2>2 DEF Presses
  <2> QED
    BY <2>1, <2>3, <2>4, NobodyNew
<1> QED
  BY <1>1, <1>2, <1>3, <1>4, <1>5 DEF Next, WorkOf, BotStep

\* A render that is over is not handed out again.
LEMMA OverStaysOver ==
    ASSUME IInv, HandInv, Next, NEW o \in Drafts, render[o] = "over"
    PROVE  render'[o] = "over"
<1>1. render \in [Drafts -> {"none", "queued", "over"}]
  BY DEF IInv, Records
<1>2. CASE UNCHANGED render
  BY <1>2
<1>3. ASSUME NEW w \in Workers, Enqueue(w) PROVE render'[o] = "over"
  <2>1. Submits(w, Marker[Reading(w)])
    BY <1>3 DEF Enqueue, At, Submits
  <2>2. o # Marker[Reading(w)]
    BY <2>1 DEF HandInv, Handed
  <2> QED
    BY <1>1, <1>3, <2>2 DEF Enqueue, Hand
<1>4. CASE EnqueueOrder
  <2>1. o # desk.order
    BY <1>4 DEF EnqueueOrder, HandInv, Handed, Presses
  <2> QED
    BY <1>1, <1>4, <2>1 DEF EnqueueOrder, Hand
<1>5. ASSUME NEW d \in Drafts, Finish(d) PROVE render'[o] = "over"
  BY <1>1, <1>5 DEF Finish
<1> QED
  BY <1>2, <1>3, <1>4, <1>5, RunWrites, OthersWrite

\* Two executions of a notification, a second link for the draft and the customer's own
\* press do not make one song twice (render_resume, orders' primary key).
THEOREM NoSecondSong == Spec => OneSongPerDraft
<1>1. IInv /\ HandInv /\ [Next]_vars
         => [\A o \in Drafts : render[o] = "over" => render'[o] = "over"]_vars
  <2> SUFFICES ASSUME IInv, HandInv, Next, NEW o \in Drafts, render[o] = "over"
               PROVE  render'[o] = "over"
    BY DEF vars
  <2> QED
    BY OverStaysOver
<1> QED
  BY <1>1, InitHand, HandStep, Invariance, PTL DEF Spec, OneSongPerDraft

=============================================================================
