---------------------------- MODULE RenderJobProofs ----------------------------
(***************************************************************************)
(* Proofs about RenderJob, for every set of orders, every number of        *)
(* attempts and every combination of faults; that what is delivered is     *)
(* paid for, for every combination but a failing replay beside a mark that *)
(* is not written.                                                         *)
(***************************************************************************)
EXTENDS RenderJob, TLAPS

\* A handler at work has an order in its hand.
DeskHoldsAnOrder == desk.pc # "idle" => desk.order \in Orders

\* The steps that come after the kit is persisted, and the state they write.
MadeKits ==
    \A o \in Orders :
        row[o].state = "delivered" \/ job[o].pc \in {"mark", "send", "consume"} => o \in kits

IInv == TypeOK /\ DeskHoldsAnOrder /\ MadeKits /\ SpentOnAKit

\* What every step of a job leaves typed, whichever step it goes to.
LEMMA GotoTyped ==
    ASSUME job \in [Orders -> Job], NEW o \in Orders, NEW step \in JobSteps, Goto(o, step)
    PROVE  /\ job' \in [Orders -> Job]
           /\ job'[o].pc = step
           /\ \A p \in Orders : p # o => job'[p] = job[p]
  <1>1. job[o] \in Job
    OBVIOUS
  <1>2. [job[o] EXCEPT !.pc = step] \in Job
    BY <1>1 DEF Job
  <1>3. job' = [job EXCEPT ![o] = [job[o] EXCEPT !.pc = step]]
    BY DEF Goto
  <1>4. QED
    BY <1>1, <1>2, <1>3 DEF Job

\* The state of an order, written or lost, stays typed.
LEMMA SetStateTyped ==
    ASSUME row \in [Orders -> Row], NEW o \in Orders, NEW written \in BOOLEAN,
           NEW state \in {"none", "working", "delivered", "failed"},
           SetState(o, state, written)
    PROVE  /\ row' \in [Orders -> Row]
           /\ row'[o].state \in {row[o].state, state}
           /\ \A p \in Orders : p # o => row'[p] = row[p]
  BY DEF SetState, Row

\* A write succeeds or fails, nothing else.
LEMMA InitIInv == Init => IInv
  BY RenderAssumption
  DEF RenderAssumption, Init, IInv, TypeOK, DeskHoldsAnOrder, MadeKits, SpentOnAKit, Row, Credit,
         Job, JobSteps, Desk, AtRest

\* The bot's handler touches neither a kit nor a credit.
LEMMA BotKeepsIInv ==
    ASSUME IInv,
           (\E o \in Orders : Confirm(o)) \/ BotStep \/ StartOver
    PROVE  IInv'
  <1> USE DEF IInv, TypeOK, DeskHoldsAnOrder, MadeKits, SpentOnAKit
  <1>1. CASE \E o \in Orders : Confirm(o)
    BY <1>1 DEF Confirm, Desk, AtRest
  <1>2. CASE CreateOrder
    <2>1. desk.order \in Orders
      BY <1>2 DEF CreateOrder
    <2>2. /\ row' \in [Orders -> Row]
          /\ row'[desk.order].state \in {row[desk.order].state, "working"}
          /\ \A p \in Orders : p # desk.order => row'[p] = row[p]
      BY <1>2, <2>1, SetStateTyped DEF CreateOrder
    <2>3. desk' \in Desk /\ desk'.order = desk.order
      BY <1>2 DEF CreateOrder, Desk
    <2>4. QED
      BY <1>2, <2>1, <2>2, <2>3 DEF CreateOrder
  <1>3. CASE Enqueue
    <2>1. desk.order \in Orders
      BY <1>3 DEF Enqueue
    <2>2. PICK ok \in Succeeds("enqueue") :
             IF ok
             THEN /\ Goto(desk.order, "queued")
                  /\ desk' = [desk EXCEPT !.pc = "remember"]
                  /\ UNCHANGED session
             ELSE BackToConfirm /\ UNCHANGED job
      BY <1>3 DEF Enqueue
    <2>3. CASE ok
      <3>1. /\ job' \in [Orders -> Job]
            /\ job'[desk.order].pc = "queued"
            /\ \A p \in Orders : p # desk.order => job'[p] = job[p]
        BY <2>1, <2>2, <2>3, GotoTyped DEF JobSteps
      <3>2. desk' \in Desk /\ desk'.order = desk.order
        BY <2>2, <2>3 DEF Desk
      <3>3. QED
        BY <1>3, <2>1, <2>2, <2>3, <3>1, <3>2 DEF Enqueue
    <2>4. CASE ~ok
      BY <1>3, <2>2, <2>4 DEF Enqueue, BackToConfirm, Desk, AtRest
    <2>5. QED
      BY <2>3, <2>4
  <1>4. CASE Remember
    BY <1>4 DEF Remember, Desk, AtRest
  <1>5. CASE StartOver
    BY <1>5 DEF StartOver
  <1>6. CASE Refuse
    BY <1>6 DEF Refuse, BackToConfirm, Desk, AtRest
  <1>7. QED
    BY <1>1, <1>2, <1>3, <1>4, <1>5, <1>6 DEF BotStep

\* A step that only moves a job on, and not to a step that needs a kit it lacks.
LEMMA MoveKeepsIInv ==
    ASSUME IInv, NEW o \in Orders, NEW step \in JobSteps, Goto(o, step),
           step \in {"mark", "send", "consume"} => o \in kits,
           session' \in Orders \union {"free", "submitting"},
           told' \in [Orders -> SUBSET {"song", "lost_nothing"}],
           UNCHANGED <<row, kits, credit, desk>>
    PROVE  IInv'
  <1>1. job \in [Orders -> Job]
    BY DEF IInv, TypeOK
  <1>2. /\ job' \in [Orders -> Job]
        /\ job'[o].pc = step
        /\ \A p \in Orders : p # o => job'[p] = job[p]
    BY <1>1, GotoTyped
  <1>3. QED
    BY <1>2 DEF IInv, TypeOK, DeskHoldsAnOrder, MadeKits, SpentOnAKit

\* A step that moves a job on and writes the state of its order, unless lost.
LEMMA WriteKeepsIInv ==
    ASSUME IInv, NEW o \in Orders, NEW step \in JobSteps, Goto(o, step),
           step \in {"mark", "send", "consume"} => o \in kits,
           NEW written \in BOOLEAN, NEW state \in {"working", "delivered", "failed"},
           SetState(o, state, written), state = "delivered" => o \in kits,
           UNCHANGED <<kits, credit, session, desk, told>>
    PROVE  IInv'
  <1>1. job \in [Orders -> Job] /\ row \in [Orders -> Row]
    BY DEF IInv, TypeOK
  <1>2. /\ job' \in [Orders -> Job]
        /\ job'[o].pc = step
        /\ \A p \in Orders : p # o => job'[p] = job[p]
    BY <1>1, GotoTyped
  <1>3. /\ row' \in [Orders -> Row]
        /\ row'[o].state \in {row[o].state, state}
        /\ \A p \in Orders : p # o => row'[p] = row[p]
    BY <1>1, SetStateTyped
  <1>4. QED
    BY <1>2, <1>3 DEF IInv, TypeOK, DeskHoldsAnOrder, MadeKits, SpentOnAKit

\* A settlement by the job or by the sweep: the credit comes back, or it is
\* spent on a kit that is persisted.
LEMMA SettleKeepsIInv ==
    ASSUME IInv, NEW o \in Orders,
           \/ Refund(o)
           \/ Consume(o) /\ o \in kits
           \/ UNCHANGED credit,
           job' \in [Orders -> Job],
           \A p \in Orders : \/ job'[p].pc = job[p].pc
                              \/ job'[p].pc \notin {"mark", "send", "consume"},
           UNCHANGED <<row, kits, session, desk, told>>
    PROVE  IInv'
  <1>1. credit \in [Orders -> Credit]
    BY DEF IInv, TypeOK
  <1>2. /\ credit' \in [Orders -> Credit]
        /\ credit'[o].spent => credit'[o].paid /\ o \in kits
        /\ \A p \in Orders : p # o => credit'[p] = credit[p]
    <2>1. CASE Refund(o)
      BY <1>1, <2>1 DEF Refund, Credit
    <2>2. CASE Consume(o) /\ o \in kits
      BY <1>1, <2>2 DEF Consume, Credit
    <2>3. CASE UNCHANGED credit
      BY <1>1, <2>3 DEF IInv, SpentOnAKit
    <2>4. QED
      BY <2>1, <2>2, <2>3
  <1>3. QED
    BY <1>2 DEF IInv, TypeOK, DeskHoldsAnOrder, MadeKits, SpentOnAKit

\* A job that is handed out, refused its order or dropped.
LEMMA StartKeepsIInv ==
    ASSUME IInv, NEW o \in Orders, Start(o)
    PROVE  IInv'
  <1>1. PICK found \in Succeeds("find") :
           job' = [job EXCEPT ![o] = IF @.try = MaxTries THEN Discard(@) ELSE Attempt(@, found)]
    BY DEF Start
  <1>2. job[o] \in Job
    BY DEF IInv, TypeOK
  <1>3. Discard(job[o]) \in Job /\ Discard(job[o]).pc = "discarded"
    BY <1>2 DEF Discard, Job, JobSteps, Ends
  <1>4. ASSUME job[o].try # MaxTries
        PROVE  Attempt(job[o], found) \in Job /\ Attempt(job[o], found).pc \in {"replay", "unread"}
    <2>1. job[o].try + 1 \in 0..MaxTries
      BY <1>2, <1>4, RenderAssumption DEF RenderAssumption, Job
    <2>2. (IF found THEN "replay" ELSE "unread") \in {"replay", "unread"}
      OBVIOUS
    <2>3. QED
      BY <2>1, <2>2 DEF Attempt, Job, JobSteps, Ends
  <1>5. DEFINE next == IF job[o].try = MaxTries THEN Discard(job[o]) ELSE Attempt(job[o], found)
  <1>6. next \in Job /\ next.pc \in {"discarded", "replay", "unread"}
    BY <1>3, <1>4
  <1>7. job' = [job EXCEPT ![o] = next]
    BY <1>1
  <1>8. /\ job' \in [Orders -> Job]
        /\ job'[o].pc \in {"discarded", "replay", "unread"}
        /\ \A p \in Orders : p # o => job'[p] = job[p]
    BY <1>6, <1>7 DEF IInv, TypeOK
  <1>9. QED
    BY <1>8 DEF Start, IInv, TypeOK, DeskHoldsAnOrder, MadeKits, SpentOnAKit

\* The gate takes the price; a price taken twice is one price, and not yet spent
\* on anything it was not spent on before.
LEMMA GateKeepsIInv ==
    ASSUME IInv, NEW o \in Orders, Gate(o)
    PROVE  IInv'
  <1>1. CASE Fail(o) /\ UNCHANGED <<credit, row>>
    BY <1>1, MoveKeepsIInv DEF Gate, Fail, JobSteps, IInv, TypeOK
  <1>2. CASE /\ credit' = [credit EXCEPT ![o].paid = TRUE]
             /\ row' = IF credit[o].paid THEN row ELSE [row EXCEPT ![o].quiet = FALSE]
             /\ Goto(o, "render")
    <2>1. /\ job' \in [Orders -> Job]
          /\ job'[o].pc = "render"
          /\ \A p \in Orders : p # o => job'[p] = job[p]
      BY <1>2, GotoTyped DEF IInv, TypeOK, JobSteps
    <2>2. /\ credit' \in [Orders -> Credit]
          /\ credit'[o].paid /\ credit'[o].spent = credit[o].spent
          /\ \A p \in Orders : p # o => credit'[p] = credit[p]
      BY <1>2 DEF IInv, TypeOK, Credit
    <2>3. row' \in [Orders -> Row] /\ \A p \in Orders : row'[p].state = row[p].state
      BY <1>2 DEF IInv, TypeOK, Row
    <2>4. QED
      BY <2>1, <2>2, <2>3 DEF Gate, IInv, TypeOK, DeskHoldsAnOrder, MadeKits, SpentOnAKit
  <1>3. QED
    BY <1>1, <1>2 DEF Gate

\* A kit that is saved moves its job on to the mark.
LEMMA PersistKeepsIInv ==
    ASSUME IInv, NEW o \in Orders, Persist(o)
    PROVE  IInv'
  <1>1. CASE Fail(o) /\ UNCHANGED kits
    BY <1>1, MoveKeepsIInv DEF Persist, Fail, JobSteps, IInv, TypeOK
  <1>2. CASE kits' = kits \union {o} /\ Goto(o, "mark")
    <2>1. /\ job' \in [Orders -> Job]
          /\ job'[o].pc = "mark"
          /\ \A p \in Orders : p # o => job'[p] = job[p]
      BY <1>2, GotoTyped DEF IInv, TypeOK, JobSteps
    <2>2. QED
      BY <1>2, <2>1 DEF Persist, IInv, TypeOK, DeskHoldsAnOrder, MadeKits, SpentOnAKit
  <1>3. QED
    BY <1>1, <1>2 DEF Persist

\* The two settlements of a job, and the sweep's.
LEMMA SettlementsKeepIInv ==
    ASSUME IInv, NEW o \in Orders, SettleFailed(o) \/ SettleSent(o) \/ Sweep(o)
    PROVE  IInv'
  <1>0. job \in [Orders -> Job]
    BY DEF IInv, TypeOK
  <1>1. CASE SettleFailed(o)
    <2>1. Refund(o) \/ UNCHANGED credit
      BY <1>1 DEF SettleFailed
    <2>2. /\ job' \in [Orders -> Job]
          /\ job'[o].pc = "tell"
          /\ \A p \in Orders : p # o => job'[p] = job[p]
      BY <1>0, <1>1, GotoTyped DEF SettleFailed, JobSteps
    <2>3. UNCHANGED <<row, kits, session, desk, told>>
      BY <1>1 DEF SettleFailed
    <2>4. \A p \in Orders : job'[p].pc = job[p].pc
                            \/ job'[p].pc \notin {"mark", "send", "consume"}
      BY <2>2
    <2>5. QED
      BY <2>1, <2>2, <2>3, <2>4, SettleKeepsIInv
  <1>2. CASE SettleSent(o)
    <2>1. (Consume(o) /\ o \in kits) \/ UNCHANGED credit
      BY <1>2 DEF SettleSent, At, IInv, MadeKits
    <2>2. /\ job' \in [Orders -> Job]
          /\ job'[o].pc = "release"
          /\ \A p \in Orders : p # o => job'[p] = job[p]
      BY <1>0, <1>2, GotoTyped DEF SettleSent, JobSteps
    <2>3. UNCHANGED <<row, kits, session, desk, told>>
      BY <1>2 DEF SettleSent
    <2>4. \A p \in Orders : job'[p].pc = job[p].pc
                            \/ job'[p].pc \notin {"mark", "send", "consume"}
      BY <2>2
    <2>5. QED
      BY <2>1, <2>2, <2>3, <2>4, SettleKeepsIInv
  <1>3. CASE Sweep(o)
    <2>1. Refund(o) \/ (Consume(o) /\ o \in kits)
      BY <1>3 DEF Sweep, IInv, MadeKits
    <2>2. UNCHANGED <<row, kits, session, desk, told, job>>
      BY <1>3 DEF Sweep
    <2>3. QED
      BY <1>0, <2>1, <2>2, SettleKeepsIInv
  <1>4. QED
    BY <1>1, <1>2, <1>3

LEMMA JobStepKeepsIInv ==
    ASSUME IInv, NEW o \in Orders, JobStep(o)
    PROVE  IInv'
  <1> USE DEF JobSteps, Ends
  <1>0. /\ session \in Orders \union {"free", "submitting"}
        /\ told \in [Orders -> SUBSET {"song", "lost_nothing"}]
    BY DEF IInv, TypeOK
  <1>1. CASE Start(o)
    BY <1>1, StartKeepsIInv
  <1>2. CASE Replay(o)
    <2>1. PICK ok \in Succeeds("replay") : Goto(o, IF ok /\ o \in kits THEN "send" ELSE "gate")
      BY <1>2 DEF Replay
    <2>2. CASE ok /\ o \in kits
      BY <1>0, <1>2, <2>1, <2>2, MoveKeepsIInv DEF Replay
    <2>3. CASE ~(ok /\ o \in kits)
      <3>1. Goto(o, "gate")
        BY <2>1, <2>3
      <3>2. QED
        BY <1>0, <1>2, <3>1, MoveKeepsIInv DEF Replay
    <2>4. QED
      BY <2>2, <2>3
  <1>3. CASE Gate(o)
    BY <1>3, GateKeepsIInv
  <1>4. CASE Render(o)
    <2>1. PICK written \in Succeeds("mark") : SetState(o, "working", written)
      BY <1>4 DEF Render
    <2>2. written \in BOOLEAN
      BY <2>1 DEF Succeeds
    <2>3. PICK step \in {"persist", "failed", "given_up"} : Goto(o, step)
      BY <1>4 DEF Render, Fail
    <2>4. QED
      BY <1>4, <2>1, <2>2, <2>3, WriteKeepsIInv DEF Render
  <1>5. CASE Persist(o)
    BY <1>5, PersistKeepsIInv
  <1>6. CASE Mark(o)
    <2>1. PICK written \in Succeeds("mark") : SetState(o, "delivered", written)
      BY <1>6 DEF Mark
    <2>2. written \in BOOLEAN
      BY <2>1 DEF Succeeds
    <2>3. o \in kits
      BY <1>6 DEF Mark, At, IInv, MadeKits
    <2>4. QED
      BY <1>6, <2>1, <2>2, <2>3, WriteKeepsIInv DEF Mark
  <1>7. CASE MarkFailed(o)
    <2>1. PICK written \in Succeeds("mark") : SetState(o, "failed", written)
      BY <1>7 DEF MarkFailed
    <2>2. written \in BOOLEAN
      BY <2>1 DEF Succeeds
    <2>3. PICK step \in {"queued", "refund"} : Goto(o, step)
      BY <1>7 DEF MarkFailed
    <2>4. QED
      BY <1>7, <2>1, <2>2, <2>3, WriteKeepsIInv DEF MarkFailed
  <1>8. CASE Send(o)
    <2>1. o \in kits
      BY <1>8 DEF Send, At, IInv, MadeKits
    <2>2. told' \in [Orders -> SUBSET {"song", "lost_nothing"}]
      BY <1>0, <1>8 DEF Send
    <2>3. PICK step \in {"consume", "queued"} : Goto(o, step)
      BY <1>8 DEF Send
    <2>4. QED
      BY <1>0, <1>8, <2>1, <2>2, <2>3, MoveKeepsIInv DEF Send
  <1>9. CASE SettleFailed(o) \/ SettleSent(o)
    BY <1>9, SettlementsKeepIInv
  <1>10. CASE Tell(o)
    <2>1. told' \in [Orders -> SUBSET {"song", "lost_nothing"}]
      BY <1>0, <1>10 DEF Tell
    <2>2. QED
      BY <1>0, <1>10, <2>1, MoveKeepsIInv DEF Tell
  <1>11. CASE Release(o)
    <2>1. PICK step \in {"ended", "unfreed"} : Goto(o, step)
      BY <1>11 DEF Release, Released
    <2>2. QED
      BY <1>0, <1>11, <2>1, MoveKeepsIInv DEF Release, FreeSession
  <1>12. QED
    BY <1>1, <1>2, <1>3, <1>4, <1>5, <1>6, <1>7, <1>8, <1>9, <1>10, <1>11 DEF JobStep

\* However a worker ends, its kits and credits are as they were.
LEMMA LostWorkerKeepsIInv ==
    ASSUME IInv, NEW o \in Orders, Interrupt(o) \/ Timeout(o) \/ Crash(o)
    PROVE  IInv'
  <1>1. PICK step \in {"queued", "ended", "unfreed"} : Goto(o, step)
    BY DEF Interrupt, Timeout, Crash, Released
  <1>2. /\ session' \in Orders \union {"free", "submitting"}
        /\ told' \in [Orders -> SUBSET {"song", "lost_nothing"}]
        /\ UNCHANGED <<row, kits, credit, desk>>
    BY DEF Interrupt, Timeout, Crash, FreeSession, IInv, TypeOK
  <1>3. QED
    BY <1>1, <1>2, MoveKeepsIInv DEF JobSteps, Ends

LEMMA FallQuietKeepsIInv ==
    ASSUME IInv, NEW o \in Orders, FallQuiet(o)
    PROVE  IInv'
  <1>1. row' \in [Orders -> Row] /\ \A p \in Orders : row'[p].state = row[p].state
    BY DEF FallQuiet, IInv, TypeOK, Row
  <1>2. QED
    BY <1>1 DEF FallQuiet, IInv, TypeOK, DeskHoldsAnOrder, MadeKits, SpentOnAKit

LEMMA NextKeepsIInv == IInv /\ [Next]_vars => IInv'
  <1> SUFFICES ASSUME IInv, [Next]_vars PROVE IInv'
    OBVIOUS
  <1>1. CASE UNCHANGED vars
    BY <1>1 DEF vars, IInv, TypeOK, DeskHoldsAnOrder, MadeKits, SpentOnAKit
  <1>2. CASE (\E o \in Orders : Confirm(o)) \/ BotStep \/ StartOver
    BY <1>2, BotKeepsIInv
  <1>3. ASSUME NEW o \in Orders, JobStep(o) PROVE IInv'
    BY <1>3, JobStepKeepsIInv
  <1>4. ASSUME NEW o \in Orders, Interrupt(o) \/ Timeout(o) \/ Crash(o) PROVE IInv'
    BY <1>4, LostWorkerKeepsIInv
  <1>5. ASSUME NEW o \in Orders, FallQuiet(o) PROVE IInv'
    BY <1>5, FallQuietKeepsIInv
  <1>6. ASSUME NEW o \in Orders, Sweep(o) PROVE IInv'
    BY <1>6, SettlementsKeepIInv
  <1>7. QED
    BY <1>1, <1>2, <1>3, <1>4, <1>5, <1>6 DEF Next

LEMMA Invariance == Spec => []IInv
  BY InitIInv, NextKeepsIInv, PTL DEF Spec

\* Every reachable state of the render is well typed: the session is never parked
\* on what is not an order, and no job is given more attempts than it has.
THEOREM TypeCorrect == Spec => []TypeOK
  <1>1. IInv => TypeOK
    BY DEF IInv
  <1>2. QED
    BY Invariance, <1>1, PTL

\* No credit is settled as spent before its kit is persisted, whatever fails, and
\* whoever settles: a job, the attempt after it, or the sweep
\* (jobs._settle, credit_settlement.settle_stale_debits).
THEOREM NeverSpentOnNothing == Spec => []SpentOnAKit
  <1>1. IInv => SpentOnAKit
    BY DEF IInv
  <1>2. QED
    BY Invariance, <1>1, PTL

-----------------------------------------------------------------------------
\* Why what is delivered stays paid for. Past the gate, and once it is marked
\* delivered, an order holds its credit. A job that goes to refund has seen its
\* order marked otherwise: the mark is written, or the attempt began with no kit.
\* The sweep refunds only an order whose job is over.
Charged(o) ==
    /\ row[o].state = "delivered" \/ job[o].pc \in {"render", "persist", "mark"}
         => credit[o].paid
    /\ job[o].pc = "refund" => row[o].state # "delivered"
    /\ row[o].quiet => ~Alive(o) /\ ~(desk.pc = "enqueue" /\ desk.order = o)
    /\ "replay" \notin Faults /\ o \in kits
         => job[o].pc \in {"queued", "replay", "mark", "send", "consume", "release"}
                            \union Ends

PaidInv == \A o \in Orders : Charged(o)

\* With a mark that may be lost and a kit that may not be found, an order that is
\* delivered is rendered again, fails, and keeps the mark through its refund.
NotBoth == ~({"replay", "mark"} \subseteq Faults)

LEMMA InitPaidInv == Init => PaidInv
  BY DEF Init, PaidInv, Charged, AtRest

\* The other orders are as they were.
LEMMA Aside ==
    ASSUME PaidInv, NEW o \in Orders, Charged(o)',
           \A p \in Orders : p # o => /\ row'[p] = row[p]
                                      /\ credit'[p] = credit[p]
                                      /\ job'[p] = job[p]
                                      /\ p \in kits' <=> p \in kits,
           UNCHANGED desk
    PROVE  PaidInv'
  <1> SUFFICES ASSUME NEW p \in Orders PROVE Charged(p)'
    BY DEF PaidInv
  <1>1. CASE p = o
    BY <1>1
  <1>2. CASE p # o
    BY <1>2 DEF PaidInv, Charged, Alive, Running, Ends
  <1>3. QED
    BY <1>1, <1>2

\* A job that goes on to a step where nothing is at stake: the attempt failed, is
\* to be made again, or is over.
LEMMA MoveKeepsPaid ==
    ASSUME IInv, PaidInv, NEW o \in Orders, Alive(o), NEW step \in JobSteps,
           Goto(o, step), UNCHANGED <<row, kits, credit, desk>>,
           step \in {"render", "persist", "mark"} => credit[o].paid,
           step = "refund" => row[o].state # "delivered",
           \/ "replay" \in Faults \/ o \notin kits
           \/ step \in {"queued", "replay", "send", "consume", "release"} \union Ends
    PROVE  PaidInv'
  <1>1. job \in [Orders -> Job]
    BY DEF IInv, TypeOK
  <1>2. /\ job'[o].pc = step
        /\ \A p \in Orders : p # o => job'[p] = job[p]
    BY <1>1, GotoTyped
  <1>3. ~row[o].quiet
    BY DEF PaidInv, Charged
  <1>4. Charged(o)'
    BY <1>2, <1>3 DEF PaidInv, Charged
  <1>5. QED
    BY <1>2, <1>4, Aside

\* The same, and the state of the order is written, unless that is lost.
LEMMA WriteKeepsPaid ==
    ASSUME IInv, PaidInv, NEW o \in Orders, Alive(o), NEW step \in JobSteps,
           Goto(o, step), NEW written \in BOOLEAN,
           NEW state \in {"working", "delivered", "failed"},
           SetState(o, state, written), UNCHANGED <<kits, credit, desk>>,
           state = "delivered" \/ step \in {"render", "persist", "mark"} => credit[o].paid,
           step = "refund" =>
               state = "failed" /\ (~written => row[o].state # "delivered"),
           \/ "replay" \in Faults \/ o \notin kits
           \/ step \in {"queued", "send"}
    PROVE  PaidInv'
  <1>1. job \in [Orders -> Job] /\ row \in [Orders -> Row]
    BY DEF IInv, TypeOK
  <1>2. /\ job'[o].pc = step
        /\ \A p \in Orders : p # o => job'[p] = job[p]
    BY <1>1, GotoTyped
  <1>3. /\ row'[o].state = IF written THEN state ELSE row[o].state
        /\ ~row'[o].quiet
        /\ \A p \in Orders : p # o => row'[p] = row[p]
    <2>1. ~row[o].quiet
      BY DEF PaidInv, Charged
    <2>2. QED
      BY <1>1, <2>1 DEF SetState
  <1>4. row[o].state = "delivered" => credit[o].paid
    BY DEF PaidInv, Charged
  <1>5. Charged(o)'
    BY <1>2, <1>3, <1>4 DEF Charged
  <1>6. QED
    BY <1>2, <1>3, <1>5, Aside

\* The bot's handler takes an order whose row is not yet quiet.
LEMMA BotKeepsPaid ==
    ASSUME IInv, PaidInv,
           (\E o \in Orders : Confirm(o)) \/ BotStep \/ StartOver
    PROVE  PaidInv'
  <1> USE DEF PaidInv, Charged, Alive, Running, Ends
  <1>0. /\ job \in [Orders -> Job] /\ row \in [Orders -> Row] /\ desk \in Desk
        /\ desk.pc # "idle" => desk.order \in Orders
    BY DEF IInv, TypeOK, DeskHoldsAnOrder
  <1>1. CASE (\E o \in Orders : Confirm(o)) \/ Refuse \/ Remember \/ StartOver
    BY <1>1 DEF Confirm, Refuse, Remember, StartOver, BackToConfirm, AtRest
  <1>2. CASE CreateOrder
    <2>1. desk.order \in Orders /\ row[desk.order].state = "none"
      BY <1>0, <1>2 DEF CreateOrder
    <2>2. /\ row'[desk.order] = [state |-> "working", quiet |-> FALSE]
          /\ \A p \in Orders : p # desk.order => row'[p] = row[p]
      BY <1>0, <1>2, <2>1 DEF CreateOrder, SetState
    <2>3. desk'.order = desk.order
      BY <1>0, <1>2 DEF CreateOrder, Desk
    <2>4. QED
      BY <1>2, <2>1, <2>2, <2>3 DEF CreateOrder
  <1>3. CASE Enqueue
    <2>1. desk.order \in Orders /\ desk.pc = "enqueue"
      BY <1>0, <1>3 DEF Enqueue
    <2>2. ~row[desk.order].quiet
      BY <2>1
    <2>3. PICK ok \in Succeeds("enqueue") :
             IF ok
             THEN /\ Goto(desk.order, "queued")
                  /\ desk' = [desk EXCEPT !.pc = "remember"]
                  /\ UNCHANGED session
             ELSE BackToConfirm /\ UNCHANGED job
      BY <1>3 DEF Enqueue
    <2>4. CASE ok
      <3>1. /\ job'[desk.order].pc = "queued"
            /\ \A p \in Orders : p # desk.order => job'[p] = job[p]
        BY <1>0, <2>1, <2>3, <2>4, GotoTyped DEF JobSteps
      <3>2. desk'.pc = "remember"
        BY <1>0, <2>3, <2>4 DEF Desk
      <3>3. UNCHANGED <<row, kits, credit>>
        BY <1>3 DEF Enqueue
      <3>4. QED
        BY <2>1, <2>2, <3>1, <3>2, <3>3
    <2>5. CASE ~ok
      BY <1>3, <2>3, <2>5 DEF Enqueue, BackToConfirm, AtRest
    <2>6. QED
      BY <2>4, <2>5
  <1>4. QED
    BY <1>1, <1>2, <1>3 DEF BotStep

\* A job that is handed out, refused its order or dropped.
LEMMA StartKeepsPaid ==
    ASSUME IInv, PaidInv, NEW o \in Orders, Start(o)
    PROVE  PaidInv'
  <1>1. PICK found \in Succeeds("find") :
           job' = [job EXCEPT ![o] = IF @.try = MaxTries THEN Discard(@) ELSE Attempt(@, found)]
    BY DEF Start
  <1>2. job \in [Orders -> Job]
    BY DEF IInv, TypeOK
  <1>3. Discard(job[o]).pc = "discarded"
    BY <1>2 DEF Discard, Job
  <1>4. Attempt(job[o], found).pc \in {"replay", "unread"}
    BY DEF Attempt
  <1>5. /\ job'[o].pc \in {"discarded", "replay", "unread"}
        /\ \A p \in Orders : p # o => job'[p] = job[p]
    BY <1>1, <1>2, <1>3, <1>4
  <1>6. ~row[o].quiet
    BY DEF PaidInv, Charged, Alive, Start, At
  <1>7. UNCHANGED <<row, kits, credit, desk>>
    BY DEF Start
  <1>8. Charged(o)'
    BY <1>5, <1>6, <1>7 DEF PaidInv, Charged, Ends
  <1>9. QED
    BY <1>5, <1>7, <1>8, Aside

\* The gate is where the credit is taken.
LEMMA GateKeepsPaid ==
    ASSUME IInv, PaidInv, NEW o \in Orders, Gate(o)
    PROVE  PaidInv'
  <1>0. /\ Alive(o) /\ ~row[o].quiet
        /\ "replay" \in Faults \/ o \notin kits
    BY DEF Gate, At, Alive, Running, Ends, PaidInv, Charged
  <1>1. CASE Fail(o) /\ UNCHANGED <<credit, row>>
    <2>1. PICK step \in {"failed", "given_up"} : Goto(o, step)
      BY <1>1 DEF Fail
    <2>2. UNCHANGED <<kits, desk>>
      BY DEF Gate
    <2>3. QED
      BY <1>0, <1>1, <2>1, <2>2, MoveKeepsPaid DEF JobSteps
  <1>2. CASE /\ credit' = [credit EXCEPT ![o].paid = TRUE]
             /\ row' = IF credit[o].paid THEN row ELSE [row EXCEPT ![o].quiet = FALSE]
             /\ Goto(o, "render")
    <2>1. /\ job'[o].pc = "render"
          /\ \A p \in Orders : p # o => job'[p] = job[p]
      BY <1>2, GotoTyped DEF IInv, TypeOK, JobSteps
    <2>2. /\ credit'[o].paid
          /\ \A p \in Orders : p # o => credit'[p] = credit[p]
      BY <1>2 DEF IInv, TypeOK, Credit
    <2>3. ~row'[o].quiet /\ \A p \in Orders : p # o => row'[p] = row[p]
      BY <1>0, <1>2 DEF IInv, TypeOK, Row
    <2>4. UNCHANGED <<kits, desk>>
      BY DEF Gate
    <2>5. Charged(o)'
      BY <1>0, <2>1, <2>2, <2>3, <2>4 DEF Charged
    <2>6. QED
      BY <2>1, <2>2, <2>3, <2>4, <2>5, Aside
  <1>3. QED
    BY <1>1, <1>2 DEF Gate

\* A kit that is saved moves its job on to the mark.
LEMMA PersistKeepsPaid ==
    ASSUME IInv, PaidInv, NEW o \in Orders, Persist(o)
    PROVE  PaidInv'
  <1>0. /\ Alive(o) /\ ~row[o].quiet /\ credit[o].paid
        /\ "replay" \in Faults \/ o \notin kits
        /\ UNCHANGED <<row, credit, desk>>
    BY DEF Persist, At, Alive, Running, Ends, PaidInv, Charged
  <1>1. CASE Fail(o) /\ UNCHANGED kits
    <2>1. PICK step \in {"failed", "given_up"} : Goto(o, step)
      BY <1>1 DEF Fail
    <2>2. QED
      BY <1>0, <1>1, <2>1, MoveKeepsPaid DEF JobSteps
  <1>2. CASE kits' = kits \union {o} /\ Goto(o, "mark")
    <2>1. /\ job'[o].pc = "mark"
          /\ \A p \in Orders : p # o => job'[p] = job[p]
      BY <1>2, GotoTyped DEF IInv, TypeOK, JobSteps
    <2>2. Charged(o)'
      BY <1>0, <2>1 DEF Charged
    <2>3. QED
      BY <1>0, <1>2, <2>1, <2>2, Aside
  <1>3. QED
    BY <1>1, <1>2 DEF Persist

\* A credit comes back only to an order that is not marked delivered, and whose
\* job is past rendering it.
LEMMA SettleKeepsPaid ==
    ASSUME IInv, PaidInv, NEW o \in Orders,
           \/ Refund(o) /\ row[o].state # "delivered"
           \/ Consume(o)
           \/ UNCHANGED credit,
           job'[o].pc \notin {"render", "persist", "mark"},
           job'[o].pc = "refund" => row[o].state # "delivered",
           row[o].quiet => ~Alive(o)',
           "replay" \notin Faults /\ o \in kits
               => job'[o].pc \in {"queued", "replay", "send", "consume", "release"} \union Ends,
           \A p \in Orders : p # o => job'[p] = job[p],
           UNCHANGED <<row, kits, desk>>
    PROVE  PaidInv'
  <1>1. credit \in [Orders -> Credit]
    BY DEF IInv, TypeOK
  <1>2. /\ row[o].state = "delivered" => credit'[o].paid = credit[o].paid
        /\ \A p \in Orders : p # o => credit'[p] = credit[p]
    <2>1. CASE Refund(o) /\ row[o].state # "delivered"
      BY <1>1, <2>1 DEF Refund
    <2>2. CASE Consume(o)
      BY <1>1, <2>2 DEF Consume, Credit
    <2>3. CASE UNCHANGED credit
      BY <2>3
    <2>4. QED
      BY <2>1, <2>2, <2>3
  <1>3. Charged(o)'
    BY <1>2 DEF PaidInv, Charged
  <1>4. QED
    BY <1>2, <1>3, Aside

LEMMA SettlementsKeepPaid ==
    ASSUME IInv, PaidInv, NEW o \in Orders, SettleFailed(o) \/ SettleSent(o) \/ Sweep(o)
    PROVE  PaidInv'
  <1>0. job \in [Orders -> Job]
    BY DEF IInv, TypeOK
  <1>1. CASE SettleFailed(o)
    <2>1. Refund(o) \/ UNCHANGED credit
      BY <1>1 DEF SettleFailed
    <2>2. /\ row[o].state # "delivered" /\ ~row[o].quiet
          /\ "replay" \in Faults \/ o \notin kits
      BY <1>1 DEF SettleFailed, At, PaidInv, Charged, Alive, Running, Ends
    <2>3. /\ job'[o].pc = "tell"
          /\ \A p \in Orders : p # o => job'[p] = job[p]
      BY <1>0, <1>1, GotoTyped DEF SettleFailed, JobSteps
    <2>4. UNCHANGED <<row, kits, desk>>
      BY <1>1 DEF SettleFailed
    <2>5. QED
      BY <2>1, <2>2, <2>3, <2>4, SettleKeepsPaid
  <1>2. CASE SettleSent(o)
    <2>1. Consume(o) \/ UNCHANGED credit
      BY <1>2 DEF SettleSent
    <2>2. ~row[o].quiet
      BY <1>2 DEF SettleSent, At, PaidInv, Charged, Alive, Running, Ends
    <2>3. /\ job'[o].pc = "release"
          /\ \A p \in Orders : p # o => job'[p] = job[p]
      BY <1>0, <1>2, GotoTyped DEF SettleSent, JobSteps
    <2>4. UNCHANGED <<row, kits, desk>>
      BY <1>2 DEF SettleSent
    <2>5. QED
      BY <2>1, <2>2, <2>3, <2>4, SettleKeepsPaid
  <1>3. CASE Sweep(o)
    <2>1. (Refund(o) /\ row[o].state # "delivered") \/ Consume(o)
      BY <1>3 DEF Sweep
    <2>2. UNCHANGED <<row, kits, desk, job>>
      BY <1>3 DEF Sweep
    <2>3. /\ ~Alive(o)
          /\ "replay" \notin Faults /\ o \in kits
               => job[o].pc \in {"release"} \union Ends
      BY <1>3 DEF Sweep, PaidInv, Charged, Alive, Running, Ends
    <2>4. job[o].pc \notin {"render", "persist", "mark", "refund"} /\ ~Alive(o)'
      BY <2>2, <2>3 DEF Alive, Running, Ends
    <2>5. QED
      BY <2>1, <2>2, <2>3, <2>4, SettleKeepsPaid
  <1>4. QED
    BY <1>1, <1>2, <1>3

\* An attempt that ends badly goes to refund only when its order is not marked
\* delivered: the new mark is written; and where it may be lost, a kit that is
\* persisted is found, so this attempt has none.
LEMMA MarkFailedKeepsPaid ==
    ASSUME NotBoth, IInv, PaidInv, NEW o \in Orders, MarkFailed(o)
    PROVE  PaidInv'
  <1>1. PICK written \in Succeeds("mark") : SetState(o, "failed", written)
    BY DEF MarkFailed
  <1>2. written \in BOOLEAN /\ (~written => "mark" \in Faults)
    BY <1>1 DEF Succeeds
  <1>3. PICK step \in {"queued", "refund"} : Goto(o, step)
    BY DEF MarkFailed
  <1>4. Alive(o) /\ ("replay" \in Faults \/ o \notin kits)
    BY DEF MarkFailed, At, Alive, Running, Ends, PaidInv, Charged
  <1>5. ~written => row[o].state # "delivered"
    BY <1>2, <1>4 DEF NotBoth, IInv, MadeKits
  <1>6. UNCHANGED <<kits, credit, desk>>
    BY DEF MarkFailed
  <1>7. QED
    BY <1>1, <1>2, <1>3, <1>4, <1>5, <1>6, WriteKeepsPaid DEF JobSteps

LEMMA JobStepKeepsPaid ==
    ASSUME NotBoth, IInv, PaidInv, NEW o \in Orders, JobStep(o)
    PROVE  PaidInv'
  <1> USE DEF JobSteps, Ends
  <1>1. CASE Start(o)
    BY <1>1, StartKeepsPaid
  <1>2. CASE Replay(o)
    <2>1. PICK ok \in Succeeds("replay") : Goto(o, IF ok /\ o \in kits THEN "send" ELSE "gate")
      BY <1>2 DEF Replay
    <2>2. Alive(o) /\ UNCHANGED <<row, kits, credit, desk>>
      BY <1>2 DEF Replay, At, Alive, Running, Ends
    <2>3. CASE ok /\ o \in kits
      BY <2>1, <2>2, <2>3, MoveKeepsPaid
    <2>4. CASE ~(ok /\ o \in kits)
      <3>1. "replay" \in Faults \/ o \notin kits
        BY <2>1, <2>4 DEF Succeeds
      <3>2. Goto(o, "gate")
        BY <2>1, <2>4
      <3>3. QED
        BY <2>2, <3>1, <3>2, MoveKeepsPaid
    <2>5. QED
      BY <2>3, <2>4
  <1>3. CASE Gate(o)
    BY <1>3, GateKeepsPaid
  <1>4. CASE Render(o)
    <2>1. PICK written \in Succeeds("mark") : SetState(o, "working", written)
      BY <1>4 DEF Render
    <2>2. written \in BOOLEAN
      BY <2>1 DEF Succeeds
    <2>3. PICK step \in {"persist", "failed", "given_up"} : Goto(o, step)
      BY <1>4 DEF Render, Fail
    <2>4. /\ Alive(o) /\ credit[o].paid /\ ("replay" \in Faults \/ o \notin kits)
          /\ UNCHANGED <<kits, credit, desk>>
      BY <1>4 DEF Render, At, Alive, Running, Ends, PaidInv, Charged
    <2>5. QED
      BY <2>1, <2>2, <2>3, <2>4, WriteKeepsPaid
  <1>5. CASE Persist(o)
    BY <1>5, PersistKeepsPaid
  <1>6. CASE Mark(o)
    <2>1. PICK written \in Succeeds("mark") : SetState(o, "delivered", written)
      BY <1>6 DEF Mark
    <2>2. written \in BOOLEAN
      BY <2>1 DEF Succeeds
    <2>3. Goto(o, "send") /\ Alive(o) /\ credit[o].paid /\ UNCHANGED <<kits, credit, desk>>
      BY <1>6 DEF Mark, At, Alive, Running, Ends, PaidInv, Charged
    <2>4. QED
      BY <2>1, <2>2, <2>3, WriteKeepsPaid
  <1>7. CASE MarkFailed(o)
    BY <1>7, MarkFailedKeepsPaid
  <1>8. CASE Send(o)
    <2>1. PICK step \in {"consume", "queued"} : Goto(o, step)
      BY <1>8 DEF Send
    <2>2. Alive(o) /\ UNCHANGED <<row, kits, credit, desk>>
      BY <1>8 DEF Send, At, Alive, Running, Ends
    <2>3. QED
      BY <2>1, <2>2, MoveKeepsPaid
  <1>9. CASE SettleFailed(o) \/ SettleSent(o)
    BY <1>9, SettlementsKeepPaid
  <1>10. CASE Tell(o)
    BY <1>10, MoveKeepsPaid DEF Tell, At, Alive, Running, Ends
  <1>11. CASE Release(o)
    <2>1. PICK step \in {"ended", "unfreed"} : Goto(o, step)
      BY <1>11 DEF Release, Released
    <2>2. Alive(o) /\ UNCHANGED <<row, kits, credit, desk>>
      BY <1>11 DEF Release, At, Alive, Running, Ends
    <2>3. QED
      BY <2>1, <2>2, MoveKeepsPaid DEF JobSteps, Ends
  <1>12. QED
    BY <1>1, <1>2, <1>3, <1>4, <1>5, <1>6, <1>7, <1>8, <1>9, <1>10, <1>11 DEF JobStep

LEMMA LostWorkerKeepsPaid ==
    ASSUME IInv, PaidInv, NEW o \in Orders, Interrupt(o) \/ Timeout(o) \/ Crash(o)
    PROVE  PaidInv'
  <1>1. PICK step \in {"queued", "ended", "unfreed"} : Goto(o, step)
    BY DEF Interrupt, Timeout, Crash, Released
  <1>2. Alive(o) /\ UNCHANGED <<row, kits, credit, desk>>
    BY DEF Interrupt, Timeout, Crash, Alive
  <1>3. QED
    BY <1>1, <1>2, MoveKeepsPaid DEF JobSteps, Ends

\* Only an order that is neither at the desk nor in the queue falls quiet.
LEMMA FallQuietKeepsPaid ==
    ASSUME IInv, PaidInv, NEW o \in Orders, FallQuiet(o)
    PROVE  PaidInv'
  <1>1. /\ row'[o].state = row[o].state
        /\ \A p \in Orders : p # o => row'[p] = row[p]
    BY DEF FallQuiet, IInv, TypeOK, Row
  <1>2. Charged(o)'
    BY <1>1 DEF FallQuiet, PaidInv, Charged, Alive, Running, Ends
  <1>3. QED
    BY <1>1, <1>2, Aside DEF FallQuiet

LEMMA NextKeepsPaid == NotBoth /\ IInv /\ PaidInv /\ [Next]_vars => PaidInv'
  <1> SUFFICES ASSUME NotBoth, IInv, PaidInv, [Next]_vars PROVE PaidInv'
    OBVIOUS
  <1>1. CASE UNCHANGED vars
    BY <1>1 DEF vars, PaidInv, Charged, Alive, Running, Ends
  <1>2. CASE (\E o \in Orders : Confirm(o)) \/ BotStep \/ StartOver
    BY <1>2, BotKeepsPaid
  <1>3. ASSUME NEW o \in Orders, JobStep(o) PROVE PaidInv'
    BY <1>3, JobStepKeepsPaid
  <1>4. ASSUME NEW o \in Orders, Interrupt(o) \/ Timeout(o) \/ Crash(o) PROVE PaidInv'
    BY <1>4, LostWorkerKeepsPaid
  <1>5. ASSUME NEW o \in Orders, FallQuiet(o) PROVE PaidInv'
    BY <1>5, FallQuietKeepsPaid
  <1>6. ASSUME NEW o \in Orders, Sweep(o) PROVE PaidInv'
    BY <1>6, SettlementsKeepPaid
  <1>7. QED
    BY <1>1, <1>2, <1>3, <1>4, <1>5, <1>6 DEF Next

\* An order that is marked delivered, and whose song has arrived, is paid for,
\* whoever settles it and however often its job is run again: unless its marks may
\* be lost and its kit not found, both (orchestrator._replay, jobs._settle,
\* credit_settlement.settle_stale_debits).
THEOREM WhatIsDeliveredIsPaid ==
    ASSUME ~({"replay", "mark"} \subseteq Faults)
    PROVE  Spec => []DeliveredIsPaid
  <1>1. NotBoth
    BY DEF NotBoth
  <1>2. PaidInv => DeliveredIsPaid
    BY DEF PaidInv, Charged, DeliveredIsPaid
  <1>3. Init => PaidInv
    BY InitPaidInv
  <1>4. IInv /\ PaidInv /\ [Next]_vars => PaidInv'
    BY <1>1, NextKeepsPaid
  <1>5. QED
    BY <1>2, <1>3, <1>4, Invariance, PTL DEF Spec

=============================================================================
