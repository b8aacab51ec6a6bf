------------------------------ MODULE Broadcast ------------------------------
(***************************************************************************)
(* One broadcast campaign (db.broadcasts, runtime.broadcast_job,           *)
(* runtime.pacer and the panel's routes): its frozen audience is written   *)
(* down page by page, then messaged chunk by chunk by jobs that several    *)
(* workers run, that a deploy kills and a sweep enqueues anew, while       *)
(* operators revise, authorise, pause, resume and cancel.                  *)
(*                                                                         *)
(* Accounts are numbered in the order of the audience walk. A job that is  *)
(* killed is not run again (max_tries = 1): what it left is the sweep's.   *)
(***************************************************************************)
EXTENDS Naturals, FiniteSets

CONSTANTS
    Audience,       \* how many accounts the segment matches
    PageSize,       \* EXPAND_CHUNK_SIZE
    ChunkSize,      \* SEND_CHUNK_SIZE
    CheckEvery,     \* PAUSE_CHECK_EVERY
    Workers,        \* jobs that may run at once
    None,
    MaxJobs,        \* bound: jobs of a kind that wait in the queue
    MaxFaults,      \* bound: failures of the environment in a behaviour
    Faults          \* bound: which ones

\* crash: a worker is killed, or its job cancelled at its timeout. enqueue: a job is
\* lost on its way to the queue. write: a statement on a recipient or on the campaign
\* fails. state: the look at the campaign between messages fails. flood: Telegram
\* answers retry_after.
AllFaults == {"crash", "enqueue", "write", "state", "flood"}

ASSUME BroadcastAssumption ==
    /\ Audience \in Nat /\ MaxJobs \in Nat \ {0} /\ MaxFaults \in Nat
    /\ {PageSize, ChunkSize, CheckEvery} \subseteq Nat \ {0}
    /\ Faults \subseteq AllFaults

VARIABLES
    campaign,   \* the broadcasts row
    row,        \* row[a]: the broadcast_recipients row of account a
    jobs,       \* how many jobs of each kind wait in the queue
    run,        \* run[w]: a job at work
    parked,     \* the pacer's park: nothing may be sent
    outcome,    \* the broadcast.sent rows of the audit log
    messaged,   \* messaged[a]: messages account a got (two stands for more)
    texts,      \* the texts that were sent
    luck        \* failures the environment still has in it

vars == <<campaign, row, jobs, run, parked, outcome, messaged, texts, luck>>

-----------------------------------------------------------------------------
Accounts == 1..Audience
Terminal == {"completed", "failed", "cancelled"}
States == {"expanding", "ready", "sending", "paused"} \union Terminal

\* later: scheduled_for lies ahead. stale: updated_at is older than the lease.
\* sound: the stored segment and cursor can be read.
Campaign == [state : States, cursor : 0..Audience, later : BOOLEAN, stale : BOOLEAN,
             sound : BOOLEAN]
\* closed stands for skipped_blocked, undeliverable and failed, which nothing tells
\* apart once they are settled. stale: claimed longer ago than the lease.
Settled == {"sent", "closed", "unknown"}
Recipient == [state : {"none", "pending", "sending"} \union Settled, stale : BOOLEAN]
Steps == {"idle", "page", "start", "bodies", "claim", "check", "deliver", "release",
          "tally", "close", "finish"}
\* A text is the one the campaign has now, or one that was replaced since it was read.
Texts == {"current", "replaced"}
Older == [t \in Texts \union {None} |-> IF t = "current" THEN "replaced" ELSE t]
\* plan: what the job read of the campaign when it began. claimed: the job claimed
\* something. done: rows behind it. left, sent: its tally. late: messages since the
\* campaign was stopped. blind: looks that failed.
Job == [pc : Steps, plan : States, later : BOOLEAN, cursor : 0..Audience,
        text : Texts \union {None}, todo : SUBSET Accounts, claimed : BOOLEAN,
        done : 0..ChunkSize, left : 0..Audience,
        sent : 0..Audience, late : 0..ChunkSize, blind : 0..MaxFaults]

Idle == [pc |-> "idle", plan |-> "expanding", later |-> FALSE, cursor |-> 0, text |-> None,
         todo |-> {}, claimed |-> FALSE, done |-> 0, left |-> 0, sent |-> 0,
         late |-> 0, blind |-> 0]

\* create_broadcast: born expanding, with no instant. The request enqueues before it
\* commits, so that the first job may find no campaign, and be gone.
Init ==
    /\ \E sound \in BOOLEAN :
          campaign = [state |-> "expanding", cursor |-> 0, later |-> FALSE,
                      stale |-> FALSE, sound |-> sound]
    /\ row = [a \in Accounts |-> [state |-> "none", stale |-> FALSE]]
    /\ \E n \in {0, 1} : jobs = [expand |-> n, send |-> 0]
    /\ run = [w \in Workers |-> Idle]
    /\ parked = FALSE
    /\ outcome = [rows |-> 0, sent |-> 0]
    /\ messaged = [a \in Accounts |-> 0]
    /\ texts = {} /\ luck = MaxFaults

In(state) == {a \in Accounts : row[a].state = state}
First(n, A) == {a \in A : Cardinality({b \in A : b < a}) < n}
Least(A) == CHOOSE a \in A : \A b \in A : a <= b
Mark(A, state) == [a \in Accounts |-> IF a \in A THEN [state |-> state, stale |-> FALSE]
                                      ELSE row[a]]
Touched(c) == [c EXCEPT !.stale = FALSE]
At(w, step) == run[w].pc = step
Goto(w, step) == run' = [run EXCEPT ![w].pc = step]
Done(w) == run' = [run EXCEPT ![w] = Idle]

\* Something goes right; or it goes wrong, while the environment has it in it.
Goes(fault) == IF fault \in Faults /\ luck > 0 THEN BOOLEAN ELSE {TRUE}
Spend(ok) == luck' = IF ok THEN luck ELSE luck - 1
Queued(kind, ok) ==
    IF ok /\ jobs[kind] < MaxJobs THEN [jobs EXCEPT ![kind] = @ + 1] ELSE jobs

-----------------------------------------------------------------------------
\* Expansion: expand_broadcast_audience.

TakeExpand(w) ==
    /\ run[w] = Idle /\ jobs["expand"] > 0
    /\ jobs' = [jobs EXCEPT !["expand"] = @ - 1]
    /\ run' = IF campaign.state = "expanding"
              THEN [run EXCEPT ![w] = [Idle EXCEPT !.pc = "page", !.cursor = campaign.cursor]]
              ELSE run
    /\ UNCHANGED <<campaign, row, parked, outcome, messaged, texts, luck>>

\* Fault: the page that fills up is taken for the last one.
LastPageEarly(cursor) == cursor + PageSize >= Audience - 1

\* The probe row past the page says whether there is a next one.
LastPage(cursor) == cursor + PageSize >= Audience

\* expand_chunk, one transaction: the rows are written whatever the campaign's state;
\* the cursor, and the step to ready, only while it is expanding. Then the successor is
\* queued: the next page, or the first chunk, for an expanding campaign has no instant.
Page(w) ==
    LET from == run[w].cursor
        page == {a \in Accounts : from < a /\ a <= from + PageSize}
        last == LastPage(from)
    IN  /\ At(w, "page") /\ campaign.sound
        /\ \E blocked \in SUBSET page :
              row' = [a \in Accounts |->
                        IF a \in page /\ row[a].state = "none"
                        THEN [row[a] EXCEPT !.state = IF a \in blocked THEN "closed"
                                                      ELSE "pending"]
                        ELSE row[a]]
        /\ IF campaign.state = "expanding"
           THEN /\ campaign' = [Touched(campaign) EXCEPT
                                  !.cursor = IF last THEN 0 ELSE from + PageSize,
                                  !.state = IF last THEN "ready" ELSE "expanding"]
                /\ \E ok \in Goes("enqueue") :
                      /\ Spend(ok)
                      /\ jobs' = Queued(IF last THEN "send" ELSE "expand", ok)
           ELSE UNCHANGED <<campaign, jobs, luck>>
        /\ Done(w)
        /\ UNCHANGED <<parked, outcome, messaged, texts>>

\* A segment or a cursor that cannot be read: _fail_campaign.
Unsound(w) ==
    /\ At(w, "page") /\ ~campaign.sound
    /\ \E ok \in Goes("write") :
          /\ Spend(ok)
          /\ campaign' = IF ok /\ campaign.state \notin Terminal
                         THEN [Touched(campaign) EXCEPT !.state = "failed"] ELSE campaign
    /\ Done(w)
    /\ UNCHANGED <<row, jobs, parked, outcome, messaged, texts>>

-----------------------------------------------------------------------------
\* A chunk: send_broadcast_chunk.

TakeSend(w) ==
    /\ run[w] = Idle /\ jobs["send"] > 0
    /\ jobs' = [jobs EXCEPT !["send"] = @ - 1]
    /\ run' = IF campaign.state \in {"ready", "sending"}
              THEN [run EXCEPT ![w] = [Idle EXCEPT !.pc = "start", !.plan = campaign.state,
                                                   !.later = campaign.later]]
              ELSE run
    /\ UNCHANGED <<campaign, row, parked, outcome, messaged, texts, luck>>

Begin(w) == run' = [run EXCEPT ![w] = [Idle EXCEPT !.pc = "bodies"]]

\* _started. mark_sending moves a campaign that is still ready; whether it moved one
\* is not asked, so that a campaign cancelled in between is claimed from as well.
Start(w) ==
    /\ At(w, "start")
    /\ IF run[w].plan = "sending"
       THEN Begin(w) /\ UNCHANGED <<campaign, luck>>
       ELSE IF run[w].later
       THEN Done(w) /\ UNCHANGED <<campaign, luck>>
       ELSE
            /\ \E ok \in Goes("write") :
                  /\ Spend(ok)
                  /\ campaign' = IF ok /\ campaign.state = "ready"
                                 THEN [Touched(campaign) EXCEPT !.state = "sending"]
                                 ELSE campaign
                  /\ IF ok THEN Begin(w) ELSE Done(w)
    /\ UNCHANGED <<row, jobs, parked, outcome, messaged, texts>>

\* While every sender is parked a chunk claims nothing: its successor waits. Else the
\* bodies are read, and the rows that are pending.
Bodies(w) ==
    /\ At(w, "bodies")
    /\ IF parked
       THEN \E ok \in Goes("enqueue") : Spend(ok) /\ jobs' = Queued("send", ok) /\ Done(w)
       ELSE \E ok \in Goes("write") :
              /\ Spend(ok)
              /\ UNCHANGED jobs
              /\ IF ok THEN run' = [run EXCEPT ![w].pc = "claim", ![w].text = "current",
                                               ![w].todo = First(ChunkSize, In("pending"))]
                 ELSE Done(w)
    /\ UNCHANGED <<campaign, row, parked, outcome, messaged, texts>>

Over(w) == run' = [run EXCEPT ![w].pc = "tally", ![w].todo = {}]

\* claim_chunk: of the candidates, those that still are pending, committed before the
\* first message.
Claim(w) ==
    /\ At(w, "claim")
    /\ \E ok \in Goes("write") :
          LET won == run[w].todo \intersect In("pending")
          IN  /\ Spend(ok)
              /\ row' = IF ok THEN Mark(won, "sending") ELSE row
              /\ IF ~ok THEN Done(w)
                 ELSE IF won = {} THEN Over(w)
                 ELSE run' = [run EXCEPT ![w].pc = "deliver", ![w].todo = won,
                                         ![w].claimed = TRUE]
    /\ UNCHANGED <<campaign, jobs, parked, outcome, messaged, texts>>

\* Fault: the plan is looked at, not the campaign.
CheckPlan(w) ==
    /\ At(w, "check")
    /\ Goto(w, "deliver")
    /\ UNCHANGED <<campaign, row, jobs, parked, outcome, messaged, texts, luck>>

\* _is_still_sending: a look that fails keeps sending.
Check(w) ==
    /\ At(w, "check")
    /\ \E ok \in Goes("state") :
          /\ Spend(ok)
          /\ run' = [run EXCEPT ![w].blind = IF ok THEN @ ELSE @ + 1,
                                ![w].pc = IF ok /\ campaign.state # "sending"
                                          THEN "release" ELSE "deliver"]
    /\ UNCHANGED <<campaign, row, jobs, parked, outcome, messaged, texts>>

\* The next row of the claim is settled, if it still is sending; if that write fails it
\* is left to the lease. A job that dies between its message and the write leaves it
\* there as well.
Settle(w, verdict, gone) ==
    LET a == Least(run[w].todo)
        rest == run[w].todo \ {a}
        late == run[w].late + IF gone /\ campaign.state # "sending" THEN 1 ELSE 0
        done == run[w].done + 1
    IN  /\ messaged' = IF gone /\ messaged[a] < 2 THEN [messaged EXCEPT ![a] = @ + 1]
                       ELSE messaged
        /\ texts' = IF gone THEN texts \union {run[w].text} ELSE texts
        /\ \/ \E ok \in Goes("write") :
                 /\ Spend(ok)
                 /\ row' = IF ok /\ row[a].state = "sending" THEN Mark({a}, verdict) ELSE row
                 /\ run' = [run EXCEPT ![w].todo = rest, ![w].done = done, ![w].late = late,
                                       ![w].pc = IF rest = {} THEN "tally"
                                                 ELSE IF done % CheckEvery = 0 THEN "check"
                                                 ELSE "deliver"]
           \/ FALSE \in Goes("crash") /\ Spend(FALSE) /\ UNCHANGED row /\ Done(w)

\* No message is possible: the account was forgotten, or has no text or image.
Undeliverable(w) ==
    /\ At(w, "deliver")
    /\ Settle(w, "closed", FALSE)
    /\ UNCHANGED <<campaign, jobs, parked, outcome>>

\* SendPacer.acquire waits a park out; then the message goes, or is refused for a
\* block, or for something else, a connection that broke after it went included.
Deliver(w) ==
    /\ At(w, "deliver") /\ ~parked
    /\ Settle(w, "sent", TRUE) \/ Settle(w, "closed", TRUE) \/ Settle(w, "closed", FALSE)
    /\ UNCHANGED <<campaign, jobs, parked, outcome>>

\* retry_after: park_after_flood, and nothing of the claim from here on was sent.
Flood(w) ==
    /\ At(w, "deliver") /\ ~parked
    /\ FALSE \in Goes("flood") /\ Spend(FALSE)
    /\ parked' = TRUE
    /\ Goto(w, "release")
    /\ UNCHANGED <<campaign, row, jobs, outcome, messaged, texts>>

\* release_recipient, row by row; one that fails is left to the lease.
Release(w) ==
    /\ At(w, "release")
    /\ \E ok \in Goes("write") : \E kept \in IF ok THEN {{}} ELSE SUBSET run[w].todo :
          /\ Spend(ok)
          /\ row' = Mark((run[w].todo \ kept) \intersect In("sending"), "pending")
    /\ Over(w)
    /\ UNCHANGED <<campaign, jobs, parked, outcome, messaged, texts>>

-----------------------------------------------------------------------------
\* The end of a chunk: _close_chunk.

Stale == {a \in In("sending") : row[a].stale}
\* Fault: what was abandoned is tried again.
AgedToPending == Mark(Stale, "pending")
\* age_stale_sending.
Aged == Mark(Stale, "unknown")

\* What was abandoned is retired; then roll_up_counters counts the rows and stamps the
\* campaign (its copy of the counts is left out). Either may fail: without the count
\* the chunk ends here.
Tally(w) ==
    /\ At(w, "tally")
    /\ \E retired, counted \in Goes("write") :
          /\ retired \/ counted
          /\ Spend(retired /\ counted)
          /\ row' = IF retired THEN Aged ELSE row
          /\ campaign' = IF counted THEN Touched(campaign) ELSE campaign
          /\ run' = [run EXCEPT ![w] =
                       IF counted
                       THEN [Idle EXCEPT !.pc = "close", !.claimed = run[w].claimed,
                               !.sent = Cardinality(In("sent")),
                               !.left = Cardinality({a \in Accounts :
                                           row'[a].state \in {"pending", "sending"}})]
                       ELSE Idle]
    /\ UNCHANGED <<jobs, parked, outcome, messaged, texts>>

\* Finished, or handed on, or left to the sweep: a chunk that claimed nothing while
\* rows are out waits for their lease.
Close(w) ==
    LET sending == campaign.state = "sending"
    IN  /\ At(w, "close")
        /\ \/ /\ sending /\ run[w].left = 0
              /\ Goto(w, "finish") /\ UNCHANGED <<jobs, luck>>
           \/ /\ sending /\ run[w].left > 0 /\ run[w].claimed
              /\ \E ok \in Goes("enqueue") : Spend(ok) /\ jobs' = Queued("send", ok)
              /\ Done(w)
           \/ /\ ~sending \/ (run[w].left > 0 /\ ~run[w].claimed)
              /\ Done(w) /\ UNCHANGED <<jobs, luck>>
           \/ /\ "state" \in Faults /\ luck > 0
              /\ luck' = luck - 1
              /\ Done(w) /\ UNCHANGED jobs
        /\ UNCHANGED <<campaign, row, parked, outcome, messaged, texts>>

\* _finish: mark_finished and the audit row are one transaction.
Finish(w) ==
    /\ At(w, "finish")
    /\ \E ok \in Goes("write") :
          LET won == ok /\ campaign.state \notin Terminal
          IN  /\ Spend(ok)
              /\ campaign' = IF won THEN [Touched(campaign) EXCEPT !.state = "completed"]
                             ELSE campaign
              /\ outcome' = IF won THEN [rows |-> outcome.rows + 1, sent |-> run[w].sent]
                            ELSE outcome
    /\ Done(w)
    /\ UNCHANGED <<row, jobs, parked, messaged, texts>>

Crash(w) ==
    /\ "crash" \in Faults /\ luck > 0 /\ run[w] # Idle
    /\ luck' = luck - 1
    /\ Done(w)
    /\ UNCHANGED <<campaign, row, jobs, parked, outcome, messaged, texts>>

-----------------------------------------------------------------------------
\* The sweep, every five minutes: due_broadcasts, then what was found is enqueued.

\* Fault: only campaigns that have not begun are due.
DueUnbegun ==
    \/ campaign.state = "ready" /\ ~campaign.later
    \/ campaign.state = "expanding" /\ campaign.stale

Due ==
    \/ campaign.state = "ready" /\ ~campaign.later
    \/ campaign.state \in {"expanding", "sending"} /\ campaign.stale

Sweep ==
    /\ Due
    /\ \E retired \in Goes("write"), queued \in Goes("enqueue") :
          /\ retired \/ queued
          /\ Spend(retired /\ queued)
          /\ row' = IF retired /\ campaign.state = "sending" THEN Aged ELSE row
          /\ jobs' = Queued(IF campaign.state = "expanding" THEN "expand" ELSE "send", queued)
    /\ UNCHANGED <<campaign, run, parked, outcome, messaged, texts>>

-----------------------------------------------------------------------------
\* Time.

\* A claim outlives its lease only when its job is gone: a job is cancelled after
\* broadcast_chunk_timeout_s, and the lease must exceed that.
Lapse(a) ==
    /\ row[a].state = "sending" /\ ~row[a].stale
    /\ \A w \in Workers : a \in run[w].todo => run[w].pc = "claim"
    /\ row' = [row EXCEPT ![a].stale = TRUE]
    /\ UNCHANGED <<campaign, jobs, run, parked, outcome, messaged, texts, luck>>

\* Nothing stamped the campaign for the length of the lease.
Grow ==
    /\ campaign.state \in {"expanding", "sending"} /\ ~campaign.stale
    /\ campaign' = [campaign EXCEPT !.stale = TRUE]
    /\ UNCHANGED <<row, jobs, run, parked, outcome, messaged, texts, luck>>

Arrive ==
    /\ campaign.later
    /\ campaign' = [campaign EXCEPT !.later = FALSE]
    /\ UNCHANGED <<row, jobs, run, parked, outcome, messaged, texts, luck>>

\* The key's time to live is over.
Unpark ==
    /\ parked /\ parked' = FALSE
    /\ UNCHANGED <<campaign, row, jobs, run, outcome, messaged, texts, luck>>

-----------------------------------------------------------------------------
\* The panel. A request writes the campaign, enqueues, and commits last; a job that runs
\* before the commit finds the campaign as it was, and is lost.

\* Fault: a message can be revised while it is being sent.
EditableLonger == {"expanding", "ready", "sending"}
Editable == {"expanding", "ready"}
Revise ==
    /\ campaign.state \in Editable
    /\ campaign' = Touched(campaign)
    /\ run' = [w \in Workers |-> [run[w] EXCEPT !.text = Older[@]]]
    /\ texts' = {Older[t] : t \in texts}
    /\ UNCHANGED <<row, jobs, parked, outcome, messaged, luck>>

\* The job comes too early, or its deterministic id is declined because a result is kept
\* under it, which the panel takes for queued.
Ask == \E taken \in BOOLEAN : jobs' = Queued("send", taken)

\* POST .../send, at once or at an instant. Only a send at once is enqueued.
Authorise ==
    /\ campaign.state = "ready"
    /\ \E later \in BOOLEAN :
          /\ campaign' = [Touched(campaign) EXCEPT !.later = later]
          /\ IF later THEN UNCHANGED jobs ELSE Ask
    /\ UNCHANGED <<row, run, parked, outcome, messaged, texts, luck>>

Resume ==
    /\ campaign.state = "paused"
    /\ campaign' = [Touched(campaign) EXCEPT !.state = "sending"]
    /\ run' = [w \in Workers |-> [run[w] EXCEPT !.late = 0]]
    /\ Ask
    /\ UNCHANGED <<row, parked, outcome, messaged, texts, luck>>

Pause ==
    /\ campaign.state = "sending"
    /\ campaign' = [Touched(campaign) EXCEPT !.state = "paused"]
    /\ UNCHANGED <<row, jobs, run, parked, outcome, messaged, texts, luck>>

Cancel ==
    /\ campaign.state \notin Terminal
    /\ campaign' = [Touched(campaign) EXCEPT !.state = "cancelled"]
    /\ UNCHANGED <<row, jobs, run, parked, outcome, messaged, texts, luck>>

-----------------------------------------------------------------------------
Expansion(w) == Page(w) \/ Unsound(w)
Chunk(w) ==
    \/ Start(w) \/ Bodies(w) \/ Claim(w) \/ Check(w) \/ Undeliverable(w) \/ Deliver(w)
    \/ Release(w) \/ Tally(w) \/ Close(w) \/ Finish(w)
Work(w) == TakeExpand(w) \/ TakeSend(w) \/ Expansion(w) \/ Chunk(w)

Next ==
    \/ \E w \in Workers : Work(w) \/ Flood(w) \/ Crash(w)
    \/ Sweep
    \/ \E a \in Accounts : Lapse(a)
    \/ Grow \/ Arrive \/ Unpark
    \/ Revise \/ Authorise \/ Resume \/ Pause \/ Cancel

Spec == Init /\ [][Next]_vars

\* Workers, the cron and the clock go on; the environment's failures run out. Of the
\* operators only that they do not revise the text, which stamps the campaign, in every
\* lease for ever: a campaign found stale again and again is swept at last.
FairSpec ==
    /\ Spec
    /\ \A w \in Workers : WF_vars(Work(w))
    /\ SF_vars(Sweep)
    /\ \A a \in Accounts : WF_vars(Lapse(a))
    /\ WF_vars(Grow) /\ WF_vars(Arrive) /\ WF_vars(Unpark)

-----------------------------------------------------------------------------
\* Every variable has its type.
TypeOK ==
    /\ campaign \in Campaign
    /\ row \in [Accounts -> Recipient]
    /\ jobs \in [{"expand", "send"} -> 0..MaxJobs]
    /\ run \in [Workers -> Job]
    /\ parked \in BOOLEAN
    /\ outcome \in [rows : 0..1, sent : 0..Audience]
    /\ messaged \in [Accounts -> 0..2]
    /\ texts \subseteq Texts
    /\ luck \in 0..MaxFaults

\* The never-double-send rule: nobody hears twice from one campaign, whatever chunks
\* run side by side, die or are released.
NeverTwice == \A a \in Accounts : messaged[a] < 2

\* A campaign that left its expansion for its run has a row for the whole audience, and
\* one that is completed has nothing left to send and one outcome, with the true count.
WholeAudience ==
    /\ campaign.state \in {"ready", "sending", "paused", "completed"} => In("none") = {}
    /\ campaign.state = "completed" => In("pending") \union In("sending") = {}
    /\ outcome.rows = IF campaign.state = "completed" THEN 1 ELSE 0
    /\ outcome.rows = 1 => outcome.sent = Cardinality(In("sent"))

\* The brake: an execution sends no more than one block of messages after a stop, and
\* one more for every look that failed.
BrakesHold == \A w \in Workers : run[w].late <= CheckEvery * (1 + run[w].blind)

\* Everybody reads the same text, the last that was written.
OneText == "replaced" \notin texts

\* Nothing gets stuck: again and again a campaign is over, or waits for an operator or
\* for its instant. From every other state it moves on, and on the way back to one of
\* them it passes one of these.
NothingStalls == []<>(campaign.state \in Terminal \union {"paused"} \/ campaign.later)
=============================================================================
