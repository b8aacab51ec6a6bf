---------------------------- MODULE BroadcastProofs ----------------------------
(***************************************************************************)
(* A campaign for any audience, any number of workers and any failures.    *)
(* The never-double-send rule: an account's row lets one execution send to *)
(* it, once. The course of the campaign: its rows are all there before it  *)
(* is sent and all settled when it is completed, its text is out of reach  *)
(* while it is sent, and a stop is noticed within a block.                 *)
(***************************************************************************)
EXTENDS Broadcast, FiniteSetTheorems, WellFoundedInduction, TLAPS

Held == {"check", "deliver", "release"}
New == {"none", "pending"}
Fresh == [state |-> "sending", stale |-> FALSE]

\* The types the argument needs; how large a tally may get is not part of it.
LooseJob == [pc : Steps, plan : States, later : BOOLEAN, cursor : Nat,
             text : Texts \union {None}, todo : SUBSET Accounts, claimed : BOOLEAN,
             done : Nat, left : Nat, sent : Nat, late : Nat, blind : Nat]
LooseCampaign == [state : States, cursor : Nat, later : BOOLEAN, stale : BOOLEAN,
                  sound : BOOLEAN]
Loose ==
    /\ run \in [Workers -> LooseJob] /\ campaign \in LooseCampaign
    /\ row \in [Accounts -> Recipient] /\ messaged \in [Accounts -> 0..2]

\* What an execution has claimed and not dealt with is out, fresh and unmessaged.
Mine == \A w \in Workers : run[w].pc \in Held =>
            /\ \A a \in run[w].todo : row[a] = Fresh /\ messaged[a] = 0
            /\ run[w].pc # "release" => run[w].todo # {}
\* No two executions hold one row.
Apart == \A w, v \in Workers :
            w # v /\ run[w].pc \in Held /\ run[v].pc \in Held =>
                run[w].todo \intersect run[v].todo = {}
\* A row that may still be claimed was never messaged.
Counted == \A a \in Accounts : messaged[a] \in 0..1 /\ (row[a].state \in New => messaged[a] = 0)

SendInv == Loose /\ Mine /\ Apart /\ Counted

\* A step that messages nobody: an execution at work holds no more than it held, and a
\* row that changes is held by none, and was not messaged if it may be claimed.
QuietRuns == \A v \in Workers : run'[v].pc \in Held =>
    /\ run[v].pc \in Held
    /\ run'[v].todo \subseteq run[v].todo
    /\ run'[v].pc # "release" => run'[v].todo # {}
QuietRows == \A a \in Accounts : row'[a] # row[a] =>
    /\ \A v \in Workers : run'[v].pc \in Held => a \notin run'[v].todo
    /\ row'[a].state \in New => messaged[a] = 0
Quiet == messaged' = messaged /\ QuietRuns /\ QuietRows

-----------------------------------------------------------------------------
LEMMA Numbers ==
    /\ Audience \in Nat /\ PageSize \in Nat \ {0} /\ ChunkSize \in Nat \ {0}
    /\ CheckEvery \in Nat \ {0}
    /\ \A A \in SUBSET Accounts : IsFiniteSet(A) /\ Cardinality(A) \in Nat
<1>1. /\ Audience \in Nat /\ PageSize \in Nat \ {0} /\ ChunkSize \in Nat \ {0}
      /\ CheckEvery \in Nat \ {0}
  BY BroadcastAssumption DEF BroadcastAssumption
<1>2. IsFiniteSet(Accounts)
  BY <1>1, FS_Interval DEF Accounts
<1>3. ASSUME NEW A \in SUBSET Accounts PROVE IsFiniteSet(A) /\ Cardinality(A) \in Nat
  <2>1. IsFiniteSet(A)
    BY <1>2, FS_Subset
  <2> QED
    BY <2>1, FS_CardinalityType
<1> QED
  BY <1>1, <1>3

\* The next row of a claim is one of them.
LEMMA LeastIsOne ==
    ASSUME NEW A \in SUBSET Accounts, A # {}
    PROVE  Least(A) \in A
<1>1. A \subseteq Nat
  BY Numbers DEF Accounts
<1>2. PICK x \in A : \A y \in A : ~ (<<y, x>> \in OpToRel(<, Nat))
  BY <1>1, NatLessThanWellFounded, WFMin
<1>3. ASSUME NEW y \in A, y < x PROVE FALSE
  <2>1. <<y, x>> \in Nat \X Nat /\ <<y, x>>[1] < <<y, x>>[2]
    BY <1>1, <1>3
  <2>2. <<y, x>> \in OpToRel(<, Nat)
    BY <2>1 DEF OpToRel
  <2> QED
    BY <1>2, <2>2
<1>4. \A y \in A : x <= y
  BY <1>1, <1>3
<1> QED
  BY <1>4 DEF Least

LEMMA Calm ==
    ASSUME SendInv, Loose', Quiet
    PROVE  SendInv'
<1> USE DEF SendInv, Quiet
<1>1. Mine'
  <2> SUFFICES ASSUME NEW w \in Workers, run'[w].pc \in Held
               PROVE  /\ \A a \in run'[w].todo : row'[a] = Fresh /\ messaged'[a] = 0
                      /\ run'[w].pc # "release" => run'[w].todo # {}
    BY DEF Mine
  <2>1. /\ run[w].pc \in Held /\ run'[w].todo \subseteq run[w].todo
        /\ run'[w].pc # "release" => run'[w].todo # {}
    BY DEF QuietRuns
  <2>2. run[w].todo \subseteq Accounts
    BY DEF Loose, LooseJob
  <2>3. \A a \in run'[w].todo : row'[a] = row[a]
    BY <2>1, <2>2 DEF QuietRows
  <2> QED
    BY <2>1, <2>3 DEF Mine
<1>2. Apart'
  <2> SUFFICES ASSUME NEW w \in Workers, NEW v \in Workers, w # v,
                      run'[w].pc \in Held, run'[v].pc \in Held
               PROVE  run'[w].todo \intersect run'[v].todo = {}
    BY DEF Apart
  <2>1. /\ run[w].pc \in Held /\ run'[w].todo \subseteq run[w].todo
        /\ run[v].pc \in Held /\ run'[v].todo \subseteq run[v].todo
    BY DEF QuietRuns
  <2> QED
    BY <2>1 DEF Apart
<1>3. Counted'
  BY DEF Counted, QuietRows
<1> QED
  BY <1>1, <1>2, <1>3

-----------------------------------------------------------------------------
(***************************************************************************)
(* The steps of an execution that message nobody.                          *)
(***************************************************************************)

\* An execution that is over holds nothing; the rows stay or change as they may.
LEMMA Ends ==
    ASSUME SendInv, NEW w \in Workers, NEW job \in LooseJob, run' = [run EXCEPT ![w] = job],
           job.pc \notin Held
    PROVE  run' \in [Workers -> LooseJob] /\ QuietRuns
<1>1. run \in [Workers -> LooseJob] /\ run' \in [Workers -> LooseJob]
  BY DEF SendInv, Loose
<1>2. \A v \in Workers : run'[v] = IF v = w THEN job ELSE run[v]
  BY <1>1
<1> QED
  BY <1>1, <1>2 DEF QuietRuns, SendInv, Mine

LEMMA IdleJob == Idle \in LooseJob /\ Idle.pc \notin Held
  BY DEF Idle, LooseJob, Steps, States, Held

LEMMA DoneQuiet ==
    ASSUME SendInv, NEW w \in Workers, Done(w)
    PROVE  run' \in [Workers -> LooseJob] /\ QuietRuns
  BY IdleJob, Ends DEF Done

\* Only its place, its text and what it holds may have changed.
LEMMA MovesOut ==
    ASSUME SendInv, NEW w \in Workers, NEW step \in Steps \ Held, NEW todo \in SUBSET Accounts,
           NEW text \in Texts \union {None},
           run' = [run EXCEPT ![w].pc = step, ![w].text = text, ![w].todo = todo]
    PROVE  run' \in [Workers -> LooseJob] /\ QuietRuns
<1> DEFINE job == [run[w] EXCEPT !.pc = step, !.text = text, !.todo = todo]
<1>1. run[w] \in LooseJob
  BY DEF SendInv, Loose
<1>2. job \in LooseJob /\ job.pc \notin Held
  BY <1>1 DEF LooseJob
<1>3. run' = [run EXCEPT ![w] = job]
  BY <1>1 DEF LooseJob
<1> QED
  BY <1>2, <1>3, Ends

\* The rows as they were.
LEMMA SameRows ==
    ASSUME row' = row
    PROVE  QuietRows
  BY DEF QuietRows

LEMMA TakeExpandQuiet ==
    ASSUME SendInv, NEW w \in Workers, TakeExpand(w)
    PROVE  Loose' /\ Quiet
<1>1. campaign.cursor \in Nat /\ campaign' = campaign /\ row' = row /\ messaged' = messaged
  BY DEF TakeExpand, SendInv, Loose, LooseCampaign
<1>2. CASE run' = run
  BY <1>1, <1>2 DEF SendInv, Loose, Quiet, QuietRuns, QuietRows, Mine
<1>3. CASE run' = [run EXCEPT ![w] = [Idle EXCEPT !.pc = "page", !.cursor = campaign.cursor]]
  <2> DEFINE job == [Idle EXCEPT !.pc = "page", !.cursor = campaign.cursor]
  <2>1. job \in LooseJob /\ job.pc \notin Held
    BY <1>1, IdleJob DEF Idle, LooseJob, Steps, Held
  <2>2. run' \in [Workers -> LooseJob] /\ QuietRuns
    BY <1>3, <2>1, Ends
  <2> QED
    BY <1>1, <2>2, SameRows DEF SendInv, Loose, Quiet
<1> QED
  BY <1>2, <1>3 DEF TakeExpand

LEMMA TakeSendQuiet ==
    ASSUME SendInv, NEW w \in Workers, TakeSend(w)
    PROVE  Loose' /\ Quiet
<1>1. /\ campaign.state \in States /\ campaign.later \in BOOLEAN /\ campaign' = campaign
      /\ row' = row /\ messaged' = messaged
  BY DEF TakeSend, SendInv, Loose, LooseCampaign
<1> DEFINE job == [Idle EXCEPT !.pc = "start", !.plan = campaign.state,
                               !.later = campaign.later]
<1>2. CASE run' = run
  BY <1>1, <1>2 DEF SendInv, Loose, Quiet, QuietRuns, QuietRows, Mine
<1>3. CASE run' = [run EXCEPT ![w] = job]
  <2>1. job \in LooseJob /\ job.pc \notin Held
    BY <1>1, IdleJob DEF Idle, LooseJob, Steps, Held
  <2>2. run' \in [Workers -> LooseJob] /\ QuietRuns
    BY <1>3, <2>1, Ends
  <2> QED
    BY <1>1, <2>2, SameRows DEF SendInv, Loose, Quiet
<1> QED
  BY <1>2, <1>3 DEF TakeSend

LEMMA PageQuiet ==
    ASSUME SendInv, NEW w \in Workers, Page(w)
    PROVE  Loose' /\ Quiet
<1> DEFINE from == run[w].cursor
           page == {a \in Accounts : from < a /\ a <= from + PageSize}
<1>1. PICK blocked \in SUBSET page :
        row' = [a \in Accounts |->
                  IF a \in page /\ row[a].state = "none"
                  THEN [row[a] EXCEPT !.state = IF a \in blocked THEN "closed" ELSE "pending"]
                  ELSE row[a]]
  BY DEF Page
<1>2. from \in Nat /\ from + PageSize \in Nat
  BY Numbers DEF SendInv, Loose, LooseJob
<1>3. campaign' \in LooseCampaign
  <2>1. CASE campaign.state = "expanding"
    <3> DEFINE cursor == IF LastPage(from) THEN 0 ELSE from + PageSize
               state == IF LastPage(from) THEN "ready" ELSE "expanding"
    <3>1. campaign' = [Touched(campaign) EXCEPT !.cursor = cursor, !.state = state]
      BY <2>1 DEF Page
    <3>2. cursor \in Nat /\ state \in States
      BY <1>2 DEF States
    <3>3. Touched(campaign) \in LooseCampaign
      BY DEF SendInv, Loose, LooseCampaign, Touched
    <3> HIDE DEF cursor, state
    <3> QED
      BY <3>1, <3>2, <3>3 DEF LooseCampaign
  <2>2. CASE campaign.state # "expanding"
    BY <2>2 DEF Page, SendInv, Loose
  <2> QED
    BY <2>1, <2>2
<1>4. row' \in [Accounts -> Recipient]
  BY <1>1 DEF SendInv, Loose, Recipient, Settled
<1>5. run' \in [Workers -> LooseJob] /\ QuietRuns
  BY DoneQuiet DEF Page
<1>6. \A a \in Accounts : row'[a] # row[a] => row[a].state = "none"
  BY <1>1
<1>7. QuietRows
  <2> SUFFICES ASSUME NEW a \in Accounts, row[a].state = "none"
               PROVE  /\ \A v \in Workers : run'[v].pc \in Held => a \notin run'[v].todo
                      /\ messaged[a] = 0
    BY <1>6 DEF QuietRows
  <2>1. row[a] # Fresh
    BY DEF Fresh
  <2>2. \A v \in Workers : run'[v].pc \in Held => a \notin run'[v].todo
    BY <1>5, <2>1 DEF QuietRuns, SendInv, Mine
  <2> QED
    BY <2>2 DEF SendInv, Counted, New
<1> QED
  BY <1>3, <1>4, <1>5, <1>7 DEF Page, SendInv, Loose, Quiet

LEMMA UnsoundQuiet ==
    ASSUME SendInv, NEW w \in Workers, Unsound(w)
    PROVE  Loose' /\ Quiet
<1>1. campaign' \in LooseCampaign /\ row' = row /\ messaged' = messaged
  BY DEF Unsound, SendInv, Loose, LooseCampaign, Touched, States, Terminal
<1>2. run' \in [Workers -> LooseJob] /\ QuietRuns
  BY DoneQuiet DEF Unsound
<1> QED
  BY <1>1, <1>2, SameRows DEF SendInv, Loose, Quiet

LEMMA StartQuiet ==
    ASSUME SendInv, NEW w \in Workers, Start(w)
    PROVE  Loose' /\ Quiet
<1>1. row' = row /\ messaged' = messaged
  BY DEF Start
<1>2. campaign' \in LooseCampaign
  <2>1. \/ campaign' = campaign
        \/ campaign' = [Touched(campaign) EXCEPT !.state = "sending"]
    BY DEF Start
  <2> QED
    BY <2>1 DEF SendInv, Loose, LooseCampaign, Touched, States
<1>3. Begin(w) \/ Done(w)
  BY DEF Start
<1>4. CASE Begin(w)
  <2> DEFINE job == [Idle EXCEPT !.pc = "bodies"]
  <2>1. job \in LooseJob /\ job.pc \notin Held
    BY IdleJob DEF Idle, LooseJob, Steps, Held
  <2>2. run' \in [Workers -> LooseJob] /\ QuietRuns
    BY <1>4, <2>1, Ends DEF Begin
  <2> QED
    BY <1>1, <1>2, <2>2, SameRows DEF SendInv, Loose, Quiet
<1>5. CASE Done(w)
  BY <1>1, <1>2, <1>5, DoneQuiet, SameRows DEF SendInv, Loose, Quiet
<1> QED
  BY <1>3, <1>4, <1>5

LEMMA BodiesQuiet ==
    ASSUME SendInv, NEW w \in Workers, Bodies(w)
    PROVE  Loose' /\ Quiet
<1> DEFINE todo == First(ChunkSize, In("pending"))
<1>1. campaign' = campaign /\ row' = row /\ messaged' = messaged
  BY DEF Bodies
<1>2. \/ Done(w)
      \/ run' = [run EXCEPT ![w].pc = "claim", ![w].text = "current", ![w].todo = todo]
  BY DEF Bodies
<1>3. todo \in SUBSET Accounts /\ "claim" \in Steps \ Held /\ "current" \in Texts
  BY DEF First, In, Steps, Held, Texts
<1> HIDE DEF todo
<1>4. run' \in [Workers -> LooseJob] /\ QuietRuns
  BY <1>2, <1>3, DoneQuiet, MovesOut
<1> QED
  BY <1>1, <1>4, SameRows DEF SendInv, Loose, Quiet

\* A claim that fails, or that wins nothing.
LEMMA ClaimQuiet ==
    ASSUME SendInv, NEW w \in Workers, row' = row, Done(w) \/ Over(w),
           UNCHANGED <<campaign, messaged>>
    PROVE  Loose' /\ Quiet
<1>1. run[w].text \in Texts \union {None} /\ "tally" \in Steps \ Held
      /\ {} \in SUBSET Accounts
  BY DEF SendInv, Loose, LooseJob, Steps, Held
<1>2. CASE Over(w)
  <2>1. run' = [run EXCEPT ![w].pc = "tally", ![w].text = run[w].text, ![w].todo = {}]
    BY <1>2 DEF Over, SendInv, Loose, LooseJob
  <2>2. run' \in [Workers -> LooseJob] /\ QuietRuns
    BY <1>1, <2>1, MovesOut
  <2> QED
    BY <2>2, SameRows DEF SendInv, Loose, Quiet
<1>3. CASE Done(w)
  BY <1>3, DoneQuiet, SameRows DEF SendInv, Loose, Quiet
<1> QED
  BY <1>2, <1>3

\* What an execution holds it goes on holding.
LEMMA HoldsOn ==
    ASSUME SendInv, NEW w \in Workers, NEW step \in {"deliver", "release"}, NEW blind \in Nat,
           run[w].pc \in {"check", "deliver"},
           run' = [run EXCEPT ![w].blind = blind, ![w].pc = step],
           UNCHANGED <<campaign, row, messaged>>
    PROVE  Loose' /\ Quiet
<1> DEFINE job == [run[w] EXCEPT !.blind = blind, !.pc = step]
<1>0. run \in [Workers -> LooseJob] /\ run[w] \in LooseJob
  BY DEF SendInv, Loose
<1>1. run' \in [Workers -> LooseJob] /\ run' = [run EXCEPT ![w] = job]
  <2>1. job \in LooseJob
    BY <1>0 DEF LooseJob, Steps
  <2>2. run' = [run EXCEPT ![w] = job]
    BY <1>0 DEF LooseJob
  <2> QED
    BY <1>0, <2>1, <2>2
<1>2. /\ run'[w].pc = step /\ run'[w].todo = run[w].todo
      /\ \A v \in Workers : v # w => run'[v] = run[v]
  BY <1>0, <1>1 DEF LooseJob
<1>3. QuietRuns
  BY <1>2 DEF QuietRuns, SendInv, Mine, Held
<1> QED
  BY <1>1, <1>3, SameRows DEF SendInv, Loose, Quiet

LEMMA CheckQuiet ==
    ASSUME SendInv, NEW w \in Workers, Check(w)
    PROVE  Loose' /\ Quiet
<1>1. PICK ok \in BOOLEAN :
        run' = [run EXCEPT ![w].blind = IF ok THEN @ ELSE @ + 1,
                           ![w].pc = IF ok /\ campaign.state # "sending"
                                     THEN "release" ELSE "deliver"]
  BY DEF Check, Goes
<1> DEFINE blind == IF ok THEN run[w].blind ELSE run[w].blind + 1
           step == IF ok /\ campaign.state # "sending" THEN "release" ELSE "deliver"
<1>2. run' = [run EXCEPT ![w].blind = blind, ![w].pc = step]
  <2>1. CASE ok
    BY <1>1, <2>1 DEF SendInv, Loose, LooseJob
  <2>2. CASE ~ok
    BY <1>1, <2>2 DEF SendInv, Loose, LooseJob
  <2> QED
    BY <2>1, <2>2
<1>3. blind \in Nat /\ step \in {"deliver", "release"}
  BY DEF SendInv, Loose, LooseJob
<1> HIDE DEF blind, step
<1> QED
  BY <1>2, <1>3, HoldsOn DEF Check, At

LEMMA FloodQuiet ==
    ASSUME SendInv, NEW w \in Workers, Flood(w)
    PROVE  Loose' /\ Quiet
<1>1. run' = [run EXCEPT ![w].blind = run[w].blind, ![w].pc = "release"]
      /\ run[w].blind \in Nat
  BY DEF Flood, Goto, SendInv, Loose, LooseJob
<1> QED
  BY <1>1, HoldsOn DEF Flood, At

\* Giving rows back: nobody else holds them, and they were not messaged.
LEMMA ReleaseQuiet ==
    ASSUME SendInv, NEW w \in Workers, Release(w)
    PROVE  Loose' /\ Quiet
<1>1. PICK kept : row' = Mark((run[w].todo \ kept) \intersect In("sending"), "pending")
  BY DEF Release
<1>2. run[w].pc = "release" /\ Over(w) /\ campaign' = campaign /\ messaged' = messaged
  BY DEF Release, At
<1>3. run[w].text \in Texts \union {None} /\ "tally" \in Steps \ Held
      /\ {} \in SUBSET Accounts
  BY DEF SendInv, Loose, LooseJob, Steps, Held
<1>4. run' = [run EXCEPT ![w].pc = "tally", ![w].text = run[w].text, ![w].todo = {}]
  BY <1>2 DEF Over, SendInv, Loose, LooseJob
<1>5. run' \in [Workers -> LooseJob] /\ QuietRuns
  BY <1>3, <1>4, MovesOut
<1>6. \A v \in Workers : run'[v].pc \in Held => v # w
  BY <1>3, <1>4 DEF SendInv, Loose, LooseJob
<1>7. row' \in [Accounts -> Recipient]
      /\ \A a \in Accounts : row'[a] # row[a] => a \in run[w].todo
  BY <1>1 DEF Mark, SendInv, Loose, Recipient
<1>8. QuietRows
  <2> SUFFICES ASSUME NEW a \in run[w].todo
               PROVE  /\ \A v \in Workers : run'[v].pc \in Held => a \notin run'[v].todo
                      /\ messaged[a] = 0
    BY <1>7 DEF QuietRows
  <2>1. "release" \in Held
    BY DEF Held
  <2> QED
    BY <1>2, <1>5, <1>6, <2>1 DEF QuietRuns, SendInv, Mine, Apart
<1> QED
  BY <1>2, <1>5, <1>7, <1>8 DEF SendInv, Loose, Quiet

\* Retiring what was abandoned touches no row that is held, and none becomes claimable.
LEMMA AgedQuiet ==
    ASSUME SendInv, QuietRuns, row' = Aged \/ row' = row
    PROVE  row' \in [Accounts -> Recipient] /\ QuietRows
<1>1. row' \in [Accounts -> Recipient]
  <2>1. row \in [Accounts -> Recipient]
    BY DEF SendInv, Loose
  <2>2. [state |-> "unknown", stale |-> FALSE] \in Recipient
    BY DEF Recipient, Settled
  <2>3. Aged \in [Accounts -> Recipient]
    BY <2>1, <2>2 DEF Aged, Mark
  <2> QED
    BY <2>1, <2>3
<1>2. \A a \in Accounts : row'[a] # row[a] => row[a].stale /\ row'[a].state = "unknown"
  <2>1. CASE row' = row
    BY <2>1
  <2>2. CASE row' = Aged
    BY <2>2 DEF Aged, Mark, Stale, In
  <2> QED
    BY <2>1, <2>2
<1>3. ~Fresh.stale /\ "unknown" \notin New
  BY DEF Fresh, New
<1> QED
  BY <1>1, <1>2, <1>3 DEF QuietRows, QuietRuns, SendInv, Mine

LEMMA TallyQuiet ==
    ASSUME SendInv, NEW w \in Workers, Tally(w)
    PROVE  Loose' /\ Quiet
<1> DEFINE sent == Cardinality(In("sent"))
           left == Cardinality({a \in Accounts : row'[a].state \in {"pending", "sending"}})
           job == [Idle EXCEPT !.pc = "close", !.claimed = run[w].claimed, !.sent = sent,
                               !.left = left]
<1>1. /\ row' = Aged \/ row' = row
      /\ campaign' = Touched(campaign) \/ campaign' = campaign
      /\ run' = [run EXCEPT ![w] = job] \/ run' = [run EXCEPT ![w] = Idle]
      /\ messaged' = messaged
  BY DEF Tally
<1>2. sent \in Nat /\ left \in Nat
  BY Numbers DEF In
<1>3. run[w].claimed \in BOOLEAN
  BY DEF SendInv, Loose, LooseJob
<1> HIDE DEF sent, left
<1>4. job \in LooseJob /\ job.pc \notin Held
  BY <1>2, <1>3, IdleJob DEF Idle, LooseJob, Steps, Held
<1>5. run' \in [Workers -> LooseJob] /\ QuietRuns
  BY <1>1, <1>4, IdleJob, Ends
<1>6. campaign' \in LooseCampaign
  BY <1>1 DEF SendInv, Loose, LooseCampaign, Touched
<1> QED
  BY <1>1, <1>5, <1>6, AgedQuiet DEF SendInv, Loose, Quiet

\* An execution that is over, or goes from one of its last steps to the next.
LEMMA CloseQuiet ==
    ASSUME SendInv, NEW w \in Workers, Close(w)
    PROVE  Loose' /\ Quiet
<1>1. campaign' = campaign /\ row' = row /\ messaged' = messaged
  BY DEF Close
<1>2. Goto(w, "finish") \/ Done(w)
  BY DEF Close
<1>3. CASE Goto(w, "finish")
  <2> DEFINE job == [run[w] EXCEPT !.pc = "finish"]
  <2>1. run[w] \in LooseJob
    BY DEF SendInv, Loose
  <2>2. job \in LooseJob /\ job.pc \notin Held
    BY <2>1 DEF LooseJob, Steps, Held
  <2>3. run' = [run EXCEPT ![w] = job]
    BY <1>3, <2>1 DEF Goto, LooseJob
  <2>4. run' \in [Workers -> LooseJob] /\ QuietRuns
    BY <2>2, <2>3, Ends
  <2> QED
    BY <1>1, <2>4, SameRows DEF SendInv, Loose, Quiet
<1>4. CASE Done(w)
  BY <1>1, <1>4, DoneQuiet, SameRows DEF SendInv, Loose, Quiet
<1> QED
  BY <1>2, <1>3, <1>4

LEMMA FinishQuiet ==
    ASSUME SendInv, NEW w \in Workers, Finish(w)
    PROVE  Loose' /\ Quiet
<1>1. row' = row /\ messaged' = messaged /\ Done(w)
  BY DEF Finish
<1>2. campaign' = campaign \/ campaign' = [Touched(campaign) EXCEPT !.state = "completed"]
  BY DEF Finish
<1>3. campaign' \in LooseCampaign
  BY <1>2 DEF SendInv, Loose, LooseCampaign, Touched, States, Terminal
<1> QED
  BY <1>1, <1>3, DoneQuiet, SameRows DEF SendInv, Loose, Quiet

LEMMA CrashQuiet ==
    ASSUME SendInv, NEW w \in Workers, Crash(w)
    PROVE  Loose' /\ Quiet
  BY DoneQuiet, SameRows DEF Crash, SendInv, Loose, Quiet

-----------------------------------------------------------------------------
(***************************************************************************)
(* The sweep, the clock and the panel.                                     *)
(***************************************************************************)

\* Executions as they were, but for their text and their count of late messages.
LEMMA SameRuns ==
    ASSUME SendInv, \A w \in Workers : run'[w].pc = run[w].pc /\ run'[w].todo = run[w].todo
    PROVE  QuietRuns
  BY DEF QuietRuns, SendInv, Mine

LEMMA SweepQuiet ==
    ASSUME SendInv, Sweep
    PROVE  Loose' /\ Quiet
<1>1. row' = Aged \/ row' = row
  BY DEF Sweep
<1>2. UNCHANGED <<campaign, run, messaged>>
  BY DEF Sweep
<1> QED
  BY <1>1, <1>2, SameRuns, AgedQuiet DEF SendInv, Loose, Quiet

LEMMA LapseQuiet ==
    ASSUME SendInv, NEW a \in Accounts, Lapse(a)
    PROVE  Loose' /\ Quiet
<1>1. UNCHANGED <<campaign, run, messaged>>
  BY DEF Lapse
<1>2. row[a].state = "sending" /\ row' = [row EXCEPT ![a].stale = TRUE]
      /\ \A w \in Workers : a \in run[w].todo => run[w].pc = "claim"
  BY DEF Lapse
<1>3. row' \in [Accounts -> Recipient] /\ row'[a].state = "sending"
      /\ \A b \in Accounts : b # a => row'[b] = row[b]
  BY <1>2 DEF SendInv, Loose, Recipient
<1>4. "claim" \notin Held /\ "sending" \notin New
  BY DEF Held, New
<1>5. QuietRows
  BY <1>1, <1>2, <1>3, <1>4 DEF QuietRows
<1> QED
  BY <1>1, <1>3, <1>5, SameRuns DEF SendInv, Loose, Quiet

\* The campaign's row is stamped, grows old, or moves to another state.
LEMMA CampaignQuiet ==
    ASSUME SendInv, campaign' \in LooseCampaign, UNCHANGED <<row, run, messaged>>
    PROVE  Loose' /\ Quiet
  BY SameRuns, SameRows DEF SendInv, Loose, Quiet

ClockOrPanel ==
    Grow \/ Arrive \/ Unpark \/ Revise \/ Authorise \/ Resume \/ Pause \/ Cancel

LEMMA PanelQuiet ==
    ASSUME SendInv, ClockOrPanel
    PROVE  Loose' /\ Quiet
<1> USE DEF ClockOrPanel
<1>0. campaign \in LooseCampaign /\ run \in [Workers -> LooseJob]
  BY DEF SendInv, Loose
<1>1. CASE Grow \/ Arrive
  <2>1. campaign' \in LooseCampaign
    BY <1>0, <1>1 DEF Grow, Arrive, LooseCampaign
  <2> QED
    BY <1>1, <2>1, CampaignQuiet DEF Grow, Arrive
<1>2. CASE Unpark
  BY <1>0, <1>2, CampaignQuiet DEF Unpark
<1>3. CASE Revise
  <2>1. campaign' \in LooseCampaign /\ row' = row /\ messaged' = messaged
    BY <1>0, <1>3 DEF Revise, Touched, LooseCampaign
  <2>2. run' = [w \in Workers |-> [run[w] EXCEPT !.text = Older[@]]]
    BY <1>3 DEF Revise
  <2>3. \A t \in Texts \union {None} : Older[t] \in Texts \union {None}
    BY DEF Older, Texts
  <2>4. run' \in [Workers -> LooseJob]
        /\ \A w \in Workers : run'[w].pc = run[w].pc /\ run'[w].todo = run[w].todo
    <3>1. ASSUME NEW j \in LooseJob
          PROVE  /\ [j EXCEPT !.text = Older[@]] \in LooseJob
                 /\ [j EXCEPT !.text = Older[@]].pc = j.pc
                 /\ [j EXCEPT !.text = Older[@]].todo = j.todo
      BY <2>3 DEF LooseJob
    <3> QED
      BY <1>0, <2>2, <3>1
  <2> QED
    BY <2>1, <2>4, SameRuns, SameRows DEF SendInv, Loose, Quiet
<1>4. CASE Authorise
  <2>1. PICK later \in BOOLEAN :
          campaign' = [Touched(campaign) EXCEPT !.later = later]
    BY <1>4 DEF Authorise
  <2>2. campaign' \in LooseCampaign
    BY <1>0, <2>1 DEF Touched, LooseCampaign
  <2> QED
    BY <1>4, <2>2, CampaignQuiet DEF Authorise
<1>5. CASE Resume
  <2>1. campaign' \in LooseCampaign /\ row' = row /\ messaged' = messaged
    BY <1>0, <1>5 DEF Resume, Touched, LooseCampaign, States
  <2>2. run' = [w \in Workers |-> [run[w] EXCEPT !.late = 0]]
    BY <1>5 DEF Resume
  <2>3. run' \in [Workers -> LooseJob]
        /\ \A w \in Workers : run'[w].pc = run[w].pc /\ run'[w].todo = run[w].todo
    <3>1. ASSUME NEW j \in LooseJob
          PROVE  /\ [j EXCEPT !.late = 0] \in LooseJob
                 /\ [j EXCEPT !.late = 0].pc = j.pc /\ [j EXCEPT !.late = 0].todo = j.todo
      BY DEF LooseJob
    <3> QED
      BY <1>0, <2>2, <3>1
  <2> QED
    BY <2>1, <2>3, SameRuns, SameRows DEF SendInv, Loose, Quiet
<1>6. CASE Pause \/ Cancel
  <2>1. campaign' \in LooseCampaign
    BY <1>0, <1>6 DEF Pause, Cancel, Touched, LooseCampaign, States, Terminal
  <2> QED
    BY <1>6, <2>1, CampaignQuiet DEF Pause, Cancel
<1> QED
  BY <1>1, <1>2, <1>3, <1>4, <1>5, <1>6

-----------------------------------------------------------------------------
(***************************************************************************)
(* The two steps that matter: taking rows, and messaging one of them.      *)
(***************************************************************************)

\* What is won was pending: nobody holds it, and nobody was messaged.
LEMMA Wins ==
    ASSUME SendInv, NEW w \in Workers, NEW won \in SUBSET In("pending"), won # {},
           row' = Mark(won, "sending"),
           run' = [run EXCEPT ![w].pc = "deliver", ![w].todo = won, ![w].claimed = TRUE],
           UNCHANGED <<campaign, messaged>>
    PROVE  SendInv'
<1> DEFINE job == [run[w] EXCEPT !.pc = "deliver", !.todo = won, !.claimed = TRUE]
<1>1. run \in [Workers -> LooseJob] /\ run[w] \in LooseJob /\ row \in [Accounts -> Recipient]
  BY DEF SendInv, Loose
<1>2. won \subseteq Accounts /\ \A a \in won : row[a].state = "pending" /\ messaged[a] = 0
  BY DEF In, SendInv, Counted, New
<1>3. job \in LooseJob /\ run' = [run EXCEPT ![w] = job]
  <2>1. job \in LooseJob
    BY <1>1, <1>2 DEF LooseJob, Steps
  <2>2. run' = [run EXCEPT ![w] = job]
    BY <1>1 DEF LooseJob
  <2> QED
    BY <2>1, <2>2
<1>4. /\ run' \in [Workers -> LooseJob]
      /\ run'[w].pc = "deliver" /\ run'[w].todo = won
      /\ \A v \in Workers : v # w => run'[v] = run[v]
  BY <1>1, <1>3 DEF LooseJob
<1>5. /\ row' \in [Accounts -> Recipient]
      /\ \A a \in Accounts : row'[a] = IF a \in won THEN Fresh ELSE row[a]
  <2>1. Fresh \in Recipient
    BY DEF Fresh, Recipient
  <2> QED
    BY <1>1, <2>1 DEF Mark, Fresh
<1>6. Loose'
  BY <1>4, <1>5 DEF SendInv, Loose
<1>7. \A v \in Workers : run[v].pc \in Held => run[v].todo \subseteq Accounts \ won
  <2> SUFFICES ASSUME NEW v \in Workers, run[v].pc \in Held, NEW a \in run[v].todo
               PROVE  a \in Accounts /\ a \notin won
    OBVIOUS
  <2>1. row[a] = Fresh
    BY DEF SendInv, Mine
  <2>2. row[a].state # "pending"
    BY <2>1 DEF Fresh
  <2>3. run[v].todo \subseteq Accounts
    BY <1>1 DEF LooseJob
  <2> QED
    BY <1>2, <2>2, <2>3
<1>8. Mine'
  <2> SUFFICES ASSUME NEW v \in Workers, run'[v].pc \in Held
               PROVE  /\ \A a \in run'[v].todo : row'[a] = Fresh /\ messaged'[a] = 0
                      /\ run'[v].pc # "release" => run'[v].todo # {}
    BY DEF Mine
  <2>1. CASE v = w
    BY <1>2, <1>4, <1>5, <2>1
  <2>2. CASE v # w
    BY <1>4, <1>5, <1>7, <2>2 DEF SendInv, Mine
  <2> QED
    BY <2>1, <2>2
<1>9. Apart'
  BY <1>4, <1>7 DEF SendInv, Apart
<1>10. Counted'
  <2>1. Fresh.state \notin New
    BY DEF Fresh, New
  <2> QED
    BY <1>5, <2>1 DEF SendInv, Counted
<1> QED
  BY <1>6, <1>8, <1>9, <1>10 DEF SendInv

LEMMA ClaimKeeps ==
    ASSUME SendInv, NEW w \in Workers, Claim(w)
    PROVE  SendInv'
<1> DEFINE won == run[w].todo \intersect In("pending")
<1>1. UNCHANGED <<campaign, messaged>>
  BY DEF Claim
<1>2. PICK ok \in BOOLEAN :
        /\ row' = IF ok THEN Mark(won, "sending") ELSE row
        /\ IF ~ok THEN Done(w)
           ELSE IF won = {} THEN Over(w)
           ELSE run' = [run EXCEPT ![w].pc = "deliver", ![w].todo = won, ![w].claimed = TRUE]
  BY DEF Claim, Goes
<1>3. CASE ok /\ won # {}
  <2>1. /\ row' = Mark(won, "sending") /\ won \in SUBSET In("pending")
        /\ run' = [run EXCEPT ![w].pc = "deliver", ![w].todo = won, ![w].claimed = TRUE]
    BY <1>2, <1>3
  <2> QED
    BY <1>1, <1>3, <2>1, Wins
<1>4. CASE ~ok \/ won = {}
  <2>1. row' = row
    <3>1. Mark({}, "sending") = row
      BY DEF Mark, SendInv, Loose
    <3> QED
      BY <1>2, <1>4, <3>1
  <2> QED
    BY <1>1, <1>2, <1>4, <2>1, ClaimQuiet, Calm
<1> QED
  BY <1>3, <1>4

\* The row that is messaged is held by this execution alone, and leaves its hands with
\* the message; whether or not it could be settled, it cannot be claimed any more.
LEMMA SettleKeeps ==
    ASSUME SendInv, NEW w \in Workers, run[w].pc = "deliver", NEW verdict \in Settled,
           NEW gone \in BOOLEAN, Settle(w, verdict, gone), campaign' = campaign
    PROVE  SendInv'
<1> DEFINE a == Least(run[w].todo)
           rest == run[w].todo \ {a}
           late == run[w].late + IF gone /\ campaign.state # "sending" THEN 1 ELSE 0
           done == run[w].done + 1
           step == IF rest = {} THEN "tally"
                   ELSE IF done % CheckEvery = 0 THEN "check" ELSE "deliver"
           job == [run[w] EXCEPT !.todo = rest, !.done = done, !.late = late, !.pc = step]
<1>1. /\ run \in [Workers -> LooseJob] /\ run[w] \in LooseJob
      /\ row \in [Accounts -> Recipient] /\ messaged \in [Accounts -> 0..2]
  BY DEF SendInv, Loose
<1>2. run[w].pc \in Held /\ run[w].todo \subseteq Accounts /\ run[w].todo # {}
  BY <1>1 DEF SendInv, Mine, Held, LooseJob
<1>3. a \in run[w].todo /\ a \in Accounts
  BY <1>2, LeastIsOne
<1>4. row[a] = Fresh /\ messaged[a] = 0
  BY <1>2, <1>3 DEF SendInv, Mine
<1>5. \A v \in Workers : v # w /\ run[v].pc \in Held => a \notin run[v].todo
  BY <1>2, <1>3 DEF SendInv, Apart
<1>6. /\ messaged' \in [Accounts -> 0..2] /\ messaged'[a] \in 0..1
      /\ \A b \in Accounts : b # a => messaged'[b] = messaged[b]
  <2>1. messaged' = IF gone /\ messaged[a] < 2 THEN [messaged EXCEPT ![a] = @ + 1] ELSE messaged
    BY DEF Settle
  <2> HIDE DEF a
  <2> QED
    BY <1>1, <1>3, <1>4, <2>1
<1>7. \/ /\ row' = row \/ row' = Mark({a}, verdict)
         /\ run' = [run EXCEPT ![w].todo = rest, ![w].done = done, ![w].late = late,
                               ![w].pc = step]
      \/ row' = row /\ Done(w)
  BY DEF Settle
<1>8. job \in LooseJob /\ rest \subseteq Accounts /\ (step \in Held => rest # {})
  <2>1. late \in Nat /\ done \in Nat /\ rest \subseteq Accounts /\ step \in Steps
    BY <1>1, <1>2 DEF LooseJob, Steps
  <2>2. "tally" \notin Held
    BY DEF Held
  <2> HIDE DEF late, done, rest
  <2> QED
    BY <1>1, <2>1, <2>2 DEF LooseJob
<1> HIDE DEF a, rest, late, done, step
<1>9. /\ run' \in [Workers -> LooseJob]
      /\ \A v \in Workers : v # w => run'[v] = run[v]
      /\ \/ run'[w].pc = step /\ run'[w].todo = rest
         \/ run'[w].pc \notin Held
  <2>1. CASE Done(w)
    BY <1>1, <2>1, IdleJob DEF Done
  <2>2. CASE run' = [run EXCEPT ![w].todo = rest, ![w].done = done, ![w].late = late,
                               ![w].pc = step]
    <3>1. run' = [run EXCEPT ![w] = job]
      BY <1>1, <2>2 DEF LooseJob
    <3> QED
      BY <1>1, <1>8, <3>1 DEF LooseJob
  <2> QED
    BY <1>7, <2>1, <2>2
<1>10. /\ row' \in [Accounts -> Recipient] /\ row'[a].state \notin New
       /\ \A b \in Accounts : b # a => row'[b] = row[b]
  <2>1. Fresh.state \notin New /\ verdict \notin New
        /\ [state |-> verdict, stale |-> FALSE] \in Recipient
    BY DEF Fresh, New, Recipient, Settled
  <2>2. CASE row' = row
    BY <1>1, <1>4, <2>1, <2>2
  <2>3. CASE row' = Mark({a}, verdict)
    BY <1>1, <1>3, <2>1, <2>3 DEF Mark
  <2> QED
    BY <1>7, <2>2, <2>3
<1>11. Loose'
  BY <1>6, <1>9, <1>10 DEF SendInv, Loose
<1>12. \A v \in Workers : run'[v].pc \in Held =>
          /\ run[v].pc \in Held /\ run'[v].todo \subseteq run[v].todo \ {a}
          /\ run'[v].pc # "release" => run'[v].todo # {}
  <2>1. rest \subseteq run[w].todo \ {a}
    BY DEF rest
  <2> QED
    BY <1>2, <1>5, <1>8, <1>9, <2>1 DEF SendInv, Mine
<1>13. Mine'
  <2> SUFFICES ASSUME NEW v \in Workers, run'[v].pc \in Held
               PROVE  /\ \A b \in run'[v].todo : row'[b] = Fresh /\ messaged'[b] = 0
                      /\ run'[v].pc # "release" => run'[v].todo # {}
    BY DEF Mine
  <2>1. run[v].todo \subseteq Accounts
    BY <1>1 DEF LooseJob
  <2> QED
    BY <1>6, <1>10, <1>12, <2>1 DEF SendInv, Mine
<1>14. Apart'
  <2> SUFFICES ASSUME NEW u \in Workers, NEW v \in Workers, u # v,
                      run'[u].pc \in Held, run'[v].pc \in Held
               PROVE  run'[u].todo \intersect run'[v].todo = {}
    BY DEF Apart
  <2> QED
    BY <1>12 DEF SendInv, Apart
<1>15. Counted'
  BY <1>6, <1>10 DEF SendInv, Counted
<1> QED
  BY <1>11, <1>13, <1>14, <1>15 DEF SendInv

-----------------------------------------------------------------------------
LEMMA InitHolds == Init => SendInv
<1> SUFFICES ASSUME Init PROVE SendInv
  OBVIOUS
<1>1. run \in [Workers -> LooseJob] /\ \A w \in Workers : run[w].pc \notin Held
  BY IdleJob DEF Init
<1>2. campaign \in LooseCampaign
  BY DEF Init, LooseCampaign, States
<1>3. /\ row \in [Accounts -> Recipient] /\ messaged \in [Accounts -> 0..2]
      /\ \A a \in Accounts : messaged[a] = 0
  BY DEF Init, Recipient
<1> QED
  BY <1>1, <1>2, <1>3 DEF SendInv, Loose, Mine, Apart, Counted

LEMMA StepKeeps == SendInv /\ [Next]_vars => SendInv'
<1> SUFFICES ASSUME SendInv, [Next]_vars PROVE SendInv'
  OBVIOUS
<1>1. ASSUME NEW w \in Workers, Work(w) \/ Flood(w) \/ Crash(w) PROVE SendInv'
  <2>1. CASE TakeExpand(w) \/ TakeSend(w) \/ Expansion(w)
    BY <2>1, TakeExpandQuiet, TakeSendQuiet, PageQuiet, UnsoundQuiet, Calm DEF Expansion
  <2>2. CASE Start(w) \/ Bodies(w) \/ Check(w) \/ Release(w)
    BY <2>2, StartQuiet, BodiesQuiet, CheckQuiet, ReleaseQuiet, Calm
  <2>3. CASE Claim(w)
    BY <2>3, ClaimKeeps
  <2>4. CASE Undeliverable(w) \/ Deliver(w)
    <3>1. {"sent", "closed"} \subseteq Settled
      BY DEF Settled
    <3> QED
      BY <2>4, <3>1, SettleKeeps DEF Undeliverable, Deliver, At
  <2>5. CASE Tally(w) \/ Close(w) \/ Finish(w)
    BY <2>5, TallyQuiet, CloseQuiet, FinishQuiet, Calm
  <2>6. CASE Flood(w) \/ Crash(w)
    BY <2>6, FloodQuiet, CrashQuiet, Calm
  <2> QED
    BY <1>1, <2>1, <2>2, <2>3, <2>4, <2>5, <2>6 DEF Work, Chunk
<1>2. CASE Sweep \/ ClockOrPanel
  BY <1>2, SweepQuiet, PanelQuiet, Calm
<1>3. ASSUME NEW a \in Accounts, Lapse(a) PROVE SendInv'
  BY <1>3, LapseQuiet, Calm
<1>4. CASE UNCHANGED vars
  BY <1>4, SameRuns, SameRows, Calm DEF vars, SendInv, Loose, Quiet
<1> QED
  BY <1>1, <1>2, <1>3, <1>4 DEF Next, ClockOrPanel

\* db.broadcasts, claim_chunk and the settling writes: whatever chunks run side by side,
\* whatever fails, dies, is released or is swept, no account is messaged twice by one
\* campaign, for an audience, pages, chunks and a number of workers of any size.
THEOREM MessagedOnce == Spec => []NeverTwice
<1>1. SendInv => NeverTwice
  BY DEF SendInv, Counted, NeverTwice
<1> QED
  BY InitHolds, StepKeeps, <1>1, PTL DEF Spec

-----------------------------------------------------------------------------
(***************************************************************************)
(* The course of a campaign: what its state says of its rows, its texts    *)
(* and its outcome, and what the place of an execution says of all three.  *)
(***************************************************************************)
Written(n) == \A a \in Accounts : a <= n => row[a].state # "none"
Closed == \A a \in Accounts : row[a].state \in Settled
Begun == campaign.state \notin Editable
Sending == {"bodies", "claim", "check", "deliver", "release", "tally", "close", "finish"}

\* The rows that the walk is past are there, and all of them once it is over.
Walked ==
    /\ campaign.state = "expanding" => Written(campaign.cursor)
    /\ campaign.state \in {"ready", "sending", "paused", "completed"} => Written(Audience)
\* The outcome is that of a completed campaign, and of rows that do not move any more.
Told ==
    /\ outcome.rows = IF campaign.state = "completed" THEN 1 ELSE 0
    /\ campaign.state = "completed" => Closed /\ outcome.sent = Cardinality(In("sent"))
\* Nothing is sent before the text is out of reach.
Read == texts \subseteq {"current"} /\ (texts # {} => Begun)
\* An execution walks on from rows that are there; one that sends has a campaign that
\* has begun, and the text it has now; one that tallied nothing left tallied for good.
Course(w) ==
    /\ run[w].pc = "page" => Written(run[w].cursor)
    /\ run[w].pc \in Sending \union {"start"} =>
            Written(Audience) /\ campaign.state # "expanding"
    /\ run[w].pc \in Sending => Begun
    /\ run[w].pc = "start" /\ run[w].plan = "sending" => Begun
    /\ run[w].pc = "finish" => run[w].left = 0
    /\ run[w].pc \in {"close", "finish"} /\ run[w].left = 0 =>
            Closed /\ run[w].sent = Cardinality(In("sent"))
    /\ run[w].pc \in {"claim", "check", "deliver", "release"} => run[w].text = "current"
\* What went after a stop went in blocks: one for every look that failed, and the one
\* that is under way.
Brake(w) ==
    /\ run[w].pc \notin {"check", "deliver", "release", "tally"} => run[w].late = 0
    /\ campaign.state = "sending" => run[w].late = 0
    /\ run[w].pc = "deliver" =>
            run[w].late <= CheckEvery * run[w].blind + (run[w].done % CheckEvery)
    /\ run[w].late <= CheckEvery * (1 + run[w].blind)

CourseInv == Walked /\ Told /\ Read /\ \A w \in Workers : Course(w) /\ Brake(w)

\* What no step does: take a row away, move one that is settled, or bring a campaign
\* back to where it can be revised.
RowsOn == \A a \in Accounts :
    /\ row[a].state # "none" => row'[a].state # "none"
    /\ row[a].state \in Settled => row'[a].state = row[a].state
CampaignOn ==
    /\ campaign'.state = "expanding" => campaign.state = "expanding"
    /\ Begun => Begun'
\* What only a resume does: bring a stopped campaign to send again.
NotResumed == campaign'.state = "sending" => campaign.state \in {"sending", "ready"}
On == RowsOn /\ CampaignOn /\ NotResumed
Still == campaign'.state = campaign.state /\ campaign'.cursor = campaign.cursor
         /\ outcome' = outcome

-----------------------------------------------------------------------------
\* A block of messages ends when their count is a multiple of CheckEvery.
LEMMA Parts ==
    ASSUME NEW c \in Nat \ {0}, NEW d \in Nat
    PROVE  /\ d % c \in Nat /\ d % c < c /\ d \div c \in Nat
           /\ d = c * (d \div c) + (d % c)
  OBVIOUS

LEMMA OneRest ==
    ASSUME NEW c \in Nat \ {0}, NEW q \in Nat, NEW p \in Nat, NEW r \in Nat, NEW s \in Nat,
           r < c, s < c, c * q + r = c * p + s
    PROVE  r = s
<1>1. CASE q < p
  <2>1. c * (q + 1) <= c * p
    BY <1>1
  <2> QED
    BY <1>1, <2>1
<1>2. CASE p < q
  <2>1. c * (p + 1) <= c * q
    BY <1>2
  <2> QED
    BY <1>2, <2>1
<1> QED
  BY <1>1, <1>2

LEMMA Blocks ==
    /\ \A b \in Nat : /\ CheckEvery * b \in Nat /\ CheckEvery * (1 + b) \in Nat
                      /\ CheckEvery * (1 + b) = CheckEvery * b + CheckEvery
    /\ \A d \in Nat : /\ d % CheckEvery \in Nat /\ d % CheckEvery < CheckEvery
                      /\ (d + 1) % CheckEvery # 0 =>
                            (d + 1) % CheckEvery = (d % CheckEvery) + 1
<1>1. CheckEvery \in Nat \ {0}
  BY Numbers
<1>2. ASSUME NEW b \in Nat
      PROVE  /\ CheckEvery * b \in Nat /\ CheckEvery * (1 + b) \in Nat
             /\ CheckEvery * (1 + b) = CheckEvery * b + CheckEvery
  BY <1>1
<1>3. ASSUME NEW d \in Nat
      PROVE  /\ d % CheckEvery \in Nat /\ d % CheckEvery < CheckEvery
             /\ (d + 1) % CheckEvery # 0 => (d + 1) % CheckEvery = (d % CheckEvery) + 1
  <2> DEFINE q == d \div CheckEvery
             r == d % CheckEvery
             p == (d + 1) \div CheckEvery
             s == (d + 1) % CheckEvery
  <2>1. q \in Nat /\ r \in Nat /\ r < CheckEvery /\ d = CheckEvery * q + r
    BY <1>1, Parts
  <2>2. p \in Nat /\ s \in Nat /\ s < CheckEvery /\ d + 1 = CheckEvery * p + s
    BY <1>1, Parts
  <2> HIDE DEF q, r, p, s
  <2>3. CASE r + 1 < CheckEvery
    <3>1. r + 1 \in Nat /\ CheckEvery * q + (r + 1) = CheckEvery * p + s
      BY <1>1, <2>1, <2>2
    <3>2. s = r + 1
      BY <1>1, <2>1, <2>2, <2>3, <3>1, OneRest
    <3> QED
      BY <2>1, <3>2 DEF r, s
  <2>4. CASE r + 1 = CheckEvery
    <3>1. q + 1 \in Nat /\ 0 \in Nat /\ 0 < CheckEvery
      BY <1>1, <2>1
    <3>2. CheckEvery * (q + 1) + 0 = CheckEvery * p + s
      BY <1>1, <2>1, <2>2, <2>4
    <3>3. s = 0
      BY <1>1, <2>2, <3>1, <3>2, OneRest
    <3> QED
      BY <2>1, <3>3 DEF r, s
  <2> QED
    BY <1>1, <2>1, <2>3, <2>4
<1> QED
  BY <1>2, <1>3

\* Rows that are all settled stay as they are, and so does the count of those sent.
LEMMA ClosedForGood ==
    ASSUME Closed, RowsOn
    PROVE  Closed' /\ In("sent")' = In("sent")
<1>1. \A a \in Accounts : row'[a].state = row[a].state
  BY DEF Closed, RowsOn
<1> QED
  BY <1>1 DEF Closed, In

LEMMA WrittenOn ==
    ASSUME RowsOn, NEW n, Written(n)
    PROVE  \A a \in Accounts : a <= n => row'[a].state # "none"
  BY DEF Written, RowsOn

\* A campaign whose state stays.
LEMMA StillKeeps ==
    ASSUME Walked, Told, RowsOn, Still
    PROVE  Walked' /\ Told' /\ On
<1>1. Walked'
  BY WrittenOn DEF Walked, Still, Written
<1>2. Told'
  BY ClosedForGood DEF Told, Still
<1>3. On
  BY DEF On, Still, CampaignOn, NotResumed, Begun
<1> QED
  BY <1>1, <1>2, <1>3

\* One that ends without an outcome.
LEMMA EndsWithNone ==
    ASSUME Walked, Told, RowsOn, campaign.state \notin Terminal,
           campaign'.state \in {"failed", "cancelled"}, outcome' = outcome
    PROVE  Walked' /\ Told' /\ On
<1>1. Walked' /\ Told'
  BY DEF Walked, Told, Terminal
<1>2. On
  BY DEF On, CampaignOn, NotResumed, Begun, Editable
<1> QED
  BY <1>1, <1>2

\* An execution that takes no part.
LEMMA Aside ==
    ASSUME Loose, Loose', NEW v \in Workers, Course(v), Brake(v), On, run'[v] = run[v]
    PROVE  Course(v)' /\ Brake(v)'
<1>1. Course(v)'
  <2>1. ASSUME NEW n, Written(n) PROVE \A a \in Accounts : a <= n => row'[a].state # "none"
    BY <2>1, WrittenOn DEF On
  <2>2. ASSUME Closed PROVE Closed' /\ In("sent")' = In("sent")
    BY <2>2, ClosedForGood DEF On
  <2> QED
    BY <2>1, <2>2 DEF Course, On, CampaignOn, Written
<1>2. Brake(v)'
  <2>1. CASE campaign'.state = "sending" /\ campaign.state = "ready"
    <3>1. run[v].pc \notin Sending
      BY <2>1 DEF Course, Begun, Editable
    <3> QED
      BY <3>1 DEF Brake, Sending
  <2>2. CASE campaign'.state = "sending" => campaign.state = "sending"
    BY <2>2 DEF Brake
  <2> QED
    BY <2>1, <2>2 DEF On, NotResumed
<1> QED
  BY <1>1, <1>2

LEMMA TogetherKeeps ==
    ASSUME Loose, Loose', CourseInv, On, Walked', Told', Read',
           \A v \in Workers : run'[v] = run[v] \/ (Course(v)' /\ Brake(v)')
    PROVE  CourseInv'
  BY Aside DEF CourseInv

\* The texts stay.
LEMMA SameTexts ==
    ASSUME Read, On, texts' = texts
    PROVE  Read'
  BY DEF Read, On, CampaignOn

\* An execution that is over.
LEMMA IdleCourse ==
    ASSUME NEW w \in Workers, run'[w] = Idle
    PROVE  Course(w)' /\ Brake(w)'
<1>1. /\ run'[w].pc = "idle" /\ run'[w].late = 0 /\ run'[w].blind = 0
  BY DEF Idle
<1>2. CheckEvery * (1 + 0) \in Nat
  BY Blocks
<1> QED
  BY <1>1, <1>2 DEF Course, Brake, Sending

\* An execution that goes on with its chunk.
LEMMA GoesOn ==
    ASSUME Loose, Loose', NEW w \in Workers, Course(w), On, run[w].pc \in Sending,
           run'[w].pc \in {"claim", "check", "deliver", "release", "tally"},
           run'[w].pc # "tally" => run'[w].text = "current"
    PROVE  Course(w)'
<1>1. \A a \in Accounts : a <= Audience => row'[a].state # "none"
  BY WrittenOn DEF Course, On
<1> QED
  BY <1>1 DEF Course, On, CampaignOn, Written, Sending

-----------------------------------------------------------------------------
(***************************************************************************)
(* Every step keeps to the course.                                         *)
(***************************************************************************)

\* A step of an execution that leaves the campaign where it is.
LEMMA ChunkKeeps ==
    ASSUME Loose, Loose', CourseInv, NEW w \in Workers, RowsOn, Still, texts' = texts,
           \A v \in Workers : v # w => run'[v] = run[v],
           On => run'[w] = run[w] \/ (Course(w)' /\ Brake(w)')
    PROVE  CourseInv'
<1>1. Walked' /\ Told' /\ On
  BY StillKeeps DEF CourseInv
<1>2. Read'
  BY <1>1, SameTexts DEF CourseInv
<1> QED
  BY <1>1, <1>2, TogetherKeeps

LEMMA DoneFact ==
    ASSUME Loose, NEW w \in Workers, Done(w)
    PROVE  run'[w] = Idle /\ \A v \in Workers : v # w => run'[v] = run[v]
  BY DEF Loose, Done

LEMMA RowsSame ==
    ASSUME row' = row
    PROVE  RowsOn
  BY DEF RowsOn

\* It is over.
LEMMA DoneKeeps ==
    ASSUME Loose, Loose', CourseInv, NEW w \in Workers, RowsOn, Still, texts' = texts, Done(w)
    PROVE  CourseInv'
  BY DoneFact, IdleCourse, ChunkKeeps

LEMMA TakeExpandCourse ==
    ASSUME Loose, Loose', CourseInv, NEW w \in Workers, TakeExpand(w)
    PROVE  CourseInv'
<1>1. RowsOn /\ Still /\ texts' = texts /\ row' = row
  BY RowsSame DEF TakeExpand, Still
<1>2. CASE run' = run
  BY <1>1, <1>2, ChunkKeeps
<1>3. CASE campaign.state = "expanding"
           /\ run' = [run EXCEPT ![w] = [Idle EXCEPT !.pc = "page", !.cursor = campaign.cursor]]
  <2>1. /\ run'[w].pc = "page" /\ run'[w].cursor = campaign.cursor /\ run'[w].late = 0
        /\ run'[w].blind = 0
        /\ \A v \in Workers : v # w => run'[v] = run[v]
    BY <1>3 DEF Loose, Idle
  <2>2. Course(w)'
    BY <1>1, <1>3, <2>1 DEF Course, CourseInv, Walked, Written, Sending
  <2>3. Brake(w)'
    BY <2>1, Blocks DEF Brake
  <2> QED
    BY <1>1, <2>1, <2>2, <2>3, ChunkKeeps
<1> QED
  BY <1>2, <1>3 DEF TakeExpand

LEMMA TakeSendCourse ==
    ASSUME Loose, Loose', CourseInv, NEW w \in Workers, TakeSend(w)
    PROVE  CourseInv'
<1>1. RowsOn /\ Still /\ texts' = texts /\ row' = row
  BY RowsSame DEF TakeSend, Still
<1>2. CASE run' = run
  BY <1>1, <1>2, ChunkKeeps
<1>3. CASE campaign.state \in {"ready", "sending"}
           /\ run' = [run EXCEPT ![w] = [Idle EXCEPT !.pc = "start", !.plan = campaign.state,
                                                     !.later = campaign.later]]
  <2>1. /\ run'[w].pc = "start" /\ run'[w].plan = campaign.state /\ run'[w].late = 0
        /\ run'[w].blind = 0
        /\ \A v \in Workers : v # w => run'[v] = run[v]
    BY <1>3 DEF Loose, Idle
  <2>2. Course(w)'
    BY <1>1, <1>3, <2>1 DEF Course, CourseInv, Walked, Written, Sending, Still, Begun, Editable
  <2>3. Brake(w)'
    BY <2>1, Blocks DEF Brake
  <2> QED
    BY <1>1, <2>1, <2>2, <2>3, ChunkKeeps
<1> QED
  BY <1>2, <1>3 DEF TakeSend

\* The page is written behind what was; the last one has written them all.
LEMMA PageCourse ==
    ASSUME Loose, Loose', CourseInv, NEW w \in Workers, Page(w)
    PROVE  CourseInv'
<1> DEFINE from == run[w].cursor
           page == {a \in Accounts : from < a /\ a <= from + PageSize}
<1>1. PICK blocked \in SUBSET page :
        row' = [a \in Accounts |->
                  IF a \in page /\ row[a].state = "none"
                  THEN [row[a] EXCEPT !.state = IF a \in blocked THEN "closed" ELSE "pending"]
                  ELSE row[a]]
  BY DEF Page
<1>2. /\ from \in Nat /\ from + PageSize \in Nat /\ Audience \in Nat /\ Accounts \subseteq Nat
      /\ \A a \in Accounts : a <= Audience
  <2>1. run[w] \in LooseJob
    BY DEF Loose
  <2>2. from \in Nat
    BY <2>1 DEF LooseJob
  <2> HIDE DEF from
  <2> QED
    BY <2>2, Numbers DEF Accounts
<1>3. \A a \in Accounts :
        row'[a].state = IF a \in page /\ row[a].state = "none"
                        THEN IF a \in blocked THEN "closed" ELSE "pending" ELSE row[a].state
  <2>1. ASSUME NEW c \in Recipient, NEW s
        PROVE  [c EXCEPT !.state = s].state = s
    BY DEF Recipient
  <2>2. \A a \in Accounts : row[a] \in Recipient
    BY DEF Loose
  <2> HIDE DEF page
  <2> QED
    BY <1>1, <2>1, <2>2
<1>4. RowsOn
  BY <1>3 DEF RowsOn, Settled
<1>5. Written(from)
  BY DEF CourseInv, Course, Page, At
<1>6. \A a \in Accounts : a <= from + PageSize => row'[a].state # "none"
  BY <1>2, <1>3, <1>5 DEF Written
<1>7. Done(w) /\ outcome' = outcome /\ texts' = texts
  BY DEF Page
<1>8. CASE campaign.state = "expanding"
  <2> DEFINE cursor == IF LastPage(from) THEN 0 ELSE from + PageSize
             state == IF LastPage(from) THEN "ready" ELSE "expanding"
  <2>1. campaign' = [Touched(campaign) EXCEPT !.cursor = cursor, !.state = state]
    BY <1>8 DEF Page
  <2> HIDE DEF cursor, state
  <2>2. campaign'.state = state /\ campaign'.cursor = cursor
    BY <2>1 DEF Loose, LooseCampaign, Touched
  <2>3. /\ state \in {"ready", "expanding"}
        /\ state = "ready" => from + PageSize >= Audience
        /\ state = "expanding" => cursor = from + PageSize
    BY DEF state, cursor, LastPage
  <2>4. Walked'
    <3>1. CASE state = "ready"
      <4>1. \A a \in Accounts : row'[a].state # "none"
        <5>1. from + PageSize >= Audience
          BY <2>3, <3>1
        <5> HIDE DEF from
        <5>2. \A a \in Accounts : a <= from + PageSize
          BY <1>2, <5>1
        <5> QED
          BY <1>6, <5>2
      <4> QED
        BY <2>2, <3>1, <4>1 DEF Walked, Written
    <3>2. CASE state = "expanding"
      BY <1>6, <2>2, <2>3, <3>2 DEF Walked, Written
    <3> QED
      BY <2>3, <3>1, <3>2
  <2>5. Told'
    BY <1>7, <1>8, <2>2, <2>3 DEF CourseInv, Told
  <2>6. On
    BY <1>4, <1>8, <2>2, <2>3 DEF On, CampaignOn, NotResumed, Begun, Editable
  <2>7. Read'
    BY <1>7, <2>6, SameTexts DEF CourseInv
  <2> QED
    BY <1>7, <2>4, <2>5, <2>6, <2>7, DoneFact, IdleCourse, TogetherKeeps
<1>9. CASE campaign.state # "expanding"
  <2>1. Still
    BY <1>7, <1>9 DEF Page, Still
  <2> QED
    BY <1>4, <1>7, <2>1, DoneKeeps
<1> QED
  BY <1>8, <1>9

LEMMA UnsoundCourse ==
    ASSUME Loose, Loose', CourseInv, NEW w \in Workers, Unsound(w)
    PROVE  CourseInv'
<1>1. RowsOn /\ Done(w) /\ outcome' = outcome /\ texts' = texts
  BY RowsSame DEF Unsound
<1>2. CASE campaign' = campaign
  BY <1>1, <1>2, DoneKeeps DEF Still
<1>3. CASE campaign.state \notin Terminal
           /\ campaign' = [Touched(campaign) EXCEPT !.state = "failed"]
  <2>1. campaign'.state = "failed"
    BY <1>3 DEF Loose, LooseCampaign, Touched
  <2>2. Walked' /\ Told' /\ On
    BY <1>1, <1>3, <2>1, EndsWithNone DEF CourseInv
  <2> QED
    BY <1>1, <2>2, SameTexts, DoneFact, IdleCourse, TogetherKeeps DEF CourseInv
<1> QED
  BY <1>2, <1>3 DEF Unsound

\* Nobody sends yet for a campaign that begins.
LEMMA StartCourse ==
    ASSUME Loose, Loose', CourseInv, NEW w \in Workers, Start(w)
    PROVE  CourseInv'
<1>1. RowsOn /\ outcome' = outcome /\ texts' = texts /\ run[w].pc = "start"
  BY RowsSame DEF Start, At
<1>2. Written(Audience) /\ campaign.state # "expanding"
  BY <1>1 DEF CourseInv, Course
<1>3. \/ campaign' = campaign
      \/ campaign.state = "ready" /\ campaign'.state = "sending"
  BY DEF Start, Loose, LooseCampaign, Touched
<1>4. Walked' /\ Told' /\ On
  <2>1. CASE campaign' = campaign
    BY <1>1, <2>1, StillKeeps DEF CourseInv, Still
  <2>2. CASE campaign.state = "ready" /\ campaign'.state = "sending"
    BY <1>1, <1>2, <2>2, WrittenOn
       DEF CourseInv, Walked, Told, Written, On, CampaignOn, NotResumed, Begun, Editable
  <2> QED
    BY <1>3, <2>1, <2>2
<1>5. Read'
  BY <1>1, <1>4, SameTexts DEF CourseInv
<1>6. CASE Done(w)
  BY <1>4, <1>5, <1>6, DoneFact, IdleCourse, TogetherKeeps
<1>7. CASE Begin(w) /\ Begun'
  <2>1. /\ run'[w].pc = "bodies" /\ run'[w].late = 0 /\ run'[w].blind = 0
        /\ \A v \in Workers : v # w => run'[v] = run[v]
    BY <1>7 DEF Begin, Loose, Idle
  <2>2. \A a \in Accounts : a <= Audience => row'[a].state # "none"
    BY <1>1, <1>2, WrittenOn
  <2>3. Course(w)'
    BY <1>2, <1>4, <1>7, <2>1, <2>2 DEF Course, Written, Sending, On, CampaignOn
  <2>4. Brake(w)'
    BY <2>1, Blocks DEF Brake
  <2> QED
    BY <1>4, <1>5, <2>1, <2>3, <2>4, TogetherKeeps
<1>8. Begin(w) => Begun'
  <2>1. CASE run[w].plan = "sending"
    <3>1. Begun
      BY <1>1, <2>1 DEF CourseInv, Course
    <3> QED
      BY <1>4, <3>1 DEF On, CampaignOn
  <2>2. CASE run[w].plan # "sending" /\ Begin(w)
    <3>1. ~ Done(w)
      BY <2>2 DEF Begin, Done, Loose, Idle
    <3>2. campaign' = IF campaign.state = "ready"
                      THEN [Touched(campaign) EXCEPT !.state = "sending"] ELSE campaign
      BY <2>2, <3>1 DEF Start
    <3> QED
      BY <1>2, <3>2 DEF Begun, Editable, Loose, LooseCampaign, States, Touched
  <2> QED
    BY <2>1, <2>2
<1> QED
  BY <1>6, <1>7, <1>8 DEF Start

LEMMA BodiesCourse ==
    ASSUME Loose, Loose', CourseInv, NEW w \in Workers, Bodies(w)
    PROVE  CourseInv'
<1>1. RowsOn /\ Still /\ texts' = texts /\ run[w].pc = "bodies"
  BY RowsSame DEF Bodies, Still, At
<1>2. CASE Done(w)
  BY <1>1, <1>2, DoneKeeps
<1>3. CASE run' = [run EXCEPT ![w].pc = "claim", ![w].text = "current",
                              ![w].todo = First(ChunkSize, In("pending"))]
  <2>1. /\ run'[w].pc = "claim" /\ run'[w].text = "current" /\ run'[w].late = run[w].late
        /\ run'[w].blind = run[w].blind
        /\ \A v \in Workers : v # w => run'[v] = run[v]
    BY <1>3 DEF Loose, LooseJob
  <2>2. On => Course(w)'
    BY <1>1, <2>1, GoesOn DEF CourseInv, Sending
  <2>3. Brake(w)'
    BY <1>1, <2>1 DEF CourseInv, Brake
  <2> QED
    BY <1>1, <2>1, <2>2, <2>3, ChunkKeeps
<1> QED
  BY <1>2, <1>3 DEF Bodies

\* What is left of a chunk is given up: what it sent late stays counted.
LEMMA OverCourse ==
    ASSUME Loose, Loose', CourseInv, NEW w \in Workers, run[w].pc \in {"claim", "release"},
           RowsOn, Still, texts' = texts, Over(w)
    PROVE  CourseInv'
<1>1. /\ run'[w].pc = "tally" /\ run'[w].late = run[w].late /\ run'[w].blind = run[w].blind
      /\ \A v \in Workers : v # w => run'[v] = run[v]
  BY DEF Over, Loose, LooseJob
<1>2. On => Course(w)'
  BY <1>1, GoesOn DEF CourseInv, Sending
<1>3. Brake(w)'
  BY <1>1 DEF CourseInv, Brake, Still
<1> QED
  BY <1>1, <1>2, <1>3, ChunkKeeps

\* Marking rows that are open, as anything but unwritten.
LEMMA MarkedOn ==
    ASSUME Loose, NEW A \in SUBSET Accounts, NEW state, state # "none",
           \A a \in A : row[a].state \notin Settled, row' = Mark(A, state)
    PROVE  RowsOn
<1>1. \A a \in Accounts : row'[a] = IF a \in A THEN [state |-> state, stale |-> FALSE]
                                    ELSE row[a]
  BY DEF Mark
<1> QED
  BY <1>1 DEF RowsOn

LEMMA ClaimCourse ==
    ASSUME Loose, Loose', CourseInv, NEW w \in Workers, Claim(w)
    PROVE  CourseInv'
<1> DEFINE won == run[w].todo \intersect In("pending")
<1>1. Still /\ texts' = texts /\ run[w].pc = "claim"
  BY DEF Claim, Still, At
<1>2. PICK ok \in BOOLEAN :
        /\ row' = IF ok THEN Mark(won, "sending") ELSE row
        /\ IF ~ok THEN Done(w)
           ELSE IF won = {} THEN Over(w)
           ELSE run' = [run EXCEPT ![w].pc = "deliver", ![w].todo = won, ![w].claimed = TRUE]
  BY DEF Claim, Goes
<1>3. RowsOn
  <2>1. won \subseteq Accounts /\ \A a \in won : row[a].state \notin Settled
    BY DEF In, Settled
  <2> HIDE DEF won
  <2> QED
    BY <1>2, <2>1, MarkedOn, RowsSame
<1>4. CASE Done(w)
  BY <1>1, <1>3, <1>4, DoneKeeps
<1>5. CASE Over(w)
  BY <1>1, <1>3, <1>5, OverCourse
<1>6. CASE run' = [run EXCEPT ![w].pc = "deliver", ![w].todo = won, ![w].claimed = TRUE]
  <2> HIDE DEF won
  <2>1. /\ run'[w].pc = "deliver" /\ run'[w].text = run[w].text /\ run'[w].late = run[w].late
        /\ run'[w].blind = run[w].blind /\ run'[w].done = run[w].done
        /\ run'[w].blind \in Nat /\ run'[w].done \in Nat
        /\ \A v \in Workers : v # w => run'[v] = run[v]
    BY <1>6 DEF Loose, LooseJob
  <2>2. On => Course(w)'
    BY <1>1, <2>1, GoesOn DEF CourseInv, Course, Sending
  <2>3. run[w].late = 0
    BY <1>1 DEF CourseInv, Brake
  <2>4. /\ 0 <= CheckEvery * run'[w].blind + (run'[w].done % CheckEvery)
        /\ 0 <= CheckEvery * (1 + run'[w].blind)
    <3>1. /\ CheckEvery * run'[w].blind \in Nat /\ CheckEvery * (1 + run'[w].blind) \in Nat
          /\ run'[w].done % CheckEvery \in Nat
      BY <2>1, Blocks
    <3> QED
      BY <3>1
  <2>5. Brake(w)'
    BY <2>1, <2>3, <2>4 DEF Brake
  <2> QED
    BY <1>1, <1>3, <2>1, <2>2, <2>5, ChunkKeeps
<1> QED
  BY <1>2, <1>4, <1>5, <1>6

\* A look that fails lets one more block go, one that succeeds ends a stopped campaign.
LEMMA CheckCourse ==
    ASSUME Loose, Loose', CourseInv, NEW w \in Workers, Check(w)
    PROVE  CourseInv'
<1>1. RowsOn /\ Still /\ texts' = texts /\ run[w].pc = "check"
  BY RowsSame DEF Check, Still, At
<1>2. PICK ok \in BOOLEAN :
        run' = [run EXCEPT ![w].blind = IF ok THEN @ ELSE @ + 1,
                           ![w].pc = IF ok /\ campaign.state # "sending"
                                     THEN "release" ELSE "deliver"]
  BY DEF Check, Goes
<1>3. run \in [Workers -> LooseJob]
  BY DEF Loose
<1>4. /\ run'[w].blind = IF ok THEN run[w].blind ELSE run[w].blind + 1
      /\ run'[w].pc = IF ok /\ campaign.state # "sending" THEN "release" ELSE "deliver"
      /\ run'[w].text = run[w].text /\ run'[w].late = run[w].late /\ run'[w].done = run[w].done
      /\ \A v \in Workers : v # w => run'[v] = run[v]
  BY <1>2, <1>3 DEF LooseJob
<1>5. /\ run[w].blind \in Nat /\ run[w].done \in Nat /\ run[w].late \in Nat
      /\ run[w].late <= CheckEvery * (1 + run[w].blind)
      /\ campaign.state = "sending" => run[w].late = 0
  BY <1>3 DEF LooseJob, CourseInv, Brake
<1>6. On => Course(w)'
  <2>1. run'[w].pc \in {"release", "deliver"} /\ run'[w].text = "current"
    BY <1>1, <1>4 DEF CourseInv, Course
  <2> QED
    BY <1>1, <2>1, GoesOn DEF CourseInv, Sending
<1>7. Brake(w)'
  <2>1. /\ CheckEvery * run'[w].blind \in Nat
        /\ CheckEvery * (1 + run'[w].blind) = CheckEvery * run'[w].blind + CheckEvery
        /\ run'[w].done % CheckEvery \in Nat /\ CheckEvery \in Nat
    <3>1. run'[w].blind \in Nat /\ run'[w].done \in Nat
      BY <1>4, <1>5
    <3> QED
      BY <3>1, Blocks, Numbers
  <2>2. CASE ok /\ campaign.state # "sending"
    BY <1>1, <1>4, <1>5, <2>2 DEF Brake, Still
  <2>3. CASE ok /\ campaign.state = "sending"
    <3>1. run'[w].late = 0 /\ run'[w].pc = "deliver"
      BY <1>4, <1>5, <2>3
    <3>2. /\ 0 <= CheckEvery * run'[w].blind + (run'[w].done % CheckEvery)
          /\ 0 <= CheckEvery * (1 + run'[w].blind)
      BY <2>1
    <3> QED
      BY <3>1, <3>2 DEF Brake
  <2>4. CASE ~ok
    <3>1. /\ run'[w].late = run[w].late /\ run'[w].pc = "deliver"
          /\ run'[w].blind = 1 + run[w].blind
      BY <1>4, <1>5, <2>4
    <3>2. run[w].late <= CheckEvery * run'[w].blind
      BY <1>5, <3>1
    <3>3. /\ run'[w].late <= CheckEvery * run'[w].blind + (run'[w].done % CheckEvery)
          /\ run'[w].late <= CheckEvery * (1 + run'[w].blind)
      BY <1>5, <2>1, <3>1, <3>2
    <3> QED
      BY <1>1, <1>5, <3>1, <3>3 DEF Brake, Still
  <2> QED
    BY <2>2, <2>3, <2>4
<1> QED
  BY <1>1, <1>4, <1>6, <1>7, ChunkKeeps

\* A message of a stopped campaign is one more of its block.
LEMMA SettleCourse ==
    ASSUME Loose, Loose', CourseInv, NEW w \in Workers, run[w].pc = "deliver",
           run[w].todo # {}, NEW verdict \in Settled, NEW gone \in BOOLEAN,
           Settle(w, verdict, gone), campaign' = campaign, outcome' = outcome
    PROVE  CourseInv'
<1> DEFINE a == Least(run[w].todo)
           rest == run[w].todo \ {a}
           late == run[w].late + IF gone /\ campaign.state # "sending" THEN 1 ELSE 0
           done == run[w].done + 1
           step == IF rest = {} THEN "tally"
                   ELSE IF done % CheckEvery = 0 THEN "check" ELSE "deliver"
<1>1. run \in [Workers -> LooseJob] /\ run[w] \in LooseJob
  BY DEF Loose
<1>2. a \in Accounts
  BY <1>1, LeastIsOne DEF LooseJob
<1>3. /\ row' = row \/ (row[a].state = "sending" /\ row' = Mark({a}, verdict))
      /\ \/ run' = [run EXCEPT ![w].todo = rest, ![w].done = done, ![w].late = late,
                               ![w].pc = step]
         \/ Done(w)
      /\ texts' = IF gone THEN texts \union {run[w].text} ELSE texts
  BY DEF Settle
<1>4. Begun /\ run[w].text = "current"
  BY DEF CourseInv, Course, Sending
<1>5. RowsOn
  <2>1. "sending" \notin Settled /\ verdict # "none"
    BY DEF Settled
  <2> HIDE DEF a
  <2> QED
    BY <1>2, <1>3, <2>1, MarkedOn, RowsSame
<1>6. Walked' /\ Told' /\ On
  BY <1>5, StillKeeps DEF CourseInv, Still
<1>7. Read'
  BY <1>3, <1>4, <1>6 DEF CourseInv, Read, On, CampaignOn
<1>8. CASE Done(w)
  BY <1>6, <1>7, <1>8, DoneFact, IdleCourse, TogetherKeeps
<1>9. CASE run' = [run EXCEPT ![w].todo = rest, ![w].done = done, ![w].late = late,
                              ![w].pc = step]
  <2>1. /\ step \in {"tally", "check", "deliver"}
        /\ step = "deliver" => done % CheckEvery # 0
    OBVIOUS
  <2>2. /\ late \in {run[w].late, run[w].late + 1}
        /\ campaign.state = "sending" => late = run[w].late
    BY <1>1 DEF LooseJob
  <2>3. done = run[w].done + 1
    OBVIOUS
  <2> HIDE DEF a, rest, late, done, step
  <2>4. /\ run'[w].pc = step /\ run'[w].late = late /\ run'[w].done = done
        /\ run'[w].text = run[w].text /\ run'[w].blind = run[w].blind
        /\ \A v \in Workers : v # w => run'[v] = run[v]
    BY <1>1, <1>9 DEF LooseJob
  <2>5. Course(w)'
    BY <1>4, <1>6, <2>1, <2>4, GoesOn DEF CourseInv, Sending
  <2>6. /\ run[w].blind \in Nat /\ run[w].done \in Nat /\ run[w].late \in Nat
        /\ run[w].late <= CheckEvery * run[w].blind + (run[w].done % CheckEvery)
        /\ campaign.state = "sending" => run[w].late = 0
    BY <1>1 DEF LooseJob, CourseInv, Brake
  <2>7. /\ CheckEvery * run[w].blind \in Nat /\ CheckEvery \in Nat
        /\ CheckEvery * (1 + run[w].blind) = CheckEvery * run[w].blind + CheckEvery
        /\ run[w].done % CheckEvery \in Nat /\ run[w].done % CheckEvery < CheckEvery
        /\ done % CheckEvery # 0 => done % CheckEvery = (run[w].done % CheckEvery) + 1
    BY <2>3, <2>6, Blocks, Numbers
  <2>8. late <= CheckEvery * (1 + run[w].blind)
    BY <2>2, <2>6, <2>7
  <2>9. step = "deliver" => late <= CheckEvery * run[w].blind + (done % CheckEvery)
    BY <2>1, <2>2, <2>6, <2>7
  <2>10. Brake(w)'
    BY <2>1, <2>2, <2>4, <2>6, <2>8, <2>9 DEF Brake
  <2> QED
    BY <1>6, <1>7, <2>4, <2>5, <2>10, TogetherKeeps
<1> QED
  BY <1>3, <1>8, <1>9

LEMMA FloodCourse ==
    ASSUME Loose, Loose', CourseInv, NEW w \in Workers, Flood(w)
    PROVE  CourseInv'
<1>1. RowsOn /\ Still /\ texts' = texts /\ run[w].pc = "deliver" /\ Goto(w, "release")
  BY RowsSame DEF Flood, Still, At
<1>2. /\ run'[w].pc = "release" /\ run'[w].text = run[w].text /\ run'[w].late = run[w].late
      /\ run'[w].blind = run[w].blind
      /\ \A v \in Workers : v # w => run'[v] = run[v]
  BY <1>1 DEF Goto, Loose, LooseJob
<1>3. On => Course(w)'
  BY <1>1, <1>2, GoesOn DEF CourseInv, Course, Sending
<1>4. Brake(w)'
  BY <1>1, <1>2 DEF CourseInv, Brake, Still
<1> QED
  BY <1>1, <1>2, <1>3, <1>4, ChunkKeeps

LEMMA ReleaseCourse ==
    ASSUME Loose, Loose', CourseInv, NEW w \in Workers, Release(w)
    PROVE  CourseInv'
<1>1. /\ Still /\ texts' = texts /\ run[w].pc = "release" /\ Over(w)
      /\ \E kept : row' = Mark((run[w].todo \ kept) \intersect In("sending"), "pending")
  BY DEF Release, Still, At
<1>2. RowsOn
  <2>1. PICK kept : row' = Mark((run[w].todo \ kept) \intersect In("sending"), "pending")
    BY <1>1
  <2> DEFINE back == (run[w].todo \ kept) \intersect In("sending")
  <2>2. back \subseteq Accounts /\ \A a \in back : row[a].state \notin Settled
    BY DEF In, Settled
  <2> HIDE DEF back
  <2> QED
    BY <2>1, <2>2, MarkedOn DEF back
<1> QED
  BY <1>1, <1>2, OverCourse

\* Rows that are abandoned are out.
LEMMA AgedOn ==
    ASSUME Loose, row' = Aged \/ row' = row
    PROVE  RowsOn /\ In("sent")' = In("sent")
<1>1. Stale \subseteq Accounts /\ \A a \in Stale : row[a].state = "sending"
  BY DEF Stale, In
<1>2. CASE row' = Aged
  <2>1. RowsOn
    BY <1>1, <1>2, MarkedOn DEF Aged, Settled
  <2>2. \A a \in Accounts : row'[a] = IF a \in Stale THEN [state |-> "unknown", stale |-> FALSE]
                                      ELSE row[a]
    BY <1>2 DEF Aged, Mark
  <2>3. \A a \in Accounts : row'[a].state = "sent" <=> row[a].state = "sent"
    BY <1>1, <2>2
  <2> QED
    BY <2>1, <2>3 DEF In
<1>3. CASE row' = row
  BY <1>3, RowsSame DEF In
<1> QED
  BY <1>2, <1>3

\* A tally that finds nothing left found it so for good.
LEMMA TallyCourse ==
    ASSUME Loose, Loose', CourseInv, NEW w \in Workers, Tally(w)
    PROVE  CourseInv'
<1> DEFINE open == {a \in Accounts : row'[a].state \in {"pending", "sending"}}
           job == [Idle EXCEPT !.pc = "close", !.claimed = run[w].claimed,
                               !.sent = Cardinality(In("sent")), !.left = Cardinality(open)]
<1>1. /\ row' = Aged \/ row' = row
      /\ campaign' = Touched(campaign) \/ campaign' = campaign
      /\ run' = [run EXCEPT ![w] = job] \/ run' = [run EXCEPT ![w] = Idle]
      /\ texts' = texts /\ outcome' = outcome /\ run[w].pc = "tally"
  BY DEF Tally, At
<1>2. RowsOn /\ In("sent")' = In("sent")
  BY <1>1, AgedOn
<1>3. Still
  BY <1>1 DEF Still, Touched, Loose, LooseCampaign
<1>4. CASE run' = [run EXCEPT ![w] = Idle]
  BY <1>1, <1>2, <1>3, <1>4, DoneKeeps DEF Done
<1>5. CASE run' = [run EXCEPT ![w] = job]
  <2>1. /\ run'[w].pc = "close" /\ run'[w].late = 0 /\ run'[w].blind = 0
        /\ run'[w].sent = Cardinality(In("sent")) /\ run'[w].left = Cardinality(open)
        /\ \A v \in Workers : v # w => run'[v] = run[v]
    BY <1>5 DEF Loose, Idle
  <2>2. \A a \in Accounts : a <= Audience => row'[a].state # "none"
    BY <1>1, <1>2, WrittenOn DEF CourseInv, Course, Sending
  <2>3. ASSUME Cardinality(open) = 0 PROVE Closed'
    <3>1. open = {}
      <4>1. open \in SUBSET Accounts
        OBVIOUS
      <4>2. IsFiniteSet(open)
        BY <4>1, Numbers
      <4> HIDE DEF open
      <4> QED
        BY <2>3, <4>2, FS_EmptySet
    <3>2. \A a \in Accounts : a <= Audience
      BY Numbers DEF Accounts
    <3>3. \A a \in Accounts : row'[a].state \in {"none", "pending", "sending"} \union Settled
      BY DEF Loose, Recipient
    <3>4. \A a \in Accounts : row'[a].state \notin {"none", "pending", "sending"}
      BY <2>2, <3>1, <3>2
    <3> QED
      BY <3>3, <3>4 DEF Closed
  <2> HIDE DEF open
  <2>4. On => Course(w)'
    BY <1>1, <1>2, <2>1, <2>2, <2>3 DEF CourseInv, Course, Sending, On, CampaignOn, Written
  <2>5. Brake(w)'
    BY <2>1, Blocks DEF Brake
  <2> QED
    BY <1>1, <1>2, <1>3, <2>1, <2>4, <2>5, ChunkKeeps
<1> QED
  BY <1>1, <1>4, <1>5

LEMMA CloseCourse ==
    ASSUME Loose, Loose', CourseInv, NEW w \in Workers, Close(w)
    PROVE  CourseInv'
<1>1. RowsOn /\ Still /\ row' = row /\ texts' = texts /\ run[w].pc = "close"
  BY RowsSame DEF Close, Still, At
<1>2. Done(w) \/ (run[w].left = 0 /\ Goto(w, "finish"))
  BY DEF Close
<1>3. CASE Done(w)
  BY <1>1, <1>3, DoneKeeps
<1>4. CASE run[w].left = 0 /\ Goto(w, "finish")
  <2>1. /\ run'[w].pc = "finish" /\ run'[w].left = 0 /\ run'[w].sent = run[w].sent
        /\ run'[w].late = run[w].late /\ run'[w].blind = run[w].blind
        /\ \A v \in Workers : v # w => run'[v] = run[v]
    BY <1>4 DEF Goto, Loose, LooseJob
  <2>2. /\ Written(Audience) /\ campaign.state # "expanding" /\ Begun
        /\ Closed /\ run[w].sent = Cardinality(In("sent"))
    BY <1>1, <1>4 DEF CourseInv, Course, Sending
  <2>3. Written(Audience)' /\ Closed' /\ In("sent")' = In("sent")
    BY <1>1, <2>2 DEF Written, Closed, In
  <2>4. On => Course(w)'
    BY <1>1, <2>1, <2>2, <2>3 DEF Course, Sending, On, CampaignOn, Still
  <2>5. Brake(w)'
    BY <1>1, <2>1 DEF CourseInv, Brake, Still
  <2> QED
    BY <1>1, <2>1, <2>4, <2>5, ChunkKeeps
<1> QED
  BY <1>2, <1>3, <1>4

\* The outcome is the tally of rows that are settled for good.
LEMMA FinishCourse ==
    ASSUME Loose, Loose', CourseInv, NEW w \in Workers, Finish(w)
    PROVE  CourseInv'
<1>1. RowsOn /\ row' = row /\ texts' = texts /\ Done(w) /\ run[w].pc = "finish"
  BY RowsSame DEF Finish, At
<1>2. CASE UNCHANGED <<campaign, outcome>>
  BY <1>1, <1>2, DoneKeeps DEF Still
<1>3. CASE /\ campaign.state \notin Terminal
           /\ campaign' = [Touched(campaign) EXCEPT !.state = "completed"]
           /\ outcome' = [rows |-> outcome.rows + 1, sent |-> run[w].sent]
  <2>1. campaign'.state = "completed"
    BY <1>3 DEF Loose, LooseCampaign, Touched
  <2>2. Written(Audience) /\ Closed /\ run[w].sent = Cardinality(In("sent"))
    BY <1>1 DEF CourseInv, Course, Sending
  <2>3. Written(Audience)' /\ Closed' /\ In("sent")' = In("sent")
    BY <1>1, <2>2 DEF Written, Closed, In
  <2>4. outcome.rows = 0
    BY <1>3 DEF CourseInv, Told, Terminal
  <2>5. Walked' /\ Told'
    BY <1>3, <2>1, <2>2, <2>3, <2>4 DEF Walked, Told
  <2>6. On
    BY <1>1, <2>1 DEF On, CampaignOn, NotResumed, Begun, Editable
  <2> QED
    BY <1>1, <2>5, <2>6, SameTexts, DoneFact, IdleCourse, TogetherKeeps DEF CourseInv
<1> QED
  BY <1>2, <1>3 DEF Finish

LEMMA CrashCourse ==
    ASSUME Loose, Loose', CourseInv, NEW w \in Workers, Crash(w)
    PROVE  CourseInv'
  BY RowsSame, DoneKeeps DEF Crash, Still

-----------------------------------------------------------------------------
\* Neither the sweep nor the clock nor an operator that moves no state.
LEMMA QuietCourse ==
    ASSUME Loose, Loose', CourseInv, RowsOn, Still, texts' = texts, run' = run
    PROVE  CourseInv'
<1>1. Walked' /\ Told' /\ On
  BY StillKeeps DEF CourseInv
<1> QED
  BY <1>1, SameTexts, TogetherKeeps DEF CourseInv

LEMMA LapseOn ==
    ASSUME Loose, NEW a \in Accounts, Lapse(a)
    PROVE  RowsOn
<1>1. row' = [row EXCEPT ![a].stale = TRUE]
  BY DEF Lapse
<1>2. \A b \in Accounts : row'[b].state = row[b].state
  BY <1>1 DEF Loose, Recipient
<1> QED
  BY <1>2 DEF RowsOn

LEMMA OthersCourse ==
    ASSUME Loose, Loose', CourseInv, Sweep \/ ClockOrPanel \/ \E a \in Accounts : Lapse(a)
    PROVE  CourseInv'
<1>0. campaign \in LooseCampaign /\ run \in [Workers -> LooseJob]
  BY DEF Loose
<1>1. CASE Sweep
  <2>1. row' = Aged \/ row' = row
    BY <1>1 DEF Sweep
  <2> QED
    BY <1>1, <2>1, AgedOn, QuietCourse DEF Sweep, Still
<1>2. CASE \E a \in Accounts : Lapse(a)
  <2>1. PICK a \in Accounts : Lapse(a)
    BY <1>2
  <2> QED
    BY <2>1, LapseOn, QuietCourse DEF Lapse, Still
<1>3. CASE Grow \/ Arrive \/ Unpark \/ Authorise
  <2>1. Still
    BY <1>0, <1>3 DEF Grow, Arrive, Unpark, Authorise, Still, LooseCampaign, Touched
  <2> QED
    BY <1>3, <2>1, RowsSame, QuietCourse DEF Grow, Arrive, Unpark, Authorise
<1>4. CASE Revise
  <2>1. /\ RowsOn /\ Still /\ ~ Begun /\ texts' = {Older[t] : t \in texts}
        /\ run' = [w \in Workers |-> [run[w] EXCEPT !.text = Older[@]]]
    BY <1>0, <1>4, RowsSame DEF Revise, Still, LooseCampaign, Touched, Begun
  <2>2. texts = {} /\ texts' = {}
    BY <2>1 DEF CourseInv, Read
  <2>3. Walked' /\ Told' /\ On /\ Read'
    BY <2>1, <2>2, StillKeeps DEF CourseInv, Read
  <2>4. ASSUME NEW w \in Workers PROVE Course(w)' /\ Brake(w)'
    <3>1. run[w].pc \notin Sending /\ Course(w) /\ Brake(w)
      BY <2>1 DEF CourseInv, Course
    <3>2. /\ run'[w].pc = run[w].pc /\ run'[w].cursor = run[w].cursor
          /\ run'[w].plan = run[w].plan /\ run'[w].late = run[w].late
          /\ run'[w].blind = run[w].blind
      BY <1>0, <2>1 DEF LooseJob
    <3>3. ASSUME NEW n, Written(n) PROVE \A a \in Accounts : a <= n => row'[a].state # "none"
      BY <2>1, <3>3, WrittenOn
    <3>4. Course(w)'
      BY <2>3, <3>1, <3>2, <3>3 DEF Course, On, CampaignOn, Written, Sending
    <3>5. Brake(w)'
      BY <2>1, <3>1, <3>2 DEF Brake, Still, Sending
    <3> QED
      BY <3>4, <3>5
  <2> QED
    BY <2>3, <2>4, TogetherKeeps
<1>5. CASE Resume
  <2>1. /\ campaign.state = "paused" /\ campaign'.state = "sending" /\ RowsOn /\ row' = row
        /\ texts' = texts /\ outcome' = outcome
        /\ run' = [w \in Workers |-> [run[w] EXCEPT !.late = 0]]
    BY <1>0, <1>5, RowsSame DEF Resume, LooseCampaign, Touched
  <2>2. Walked' /\ Told' /\ Read' /\ Begun /\ Begun'
    BY <2>1 DEF CourseInv, Walked, Told, Read, Written, Begun, Editable
  <2>3. ASSUME NEW w \in Workers PROVE Course(w)' /\ Brake(w)'
    <3>1. Course(w) /\ Brake(w) /\ run'[w] = [run[w] EXCEPT !.late = 0]
      BY <2>1 DEF CourseInv
    <3>2. /\ run'[w].pc = run[w].pc /\ run'[w].cursor = run[w].cursor
          /\ run'[w].plan = run[w].plan /\ run'[w].left = run[w].left
          /\ run'[w].sent = run[w].sent /\ run'[w].text = run[w].text
          /\ run'[w].blind = run[w].blind /\ run'[w].done = run[w].done
          /\ run'[w].late = 0 /\ run'[w].blind \in Nat /\ run'[w].done \in Nat
      BY <1>0, <3>1 DEF LooseJob
    <3>3. In("sent")' = In("sent")
      BY <2>1 DEF In
    <3>4. Course(w)'
      BY <2>1, <2>2, <3>1, <3>2, <3>3 DEF Course, Written, Closed
    <3>5. /\ 0 <= CheckEvery * run'[w].blind + (run'[w].done % CheckEvery)
          /\ 0 <= CheckEvery * (1 + run'[w].blind)
      <4>1. /\ CheckEvery * run'[w].blind \in Nat /\ CheckEvery * (1 + run'[w].blind) \in Nat
            /\ run'[w].done % CheckEvery \in Nat
        BY <3>2, Blocks
      <4> QED
        BY <4>1
    <3>6. Brake(w)'
      BY <3>2, <3>5 DEF Brake
    <3> QED
      BY <3>4, <3>6
  <2> QED
    BY <2>2, <2>3 DEF CourseInv
<1>6. CASE Pause
  <2>1. /\ campaign.state = "sending" /\ campaign'.state = "paused" /\ RowsOn /\ row' = row
        /\ texts' = texts /\ outcome' = outcome /\ run' = run
    BY <1>0, <1>6, RowsSame DEF Pause, LooseCampaign, Touched
  <2>2. Walked' /\ Told' /\ On
    BY <2>1 DEF CourseInv, Walked, Told, Written, On, CampaignOn, NotResumed, Begun, Editable
  <2> QED
    BY <2>1, <2>2, SameTexts, TogetherKeeps DEF CourseInv
<1>7. CASE Cancel
  <2>1. /\ campaign.state \notin Terminal /\ campaign'.state = "cancelled" /\ RowsOn
        /\ texts' = texts /\ outcome' = outcome /\ run' = run
    BY <1>0, <1>7, RowsSame DEF Cancel, LooseCampaign, Touched
  <2> QED
    BY <2>1, EndsWithNone, SameTexts, TogetherKeeps DEF CourseInv
<1> QED
  BY <1>1, <1>2, <1>3, <1>4, <1>5, <1>6, <1>7 DEF ClockOrPanel

LEMMA CourseInit == Init => CourseInv
<1> SUFFICES ASSUME Init PROVE CourseInv
  OBVIOUS
<1>1. /\ campaign.state = "expanding" /\ campaign.cursor = 0 /\ outcome.rows = 0
      /\ texts = {}
  BY DEF Init
<1>2. Walked
  <2>1. \A a \in Accounts : ~ (a <= 0)
    BY Numbers DEF Accounts
  <2> QED
    BY <1>1, <2>1 DEF Walked, Written
<1>3. ASSUME NEW w \in Workers PROVE Course(w) /\ Brake(w)
  <2>1. run[w].pc = "idle" /\ run[w].late = 0 /\ run[w].blind = 0
    BY DEF Init, Idle
  <2> QED
    BY <2>1, Blocks DEF Course, Brake, Sending
<1> QED
  BY <1>1, <1>2, <1>3 DEF CourseInv, Told, Read

LEMMA CourseStep == SendInv /\ SendInv' /\ CourseInv /\ [Next]_vars => CourseInv'
<1> SUFFICES ASSUME SendInv, SendInv', CourseInv, [Next]_vars PROVE CourseInv'
  OBVIOUS
<1>1. Loose /\ Loose'
  BY DEF SendInv
<1>2. ASSUME NEW w \in Workers, Work(w) \/ Flood(w) \/ Crash(w) PROVE CourseInv'
  <2>1. CASE TakeExpand(w) \/ TakeSend(w) \/ Expansion(w)
    BY <1>1, <2>1, TakeExpandCourse, TakeSendCourse, PageCourse, UnsoundCourse DEF Expansion
  <2>2. CASE Start(w) \/ Bodies(w) \/ Claim(w) \/ Check(w) \/ Release(w)
    BY <1>1, <2>2, StartCourse, BodiesCourse, ClaimCourse, CheckCourse, ReleaseCourse
  <2>3. CASE Undeliverable(w) \/ Deliver(w)
    <3>1. {"sent", "closed"} \subseteq Settled
      BY DEF Settled
    <3>2. run[w].pc = "deliver" /\ run[w].todo # {}
      BY <2>3 DEF Undeliverable, Deliver, At, SendInv, Mine, Held
    <3> QED
      BY <1>1, <2>3, <3>1, <3>2, SettleCourse DEF Undeliverable, Deliver
  <2>4. CASE Tally(w) \/ Close(w) \/ Finish(w)
    BY <1>1, <2>4, TallyCourse, CloseCourse, FinishCourse
  <2>5. CASE Flood(w) \/ Crash(w)
    BY <1>1, <2>5, FloodCourse, CrashCourse
  <2> QED
    BY <1>2, <2>1, <2>2, <2>3, <2>4, <2>5 DEF Work, Chunk
<1>3. CASE Sweep \/ ClockOrPanel \/ \E a \in Accounts : Lapse(a)
  BY <1>1, <1>3, OthersCourse
<1>4. CASE UNCHANGED vars
  BY <1>1, <1>4, RowsSame, QuietCourse DEF vars, Still
<1> QED
  BY <1>2, <1>3, <1>4 DEF Next, ClockOrPanel

LEMMA CourseHolds == Spec => [](SendInv /\ CourseInv)
<1>1. Init => SendInv /\ CourseInv
  BY InitHolds, CourseInit
<1>2. (SendInv /\ CourseInv) /\ [Next]_vars => (SendInv /\ CourseInv)'
  BY StepKeeps, CourseStep
<1> QED
  BY <1>1, <1>2, PTL DEF Spec

\* db.broadcasts and broadcast_job, the pages, the tally and mark_finished: when the
\* last page brings a campaign to ready everybody has a row; when it is completed no row
\* is out, and the one outcome counts those sent, though the tally and the finish are
\* transactions of their own and other jobs run in between.
THEOREM AudienceIsWhole == Spec => []WholeAudience
<1>1. SendInv /\ CourseInv => WholeAudience
  <2> SUFFICES ASSUME SendInv, CourseInv PROVE WholeAudience
    OBVIOUS
  <2>1. campaign.state \in {"ready", "sending", "paused", "completed"} => In("none") = {}
    <3>1. \A a \in Accounts : a <= Audience
      BY Numbers DEF Accounts
    <3> QED
      BY <3>1 DEF CourseInv, Walked, Written, In
  <2>2. campaign.state = "completed" => In("pending") \union In("sending") = {}
    BY DEF CourseInv, Told, Closed, Settled, In
  <2> QED
    BY <2>1, <2>2 DEF CourseInv, Told, WholeAudience
<1> QED
  BY CourseHolds, <1>1, PTL

\* broadcast_job, the look at the campaign every PAUSE_CHECK_EVERY messages: what an
\* execution sends after a stop is a block, and one for every look that failed.
THEOREM BrakesAreKept == Spec => []BrakesHold
<1>1. CourseInv => BrakesHold
  BY DEF CourseInv, Brake, BrakesHold
<1> QED
  BY CourseHolds, <1>1, PTL

\* The panel's revise and broadcast_job: no campaign of which a message went, and none
\* of which an execution holds a text, can be revised.
THEOREM OneTextForAll == Spec => []OneText
<1>1. CourseInv => OneText
  BY DEF CourseInv, Read, OneText
<1> QED
  BY CourseHolds, <1>1, PTL

-----------------------------------------------------------------------------
(***************************************************************************)
(* The bounds of the types: an execution deals with SEND_CHUNK_SIZE rows   *)
(* at the most, whatever it claims and whatever it is stopped by.          *)
(***************************************************************************)
Within(job, left) ==
    /\ job.cursor <= Audience /\ job.left <= Audience /\ job.sent <= Audience
    /\ Cardinality(job.todo) + job.done <= ChunkSize
    /\ job.pc = "bodies" => job.done = 0
    /\ job.late <= job.done
    /\ job.blind + left <= MaxFaults

JobCounts == [{"expand", "send"} -> 0..MaxJobs]
Outcomes == [rows : Nat, sent : 0..Audience]
Limits ==
    /\ campaign.cursor <= Audience /\ jobs \in JobCounts /\ parked \in BOOLEAN
    /\ outcome \in Outcomes /\ luck \in 0..MaxFaults
    /\ \A w \in Workers : Within(run[w], luck)

\* What a step of one execution leaves as it was.
Ebbs == luck' \in 0..MaxFaults /\ luck' <= luck
OthersStay(w) == \A v \in Workers : v # w => run'[v] = run[v]
Framed == /\ campaign'.cursor <= Audience /\ jobs' \in JobCounts /\ parked' \in BOOLEAN
          /\ outcome' \in Outcomes

LEMMA Bounds == MaxJobs \in Nat \ {0} /\ MaxFaults \in Nat
  BY BroadcastAssumption DEF BroadcastAssumption

LEMMA Spent ==
    ASSUME luck \in 0..MaxFaults, NEW fault, NEW ok \in Goes(fault), Spend(ok)
    PROVE  Ebbs /\ ok \in BOOLEAN /\ (~ok => luck' = luck - 1)
<1>1. CASE fault \in Faults /\ luck > 0
  BY <1>1, Bounds DEF Goes, Spend, Ebbs
<1>2. CASE ~(fault \in Faults /\ luck > 0)
  <2>1. ok = TRUE
    BY <1>2 DEF Goes
  <2> QED
    BY <2>1, Bounds DEF Spend, Ebbs
<1> QED
  BY <1>1, <1>2

LEMMA Waiting ==
    ASSUME jobs \in JobCounts, NEW kind \in {"expand", "send"}, NEW ok
    PROVE  Queued(kind, ok) \in JobCounts
  BY Bounds DEF Queued, JobCounts

\* An execution that has not dealt with anything.
LEMMA AnewWithin ==
    ASSUME NEW job, job.cursor <= Audience, job.left = 0, job.sent = 0, job.done = 0,
           job.late = 0, job.blind = 0, job.todo = {}, NEW n \in 0..MaxFaults
    PROVE  Within(job, n)
<1>1. Cardinality(job.todo) = 0
  BY FS_EmptySet
<1>2. 0 <= Audience /\ 0 + 0 <= ChunkSize /\ 0 + n <= MaxFaults
  BY Numbers, Bounds
<1> QED
  BY <1>1, <1>2 DEF Within

LEMMA IdleWithin ==
    ASSUME NEW n \in 0..MaxFaults
    PROVE  /\ Idle.cursor = 0 /\ Idle.left = 0 /\ Idle.sent = 0 /\ Idle.done = 0
           /\ Idle.late = 0 /\ Idle.blind = 0 /\ Idle.todo = {} /\ Idle.pc = "idle"
           /\ Within(Idle, n)
<1>1. /\ Idle.cursor = 0 /\ Idle.left = 0 /\ Idle.sent = 0 /\ Idle.done = 0
      /\ Idle.late = 0 /\ Idle.blind = 0 /\ Idle.todo = {} /\ Idle.pc = "idle"
  BY DEF Idle
<1> QED
  BY <1>1, AnewWithin, Numbers

LEMMA OneJob ==
    ASSUME Loose, Loose', Limits, NEW w \in Workers, Ebbs, OthersStay(w),
           Within(run'[w], luck'), Framed
    PROVE  Limits'
<1>1. ASSUME NEW v \in Workers PROVE Within(run'[v], luck')
  <2>1. CASE v = w
    BY <2>1
  <2>2. CASE v # w
    <3>1. run'[v] = run[v] /\ Within(run[v], luck) /\ run[v].blind \in Nat
      BY <2>2 DEF OthersStay, Limits, Loose, LooseJob
    <3>2. run[v].blind + luck' <= MaxFaults
      BY <3>1, Bounds DEF Within, Ebbs, Limits
    <3> QED
      BY <3>1, <3>2 DEF Within
  <2> QED
    BY <2>1, <2>2
<1> QED
  BY <1>1 DEF Limits, Framed, Ebbs

\* An execution ends.
LEMMA DoneWithin ==
    ASSUME Loose, Loose', Limits, NEW w \in Workers, Done(w), Ebbs, Framed
    PROVE  Limits'
<1>1. run'[w] = Idle /\ OthersStay(w)
  BY DoneFact DEF OthersStay
<1>2. Within(run'[w], luck')
  BY <1>1, IdleWithin DEF Ebbs
<1> QED
  BY <1>1, <1>2, OneJob

\* The lowest n of a set of accounts are n at the most.
LEMMA FirstIsFew ==
    ASSUME NEW A \in SUBSET Accounts, NEW n \in Nat
    PROVE  /\ First(n, A) \in SUBSET Accounts /\ Cardinality(First(n, A)) <= n
<1> DEFINE F == First(n, A)
<1>1. F \in SUBSET A /\ F \in SUBSET Accounts /\ A \subseteq Nat /\ F \subseteq Nat
  <2>1. F \in SUBSET A
    BY DEF First
  <2>2. Accounts \subseteq Nat
    BY Numbers DEF Accounts
  <2> QED
    BY <2>1, <2>2
<1>2. IsFiniteSet(F) /\ Cardinality(F) \in Nat
  BY <1>1, Numbers
<1>3. CASE F = {}
  BY <1>3, FS_EmptySet
<1>4. CASE F # {}
  <2>1. PICK x \in F : \A y \in F : y <= x
    <3> DEFINE Turned == {a \in Nat : \E y \in F : a = Audience - y}
    <3>1. PICK y \in F : TRUE
      BY <1>4
    <3>2. \A b \in F : Audience - b \in Nat
      BY <1>1, Numbers DEF Accounts
    <3>3. Turned \subseteq Nat /\ Audience - y \in Turned
      BY <3>1, <3>2
    <3>4. PICK a \in Turned : \A b \in Turned : ~ (<<b, a>> \in OpToRel(<, Nat))
      BY <3>3, NatLessThanWellFounded, WFMin
    <3>5. PICK x \in F : a = Audience - x
      BY <3>4
    <3>6. ASSUME NEW z \in F, z > x PROVE FALSE
      <4>1. Audience - z \in Turned /\ Audience - z \in Nat
        BY <3>2, <3>6
      <4>2. Audience - z < a /\ a \in Nat
        BY <1>1, <3>2, <3>5, <3>6, <4>1, Numbers
      <4>3. <<Audience - z, a>> \in Nat \X Nat /\ <<Audience - z, a>>[1] < <<Audience - z, a>>[2]
        BY <4>1, <4>2
      <4>4. <<Audience - z, a>> \in OpToRel(<, Nat)
        BY <4>3 DEF OpToRel
      <4> QED
        BY <3>4, <4>1, <4>4
    <3> QED
      BY <1>1, <3>5, <3>6
  <2> DEFINE Before == {y \in A : y < x}
  <2>2. Cardinality(Before) < n
    BY DEF First
  <2>3. F \ {x} \subseteq Before
    BY <1>1, <2>1
  <2>4. IsFiniteSet(Before) /\ Cardinality(Before) \in Nat
    BY <1>1, Numbers
  <2> HIDE DEF Before, F
  <2>5. Cardinality(F \ {x}) = Cardinality(F) - 1
    BY <1>2, <2>1, FS_RemoveElement
  <2>6. Cardinality(F \ {x}) <= Cardinality(Before)
    BY <2>3, <2>4, FS_Subset
  <2>7. Cardinality(F) <= n
    BY <1>2, <2>2, <2>4, <2>5, <2>6
  <2> QED
    BY <1>1, <2>7 DEF F
<1> QED
  BY <1>1, <1>3, <1>4

\* Fewer rows, or none, are no more of them.
LEMMA Fewer ==
    ASSUME NEW A \in SUBSET Accounts, NEW B \in SUBSET A
    PROVE  /\ Cardinality(B) \in Nat /\ Cardinality(A) \in Nat
           /\ Cardinality(B) <= Cardinality(A) /\ Cardinality(A) <= Audience
           /\ \A a \in A : Cardinality(A \ {a}) = Cardinality(A) - 1
<1>1. IsFiniteSet(A) /\ Cardinality(A) \in Nat /\ IsFiniteSet(B) /\ Cardinality(B) \in Nat
  BY Numbers
<1>2. IsFiniteSet(Accounts) /\ Cardinality(Accounts) = Audience
  BY Numbers, FS_Interval DEF Accounts
<1> QED
  BY <1>1, <1>2, FS_Subset, FS_RemoveElement

\* Where an execution goes on with what it holds, or with less of it.
LEMMA NoMoreWithin ==
    ASSUME Loose, Loose', Limits, NEW w \in Workers, Ebbs, OthersStay(w), Framed,
           run'[w].cursor = run[w].cursor, run'[w].left = run[w].left,
           run'[w].sent = run[w].sent, run'[w].late = run[w].late,
           run'[w].blind = run[w].blind, run'[w].done = run[w].done,
           run'[w].todo \subseteq run[w].todo, run'[w].pc # "bodies"
    PROVE  Limits'
<1>1. run[w].todo \in SUBSET Accounts /\ run'[w].todo \in SUBSET run[w].todo
      /\ run[w].done \in Nat /\ run[w].blind \in Nat
  BY DEF Loose, LooseJob
<1>2. /\ Cardinality(run'[w].todo) \in Nat /\ Cardinality(run[w].todo) \in Nat
      /\ Cardinality(run'[w].todo) <= Cardinality(run[w].todo)
  BY <1>1, Fewer
<1>3. Within(run[w], luck) /\ luck \in 0..MaxFaults
  BY DEF Limits
<1>4. Cardinality(run'[w].todo) + run'[w].done <= ChunkSize
  BY <1>1, <1>2, <1>3, Numbers DEF Within
<1>5. run'[w].blind + luck' <= MaxFaults
  BY <1>1, <1>3, Bounds DEF Within, Ebbs
<1>6. Within(run'[w], luck')
  BY <1>3, <1>4, <1>5 DEF Within
<1> QED
  BY <1>6, OneJob

\* The other fields of a campaign that is touched, or whose state or instant changes.
LEMMA CursorStays ==
    ASSUME campaign \in LooseCampaign, NEW state, NEW later
    PROVE  /\ Touched(campaign) \in LooseCampaign
           /\ Touched(campaign).cursor = campaign.cursor
           /\ [Touched(campaign) EXCEPT !.state = state].cursor = campaign.cursor
           /\ [Touched(campaign) EXCEPT !.later = later].cursor = campaign.cursor
  BY DEF LooseCampaign, Touched

LEMMA Frame ==
    ASSUME Limits
    PROVE  /\ campaign'.cursor = campaign.cursor /\ UNCHANGED <<jobs, parked, outcome>>
                 => Framed
           /\ UNCHANGED luck => Ebbs
  BY Bounds DEF Limits, Framed, Ebbs

LEMMA TakeWithin ==
    ASSUME Loose, Loose', Limits, NEW w \in Workers, TakeExpand(w) \/ TakeSend(w)
    PROVE  Limits'
<1>1. UNCHANGED <<campaign, parked, outcome, luck>>
  BY DEF TakeExpand, TakeSend
<1>2. jobs' \in JobCounts
  <2>1. PICK kind \in {"expand", "send"} : jobs[kind] > 0 /\ jobs' = [jobs EXCEPT ![kind] = @ - 1]
    BY DEF TakeExpand, TakeSend
  <2>2. jobs[kind] \in 0..MaxJobs /\ jobs \in JobCounts
    BY DEF Limits, JobCounts
  <2>3. jobs[kind] - 1 \in 0..MaxJobs
    BY <2>1, <2>2, Bounds
  <2> QED
    BY <2>1, <2>2, <2>3 DEF JobCounts
<1>3. Ebbs /\ Framed
  BY <1>1, <1>2, Frame DEF Limits, Framed
<1>4. Idle \in LooseJob /\ run \in [Workers -> LooseJob] /\ campaign.cursor <= Audience
  BY IdleJob DEF Loose, Limits
<1>5. /\ Idle.left = 0 /\ Idle.sent = 0 /\ Idle.done = 0 /\ Idle.late = 0 /\ Idle.blind = 0
      /\ Idle.todo = {} /\ Idle.cursor = 0 /\ 0 <= Audience
  BY IdleWithin, Numbers, Bounds
<1>6. CASE UNCHANGED run
  <2>1. Within(run[w], luck)
    BY DEF Limits
  <2> QED
    BY <1>1, <1>3, <1>6, <2>1, OneJob DEF OthersStay
<1>7. CASE run' = [run EXCEPT ![w] = [Idle EXCEPT !.pc = "page", !.cursor = campaign.cursor]]
  <2> DEFINE job == [Idle EXCEPT !.pc = "page", !.cursor = campaign.cursor]
  <2>1. /\ job.left = 0 /\ job.sent = 0 /\ job.done = 0 /\ job.late = 0 /\ job.blind = 0
        /\ job.todo = {} /\ job.cursor = campaign.cursor /\ job.pc = "page"
    BY <1>4, <1>5 DEF LooseJob
  <2>2. run'[w] = job /\ OthersStay(w)
    BY <1>4, <1>7 DEF OthersStay
  <2> HIDE DEF job
  <2>3. Within(run'[w], luck')
    BY <1>3, <1>4, <1>5, <2>1, <2>2, AnewWithin DEF Ebbs
  <2> QED
    BY <1>3, <2>2, <2>3, OneJob
<1>8. CASE run' = [run EXCEPT ![w] = [Idle EXCEPT !.pc = "start", !.plan = campaign.state,
                                                  !.later = campaign.later]]
  <2> DEFINE job == [Idle EXCEPT !.pc = "start", !.plan = campaign.state,
                                 !.later = campaign.later]
  <2>1. /\ job.left = 0 /\ job.sent = 0 /\ job.done = 0 /\ job.late = 0 /\ job.blind = 0
        /\ job.todo = {} /\ job.cursor = 0 /\ job.pc = "start"
    BY <1>4, <1>5 DEF LooseJob
  <2>2. run'[w] = job /\ OthersStay(w)
    BY <1>4, <1>8 DEF OthersStay
  <2> HIDE DEF job
  <2>3. Within(run'[w], luck')
    BY <1>3, <1>4, <1>5, <2>1, <2>2, AnewWithin DEF Ebbs
  <2> QED
    BY <1>3, <2>2, <2>3, OneJob
<1> QED
  BY <1>6, <1>7, <1>8 DEF TakeExpand, TakeSend

LEMMA ExpansionWithin ==
    ASSUME Loose, Loose', Limits, NEW w \in Workers, Expansion(w)
    PROVE  Limits'
<1>0. campaign \in LooseCampaign /\ jobs \in JobCounts /\ luck \in 0..MaxFaults
  BY DEF Loose, Limits
<1>1. Done(w) /\ UNCHANGED <<parked, outcome>>
  BY DEF Expansion, Page, Unsound
<1>2. CASE UNCHANGED <<campaign, jobs, luck>>
  BY <1>1, <1>2, Frame, DoneWithin
<1>3. CASE Page(w) /\ campaign.state = "expanding"
  <2> DEFINE from == run[w].cursor
             cursor == IF LastPage(from) THEN 0 ELSE from + PageSize
             state == IF LastPage(from) THEN "ready" ELSE "expanding"
             kind == IF LastPage(from) THEN "send" ELSE "expand"
  <2>1. PICK ok \in Goes("enqueue") : Spend(ok) /\ jobs' = Queued(kind, ok)
    BY <1>3 DEF Page
  <2>2. campaign' = [Touched(campaign) EXCEPT !.cursor = cursor, !.state = state]
    BY <1>3 DEF Page
  <2>3. from \in Nat
    BY DEF Loose, LooseJob
  <2>4. cursor <= Audience /\ kind \in {"expand", "send"}
    BY <2>3, Numbers DEF LastPage
  <2> HIDE DEF cursor, state, kind, from
  <2>5. campaign'.cursor = cursor
    BY <1>0, <2>2 DEF LooseCampaign, Touched
  <2>6. Ebbs /\ jobs' \in JobCounts
    BY <1>0, <2>1, <2>4, Spent, Waiting
  <2> QED
    BY <1>1, <2>4, <2>5, <2>6, DoneWithin DEF Framed, Limits
<1>4. CASE Unsound(w)
  <2>1. PICK ok \in Goes("write") : Spend(ok)
    BY <1>4 DEF Unsound
  <2>2. campaign'.cursor = campaign.cursor /\ UNCHANGED jobs
    BY <1>0, <1>4, CursorStays DEF Unsound
  <2> QED
    BY <1>0, <1>1, <2>1, <2>2, Spent, Frame, DoneWithin
<1> QED
  BY <1>2, <1>3, <1>4 DEF Expansion, Page

LEMMA StartWithin ==
    ASSUME Loose, Loose', Limits, NEW w \in Workers, Start(w)
    PROVE  Limits'
<1>0. campaign \in LooseCampaign /\ luck \in 0..MaxFaults /\ run \in [Workers -> LooseJob]
  BY DEF Loose, Limits
<1>1. UNCHANGED <<jobs, parked, outcome>> /\ (Begin(w) \/ Done(w))
  BY DEF Start
<1>2. Ebbs /\ campaign'.cursor = campaign.cursor
  <2>1. CASE UNCHANGED <<campaign, luck>>
    BY <2>1, Frame
  <2>2. CASE ~UNCHANGED <<campaign, luck>>
    <3>1. PICK ok \in Goes("write") :
            /\ Spend(ok)
            /\ campaign' = IF ok /\ campaign.state = "ready"
                           THEN [Touched(campaign) EXCEPT !.state = "sending"] ELSE campaign
      BY <2>2 DEF Start
    <3> QED
      BY <1>0, <3>1, Spent, CursorStays
  <2> QED
    BY <2>1, <2>2
<1>3. Framed
  BY <1>1, <1>2, Frame
<1>4. CASE Begin(w)
  <2> DEFINE job == [Idle EXCEPT !.pc = "bodies"]
  <2>1. /\ job.left = 0 /\ job.sent = 0 /\ job.done = 0 /\ job.late = 0 /\ job.blind = 0
        /\ job.todo = {} /\ job.cursor = 0 /\ 0 <= Audience
    BY IdleJob, IdleWithin, Numbers, Bounds DEF LooseJob
  <2>2. run'[w] = job /\ OthersStay(w)
    BY <1>0, <1>4 DEF Begin, OthersStay
  <2> HIDE DEF job
  <2>3. Within(run'[w], luck')
    BY <1>2, <2>1, <2>2, AnewWithin DEF Ebbs
  <2> QED
    BY <1>2, <1>3, <2>2, <2>3, OneJob
<1>5. CASE Done(w)
  BY <1>2, <1>3, <1>5, DoneWithin
<1> QED
  BY <1>1, <1>4, <1>5

LEMMA BodiesWithin ==
    ASSUME Loose, Loose', Limits, NEW w \in Workers, Bodies(w)
    PROVE  Limits'
<1> DEFINE todo == First(ChunkSize, In("pending"))
<1>0. luck \in 0..MaxFaults /\ jobs \in JobCounts /\ run \in [Workers -> LooseJob]
  BY DEF Loose, Limits
<1>1. /\ UNCHANGED <<campaign, parked, outcome>> /\ run[w].pc = "bodies"
  BY DEF Bodies, At
<1>2. Ebbs /\ jobs' \in JobCounts
  <2>1. CASE parked
    <3>1. PICK ok \in Goes("enqueue") : Spend(ok) /\ jobs' = Queued("send", ok)
      BY <2>1 DEF Bodies
    <3> QED
      BY <1>0, <3>1, Spent, Waiting
  <2>2. CASE ~parked
    <3>1. PICK ok \in Goes("write") : Spend(ok) /\ UNCHANGED jobs
      BY <2>2 DEF Bodies
    <3> QED
      BY <1>0, <3>1, Spent
  <2> QED
    BY <2>1, <2>2
<1>3. Framed
  BY <1>1, <1>2 DEF Limits, Framed
<1>4. CASE Done(w)
  BY <1>2, <1>3, <1>4, DoneWithin
<1>5. CASE run' = [run EXCEPT ![w].pc = "claim", ![w].text = "current", ![w].todo = todo]
  <2>1. In("pending") \in SUBSET Accounts
    BY DEF In
  <2>2. todo \in SUBSET Accounts /\ Cardinality(todo) <= ChunkSize
    BY <2>1, FirstIsFew, Numbers
  <2> HIDE DEF todo
  <2> DEFINE job == [run[w] EXCEPT !.pc = "claim", !.text = "current", !.todo = todo]
  <2>3. run[w] \in LooseJob /\ run'[w] = job /\ OthersStay(w)
    BY <1>0, <1>5 DEF OthersStay
  <2>4. /\ job.pc = "claim" /\ job.todo = todo /\ job.cursor = run[w].cursor
        /\ job.left = run[w].left /\ job.sent = run[w].sent /\ job.done = run[w].done
        /\ job.late = run[w].late /\ job.blind = run[w].blind
    BY <2>3 DEF LooseJob
  <2>5. Within(run[w], luck) /\ run[w].blind \in Nat
    BY <2>3 DEF Limits, LooseJob
  <2>6. run[w].done = 0
    BY <1>1, <2>5 DEF Within
  <2> HIDE DEF job
  <2>7. Cardinality(job.todo) + job.done <= ChunkSize
    BY <2>2, <2>4, <2>6, Fewer, Numbers
  <2>8. job.blind + luck' <= MaxFaults
    BY <1>0, <1>2, <2>4, <2>5, Bounds DEF Within, Ebbs
  <2>9. Within(job, luck')
    BY <2>4, <2>5, <2>7, <2>8 DEF Within
  <2> QED
    BY <1>2, <1>3, <2>3, <2>9, OneJob
<1> QED
  BY <1>4, <1>5 DEF Bodies

LEMMA OverWithin ==
    ASSUME Loose, Loose', Limits, NEW w \in Workers, Over(w), Ebbs, Framed
    PROVE  Limits'
<1> DEFINE job == [run[w] EXCEPT !.pc = "tally", !.todo = {}]
<1>1. run \in [Workers -> LooseJob] /\ run[w] \in LooseJob
  BY DEF Loose
<1>2. run'[w] = job /\ OthersStay(w)
  BY <1>1 DEF Over, OthersStay
<1>3. /\ job.pc = "tally" /\ job.todo = {} /\ job.cursor = run[w].cursor
      /\ job.left = run[w].left /\ job.sent = run[w].sent /\ job.done = run[w].done
      /\ job.late = run[w].late /\ job.blind = run[w].blind
  BY <1>1 DEF LooseJob
<1> HIDE DEF job
<1> QED
  BY <1>2, <1>3, NoMoreWithin

\* Those that were won are some of those that were to be claimed.
LEMMA ClaimWithin ==
    ASSUME Loose, Loose', Limits, NEW w \in Workers, Claim(w)
    PROVE  Limits'
<1> DEFINE won == run[w].todo \intersect In("pending")
<1>0. luck \in 0..MaxFaults /\ run \in [Workers -> LooseJob] /\ run[w] \in LooseJob
  BY DEF Loose, Limits
<1>1. PICK ok \in Goes("write") :
        /\ Spend(ok)
        /\ IF ~ok THEN Done(w)
           ELSE IF won = {} THEN Over(w)
           ELSE run' = [run EXCEPT ![w].pc = "deliver", ![w].todo = won, ![w].claimed = TRUE]
  BY DEF Claim
<1>2. Ebbs /\ Framed
  BY <1>0, <1>1, Spent, Frame DEF Claim
<1>3. won \subseteq run[w].todo
  OBVIOUS
<1> HIDE DEF won
<1>4. CASE Done(w)
  BY <1>2, <1>4, DoneWithin
<1>5. CASE Over(w)
  BY <1>2, <1>5, OverWithin
<1>6. CASE run' = [run EXCEPT ![w].pc = "deliver", ![w].todo = won, ![w].claimed = TRUE]
  <2> DEFINE job == [run[w] EXCEPT !.pc = "deliver", !.todo = won, !.claimed = TRUE]
  <2>1. run'[w] = job /\ OthersStay(w)
    BY <1>0, <1>6 DEF OthersStay
  <2>2. /\ job.pc = "deliver" /\ job.todo = won /\ job.cursor = run[w].cursor
        /\ job.left = run[w].left /\ job.sent = run[w].sent /\ job.done = run[w].done
        /\ job.late = run[w].late /\ job.blind = run[w].blind
    BY <1>0 DEF LooseJob
  <2> HIDE DEF job
  <2> QED
    BY <1>2, <1>3, <2>1, <2>2, NoMoreWithin
<1> QED
  BY <1>1, <1>4, <1>5, <1>6

\* A look that failed is one of the failures the environment had in it.
LEMMA CheckWithin ==
    ASSUME Loose, Loose', Limits, NEW w \in Workers, Check(w)
    PROVE  Limits'
<1>0. luck \in 0..MaxFaults /\ run \in [Workers -> LooseJob] /\ run[w] \in LooseJob
  BY DEF Loose, Limits
<1>1. PICK ok \in Goes("state") :
        /\ Spend(ok)
        /\ run' = [run EXCEPT ![w].blind = IF ok THEN @ ELSE @ + 1,
                              ![w].pc = IF ok /\ campaign.state # "sending"
                                        THEN "release" ELSE "deliver"]
  BY DEF Check
<1>2. Ebbs /\ Framed /\ ok \in BOOLEAN /\ (~ok => luck' = luck - 1)
  BY <1>0, <1>1, Spent, Frame DEF Check
<1> DEFINE blind == IF ok THEN run[w].blind ELSE run[w].blind + 1
           step == IF ok /\ campaign.state # "sending" THEN "release" ELSE "deliver"
           job == [run[w] EXCEPT !.blind = blind, !.pc = step]
<1>3. run'[w] = job /\ OthersStay(w)
  BY <1>0, <1>1 DEF OthersStay
<1>4. run[w].blind \in Nat /\ Within(run[w], luck) /\ step # "bodies"
  BY <1>0 DEF LooseJob, Limits
<1>5. blind + luck' <= MaxFaults
  BY <1>0, <1>2, <1>4, Bounds DEF Within, Ebbs
<1> HIDE DEF blind, step
<1>6. /\ job.pc = step /\ job.blind = blind /\ job.todo = run[w].todo
      /\ job.cursor = run[w].cursor /\ job.left = run[w].left /\ job.sent = run[w].sent
      /\ job.done = run[w].done /\ job.late = run[w].late
  BY <1>0 DEF LooseJob
<1> HIDE DEF job
<1>7. Within(job, luck')
  BY <1>4, <1>5, <1>6 DEF Within
<1> QED
  BY <1>2, <1>3, <1>7, OneJob

\* A row is dealt with and off the claim.
LEMMA SettleWithin ==
    ASSUME Loose, Loose', Limits, NEW w \in Workers, NEW verdict, NEW gone \in BOOLEAN,
           run[w].todo # {}, Settle(w, verdict, gone), UNCHANGED <<campaign, jobs, parked, outcome>>
    PROVE  Limits'
<1> DEFINE a == Least(run[w].todo)
           rest == run[w].todo \ {a}
           late == run[w].late + IF gone /\ campaign.state # "sending" THEN 1 ELSE 0
           done == run[w].done + 1
           step == IF rest = {} THEN "tally"
                   ELSE IF done % CheckEvery = 0 THEN "check" ELSE "deliver"
<1>0. luck \in 0..MaxFaults /\ run \in [Workers -> LooseJob] /\ run[w] \in LooseJob
  BY DEF Loose, Limits
<1>1. Framed
  BY Frame
<1>2. CASE FALSE \in Goes("crash") /\ Spend(FALSE) /\ Done(w)
  BY <1>0, <1>1, <1>2, Spent, DoneWithin
<1>3. CASE \E ok \in Goes("write") :
             /\ Spend(ok)
             /\ run' = [run EXCEPT ![w].todo = rest, ![w].done = done, ![w].late = late,
                                   ![w].pc = step]
  <2>1. Ebbs
    BY <1>0, <1>3, Spent
  <2>2. /\ run[w].todo \in SUBSET Accounts /\ run[w].done \in Nat /\ run[w].late \in Nat
        /\ run[w].blind \in Nat /\ Within(run[w], luck)
    BY <1>0 DEF LooseJob, Limits
  <2>3. a \in run[w].todo
    BY <2>2, LeastIsOne
  <2>4. /\ Cardinality(run[w].todo) \in Nat /\ Cardinality(rest) = Cardinality(run[w].todo) - 1
    BY <2>2, <2>3, Fewer
  <2>5. Cardinality(rest) + done <= ChunkSize /\ late <= done
    BY <2>2, <2>4, Numbers DEF Within
  <2>6. step # "bodies"
    OBVIOUS
  <2> HIDE DEF a, rest, late, done, step
  <2> DEFINE job == [run[w] EXCEPT !.todo = rest, !.done = done, !.late = late, !.pc = step]
  <2>7. run'[w] = job /\ OthersStay(w)
    BY <1>0, <1>3 DEF OthersStay
  <2>8. /\ job.pc = step /\ job.todo = rest /\ job.done = done /\ job.late = late
        /\ job.cursor = run[w].cursor /\ job.left = run[w].left /\ job.sent = run[w].sent
        /\ job.blind = run[w].blind
    BY <1>0 DEF LooseJob
  <2> HIDE DEF job
  <2>9. job.blind + luck' <= MaxFaults
    BY <1>0, <2>1, <2>2, <2>8, Bounds DEF Within, Ebbs
  <2>10. Within(job, luck')
    BY <2>2, <2>5, <2>6, <2>8, <2>9 DEF Within
  <2> QED
    BY <1>1, <2>1, <2>7, <2>10, OneJob
<1> QED
  BY <1>2, <1>3 DEF Settle

LEMMA StopWithin ==
    ASSUME Loose, Loose', Limits, NEW w \in Workers, Flood(w) \/ Release(w) \/ Crash(w)
    PROVE  Limits'
<1>0. luck \in 0..MaxFaults /\ run \in [Workers -> LooseJob] /\ run[w] \in LooseJob
  BY DEF Loose, Limits
<1>1. CASE Flood(w)
  <2> DEFINE job == [run[w] EXCEPT !.pc = "release"]
  <2>1. run'[w] = job /\ OthersStay(w)
    BY <1>0, <1>1 DEF Flood, Goto, OthersStay
  <2>2. /\ job.pc = "release" /\ job.todo = run[w].todo /\ job.cursor = run[w].cursor
        /\ job.left = run[w].left /\ job.sent = run[w].sent /\ job.done = run[w].done
        /\ job.late = run[w].late /\ job.blind = run[w].blind
    BY <1>0 DEF LooseJob
  <2> HIDE DEF job
  <2>3. Ebbs
    BY <1>0, <1>1, Spent DEF Flood
  <2>4. Framed
    BY <1>1 DEF Flood, Framed, Limits
  <2> QED
    BY <2>1, <2>2, <2>3, <2>4, NoMoreWithin
<1>2. CASE Release(w)
  <2>1. PICK ok \in Goes("write") : Spend(ok)
    BY <1>2 DEF Release
  <2>2. Over(w) /\ Framed
    BY <1>2, Frame DEF Release
  <2> QED
    BY <1>0, <2>1, <2>2, Spent, OverWithin
<1>3. CASE Crash(w)
  <2>1. Ebbs
    BY <1>0, <1>3, Bounds DEF Crash, Ebbs
  <2> QED
    BY <1>3, <2>1, Frame, DoneWithin DEF Crash
<1> QED
  BY <1>1, <1>2, <1>3

\* The tally counts accounts, of which there are as many as the audience.
LEMMA TallyWithin ==
    ASSUME Loose, Loose', Limits, NEW w \in Workers, Tally(w)
    PROVE  Limits'
<1> DEFINE sent == Cardinality(In("sent"))
           left == Cardinality({a \in Accounts : row'[a].state \in {"pending", "sending"}})
           job == [Idle EXCEPT !.pc = "close", !.claimed = run[w].claimed,
                               !.sent = sent, !.left = left]
<1>0. campaign \in LooseCampaign /\ luck \in 0..MaxFaults /\ run \in [Workers -> LooseJob]
  BY DEF Loose, Limits
<1>1. PICK retired \in Goes("write"), counted \in Goes("write") :
        /\ Spend(retired /\ counted)
        /\ campaign' = IF counted THEN Touched(campaign) ELSE campaign
        /\ run' = [run EXCEPT ![w] = IF counted THEN job ELSE Idle]
  BY DEF Tally
<1>2. Ebbs
  <2>1. (retired /\ counted) \in Goes("write")
    BY DEF Goes
  <2> QED
    BY <1>0, <1>1, <2>1, Spent
<1>3. Framed
  BY <1>0, <1>1, CursorStays, Frame DEF Tally
<1>4. sent \in Nat /\ sent <= Audience /\ left \in Nat /\ left <= Audience
  <2>1. In("sent") \in SUBSET Accounts
    BY DEF In
  <2>2. {a \in Accounts : row'[a].state \in {"pending", "sending"}} \in SUBSET Accounts
    OBVIOUS
  <2> QED
    BY <2>1, <2>2, Fewer
<1> HIDE DEF sent, left
<1>5. CASE run' = [run EXCEPT ![w] = job]
  <2>1. /\ job.pc = "close" /\ job.sent = sent /\ job.left = left /\ job.done = 0
        /\ job.late = 0 /\ job.blind = 0 /\ job.todo = {} /\ job.cursor = 0
    BY IdleJob, IdleWithin, Bounds DEF LooseJob
  <2>2. run'[w] = job /\ OthersStay(w)
    BY <1>0, <1>5 DEF OthersStay
  <2> HIDE DEF job
  <2>3. Within(job, luck')
    <3>1. Cardinality(job.todo) = 0
      BY <2>1, FS_EmptySet
    <3>2. 0 <= Audience /\ 0 + 0 <= ChunkSize
      BY Numbers
    <3>3. 0 + luck' <= MaxFaults
      <4> SUFFICES ASSUME NEW n \in 0..MaxFaults PROVE 0 + n <= MaxFaults
        BY <1>2 DEF Ebbs
      <4> QED
        BY Bounds
    <3> QED
      BY <1>4, <2>1, <3>1, <3>2, <3>3 DEF Within
  <2> QED
    BY <1>2, <1>3, <2>2, <2>3, OneJob
<1>6. CASE run' = [run EXCEPT ![w] = Idle]
  BY <1>2, <1>3, <1>6, DoneWithin DEF Done
<1> QED
  BY <1>1, <1>5, <1>6

LEMMA EndWithin ==
    ASSUME Loose, Loose', Limits, NEW w \in Workers, Close(w) \/ Finish(w)
    PROVE  Limits'
<1>0. /\ campaign \in LooseCampaign /\ luck \in 0..MaxFaults /\ jobs \in JobCounts
      /\ outcome \in Outcomes /\ run \in [Workers -> LooseJob] /\ run[w] \in LooseJob
  BY DEF Loose, Limits
<1>1. CASE Close(w) /\ Goto(w, "finish") /\ UNCHANGED <<jobs, luck>>
  <2> DEFINE job == [run[w] EXCEPT !.pc = "finish"]
  <2>1. run'[w] = job /\ OthersStay(w)
    BY <1>0, <1>1 DEF Goto, OthersStay
  <2>2. /\ job.pc = "finish" /\ job.todo = run[w].todo /\ job.cursor = run[w].cursor
        /\ job.left = run[w].left /\ job.sent = run[w].sent /\ job.done = run[w].done
        /\ job.late = run[w].late /\ job.blind = run[w].blind
    BY <1>0 DEF LooseJob
  <2> HIDE DEF job
  <2>3. Ebbs /\ Framed
    BY <1>1, Frame DEF Close
  <2> QED
    BY <2>1, <2>2, <2>3, NoMoreWithin
<1>2. CASE Close(w) /\ Done(w)
  <2>1. Ebbs /\ jobs' \in JobCounts
    <3>1. CASE UNCHANGED <<jobs, luck>>
      BY <1>0, <3>1, Frame
    <3>2. CASE \E ok \in Goes("enqueue") : Spend(ok) /\ jobs' = Queued("send", ok)
      BY <1>0, <3>2, Spent, Waiting
    <3>3. CASE luck > 0 /\ luck' = luck - 1 /\ UNCHANGED jobs
      BY <1>0, <3>3, Bounds DEF Ebbs
    <3> QED
      BY <1>2, <3>1, <3>2, <3>3 DEF Close
  <2>2. Framed
    BY <1>2, <2>1 DEF Close, Framed, Limits
  <2> QED
    BY <1>2, <2>1, <2>2, DoneWithin
<1>3. CASE Finish(w)
  <2>1. PICK ok \in Goes("write") :
          /\ Spend(ok)
          /\ campaign' = IF ok /\ campaign.state \notin Terminal
                         THEN [Touched(campaign) EXCEPT !.state = "completed"] ELSE campaign
          /\ outcome' = IF ok /\ campaign.state \notin Terminal
                        THEN [rows |-> outcome.rows + 1, sent |-> run[w].sent] ELSE outcome
    BY <1>3 DEF Finish
  <2>2. Ebbs /\ campaign'.cursor = campaign.cursor
    BY <1>0, <2>1, Spent, CursorStays
  <2>3. run[w].sent \in 0..Audience
    BY <1>0, Numbers DEF Limits, Within, LooseJob
  <2>4. outcome' \in Outcomes
    BY <1>0, <2>1, <2>3 DEF Outcomes
  <2>5. Framed
    BY <1>3, <2>2, <2>4 DEF Finish, Framed, Limits
  <2> QED
    BY <1>3, <2>2, <2>5, DoneWithin DEF Finish
<1> QED
  BY <1>1, <1>2, <1>3 DEF Close

\* The clock, the sweep and the panel; a resume begins the count of late messages anew.
LEMMA OthersWithin ==
    ASSUME Loose, Loose', Limits, Sweep \/ ClockOrPanel \/ \E a \in Accounts : Lapse(a)
    PROVE  Limits'
<1>0. /\ campaign \in LooseCampaign /\ luck \in 0..MaxFaults /\ jobs \in JobCounts
      /\ run \in [Workers -> LooseJob]
  BY DEF Loose, Limits
<1>1. UNCHANGED outcome /\ parked' \in BOOLEAN
  BY DEF Sweep, Lapse, ClockOrPanel, Grow, Arrive, Unpark, Revise, Authorise, Resume, Pause,
         Cancel, Limits
<1>2. campaign'.cursor = campaign.cursor
  <2>1. CASE UNCHANGED campaign
    BY <2>1
  <2>2. CASE Grow \/ Arrive
    BY <1>0, <2>2 DEF Grow, Arrive, LooseCampaign
  <2>3. CASE Revise \/ Authorise \/ Resume \/ Pause \/ Cancel
    <3>1. CASE Authorise
      <4>1. PICK later : campaign' = [Touched(campaign) EXCEPT !.later = later]
        BY <3>1 DEF Authorise
      <4> QED
        BY <1>0, <4>1, CursorStays
    <3>2. CASE Revise
      BY <1>0, <3>2, CursorStays DEF Revise
    <3>3. CASE Resume \/ Pause \/ Cancel
      <4>1. PICK state : campaign' = [Touched(campaign) EXCEPT !.state = state]
        BY <3>3 DEF Resume, Pause, Cancel
      <4> QED
        BY <1>0, <4>1, CursorStays
    <3> QED
      BY <2>3, <3>1, <3>2, <3>3
  <2> QED
    BY <2>1, <2>2, <2>3 DEF Sweep, Lapse, ClockOrPanel, Unpark
<1>3. jobs' \in JobCounts
  <2>1. CASE UNCHANGED jobs
    BY <1>0, <2>1
  <2>2. CASE Sweep
    BY <1>0, <2>2, Waiting DEF Sweep
  <2>3. CASE Ask
    BY <1>0, <2>3, Waiting DEF Ask
  <2> QED
    BY <2>1, <2>2, <2>3 DEF Lapse, ClockOrPanel, Grow, Arrive, Unpark, Revise, Authorise,
                            Resume, Pause, Cancel
<1>4. Framed
  BY <1>1, <1>2, <1>3 DEF Framed, Limits
<1>5. Ebbs
  <2>1. CASE Sweep
    <3>1. PICK retired \in Goes("write"), queued \in Goes("enqueue") :
            Spend(retired /\ queued)
      BY <2>1 DEF Sweep
    <3>2. \E fault : (retired /\ queued) \in Goes(fault)
      BY <3>1 DEF Goes
    <3> QED
      BY <1>0, <3>1, <3>2, Spent
  <2>2. CASE UNCHANGED luck
    BY <2>2, Frame
  <2> QED
    BY <2>1, <2>2 DEF Lapse, ClockOrPanel, Grow, Arrive, Unpark, Revise, Authorise, Resume,
                      Pause, Cancel
<1>6. \A v \in Workers :
        /\ run'[v].cursor = run[v].cursor /\ run'[v].left = run[v].left
        /\ run'[v].sent = run[v].sent /\ run'[v].done = run[v].done
        /\ run'[v].todo = run[v].todo /\ run'[v].pc = run[v].pc
        /\ run'[v].blind = run[v].blind /\ run'[v].late \in {0, run[v].late}
  <2>1. CASE UNCHANGED run
    BY <2>1
  <2>2. CASE run' = [v \in Workers |-> [run[v] EXCEPT !.late = 0]]
    BY <1>0, <2>2 DEF LooseJob
  <2>3. CASE run' = [v \in Workers |-> [run[v] EXCEPT !.text = Older[@]]]
    BY <1>0, <2>3 DEF LooseJob
  <2> QED
    BY <2>1, <2>2, <2>3 DEF Sweep, Lapse, ClockOrPanel, Grow, Arrive, Unpark, Revise,
                            Authorise, Resume, Pause, Cancel
<1>7. ASSUME NEW v \in Workers PROVE Within(run'[v], luck')
  <2>1. Within(run[v], luck) /\ run[v].blind \in Nat /\ run[v].done \in Nat
    BY <1>0 DEF Limits, LooseJob
  <2>2. run[v].blind + luck' <= MaxFaults /\ 0 <= run[v].done
    BY <1>0, <1>5, <2>1, Bounds DEF Within, Ebbs
  <2> QED
    BY <1>6, <2>1, <2>2 DEF Within
<1> QED
  BY <1>4, <1>5, <1>7 DEF Limits, Framed, Ebbs

LEMMA LimitsInit == Init => Limits
<1> SUFFICES ASSUME Init PROVE Limits
  OBVIOUS
<1>1. campaign.cursor = 0 /\ jobs \in JobCounts /\ parked = FALSE /\ outcome \in Outcomes
  BY Numbers, Bounds DEF Init, JobCounts, Outcomes
<1>2. luck = MaxFaults /\ \A w \in Workers : run[w] = Idle
  BY DEF Init
<1>3. luck \in 0..MaxFaults /\ campaign.cursor <= Audience
  BY <1>1, <1>2, Numbers, Bounds
<1>4. \A w \in Workers : Within(run[w], luck)
  BY <1>2, <1>3, IdleWithin
<1> QED
  BY <1>1, <1>3, <1>4 DEF Limits

LEMMA LimitsStep == SendInv /\ SendInv' /\ Limits /\ [Next]_vars => Limits'
<1> SUFFICES ASSUME SendInv, SendInv', Limits, [Next]_vars PROVE Limits'
  OBVIOUS
<1>1. Loose /\ Loose'
  BY DEF SendInv
<1>2. ASSUME NEW w \in Workers, Work(w) \/ Flood(w) \/ Crash(w) PROVE Limits'
  <2>1. CASE TakeExpand(w) \/ TakeSend(w) \/ Expansion(w) \/ Start(w) \/ Bodies(w)
    BY <1>1, <2>1, TakeWithin, ExpansionWithin, StartWithin, BodiesWithin
  <2>2. CASE Claim(w) \/ Check(w)
    BY <1>1, <2>2, ClaimWithin, CheckWithin
  <2>3. CASE Undeliverable(w) \/ Deliver(w)
    <3>1. run[w].todo # {}
      BY <2>3 DEF Undeliverable, Deliver, At, SendInv, Mine, Held
    <3> QED
      BY <1>1, <2>3, <3>1, SettleWithin DEF Undeliverable, Deliver
  <2>4. CASE Flood(w) \/ Release(w) \/ Crash(w)
    BY <1>1, <2>4, StopWithin
  <2>5. CASE Tally(w) \/ Close(w) \/ Finish(w)
    BY <1>1, <2>5, TallyWithin, EndWithin
  <2> QED
    BY <1>2, <2>1, <2>2, <2>3, <2>4, <2>5 DEF Work, Chunk
<1>3. CASE Sweep \/ ClockOrPanel \/ \E a \in Accounts : Lapse(a)
  BY <1>1, <1>3, OthersWithin
<1>4. CASE UNCHANGED vars
  BY <1>4 DEF vars, Limits
<1> QED
  BY <1>2, <1>3, <1>4 DEF Next, ClockOrPanel

\* Every variable has its type: a chunk deals with SEND_CHUNK_SIZE rows at the most, a
\* campaign's cursor stays within its audience, and it has one outcome at the most
\* (claim_chunk, expand_chunk, mark_finished).
THEOREM TypeCorrect == Spec => []TypeOK
<1>1. Init => Limits
  BY LimitsInit
<1>2. SendInv /\ SendInv' /\ Limits /\ [Next]_vars => Limits'
  BY LimitsStep
<1>3. SendInv /\ CourseInv /\ Limits => TypeOK
  <2> SUFFICES ASSUME SendInv, CourseInv, Limits PROVE TypeOK
    OBVIOUS
  <2>1. campaign \in Campaign
    <3>1. campaign \in LooseCampaign /\ campaign.cursor <= Audience
      BY DEF SendInv, Loose, Limits
    <3>2. campaign.cursor \in 0..Audience
      BY <3>1, Numbers DEF LooseCampaign
    <3> QED
      BY <3>1, <3>2 DEF LooseCampaign, Campaign
  <2>2. ASSUME NEW w \in Workers PROVE run[w] \in Job
    <3>1. run[w] \in LooseJob /\ Within(run[w], luck) /\ luck \in 0..MaxFaults
      BY DEF SendInv, Loose, Limits
    <3>2. run[w].todo \in SUBSET Accounts /\ Cardinality(run[w].todo) \in Nat
      BY <3>1, Numbers DEF LooseJob
    <3>3. /\ run[w].cursor \in 0..Audience /\ run[w].left \in 0..Audience
          /\ run[w].sent \in 0..Audience
      BY <3>1, Numbers DEF LooseJob, Within
    <3>4. run[w].done \in 0..ChunkSize /\ run[w].late \in 0..ChunkSize
      BY <3>1, <3>2, Numbers DEF LooseJob, Within
    <3>5. run[w].blind \in 0..MaxFaults
      BY <3>1, Bounds DEF LooseJob, Within
    <3> QED
      BY <3>1, <3>3, <3>4, <3>5 DEF LooseJob, Job
  <2>3. outcome \in [rows : 0..1, sent : 0..Audience]
    BY DEF Limits, Outcomes, CourseInv, Told
  <2>4. texts \subseteq Texts
    BY DEF CourseInv, Read, Texts
  <2>5. run \in [Workers -> Job]
    BY <2>2 DEF SendInv, Loose
  <2> QED
    BY <2>1, <2>3, <2>4, <2>5 DEF TypeOK, SendInv, Loose, Limits, JobCounts
<1> QED
  BY CourseHolds, <1>1, <1>2, <1>3, PTL DEF Spec

=============================================================================
