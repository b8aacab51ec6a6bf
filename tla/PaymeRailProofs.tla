---------------------------- MODULE PaymeRailProofs ----------------------------
(***************************************************************************)
(* Proofs about PaymeRail, for every set of links, of charges made against *)
(* them and of sessions, with the operator, the erasure and the sweep at   *)
(* work: which charge holds an intent, which one paid it, what was sold    *)
(* for it and what was answered.                                           *)
(***************************************************************************)
EXTENDS PaymeRail, TLAPS

-----------------------------------------------------------------------------
(* The inductive invariant: the tables, each open call against the tables, *)
(* and the open calls against each other.                                  *)

OnCharge == {"create", "perform", "cancel", "sweep"}

\* An intent that is noted as the rail's was paid by the charge that holds it.
Noted == \A i \in Intents : intent[i].note = "payme" =>
            intent[i].state = "paid" /\ intent[i].holder \in Charges

Tables == HoldIsLive /\ ChargedOnce /\ SettledTogether /\ Noted

HeldBy(k) == intent[k.i].state = "awaiting" /\ intent[k.i].holder = k.c
PaidBy(k) == intent[k.i].state = "paid" /\ intent[k.i].holder = k.c

\* What a call is about.
About(k) ==
    /\ k.op \in OnCharge => k.c \in Charges /\ k.i = For[k.c]
    /\ k.op = "settle" => k.i \in Intents /\ k.c = Nobody

\* What a call has written of its charge, where it stands then, and what of the tables it
\* goes by: nobody else writes them while it does.
Written(k) ==
    /\ k.row = "created" =>
          /\ k.op = "create" /\ k.pc \in {"hold", "commit"}
          /\ charge[k.c] = "none"
          /\ k.pc = "commit" => k.deed = "hold"
    /\ k.row = "performed" =>
          /\ k.op = "perform" /\ k.pc \in {"buyer", "claim", "sale", "commit"}
          /\ charge[k.c] = "created"
          /\ k.pc \in {"sale", "commit"} => k.deed = "claim" \/ PaidBy(k)
          /\ k.pc # "buyer" /\ k.buyer = Nobody => intent[k.i].buyer = Nobody
          /\ k.pc = "commit" =>
                k.sale \/ k.i \in Plans \/ k.buyer = Nobody \/ receipt[k.i].sold
    /\ k.row = "cancelled" =>
          /\ k.op \in OnCharge /\ k.pc \in {"release", "commit"}
          /\ charge[k.c] = "created"
          /\ k.pc = "commit" => k.deed = "release" \/ PaidBy(k)

\* What it has done to an intent, and which.
Done(k) ==
    /\ k.deed = "nothing" => k.touched = {}
    /\ k.deed \notin {"nothing", "erase"} => k.touched = {k.i}
    /\ k.deed = "hold" =>
          k.row = "created" /\ k.pc = "commit" /\ intent[k.i].state = "pending"
    /\ k.deed = "claim" => k.row = "performed" /\ k.pc \in {"sale", "commit"} /\ HeldBy(k)
    /\ k.deed = "release" => k.row = "cancelled" /\ k.pc = "commit" /\ HeldBy(k)
    /\ k.deed = "operate" => /\ k.op = "settle" /\ k.pc \in {"sale", "commit"}
                             /\ intent[k.i].state \in {"pending", "awaiting"}
    /\ k.deed = "erase" => k.op = "forget" /\ k.pc = "commit" /\ ~k.sale
    /\ k.sale => k.pc = "commit" /\ (k.deed = "operate" \/ k.row = "performed")

\* Where it stands, and what it must have written to stand there.
Standing(k) ==
    /\ k.pc \in {"idle", "read", "ladder", "insert", "flip", "void", "operate", "receipts",
                 "intents"} => k.row = "same" /\ k.deed = "nothing"
    /\ k.pc \in {"ladder", "insert", "hold"} => k.op = "create"
    /\ k.pc \in {"flip", "buyer", "claim"} => k.op = "perform"
    /\ k.pc \in {"operate"} => k.op = "settle"
    /\ k.pc \in {"receipts", "intents"} => k.op = "forget"
    /\ k.pc = "hold" => k.row = "created"
    /\ k.pc \in {"buyer", "claim"} => k.row = "performed"
    /\ k.pc = "void" => k.op \in OnCharge /\ charge[k.c] # "none"
    /\ k.pc = "release" => /\ k.op \in OnCharge
                           /\ \/ k.row = "cancelled"
                              \/ k.row = "same" /\ charge[k.c] \in {"performed", "cancelled"}
    /\ k.pc = "sale" => k.row = "performed" \/ k.deed = "operate"
    /\ k.op = "settle" => k.row = "same"

\* What it is about to answer, once it has come so far.
Answering(k) ==
    /\ k.pc # "commit" => k.answer = "none"
    /\ k.op = "perform" /\ k.answer = "performed" =>
          k.row = "performed" \/ (k.row = "same" /\ charge[k.c] = "performed")
    /\ k.answer = "cancelled" =>
          /\ k.op \in OnCharge
          /\ k.row = "cancelled" \/ (k.row = "same" /\ charge[k.c] = "cancelled")

CallOK(k) == About(k) /\ Written(k) /\ Done(k) /\ Standing(k) /\ Answering(k)

Apart(j, k) == /\ j.row # "same" /\ k.row # "same" => j.c # k.c
               /\ j.touched \intersect k.touched = {}

IInv ==
    /\ TypeOK
    /\ Tables
    /\ \A s \in Sessions : CallOK(call[s])
    /\ \A x, y \in Sessions : x # y => Apart(call[x], call[y])

-----------------------------------------------------------------------------
\* The names that a call's steps, writes and answers go by.
LEMMA Named ==
    /\ "sweep" \in Ops /\ "settle" \in Ops /\ "forget" \in Ops
    /\ "read" \in Steps /\ "ladder" \in Steps /\ "insert" \in Steps /\ "hold" \in Steps
    /\ "flip" \in Steps /\ "buyer" \in Steps /\ "claim" \in Steps /\ "sale" \in Steps
    /\ "void" \in Steps /\ "release" \in Steps /\ "operate" \in Steps
    /\ "receipts" \in Steps /\ "intents" \in Steps /\ "commit" \in Steps
    /\ "same" \in Rows /\ "created" \in Rows /\ "performed" \in Rows
    /\ "cancelled" \in Rows
    /\ "nothing" \in Deeds /\ "hold" \in Deeds /\ "release" \in Deeds
    /\ "claim" \in Deeds /\ "operate" \in Deeds /\ "erase" \in Deeds
    /\ "none" \in Answers /\ "created" \in Answers /\ "performed" \in Answers
    /\ "cancelled" \in Answers /\ "settled" \in Answers /\ "refused" \in Answers
BY DEF Ops, Steps, Rows, Deeds, Answers

LEMMA NoCallIsFine == NoCall \in Call /\ CallOK(NoCall)
BY RailAssumption
   DEF RailAssumption, NoCall, Call, Ops, Steps, Rows, Deeds, Answers, CallOK, About, OnCharge,
       Written, Done, Standing, Answering

LEMMA InitIInv == Init => IInv
<1> SUFFICES ASSUME Init PROVE IInv
  OBVIOUS
<1>1. TypeOK
  BY NoCallIsFine DEF Init, TypeOK, Intent, IntentStates, Notes, ChargeStates, Receipt, NoReceipt
<1>2. Tables
  BY RailAssumption DEF RailAssumption, Init, Tables, HoldIsLive, ChargedOnce, SettledTogether,
     Noted, NoReceipt
<1>3. \A x, y \in Sessions : x # y => Apart(call[x], call[y])
  BY DEF Init, NoCall, Apart
<1> QED
  BY <1>1, <1>2, <1>3, NoCallIsFine DEF Init, IInv

\* A step of one call that commits nothing.
LEMMA Moves ==
    ASSUME IInv, NEW s \in Sessions, NEW k \in Call, Become(s, k), CallOK(k),
           \A x \in Sessions \ {s} : Apart(call[x], k)
    PROVE  IInv'
<1>1. /\ call' = [call EXCEPT ![s] = k] /\ call \in [Sessions -> Call]
      /\ UNCHANGED <<intent, charge, receipt, clock>>
  BY DEF Become, IInv, TypeOK
<1>2. \A x \in Sessions : call'[x] = IF x = s THEN k ELSE call[x]
  BY <1>1
<1>3. TypeOK'
  BY <1>1 DEF IInv, TypeOK
<1>4. Tables'
  BY <1>1 DEF IInv, Tables, HoldIsLive, ChargedOnce, SettledTogether, Noted
<1>5. \A x \in Sessions : CallOK(call[x])'
  <2>1. ASSUME NEW q \in Call, CallOK(q), NEW x \in Sessions, call'[x] = q
        PROVE  CallOK(call[x])'
    <3>1. About(call[x])' /\ Standing(call[x])' /\ Answering(call[x])'
      BY <1>1, <2>1 DEF CallOK, About, Standing, Answering
    <3>2. Written(call[x])'
      BY <1>1, <2>1 DEF CallOK, Written, PaidBy
    <3>3. Done(call[x])'
      BY <1>1, <2>1 DEF CallOK, Done, HeldBy
    <3> QED BY <3>1, <3>2, <3>3 DEF CallOK
  <2> QED
    BY <1>1, <1>2, <2>1 DEF IInv, TypeOK
<1>6. \A x, y \in Sessions : x # y => Apart(call[x], call[y])'
  BY <1>2 DEF IInv, Apart
<1> QED
  BY <1>3, <1>4, <1>5, <1>6 DEF IInv

\* A step that writes no further row of the tables, or takes back what it wrote.
LEMMA Stays ==
    ASSUME IInv, NEW s \in Sessions, NEW k \in Call, Become(s, k), CallOK(k),
           k.row = "same" \/ (k.row = call[s].row /\ k.c = call[s].c), k.touched \in {call[s].touched, {}}
    PROVE  IInv'
<1> SUFFICES ASSUME NEW x \in Sessions \ {s} PROVE Apart(call[x], k)
  BY Moves
<1>1. Apart(call[x], call[s])
  BY DEF IInv
<1>2. call[x].touched \intersect k.touched = {}
  BY <1>1 DEF Apart
<1>3. call[x].row # "same" /\ k.row # "same" => call[x].c # k.c
  BY <1>1 DEF Apart
<1> QED
  BY <1>2, <1>3 DEF Apart

\* What every step starts from.
LEMMA Here ==
    ASSUME IInv, NEW s \in Sessions
    PROVE  /\ call[s] \in Call /\ CallOK(call[s]) /\ call \in [Sessions -> Call]
           /\ \A c \in Charges : charge[c] \in ChargeStates /\ For[c] \in Intents
           /\ \A i \in Intents : intent[i] \in Intent
BY RailAssumption DEF RailAssumption, IInv, TypeOK

LEMMA Refused ==
    ASSUME IInv, NEW s \in Sessions, Refuse(s)
    PROVE  IInv'
BY NoCallIsFine, Stays DEF Refuse, NoCall

\* On to another step, with nothing written by then.
LEMMA GoesOn ==
    ASSUME IInv, NEW s \in Sessions, NEW step \in Steps, Goto(s, step),
           call[s].row = "same", call[s].deed = "nothing",
           Standing([call[s] EXCEPT !.pc = step]), step # "commit", call[s].pc # "commit",
           ~call[s].sale
    PROVE  IInv'
<1> DEFINE k == [call[s] EXCEPT !.pc = step]
<1>1. call[s] \in Call /\ About(call[s]) /\ Done(call[s]) /\ call[s].answer = "none"
  BY Here DEF CallOK, Answering
<1>2. k \in Call /\ k.pc = step
  BY <1>1 DEF Call
<1>3. About(k) /\ Written(k) /\ Done(k) /\ Answering(k)
  BY <1>1 DEF Call, About, Written, Done, Answering
<1> QED
  BY <1>1, <1>2, <1>3, Stays DEF Goto, CallOK, Call

\* An answer, with nothing written.
LEMMA AnswersPlainly ==
    ASSUME IInv, NEW s \in Sessions, NEW a \in Answers, Answer(s, a),
           call[s].row = "same", call[s].deed = "nothing", ~call[s].sale,
           call[s].op = "perform" /\ a = "performed" => charge[call[s].c] = "performed",
           a = "cancelled" => call[s].op \in OnCharge /\ charge[call[s].c] = "cancelled"
    PROVE  IInv'
<1> DEFINE k == [call[s] EXCEPT !.pc = "commit", !.answer = a]
<1>1. call[s] \in Call /\ About(call[s]) /\ Done(call[s]) /\ Standing(call[s])
  BY Here DEF CallOK
<1>2. k \in Call
  BY <1>1 DEF Call, Steps
<1>3. About(k) /\ Written(k) /\ Done(k) /\ Standing(k) /\ Answering(k)
  BY <1>1 DEF Call, About, Written, Done, Answering, Standing
<1> QED
  BY <1>1, <1>2, <1>3, Stays DEF Answer, CallOK, Call

-----------------------------------------------------------------------------
(* The steps of a call, one lemma for each kind of call. *)

\* A call that has read the clock and nothing else.
LEMMA Fresh ==
    ASSUME IInv, NEW s \in Sessions, NEW op \in Ops, NEW c \in Charges \union {Nobody},
           NEW i \in Intents, NEW late \in BOOLEAN, NEW lapsed \in BOOLEAN,
           \/ op \in OnCharge /\ c \in Charges /\ i = For[c]
           \/ op = "settle" /\ c = Nobody,
           Become(s, [NoCall EXCEPT !.op = op, !.pc = "read", !.c = c, !.i = i,
                                    !.late = late, !.lapsed = lapsed])
    PROVE  IInv'
<1> DEFINE k == [NoCall EXCEPT !.op = op, !.pc = "read", !.c = c, !.i = i,
                               !.late = late, !.lapsed = lapsed]
<1>1. k \in Call
  BY NoCallIsFine DEF Call, Steps
<1>2. /\ k.op = op /\ k.pc = "read" /\ k.c = c /\ k.i = i /\ k.row = "same"
      /\ k.deed = "nothing" /\ k.touched = {} /\ k.sale = FALSE /\ k.answer = "none"
  BY DEF NoCall
<1> HIDE DEF k
<1>3. CallOK(k)
  BY <1>2 DEF CallOK, About, OnCharge, Written, Done, Standing, Answering
<1> QED
  BY <1>1, <1>2, <1>3, Stays DEF k

LEMMA BeginKeeps ==
    ASSUME IInv, NEW s \in Sessions, BeginSome(s)
    PROVE  IInv'
<1>1. \A c \in Charges : c # Nobody /\ For[c] \in Intents
  BY RailAssumption DEF RailAssumption
<1>2. ASSUME NEW c \in Charges, BeginCharge(s, c) PROVE IInv'
  <2>1. PICK op \in {"create", "perform", "cancel"} : Begin(s, op, c, For[c])
    BY <1>2 DEF BeginCharge
  <2>2. PICK late \in BOOLEAN, lapsed \in BOOLEAN :
           Become(s, [NoCall EXCEPT !.op = op, !.pc = "read", !.c = c, !.i = For[c],
                                    !.late = late, !.lapsed = lapsed])
    <3> WITNESS (c \in clock.closed) \in BOOLEAN,
                (op = "create" /\ For[c] \in clock.lapsed) \in BOOLEAN
    <3> QED BY <2>1 DEF Begin
  <2>3. op \in Ops /\ op \in OnCharge
    BY DEF Ops, OnCharge
  <2> QED
    BY <1>1, <2>2, <2>3, Fresh
<1>3. ASSUME NEW c \in Charges, BeginSweep(s, c) PROVE IInv'
  <2> DEFINE k == [NoCall EXCEPT !.op = "sweep", !.pc = "void", !.c = c, !.i = For[c],
                                 !.late = TRUE]
  <2>1. Become(s, k) /\ charge[c] = "created"
    BY <1>3 DEF BeginSweep
  <2>2. k \in Call
    BY <1>1, NoCallIsFine, Named DEF Call
  <2>3. /\ k.op = "sweep" /\ k.pc = "void" /\ k.c = c /\ k.i = For[c] /\ k.row = "same"
        /\ k.deed = "nothing" /\ k.touched = {} /\ k.sale = FALSE /\ k.answer = "none"
    BY DEF NoCall
  <2> HIDE DEF k
  <2>4. CallOK(k)
    BY <2>1, <2>3 DEF CallOK, About, OnCharge, Written, Done, Standing, Answering
  <2> QED
    BY <2>1, <2>2, <2>3, <2>4, Stays
<1>4. ASSUME NEW i \in Operated, BeginSettle(s, i) PROVE IInv'
  <2>1. i \in Intents
    BY RailAssumption DEF RailAssumption
  <2>2. PICK late \in BOOLEAN, lapsed \in BOOLEAN :
           Become(s, [NoCall EXCEPT !.op = "settle", !.pc = "read", !.c = Nobody, !.i = i,
                                    !.late = late, !.lapsed = lapsed])
    <3> WITNESS (Nobody \in clock.closed) \in BOOLEAN,
                ("settle" = "create" /\ i \in clock.lapsed) \in BOOLEAN
    <3> QED BY <1>4 DEF BeginSettle, Begin
  <2> QED
    BY <2>1, <2>2, Named, Fresh
<1>5. ASSUME NEW u \in Leavers, BeginForget(s, u) PROVE IInv'
  <2> DEFINE k == [NoCall EXCEPT !.op = "forget", !.pc = "receipts", !.user = u]
  <2>1. Become(s, k) /\ u \in Users
    BY <1>5, RailAssumption DEF RailAssumption, BeginForget
  <2>2. k \in Call
    BY <2>1, NoCallIsFine, Named DEF Call
  <2>3. /\ k.op = "forget" /\ k.pc = "receipts" /\ k.row = "same" /\ k.deed = "nothing"
        /\ k.touched = {} /\ k.sale = FALSE /\ k.answer = "none"
    BY DEF NoCall
  <2> HIDE DEF k
  <2>4. CallOK(k)
    BY <2>3 DEF CallOK, About, OnCharge, Written, Done, Standing, Answering
  <2> QED
    BY <2>1, <2>2, <2>3, <2>4, Stays
<1> QED
  BY <1>2, <1>3, <1>4, <1>5 DEF BeginSome

LEMMA CreateKeeps ==
    ASSUME IInv, NEW s \in Sessions,
           ReadCreate(s) \/ ClimbLadder(s) \/ InsertCharge(s) \/ HoldIntent(s)
    PROVE  IInv'
<1> DEFINE q == call[s]
<1>0. q \in Call /\ CallOK(q)
  BY Here
<1>1. CASE ReadCreate(s)
  <2>0. q.op = "create" /\ q.pc = "read" /\ q.row = "same" /\ q.deed = "nothing" /\ ~q.sale
    BY <1>0, <1>1 DEF ReadCreate, At, CallOK, Standing, Done
  <2>1. CASE Goto(s, "ladder")
    <3>1. Standing([q EXCEPT !.pc = "ladder"])
      BY <1>0, <2>0 DEF CallOK, Standing, Call
    <3> QED BY <2>0, <2>1, <3>1, GoesOn DEF Steps
  <2>2. CASE charge[q.c] = "created" /\ Goto(s, "void")
    <3>1. Standing([q EXCEPT !.pc = "void"])
      BY <1>0, <2>0, <2>2 DEF CallOK, Standing, Call, OnCharge
    <3> QED BY <2>0, <2>2, <3>1, GoesOn DEF Steps
  <2>3. CASE Answer(s, "created")
    BY <2>0, <2>3, AnswersPlainly DEF Answers
  <2> QED
    BY <1>1, <2>1, <2>2, <2>3, Refused DEF ReadCreate
<1>2. CASE ClimbLadder(s)
  <2>0. q.op = "create" /\ q.pc = "ladder" /\ q.row = "same" /\ q.deed = "nothing" /\ ~q.sale
    BY <1>0, <1>2 DEF ClimbLadder, At, CallOK, Standing, Done
  <2>1. Standing([q EXCEPT !.pc = "insert"])
    BY <1>0, <2>0 DEF CallOK, Standing, Call
  <2> QED
    BY <1>2, <2>0, <2>1, GoesOn, Refused DEF ClimbLadder, Steps
<1>3. CASE InsertCharge(s)
  <2>0. /\ q.op = "create" /\ q.pc = "insert" /\ q.row = "same" /\ q.deed = "nothing"
        /\ ~q.sale /\ q.c \in Charges /\ q.touched = {}
    BY <1>0, <1>3 DEF InsertCharge, At, CallOK, Standing, Done, About, OnCharge
  <2> DEFINE k == [q EXCEPT !.row = "created", !.pc = "hold"]
  <2>1. CASE charge[q.c] = "none" /\ Become(s, k)
    <3>1. k \in Call /\ CallOK(k)
      BY <1>0, <2>0, <2>1 DEF Call, Steps, Rows, CallOK, About, OnCharge, Written, Done, Standing,
         Answering
    <3>2. \A x \in Sessions \ {s} : Apart(call[x], k)
      BY <1>0, <1>3, <2>0 DEF InsertCharge, ChargeFree, Apart, Call
    <3> QED BY <2>1, <3>1, <3>2, Moves
  <2>2. CASE Answer(s, "created")
    BY <2>0, <2>2, AnswersPlainly DEF Answers
  <2> QED
    BY <1>3, <2>1, <2>2, Refused DEF InsertCharge
<1>4. CASE HoldIntent(s)
  <2>0. /\ q.op = "create" /\ q.pc = "hold" /\ q.row = "created" /\ ~q.sale
        /\ q.c \in Charges /\ q.i = For[q.c] /\ q.i \in Intents
    BY <1>0, <1>4, Here DEF HoldIntent, At, CallOK, Standing, Done, About, OnCharge
  <2> DEFINE k == [q EXCEPT !.deed = "hold", !.touched = {q.i}, !.pc = "commit",
                            !.answer = "created"]
  <2>1. CASE intent[q.i].state = "pending" /\ Become(s, k)
    <3>1. k \in Call
      BY <1>0, <2>0 DEF Call, Steps, Deeds, Answers
    <3>2. CallOK(k)
      BY <1>0, <2>0, <2>1 DEF Call, CallOK, About, OnCharge, Written, Done, Standing, Answering
    <3>3. \A x \in Sessions \ {s} : Apart(call[x], q)
      BY DEF IInv
    <3>4. \A x \in Sessions \ {s} : Apart(call[x], k)
      BY <1>0, <1>4, <3>3 DEF HoldIntent, IntentFree, Apart, Call
    <3> QED BY <2>1, <3>1, <3>2, <3>4, Moves
  <2> QED
    BY <1>4, <2>1, Refused DEF HoldIntent
<1> QED
  BY <1>1, <1>2, <1>3, <1>4

LEMMA PerformKeeps ==
    ASSUME IInv, NEW s \in Sessions,
           ReadPerform(s) \/ Flip(s) \/ ReadBuyer(s) \/ Claim(s)
    PROVE  IInv'
<1> DEFINE q == call[s]
<1>0. q \in Call /\ CallOK(q)
  BY Here
<1>1. CASE ReadPerform(s)
  <2>0. q.op = "perform" /\ q.pc = "read" /\ q.row = "same" /\ q.deed = "nothing" /\ ~q.sale
    BY <1>0, <1>1 DEF ReadPerform, At, CallOK, Standing, Done
  <2>1. CASE charge[q.c] = "performed" /\ Answer(s, "performed")
    BY <2>0, <2>1, AnswersPlainly DEF Answers
  <2>2. CASE charge[q.c] = "created" /\ Goto(s, "void")
    <3>1. Standing([q EXCEPT !.pc = "void"])
      BY <1>0, <2>0, <2>2 DEF CallOK, Standing, Call, OnCharge
    <3> QED BY <2>0, <2>2, <3>1, GoesOn DEF Steps
  <2>3. CASE Goto(s, "flip")
    <3>1. Standing([q EXCEPT !.pc = "flip"])
      BY <1>0, <2>0 DEF CallOK, Standing, Call
    <3> QED BY <2>0, <2>3, <3>1, GoesOn DEF Steps
  <2> QED
    BY <1>1, <2>1, <2>2, <2>3, Refused DEF ReadPerform
<1>2. CASE Flip(s)
  <2>0. /\ q.op = "perform" /\ q.pc = "flip" /\ q.row = "same" /\ q.deed = "nothing"
        /\ ~q.sale /\ q.c \in Charges /\ q.touched = {}
    BY <1>0, <1>2 DEF Flip, At, CallOK, Standing, Done, About, OnCharge
  <2> DEFINE k == [q EXCEPT !.row = "performed", !.pc = "buyer"]
  <2>1. CASE charge[q.c] = "created" /\ Become(s, k)
    <3>1. k \in Call /\ CallOK(k)
      BY <1>0, <2>0, <2>1 DEF Call, Steps, Rows, CallOK, About, OnCharge, Written, Done, Standing,
         Answering
    <3>2. \A x \in Sessions \ {s} : Apart(call[x], k)
      BY <1>0, <1>2, <2>0 DEF Flip, ChargeFree, Apart, Call
    <3> QED BY <2>1, <3>1, <3>2, Moves
  <2>2. CASE charge[q.c] = "performed" /\ Answer(s, "performed")
    BY <2>0, <2>2, AnswersPlainly DEF Answers
  <2> QED
    BY <1>2, <2>1, <2>2, Refused DEF Flip
<1>3. CASE ReadBuyer(s)
  <2>0. /\ q.op = "perform" /\ q.pc = "buyer" /\ q.row = "performed" /\ ~q.sale
        /\ q.c \in Charges /\ q.i = For[q.c] /\ q.i \in Intents /\ q.touched = {}
        /\ q.deed = "nothing"
    BY <1>0, <1>3, Here DEF ReadBuyer, At, CallOK, Standing, Done, About, OnCharge, Call, Deeds
  <2> DEFINE k == [q EXCEPT !.buyer = intent[q.i].buyer, !.pc = "claim"]
  <2>1. intent[q.i].buyer \in Users \union {Nobody}
    BY <2>0, Here DEF Intent
  <2>2. k \in Call
    BY <1>0, <2>1 DEF Call, Steps
  <2>3. CallOK(k)
    BY <1>0, <2>0 DEF Call, CallOK, About, Written, Done, Standing, Answering
  <2>4. Become(s, k) /\ k.row = q.row /\ k.c = q.c /\ k.touched = q.touched
    BY <1>0, <1>3 DEF ReadBuyer, Call
  <2> QED
    BY <2>2, <2>3, <2>4, Stays
<1>4. CASE Claim(s)
  <2>0. /\ q.op = "perform" /\ q.pc = "claim" /\ q.row = "performed" /\ ~q.sale
        /\ q.c \in Charges /\ q.i = For[q.c] /\ q.i \in Intents /\ q.touched = {}
        /\ q.deed = "nothing"
    BY <1>0, <1>4, Here DEF Claim, At, CallOK, Standing, Done, About, OnCharge, Call, Deeds
  <2>1. CASE Held(s)
    <3> DEFINE k == [q EXCEPT !.deed = "claim", !.pc = "sale", !.touched = {q.i}]
    <3>1. k \in Call
      BY <1>0, <2>0 DEF Call, Steps, Deeds
    <3>2. CallOK(k)
      BY <1>0, <2>0, <2>1 DEF Held, HeldBy, Call, CallOK, About, OnCharge, Written, Done, Standing,
         Answering
    <3>3. \A x \in Sessions \ {s} : Apart(call[x], q)
      BY DEF IInv
    <3>4. \A x \in Sessions \ {s} : Apart(call[x], k)
      BY <1>0, <1>4, <3>3 DEF Claim, IntentFree, Apart, Call
    <3> QED BY <1>4, <2>1, <3>1, <3>2, <3>4, Moves DEF Claim
  <2>2. CASE ~Held(s) /\ SettledForUs(s)
    <3> DEFINE k == [q EXCEPT !.buyer = intent[q.i].buyer, !.pc = "sale"]
    <3>1. intent[q.i].buyer \in Users \union {Nobody}
      BY <2>0, Here DEF Intent
    <3>2. k \in Call
      BY <1>0, <3>1 DEF Call, Steps
    <3>3. CallOK(k)
      BY <1>0, <2>0, <2>2 DEF SettledForUs, PaidBy, Call, CallOK, About, Written, Done, Standing,
         Answering
    <3>4. Become(s, k) /\ k.row = q.row /\ k.c = q.c /\ k.touched = q.touched
      BY <1>0, <1>4, <2>2 DEF Claim, Call
    <3> QED BY <3>2, <3>3, <3>4, Stays
  <2> QED
    BY <1>4, <2>1, <2>2, Refused DEF Claim
<1> QED
  BY <1>1, <1>2, <1>3, <1>4

LEMMA CancelKeeps ==
    ASSUME IInv, NEW s \in Sessions, ReadCancel(s) \/ Void(s) \/ Release(s)
    PROVE  IInv'
<1> DEFINE q == call[s]
<1>0. q \in Call /\ CallOK(q)
  BY Here
<1>1. CASE ReadCancel(s)
  <2>0. q.op = "cancel" /\ q.pc = "read" /\ q.row = "same" /\ q.deed = "nothing" /\ ~q.sale
    BY <1>0, <1>1 DEF ReadCancel, At, CallOK, Standing, Done
  <2>1. CASE charge[q.c] = "cancelled" /\ Answer(s, "cancelled")
    BY <2>0, <2>1, AnswersPlainly DEF Answers, OnCharge
  <2>2. CASE charge[q.c] = "created" /\ Goto(s, "void")
    <3>1. Standing([q EXCEPT !.pc = "void"])
      BY <1>0, <2>0, <2>2 DEF CallOK, Standing, Call, OnCharge
    <3> QED BY <2>0, <2>2, <3>1, GoesOn DEF Steps
  <2> QED
    BY <1>1, <2>1, <2>2, Refused DEF ReadCancel
<1>2. CASE Void(s)
  <2>0. /\ q.op \in OnCharge /\ q.pc = "void" /\ q.row = "same" /\ q.deed = "nothing"
        /\ ~q.sale /\ q.c \in Charges /\ q.touched = {} /\ charge[q.c] # "none"
    BY <1>0, <1>2 DEF Void, At, CallOK, Standing, Done, About
  <2>1. CASE charge[q.c] = "created"
    <3> DEFINE k == [q EXCEPT !.row = "cancelled", !.pc = "release"]
    <3>1. /\ k \in Call /\ k.op = q.op /\ k.c = q.c /\ k.i = q.i /\ k.row = "cancelled"
          /\ k.pc = "release" /\ k.deed = "nothing" /\ ~k.sale /\ k.touched = {}
          /\ k.answer = q.answer
      BY <1>0, <2>0 DEF Call, Steps, Rows
    <3>2. CallOK(k)
      <4> HIDE DEF k
      <4> QED
        BY <1>0, <2>0, <2>1, <3>1 DEF CallOK, About, OnCharge, Written, Done, Standing, Answering
    <3>4. \A x \in Sessions \ {s} : Apart(call[x], k)
      BY <1>0, <1>2, <2>0 DEF Void, ChargeFree, Apart, Call
    <3>3. Become(s, k)
      BY <1>2, <2>1 DEF Void
    <3> QED BY <3>1, <3>2, <3>3, <3>4, Moves
  <2>2. CASE charge[q.c] # "created"
    <3> DEFINE k == [q EXCEPT !.row = "same", !.pc = "release"]
    <3>1. charge[q.c] \in {"performed", "cancelled"}
      BY <2>0, <2>2, Here DEF ChargeStates
    <3>2. /\ k \in Call /\ k.op = q.op /\ k.c = q.c /\ k.i = q.i /\ k.row = "same"
          /\ k.pc = "release" /\ k.deed = "nothing" /\ ~k.sale /\ k.touched = q.touched
          /\ k.answer = q.answer
      BY <1>0, <2>0, Named DEF Call
    <3>3. Become(s, k)
      BY <1>0, <1>2, <2>2 DEF Void, Call
    <3> HIDE DEF k
    <3>4. CallOK(k)
      BY <1>0, <2>0, <3>1, <3>2 DEF CallOK, About, Written, Done, Standing, Answering
    <3> QED BY <3>2, <3>3, <3>4, Stays
  <2> QED
    BY <2>1, <2>2
<1>3. CASE Release(s)
  <2>0. /\ q.op \in OnCharge /\ q.pc = "release" /\ ~q.sale /\ q.c \in Charges
        /\ q.i = For[q.c] /\ q.i \in Intents /\ q.deed = "nothing" /\ q.touched = {}
    BY <1>0, <1>3, Here DEF Release, At, CallOK, Standing, Done, About, Call, Deeds
  <2>1. /\ Outcome(s) \in Answers
        /\ Outcome(s) # "performed" \/ q.op # "perform"
        /\ Outcome(s) = "cancelled" =>
              q.row = "cancelled" \/ (q.row = "same" /\ charge[q.c] = "cancelled")
    BY <1>0, <2>0, Here DEF Outcome, Answers, ChargeStates, Call, Rows, CallOK, Standing
  <2>2. CASE Held(s)
    <3> DEFINE k == [q EXCEPT !.deed = "release", !.touched = {q.i}, !.pc = "commit",
                              !.answer = Outcome(s)]
    <3>1. q.row = "cancelled"
      BY <1>0, <2>0, <2>2 DEF Held, CallOK, Standing, IInv, Tables, HoldIsLive
    <3>2. /\ k \in Call /\ k.op = q.op /\ k.c = q.c /\ k.i = q.i /\ k.row = q.row
          /\ k.pc = "commit" /\ k.deed = "release" /\ ~k.sale /\ k.touched = {q.i}
          /\ k.answer = Outcome(s)
      BY <1>0, <2>0, <2>1, Named DEF Call
    <3>3. CallOK(k)
      <4> HIDE DEF k
      <4> QED
        BY <1>0, <2>0, <2>1, <2>2, <3>1, <3>2
           DEF Held, HeldBy, CallOK, About, OnCharge, Written, Done, Standing, Answering
    <3>4. \A x \in Sessions \ {s} : Apart(call[x], q)
      BY DEF IInv
    <3>5. \A x \in Sessions \ {s} : Apart(call[x], k)
      BY <1>0, <1>3, <3>4 DEF Release, IntentFree, Apart, Call
    <3> QED BY <1>3, <2>2, <3>2, <3>3, <3>5, Moves DEF Release
  <2>3. CASE ~Held(s)
    <3> DEFINE k == [q EXCEPT !.pc = "commit", !.answer = Outcome(s)]
    <3>1. q.row = "cancelled" => PaidBy(q)
      <4>1. q.row = "cancelled" => charge[q.c] = "created"
        BY <1>0 DEF CallOK, Written
      <4>2. HoldIsLive
        BY DEF IInv, Tables
      <4>3. charge[q.c] = "created" => HeldBy(q) \/ PaidBy(q)
        BY <2>0, <4>2 DEF HoldIsLive, HeldBy, PaidBy
      <4> QED BY <2>3, <4>1, <4>3 DEF Held, HeldBy
    <3>2. /\ k \in Call /\ k.op = q.op /\ k.c = q.c /\ k.i = q.i /\ k.row = q.row
          /\ k.pc = "commit" /\ k.deed = q.deed /\ ~k.sale /\ k.touched = q.touched
          /\ k.answer = Outcome(s)
      BY <1>0, <2>0, <2>1, Named DEF Call
    <3>3. Become(s, k)
      BY <1>3, <2>3 DEF Release, Answer
    <3> HIDE DEF k
    <3>4. CallOK(k)
      BY <1>0, <2>0, <2>1, <3>1, <3>2
         DEF PaidBy, CallOK, About, OnCharge, Written, Done, Standing, Answering
    <3> QED BY <3>2, <3>3, <3>4, Stays
  <2> QED
    BY <2>2, <2>3
<1> QED
  BY <1>1, <1>2, <1>3

LEMMA SettleKeeps ==
    ASSUME IInv, NEW s \in Sessions, ReadSettle(s) \/ OperatorClaim(s)
    PROVE  IInv'
<1> DEFINE q == call[s]
<1>0. q \in Call /\ CallOK(q)
  BY Here
<1>1. CASE ReadSettle(s)
  <2>0. /\ q.op = "settle" /\ q.pc = "read" /\ q.row = "same" /\ q.deed = "nothing"
        /\ ~q.sale /\ q.i \in Intents
    BY <1>0, <1>1 DEF ReadSettle, At, CallOK, Standing, Done, About
  <2>1. CASE Answer(s, "settled")
    BY <2>0, <2>1, AnswersPlainly DEF Answers
  <2>2. CASE Become(s, [q EXCEPT !.buyer = intent[q.i].buyer, !.pc = "operate"])
    <3> DEFINE k == [q EXCEPT !.buyer = intent[q.i].buyer, !.pc = "operate"]
    <3>1. intent[q.i].buyer \in Users \union {Nobody}
      BY <2>0, Here DEF Intent
    <3>2. /\ k \in Call /\ k.op = "settle" /\ k.c = q.c /\ k.i = q.i /\ k.row = "same"
          /\ k.pc = "operate" /\ k.deed = "nothing" /\ ~k.sale /\ k.touched = q.touched
          /\ k.answer = q.answer
      BY <1>0, <2>0, <3>1 DEF Call, Steps
    <3>3. CallOK(k)
      <4> HIDE DEF k
      <4> QED
        BY <1>0, <2>0, <3>2 DEF CallOK, About, OnCharge, Written, Done, Standing, Answering
    <3> QED BY <2>2, <3>2, <3>3, Stays
  <2> QED
    BY <1>1, <2>1, <2>2, Refused DEF ReadSettle
<1>2. CASE OperatorClaim(s)
  <2>0. /\ q.op = "settle" /\ q.pc = "operate" /\ q.row = "same" /\ q.deed = "nothing"
        /\ ~q.sale /\ q.i \in Intents
    BY <1>0, <1>2 DEF OperatorClaim, At, CallOK, Standing, Done, About
  <2> DEFINE k == [q EXCEPT !.deed = "operate", !.touched = {q.i}, !.pc = "sale"]
  <2>1. CASE intent[q.i].state \in {"pending", "awaiting"} /\ Become(s, k)
    <3>1. /\ k \in Call /\ k.op = "settle" /\ k.c = q.c /\ k.i = q.i /\ k.row = "same"
          /\ k.pc = "sale" /\ k.deed = "operate" /\ ~k.sale /\ k.touched = {q.i}
          /\ k.answer = q.answer
      BY <1>0, <2>0 DEF Call, Steps, Deeds
    <3>2. CallOK(k)
      <4> HIDE DEF k
      <4> QED
        BY <1>0, <2>0, <2>1, <3>1 DEF CallOK, About, OnCharge, Written, Done, Standing, Answering
    <3>3. \A x \in Sessions \ {s} : Apart(call[x], k)
      BY <1>2, <3>1 DEF OperatorClaim, IntentFree, Apart
    <3> QED BY <2>1, <3>1, <3>2, <3>3, Moves
  <2> QED
    BY <1>2, <2>1, Refused DEF OperatorClaim
<1> QED
  BY <1>1, <1>2

LEMMA ForgetKeeps ==
    ASSUME IInv, NEW s \in Sessions, EraseReceipts(s) \/ EraseIntents(s)
    PROVE  IInv'
<1> DEFINE q == call[s]
<1>0. q \in Call /\ CallOK(q)
  BY Here
<1>1. CASE EraseReceipts(s)
  <2>0. /\ q.op = "forget" /\ q.pc = "receipts" /\ q.row = "same" /\ q.deed = "nothing"
        /\ ~q.sale
    BY <1>0, <1>1 DEF EraseReceipts, At, CallOK, Standing, Done
  <2>1. PICK hidden \in SUBSET Intents :
           Become(s, [q EXCEPT !.hidden = hidden, !.pc = "intents"])
    BY <1>1 DEF EraseReceipts
  <2> DEFINE k == [q EXCEPT !.hidden = hidden, !.pc = "intents"]
  <2>2. /\ k \in Call /\ k.op = "forget" /\ k.c = q.c /\ k.i = q.i /\ k.row = "same"
        /\ k.pc = "intents" /\ k.deed = "nothing" /\ ~k.sale /\ k.touched = q.touched
        /\ k.answer = q.answer
    BY <1>0, <2>0 DEF Call, Steps
  <2>3. CallOK(k)
    <3> HIDE DEF k
    <3> QED
      BY <1>0, <2>0, <2>2 DEF CallOK, About, OnCharge, Written, Done, Standing, Answering
  <2> QED BY <2>1, <2>2, <2>3, Stays
<1>2. CASE EraseIntents(s)
  <2>0. /\ q.op = "forget" /\ q.pc = "intents" /\ q.row = "same" /\ q.deed = "nothing"
        /\ ~q.sale
    BY <1>0, <1>2 DEF EraseIntents, At, CallOK, Standing, Done
  <2>1. PICK mine \in SUBSET Intents :
           /\ \A i \in mine : IntentFree(s, i)
           /\ Become(s, [q EXCEPT !.deed = "erase", !.touched = mine, !.pc = "commit"])
    BY <1>2 DEF EraseIntents
  <2> DEFINE k == [q EXCEPT !.deed = "erase", !.touched = mine, !.pc = "commit"]
  <2>2. /\ k \in Call /\ k.op = "forget" /\ k.c = q.c /\ k.i = q.i /\ k.row = "same"
        /\ k.pc = "commit" /\ k.deed = "erase" /\ ~k.sale /\ k.touched = mine
        /\ k.answer = q.answer
    BY <1>0, <2>0 DEF Call, Steps, Deeds
  <2>3. CallOK(k)
    <3> HIDE DEF k
    <3> QED
      BY <1>0, <2>0, <2>2 DEF CallOK, About, OnCharge, Written, Done, Standing, Answering
  <2>4. \A x \in Sessions \ {s} : Apart(call[x], k)
    BY <2>1, <2>2 DEF IntentFree, Apart
  <2> QED BY <2>1, <2>2, <2>3, <2>4, Moves
<1> QED
  BY <1>1, <1>2

LEMMA SaleKeeps ==
    ASSUME IInv, NEW s \in Sessions, WriteSale(s)
    PROVE  IInv'
<1> DEFINE q == call[s]
<1>0. q \in Call /\ CallOK(q) /\ q.pc = "sale" /\ ~q.sale
  BY Here DEF WriteSale, At, CallOK, Done
<1>1. PICK sale \in BOOLEAN, answer \in {"performed", "settled"} :
         /\ Become(s, [q EXCEPT !.sale = sale, !.pc = "commit", !.answer = answer])
         /\ sale = Sellable(s)
         /\ answer = "performed" => q.op = "perform"
  <2> Sellable(s) \in BOOLEAN
    BY DEF Sellable
  <2> WITNESS Sellable(s) \in BOOLEAN,
              (IF q.op = "perform" THEN "performed" ELSE "settled") \in {"performed", "settled"}
  <2> QED BY DEF WriteSale
<1>2. ~sale => q.buyer = Nobody \/ q.i \in Plans \/ receipt[q.i].sold
  BY <1>1 DEF Sellable
<1> DEFINE k == [q EXCEPT !.sale = sale, !.pc = "commit", !.answer = answer]
<1>3. /\ k \in Call /\ k.op = q.op /\ k.c = q.c /\ k.i = q.i /\ k.row = q.row
      /\ k.pc = "commit" /\ k.deed = q.deed /\ k.sale = sale /\ k.touched = q.touched
      /\ k.answer = answer /\ k.buyer = q.buyer
  <2>1. "commit" \in Steps /\ answer \in Answers
    BY Named
  <2> QED BY <1>0, <2>1 DEF Call
<1>4. CallOK(k)
  <2> HIDE DEF k
  <2>1. q.row = "performed" \/ (q.deed = "operate" /\ q.row = "same" /\ q.op = "settle")
    BY <1>0 DEF CallOK, Standing, Done
  <2>2. About(k)
    BY <1>0, <1>3 DEF CallOK, About
  <2>3. Written(k)
    BY <1>0, <1>2, <1>3, <2>1 DEF CallOK, Written, PaidBy
  <2>4. Done(k)
    BY <1>0, <1>3, <2>1 DEF CallOK, Done, HeldBy
  <2>5. Standing(k)
    BY <1>0, <1>3, <2>1 DEF CallOK, Standing
  <2>6. Answering(k)
    BY <1>0, <1>1, <1>3, <2>1 DEF CallOK, Answering, Written
  <2> QED BY <2>2, <2>3, <2>4, <2>5, <2>6 DEF CallOK
<1> QED
  BY <1>1, <1>3, <1>4, Stays

-----------------------------------------------------------------------------
(* The end of a call. *)

\* What a call comes to commit.
Outcomes(q) ==
    \/ /\ q.row = "created" /\ q.deed = "hold" /\ charge[q.c] = "none"
       /\ intent[q.i].state = "pending"
    \/ q.row = "performed" /\ q.deed = "claim" /\ charge[q.c] = "created" /\ HeldBy(q)
    \/ q.row = "performed" /\ q.deed = "nothing" /\ charge[q.c] = "created" /\ PaidBy(q)
    \/ q.row = "cancelled" /\ q.deed = "release" /\ charge[q.c] = "created" /\ HeldBy(q)
    \/ q.row = "cancelled" /\ q.deed = "nothing" /\ charge[q.c] = "created" /\ PaidBy(q)
    \/ q.row = "same" /\ q.deed = "operate" /\ intent[q.i].state \in {"pending", "awaiting"}
    \/ q.row = "same" /\ q.deed \in {"erase", "nothing"}

\* How one intent is left, next to how it was.
Left(i, state, holder, note) ==
    intent'[i].state = state /\ intent'[i].holder = holder /\ intent'[i].note = note

LEMMA CommitsWhat ==
    ASSUME IInv, NEW s \in Sessions, Commit(s)
    PROVE  /\ call[s] \in Call /\ call[s].pc = "commit" /\ Outcomes(call[s])
           /\ call[s].row # "same" => /\ call[s].c \in Charges /\ call[s].i = For[call[s].c]
                                      /\ call[s].i \in Intents
           /\ call[s].deed = "operate" => call[s].i \in Intents /\ call[s].touched = {call[s].i}
<1> DEFINE q == call[s]
<1>1. q \in Call /\ CallOK(q) /\ q.pc = "commit"
  BY Here DEF Commit, At
<1>2. q.row \in Rows /\ q.deed \in Deeds
  BY <1>1 DEF Call
<1>3. q.row # "same" => q.c \in Charges /\ q.i = For[q.c] /\ q.i \in Intents
  BY <1>1, <1>2, Here DEF CallOK, About, Written, OnCharge, Rows
<1>4. q.deed = "operate" => q.i \in Intents /\ q.touched = {q.i}
  BY <1>1 DEF CallOK, Done, About
<1>5. Outcomes(q)
  <2> HIDE DEF q
  <2> QED
    BY <1>1, <1>2 DEF CallOK, Written, Done, Standing, Rows, Deeds, OnCharge, Outcomes
<1> QED
  BY <1>1, <1>3, <1>4, <1>5

LEMMA CommitWrites ==
    ASSUME IInv, NEW s \in Sessions, Commit(s)
    PROVE  /\ \A c \in Charges :
                 charge'[c] = IF c = call[s].c /\ call[s].row # "same" THEN call[s].row
                              ELSE charge[c]
           /\ \A i \in Intents : i \notin call[s].touched => intent'[i] = intent[i]
           /\ \A i \in Intents : i \in call[s].touched =>
                 CASE call[s].deed = "hold" -> Left(i, "awaiting", call[s].c, intent[i].note)
                   [] call[s].deed = "release" -> Left(i, "pending", Nobody, intent[i].note)
                   [] call[s].deed = "claim" -> Left(i, "paid", intent[i].holder, "payme")
                   [] call[s].deed = "operate" -> Left(i, "paid", intent[i].holder, "operator")
                   [] OTHER -> Left(i, intent[i].state, intent[i].holder, intent[i].note)
           /\ \A i \in Intents : intent'[i].buyer = intent[i].buyer \/ intent'[i].buyer = Nobody
           /\ \A i \in Intents : receipt'[i].sold = (receipt[i].sold \/ (call[s].sale /\ i = call[s].i))
           /\ TypeOK'
<1> DEFINE q == call[s]
<1>1. q \in Call /\ q.deed \in Deeds /\ q.row \in Rows /\ Outcomes(q)
  BY CommitsWhat DEF Call
<1>2. \A c \in Charges :
        charge'[c] = IF c = q.c /\ q.row # "same" THEN q.row ELSE charge[c]
  BY DEF Commit
<1>3. charge' \in [Charges -> ChargeStates]
  BY <1>1 DEF Commit, IInv, TypeOK, ChargeStates, Rows
<1>4. ASSUME NEW i \in Intents
      PROVE  /\ i \notin q.touched => intent'[i] = intent[i]
             /\ i \in q.touched => intent'[i] = IntentAfter(s, intent[i])
             /\ intent[i] \in Intent
  BY DEF Commit, IInv, TypeOK
<1>5. ASSUME NEW i \in Intents, i \in q.touched
      PROVE  /\ CASE q.deed = "hold" -> Left(i, "awaiting", q.c, intent[i].note)
                   [] q.deed = "release" -> Left(i, "pending", Nobody, intent[i].note)
                   [] q.deed = "claim" -> Left(i, "paid", intent[i].holder, "payme")
                   [] q.deed = "operate" -> Left(i, "paid", intent[i].holder, "operator")
                   [] OTHER -> Left(i, intent[i].state, intent[i].holder, intent[i].note)
             /\ intent'[i].buyer = intent[i].buyer \/ intent'[i].buyer = Nobody
             /\ intent'[i] \in Intent
  <2> DEFINE r == intent[i]
  <2>1. r \in Intent /\ intent'[i] = IntentAfter(s, r)
    BY <1>4, <1>5
  <2>2. /\ r.buyer \in Users \union {Nobody} /\ Nobody \in Charges \union {Nobody}
        /\ {"pending", "awaiting", "paid"} \subseteq IntentStates
        /\ {"payme", "operator"} \subseteq Notes
        /\ q.deed = "hold" => q.c \in Charges \union {Nobody}
    BY <1>1, <2>1 DEF Call, Intent, IntentStates, Notes
  <2> HIDE DEF r
  <2>3. CASE q.deed = "hold"
    <3>1. intent'[i] = [r EXCEPT !.state = "awaiting", !.holder = q.c]
      BY <2>1, <2>3 DEF IntentAfter
    <3> QED BY <2>1, <2>2, <2>3, <3>1 DEF Intent, Left, r
  <2>4. CASE q.deed = "release"
    <3>1. intent'[i] = [r EXCEPT !.state = "pending", !.holder = Nobody]
      BY <2>1, <2>4 DEF IntentAfter
    <3> QED BY <2>1, <2>2, <2>4, <3>1 DEF Intent, Left, r
  <2>5. CASE q.deed = "claim"
    <3>1. intent'[i] = [r EXCEPT !.state = "paid", !.note = "payme"]
      BY <2>1, <2>5 DEF IntentAfter
    <3> QED BY <2>1, <2>2, <2>5, <3>1 DEF Intent, Left, r
  <2>6. CASE q.deed = "operate"
    <3>1. intent'[i] = [r EXCEPT !.state = "paid", !.note = "operator"]
      BY <2>1, <2>6 DEF IntentAfter
    <3> QED BY <2>1, <2>2, <2>6, <3>1 DEF Intent, Left, r
  <2>7. CASE q.deed = "erase"
    <3>1. intent'[i] = [r EXCEPT !.buyer = Nobody]
      BY <2>1, <2>7 DEF IntentAfter
    <3> QED BY <2>1, <2>7, <3>1 DEF Intent, Left, r
  <2>8. CASE q.deed = "nothing"
    <3>1. intent'[i] = r
      BY <2>1, <2>8 DEF IntentAfter
    <3> QED BY <2>1, <2>8, <3>1 DEF Left, r
  <2> QED
    BY <1>1, <2>3, <2>4, <2>5, <2>6, <2>7, <2>8 DEF Deeds
<1>6. intent' \in [Intents -> Intent]
  BY <1>4, <1>5 DEF Commit
<1>7. ASSUME NEW i \in Intents
      PROVE  /\ receipt'[i] \in Receipt
             /\ receipt'[i].sold = (receipt[i].sold \/ (q.sale /\ i = q.i))
  <2>1. receipt[i] \in Receipt
    BY DEF IInv, TypeOK
  <2>2. CASE q.sale /\ i = q.i
    <3>1. PICK plan \in BOOLEAN :
             receipt'[i] = [sold |-> TRUE, user |-> q.buyer, running |-> plan]
      <4> WITNESS (i \in Plans) \in BOOLEAN
      <4> QED BY <2>2 DEF Commit
    <3>2. q.buyer \in Users \union {Nobody}
      BY <1>1 DEF Call
    <3>3. receipt'[i] \in Receipt
      BY <3>1, <3>2 DEF Receipt
    <3>4. receipt'[i].sold = TRUE
      BY <3>1
    <3> QED BY <2>2, <3>3, <3>4
  <2>3. CASE ~(q.sale /\ i = q.i)
    <3>1. PICK user \in {Nobody, receipt[i].user} :
             receipt'[i] = [receipt[i] EXCEPT !.user = user]
      BY <2>1, <2>3 DEF Commit
    <3> QED BY <2>1, <2>3, <3>1 DEF Receipt
  <2> QED
    BY <2>2, <2>3
<1>8. receipt' \in [Intents -> Receipt]
  BY <1>7 DEF Commit
<1>9. UNCHANGED clock /\ call' \in [Sessions -> Call]
  BY NoCallIsFine, Here DEF Commit
<1> QED
  BY <1>2, <1>3, <1>4, <1>5, <1>6, <1>7, <1>8, <1>9 DEF TypeOK, IInv

\* What no commit undoes, and what it leaves alone.
LEMMA CommitKeepsWhatWasPaid ==
    ASSUME IInv, NEW s \in Sessions, Commit(s)
    PROVE  /\ \A c \in Charges :
                 /\ charge[c] \in {"performed", "cancelled"} => charge'[c] = charge[c]
                 /\ charge[c] # "none" => charge'[c] # "none"
                 /\ call[s].row = "same" \/ c # call[s].c => charge'[c] = charge[c]
           /\ \A i \in Intents :
                 /\ intent[i].state = "paid" => Left(i, "paid", intent[i].holder, intent[i].note)
                 /\ intent[i].buyer = Nobody => intent'[i].buyer = Nobody
                 /\ receipt[i].sold => receipt'[i].sold
           /\ \A i \in Intents :
                 i # call[s].i \/ call[s].deed \in {"erase", "nothing"} =>
                    Left(i, intent[i].state, intent[i].holder, intent[i].note)
<1> DEFINE q == call[s]
<1>1. Outcomes(q) /\ q.deed \in Deeds /\ q.row \in Rows
  BY CommitsWhat DEF Call
<1>2. q.deed = "nothing" => q.touched = {}
  BY Here DEF CallOK, Done
<1>3. q.deed \notin {"nothing", "erase"} => q.touched = {q.i}
  BY Here DEF CallOK, Done
<1>4. ASSUME NEW c \in Charges
      PROVE  /\ charge[c] \in {"performed", "cancelled"} => charge'[c] = charge[c]
             /\ charge[c] # "none" => charge'[c] # "none"
             /\ q.row = "same" \/ c # q.c => charge'[c] = charge[c]
  BY <1>1, CommitWrites DEF Outcomes, Rows
<1>5. ASSUME NEW i \in Intents, i # q.i \/ q.deed \in {"erase", "nothing"}
      PROVE  Left(i, intent[i].state, intent[i].holder, intent[i].note)
  <2>1. CASE i \notin q.touched
    BY <2>1, CommitWrites DEF Left
  <2>2. CASE i \in q.touched
    <3>1. q.deed = "erase"
      BY <1>2, <1>3, <1>5, <2>2
    <3> QED BY <2>2, <3>1, CommitWrites
  <2> QED BY <2>1, <2>2
<1>6. ASSUME NEW i \in Intents, intent[i].state = "paid"
      PROVE  Left(i, "paid", intent[i].holder, intent[i].note)
  <2>1. CASE i \in q.touched /\ q.deed \notin {"nothing", "erase"}
    BY <1>1, <1>3, <1>6, <2>1 DEF Outcomes, HeldBy, Deeds
  <2>2. CASE i \notin q.touched
    BY <1>6, <2>2, CommitWrites DEF Left
  <2>3. CASE q.deed \in {"nothing", "erase"}
    BY <1>5, <1>6, <2>3
  <2> QED BY <2>1, <2>2, <2>3
<1>7. ASSUME NEW i \in Intents
      PROVE  /\ intent[i].buyer = Nobody => intent'[i].buyer = Nobody
             /\ receipt[i].sold => receipt'[i].sold
  BY CommitWrites
<1> QED
  BY <1>4, <1>5, <1>6, <1>7

LEMMA CommitKeepsTables ==
    ASSUME IInv, NEW s \in Sessions, Commit(s)
    PROVE  Tables'
<1> DEFINE q == call[s]
<1>1. HoldIsLive /\ ChargedOnce /\ SettledTogether /\ Noted
  BY DEF IInv, Tables
<1>2. /\ Outcomes(q) /\ q.row \in Rows
      /\ q.row # "same" => q.c \in Charges /\ q.i = For[q.c] /\ q.i \in Intents
      /\ q.deed = "operate" => q.i \in Intents /\ q.touched = {q.i}
      /\ q.deed \notin {"nothing", "erase"} => q.touched = {q.i}
      /\ q.sale => q.deed = "operate" \/ q.row = "performed"
      /\ q.row = "performed" =>
            /\ q.sale \/ q.i \in Plans \/ q.buyer = Nobody \/ receipt[q.i].sold
            /\ q.buyer = Nobody => intent[q.i].buyer = Nobody
  BY CommitsWhat, Here DEF Call, CallOK, Done, Written
<1>3. /\ \A c \in Charges : For[c] \in Intents /\ c # Nobody
      /\ \A c \in Charges : charge'[c] = IF c = q.c /\ q.row # "same" THEN q.row ELSE charge[c]
  BY RailAssumption, CommitWrites DEF RailAssumption
<1>4. /\ \A i \in Intents : i # q.i \/ q.deed \in {"erase", "nothing"} =>
            Left(i, intent[i].state, intent[i].holder, intent[i].note)
      /\ \A i \in Intents :
            intent[i].state = "paid" => Left(i, "paid", intent[i].holder, intent[i].note)
      /\ q.deed = "hold" => Left(q.i, "awaiting", q.c, intent[q.i].note)
      /\ q.deed = "release" => Left(q.i, "pending", Nobody, intent[q.i].note)
      /\ q.deed = "claim" => Left(q.i, "paid", intent[q.i].holder, "payme")
      /\ q.deed = "operate" => Left(q.i, "paid", intent[q.i].holder, "operator")
  BY <1>2, CommitKeepsWhatWasPaid, CommitWrites DEF Outcomes
<1>5. \A i \in Intents :
        receipt'[i].sold = (receipt[i].sold \/ (q.sale /\ i = q.i))
  BY CommitWrites
<1> HIDE DEF q
<1>6. HoldIsLive'
  BY <1>1, <1>2, <1>3, <1>4 DEF HoldIsLive, Outcomes, HeldBy, PaidBy, Left
<1>7. ChargedOnce'
  BY <1>1, <1>2, <1>3, <1>4 DEF ChargedOnce, HoldIsLive, Outcomes, HeldBy, PaidBy, Left
<1>8. Noted'
  BY <1>1, <1>2, <1>3, <1>4 DEF Noted, Outcomes, HeldBy, PaidBy, Left
<1>9. SettledTogether'
  <2>1. ASSUME NEW i \in Intents, receipt'[i].sold PROVE intent'[i].state = "paid"
    BY <1>1, <1>2, <1>4, <1>5, <2>1 DEF SettledTogether, Outcomes, PaidBy, Left
  <2>2. ASSUME NEW i \in Intents, intent'[i].note = "payme"
        PROVE  /\ charge'[intent'[i].holder] = "performed"
               /\ i \notin Plans /\ ~receipt'[i].sold => intent'[i].buyer = Nobody
    <3>1. intent[i].buyer = Nobody => intent'[i].buyer = Nobody
      BY CommitKeepsWhatWasPaid
    <3>2. CASE intent[i].note = "payme"
      <4>1. /\ intent[i].state = "paid" /\ intent[i].holder \in Charges
            /\ charge[intent[i].holder] = "performed"
        BY <1>1, <3>2 DEF Noted, SettledTogether
      <4>2. charge'[intent[i].holder] = "performed" /\ intent'[i].holder = intent[i].holder
        BY <4>1, CommitKeepsWhatWasPaid DEF Left
      <4> QED
        BY <1>1, <1>5, <3>1, <3>2, <4>2 DEF SettledTogether
    <3>3. CASE intent[i].note # "payme"
      <4>1. i = q.i /\ q.deed = "claim"
        BY <1>2, <1>4, <2>2, <3>3 DEF Left, Outcomes
      <4>2. q.row = "performed" /\ intent'[i].holder = q.c /\ q.c \in Charges
        BY <1>2, <1>4, <4>1 DEF Left, Outcomes, HeldBy
      <4> QED
        BY <1>2, <1>3, <1>5, <3>1, <4>1, <4>2
    <3> QED BY <3>2, <3>3
  <2> QED
    BY <2>1, <2>2 DEF SettledTogether
<1> QED
  BY <1>6, <1>7, <1>8, <1>9 DEF Tables

\* A call is as good as before when the tables move and nothing it goes by has changed.
LEMMA StillOK ==
    ASSUME NEW k \in Call, CallOK(k), NEW x \in Sessions, call'[x] = k,
           k.c \in Charges =>
              /\ charge[k.c] \in {"performed", "cancelled"} => charge'[k.c] = charge[k.c]
              /\ charge[k.c] # "none" => charge'[k.c] # "none"
              /\ k.row # "same" => charge'[k.c] = charge[k.c],
           k.i \in Intents =>
              /\ PaidBy(k) =>
                    Left(k.i, intent[k.i].state, intent[k.i].holder, intent[k.i].note)
              /\ k.deed \notin {"nothing", "erase"} =>
                    Left(k.i, intent[k.i].state, intent[k.i].holder, intent[k.i].note)
              /\ k.row = "performed" /\ intent[k.i].buyer = Nobody => intent'[k.i].buyer = Nobody
              /\ receipt[k.i].sold => receipt'[k.i].sold
    PROVE  CallOK(call[x])'
<1>1. k.op \in OnCharge => k.c \in Charges /\ k.i \in Intents
  BY RailAssumption DEF RailAssumption, CallOK, About
<1>2. k.op = "settle" => k.i \in Intents
  BY DEF CallOK, About
<1>3. k.row \in Rows /\ k.deed \in Deeds
  BY DEF Call
<1>4. k.row # "same" => k.op \in OnCharge
  BY <1>3 DEF CallOK, Written, OnCharge, Rows
<1>5. About(call[x])'
  BY DEF CallOK, About
<1>6. Written(call[x])'
  BY <1>1, <1>4 DEF CallOK, Written, PaidBy, Left
<1>7. Done(call[x])'
  BY <1>1, <1>2, <1>3, <1>4 DEF CallOK, Done, HeldBy, Left, Deeds
<1>8. Standing(call[x])'
  BY <1>1 DEF CallOK, Standing
<1>9. Answering(call[x])'
  BY <1>1 DEF CallOK, Answering, OnCharge
<1> QED
  BY <1>5, <1>6, <1>7, <1>8, <1>9 DEF CallOK

LEMMA CommitKeeps ==
    ASSUME IInv, NEW s \in Sessions, Commit(s)
    PROVE  IInv'
<1>1. TypeOK' /\ Tables'
  BY CommitWrites, CommitKeepsTables
<1>2. /\ \A x \in Sessions : call'[x] = IF x = s THEN NoCall ELSE call[x]
      /\ \A x \in Sessions : call[x] \in Call /\ CallOK(call[x])
      /\ \A x \in Sessions \ {s} : Apart(call[s], call[x])
  BY Here DEF Commit, IInv
<1>3. ASSUME NEW x \in Sessions PROVE CallOK(call[x])'
  <2>1. CASE x = s
    <3>1. PICK k : k = NoCall /\ k = call'[x]
      BY <1>2, <2>1
    <3>2. /\ k.op = "none" /\ k.pc = "idle" /\ k.row = "same" /\ k.deed = "nothing"
          /\ k.touched = {} /\ k.sale = FALSE /\ k.answer = "none"
      BY <3>1 DEF NoCall
    <3> QED
      BY <3>1, <3>2 DEF CallOK, About, OnCharge, Written, Done, Standing, Answering
  <2>2. CASE x # s
    <3>1. PICK k \in Call : k = call[x] /\ CallOK(k) /\ call'[x] = k /\ Apart(call[s], k)
      BY <1>2, <2>2
    <3>2. ASSUME k.c \in Charges
          PROVE  /\ charge[k.c] \in {"performed", "cancelled"} => charge'[k.c] = charge[k.c]
                 /\ charge[k.c] # "none" => charge'[k.c] # "none"
                 /\ k.row # "same" => charge'[k.c] = charge[k.c]
      BY <3>1, <3>2, CommitKeepsWhatWasPaid DEF Apart
    <3>3. ASSUME k.i \in Intents
          PROVE  /\ PaidBy(k) =>
                       Left(k.i, intent[k.i].state, intent[k.i].holder, intent[k.i].note)
                 /\ k.deed \notin {"nothing", "erase"} =>
                       Left(k.i, intent[k.i].state, intent[k.i].holder, intent[k.i].note)
                 /\ intent[k.i].buyer = Nobody => intent'[k.i].buyer = Nobody
                 /\ receipt[k.i].sold => receipt'[k.i].sold
      <4>1. k.deed \notin {"nothing", "erase"} => k.touched = {k.i}
        BY <3>1 DEF CallOK, Done
      <4>2. k.deed \notin {"nothing", "erase"} => k.i \notin call[s].touched
        BY <3>1, <4>1 DEF Apart
      <4>3. k.deed \notin {"nothing", "erase"} =>
               Left(k.i, intent[k.i].state, intent[k.i].holder, intent[k.i].note)
        BY <3>3, <4>2, CommitWrites DEF Left
      <4>4. PaidBy(k) => Left(k.i, intent[k.i].state, intent[k.i].holder, intent[k.i].note)
        BY <3>3, CommitKeepsWhatWasPaid DEF PaidBy
      <4> QED
        BY <3>3, <4>3, <4>4, CommitKeepsWhatWasPaid
    <3> QED
      BY <3>1, <3>2, <3>3, StillOK
  <2> QED BY <2>1, <2>2
<1>4. ASSUME NEW x \in Sessions, NEW y \in Sessions, x # y PROVE Apart(call[x], call[y])'
  <2>1. Apart(call[x], call[y])
    BY <1>4 DEF IInv
  <2> QED
    BY <1>2, <1>4, <2>1 DEF Apart, NoCall
<1> QED
  BY <1>1, <1>3, <1>4 DEF IInv

-----------------------------------------------------------------------------
(* Steps no call takes: a link is opened or expires, time passes. *)

\* A step that leaves the calls and the charges alone, and every intent that is held, paid or
\* being changed.
LEMMA Aside ==
    ASSUME IInv, UNCHANGED <<charge, call>>, TypeOK',
           \A i \in Intents : \/ UNCHANGED intent[i]
                              \/ /\ intent[i].state \in {"none", "pending"}
                                 /\ intent'[i].state \in {"pending", "expired"}
                                 /\ intent'[i].note # "payme"
                                 /\ \/ intent[i].state = "none"
                                    \/ \A s \in Sessions : i \notin call[s].touched,
           \A i \in Intents : receipt'[i].sold = receipt[i].sold
    PROVE  IInv'
<1>1. /\ HoldIsLive /\ ChargedOnce /\ SettledTogether /\ Noted
      /\ \A c \in Charges : For[c] \in Intents
  BY RailAssumption DEF RailAssumption, IInv, Tables
<1>2. HoldIsLive' /\ ChargedOnce' /\ Noted'
  BY <1>1 DEF HoldIsLive, ChargedOnce, Noted
<1>3. SettledTogether'
  BY <1>1 DEF SettledTogether, Noted
<1>4. ASSUME NEW x \in Sessions PROVE CallOK(call[x])'
  <2>1. PICK k \in Call : k = call[x] /\ CallOK(k) /\ call'[x] = k
    BY Here
  <2>2. ASSUME k.i \in Intents
        PROVE  /\ PaidBy(k) =>
                     Left(k.i, intent[k.i].state, intent[k.i].holder, intent[k.i].note)
               /\ k.deed \notin {"nothing", "erase"} =>
                     Left(k.i, intent[k.i].state, intent[k.i].holder, intent[k.i].note)
               /\ receipt[k.i].sold => receipt'[k.i].sold
    <3>1. k.deed \notin {"nothing", "erase"} => k.touched = {k.i} /\ intent[k.i].state # "none"
      BY <2>1 DEF CallOK, Done, HeldBy, Call, Deeds
    <3> QED
      BY <2>1, <2>2, <3>1 DEF PaidBy, Left
  <2>3. ASSUME k.i \in Intents, k.row = "performed", intent[k.i].buyer = Nobody
        PROVE  intent'[k.i].buyer = Nobody
    <3>1. charge[k.c] = "created" /\ k.c \in Charges /\ k.i = For[k.c]
      BY <2>1, <2>3 DEF CallOK, Written, About, OnCharge
    <3>2. intent[k.i].state \in {"awaiting", "paid"}
      BY <1>1, <3>1 DEF HoldIsLive
    <3> QED BY <2>3, <3>2
  <2> QED
    BY <2>1, <2>2, <2>3, StillOK
<1>5. \A x, y \in Sessions : x # y => Apart(call[x], call[y])'
  BY DEF IInv, Apart
<1> QED
  BY <1>2, <1>3, <1>4, <1>5 DEF IInv, Tables

LEMMA AsideKeeps ==
    ASSUME IInv,
           \/ \E i \in Intents : OpenIntent(i) \/ ExpireIntent(i) \/ Lapse(i) \/ EndPlan(i)
           \/ \E c \in Charges : CloseWindow(c)
    PROVE  IInv'
<1>0. TypeOK /\ Buyer \in [Intents -> Users]
  BY RailAssumption DEF RailAssumption, IInv
<1>1. ASSUME NEW i \in Intents, OpenIntent(i) PROVE IInv'
  <2>1. TypeOK'
    <3>1. [state |-> "pending", holder |-> Nobody, buyer |-> Buyer[i], note |-> "none"] \in Intent
      BY <1>0 DEF Intent, IntentStates, Notes
    <3> QED
      BY <1>0, <1>1, <3>1 DEF OpenIntent, TypeOK
  <2>2. \A j \in Intents : j # i => UNCHANGED intent[j]
    BY <1>1 DEF OpenIntent
  <2>3. intent'[i].state = "pending" /\ intent'[i].note = "none"
    BY <1>0, <1>1 DEF OpenIntent, TypeOK
  <2> QED
    BY <1>1, <2>1, <2>2, <2>3, Aside DEF OpenIntent
<1>2. ASSUME NEW i \in Intents, ExpireIntent(i) PROVE IInv'
  <2>1. TypeOK'
    <3>1. intent[i] \in Intent /\ "expired" \in IntentStates
      BY <1>0 DEF TypeOK, IntentStates
    <3>2. [intent[i] EXCEPT !.state = "expired"] \in Intent
      BY <3>1 DEF Intent
    <3> QED
      BY <1>0, <1>2, <3>2 DEF ExpireIntent, TypeOK
  <2>2. \A j \in Intents : j # i => UNCHANGED intent[j]
    BY <1>2 DEF ExpireIntent
  <2>3. /\ intent[i].state = "pending" /\ intent'[i].state = "expired"
        /\ intent'[i].note = intent[i].note /\ intent[i].note # "payme"
    BY <1>0, <1>2 DEF ExpireIntent, TypeOK, Intent, IInv, Tables, Noted
  <2> QED
    BY <1>2, <2>1, <2>2, <2>3, Aside DEF ExpireIntent
<1>3. ASSUME NEW i \in Intents, Lapse(i) PROVE IInv'
  <2>1. TypeOK'
    BY <1>0, <1>3 DEF Lapse, TypeOK
  <2> QED BY <1>3, <2>1, Aside DEF Lapse
<1>4. ASSUME NEW i \in Intents, EndPlan(i) PROVE IInv'
  <2>1. TypeOK' /\ \A j \in Intents : receipt'[j].sold = receipt[j].sold
    BY <1>0, <1>4 DEF EndPlan, TypeOK, Receipt
  <2> QED BY <1>4, <2>1, Aside DEF EndPlan
<1>5. ASSUME NEW c \in Charges, CloseWindow(c) PROVE IInv'
  <2>1. TypeOK'
    BY <1>0, <1>5 DEF CloseWindow, TypeOK
  <2> QED BY <1>5, <2>1, Aside DEF CloseWindow
<1> QED
  BY <1>1, <1>2, <1>3, <1>4, <1>5

-----------------------------------------------------------------------------
LEMMA NextKeepsIInv == IInv /\ [Next]_vars => IInv'
<1> SUFFICES ASSUME IInv, [Next]_vars PROVE IInv'
  OBVIOUS
<1>1. ASSUME NEW s \in Sessions, BeginSome(s) PROVE IInv'
  BY <1>1, BeginKeeps
<1>2. ASSUME NEW s \in Sessions, Step(s) PROVE IInv'
  BY <1>2, CreateKeeps, PerformKeeps, SaleKeeps, CancelKeeps, SettleKeeps, ForgetKeeps, CommitKeeps
     DEF Step
<1>3. ASSUME NEW s \in Sessions, Abort(s) PROVE IInv'
  BY <1>3, Refused DEF Abort
<1>4. ASSUME UNCHANGED vars PROVE IInv'
  <2>1. UNCHANGED intent /\ UNCHANGED charge /\ UNCHANGED receipt /\ UNCHANGED clock /\ UNCHANGED call
    BY <1>4 DEF vars
  <2> QED BY <2>1, Aside DEF IInv, TypeOK
<1> QED
  BY <1>1, <1>2, <1>3, <1>4, AsideKeeps DEF Next

LEMMA AlwaysIInv == Spec => []IInv
BY InitIInv, NextKeepsIInv, PTL DEF Spec

\* Every variable of the rail keeps its type, whatever calls overlap.
THEOREM TypeCorrect == Spec => []TypeOK
<1>1. IInv => TypeOK
  BY DEF IInv
<1> QED
  BY AlwaysIInv, <1>1, PTL

\* The mutex of the money: an awaiting intent is held by an open charge made against it, and an
\* open charge holds its intent or finds it paid (hold_intent, release_intent, expire_intent).
THEOREM HoldsAreLive == Spec => []HoldIsLive
<1>1. IInv => HoldIsLive
  BY DEF IInv, Tables
<1> QED
  BY AlwaysIInv, <1>1, PTL

\* No card is charged twice for one intent: a performed charge is the holder of a paid intent
\* (mark_performed and claim_intent in one transaction).
THEOREM CardsChargedOnce == Spec => []ChargedOnce
<1>1. IInv => ChargedOnce
  BY DEF IInv, Tables
<1> QED
  BY AlwaysIInv, <1>1, PTL

\* A receipt has a paid intent, and an intent the rail settled has its performed charge and, for
\* a song, its receipt (SqlPaymeLedger._settle: all of it or nothing).
THEOREM SettlesTogether == Spec => []SettledTogether
<1>1. IInv => SettledTogether
  BY DEF IInv, Tables
<1> QED
  BY AlwaysIInv, <1>1, PTL

\* What Payme is told of a charge is so when it is told.
THEOREM AnswersAreSo == Spec => AnswersAreTrue
<1> DEFINE Told(s) ==
      LET c == call[s].c
      IN  /\ call[s].answer = "performed" /\ call[s].op = "perform" =>
                charge'[c] = "performed" /\ intent'[For[c]].holder = c
          /\ call[s].answer = "cancelled" =>
                /\ charge'[c] = "cancelled"
                /\ intent'[For[c]].state = "awaiting" => intent'[For[c]].holder # c
<1>1. ASSUME IInv, IInv', NEW s \in Sessions, Commit(s) PROVE Told(s)
  <2> DEFINE q == call[s]
  <2>1. CallOK(q) /\ q.pc = "commit"
    BY <1>1, Here DEF Commit, At
  <2>2. HoldIsLive' /\ ChargedOnce'
    BY <1>1 DEF IInv, Tables
  <2>3. /\ \A c \in Charges : For[c] \in Intents
        /\ \A c \in Charges : charge'[c] = IF c = q.c /\ q.row # "same" THEN q.row ELSE charge[c]
    BY <1>1, CommitWrites, RailAssumption DEF RailAssumption
  <2>4. CASE q.answer = "performed" /\ q.op = "perform"
    <3>1. q.c \in Charges /\ charge'[q.c] = "performed"
      BY <2>1, <2>3, <2>4 DEF CallOK, Answering, About, OnCharge
    <3> QED
      BY <2>2, <2>3, <2>4, <3>1 DEF ChargedOnce
  <2>5. CASE q.answer = "cancelled"
    <3>1. q.c \in Charges /\ charge'[q.c] = "cancelled"
      BY <2>1, <2>3, <2>5 DEF CallOK, Answering, About
    <3> QED
      BY <2>2, <2>3, <2>5, <3>1 DEF HoldIsLive
  <2> QED
    BY <2>4, <2>5
<1>2. IInv /\ IInv' /\ [Next]_vars => [\A s \in Sessions : Commit(s) => Told(s)]_vars
  BY <1>1
<1>3. Spec => [][\A s \in Sessions : Commit(s) => Told(s)]_vars
  BY AlwaysIInv, <1>2, PTL DEF Spec
<1> QED
  BY <1>3 DEF AnswersAreTrue
=============================================================================
