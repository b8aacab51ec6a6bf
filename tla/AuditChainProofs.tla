--------------------------- MODULE AuditChainProofs ---------------------------
(***************************************************************************)
(* The audit log is one chain, for any number of requests, any pool, any   *)
(* batches and both rarities: the lock is what keeps it one. A row that is *)
(* not committed is linked to the newest row its transaction sees, and     *)
(* nobody else has rows that are not committed. From the same invariant: a *)
(* cut is explained if the log never falls silent for all of its 730 days, *)
(* and a walk raises no false alarm if rows also expire in their order.    *)
(***************************************************************************)
EXTENDS AuditChain, FiniteSetTheorems, WellFoundedInduction, TLAPS

-----------------------------------------------------------------------------
(* The inductive invariant. Its types leave the bounds of the model out. *)

AnyRow == [seq : Nat, prev : Nat]
AnyRequest == [pc : Steps, beside : BOOLEAN, head : Nat, rows : SUBSET AnyRow]

Shape ==
    /\ log \subseteq AnyRow /\ seqs \in Nat
    /\ req \in [Requests -> AnyRequest]
    /\ lock \in Requests \union {None}

\* What the transaction of r sees of the log.
Sees(r) == log \union req[r].rows
Linked(R) == \A x, y \in R : y.seq < x.seq => y.seq <= x.prev

\* Sequence numbers are not handed out twice.
Numbered == \A r \in Requests : \A x \in Sees(r) : x.seq <= seqs
\* Who is between its lock and its commit holds the lock.
Critical == {"head", "insert", "commit"}
Exclusive == \A r \in Requests :
    req[r].pc \in Critical \/ req[r].rows # {} => lock = r
\* With its own rows the log is one chain.
Chained == \A r \in Requests : Linked(Sees(r))
\* The head it read is the newest row still.
Fresh == \A r \in Requests : req[r].pc = "insert" =>
    \A x \in Sees(r) : x.seq <= req[r].head

ChainInv == Shape /\ OneChain /\ Numbered /\ Exclusive /\ Chained /\ Fresh
            /\ \A x \in log : x.seq <= seqs

-----------------------------------------------------------------------------
LEMMA InitChain == Init => ChainInv
BY AuditAssumption
   DEF Init, ChainInv, Shape, AnyRow, AnyRequest, Idle, Steps, OneChain, Numbered, Sees,
       Exclusive, Critical, Chained, Linked, Fresh

\* Rows may leave the log, whoever else is at work.
LEMMA Shrinks ==
    ASSUME ChainInv, log' \subseteq log, UNCHANGED <<seqs, req, lock>>
    PROVE  ChainInv'
BY DEF ChainInv, Shape, OneChain, Numbered, Sees, Exclusive, Chained, Linked, Fresh

\* A request goes a step that neither writes nor releases anything.
LEMMA Waits ==
    ASSUME ChainInv, UNCHANGED <<log, seqs, lock>>,
           NEW r \in Requests, NEW q \in AnyRequest,
           req' = [req EXCEPT ![r] = q],
           q.rows = req[r].rows \/ q.rows = {},
           q.pc \notin Critical
    PROVE  ChainInv'
BY DEF ChainInv, Shape, AnyRequest, OneChain, Numbered, Sees, Exclusive, Critical, Chained,
       Linked, Fresh

LEMMA TakeLockChain ==
    ASSUME ChainInv, NEW r \in Requests, TakeLock(r)
    PROVE  ChainInv'
<1>1. Shape'
  <2> DEFINE q == [req[r] EXCEPT !.pc = "head"]
  <2>1. q \in AnyRequest
    BY DEF ChainInv, Shape, AnyRequest, Steps
  <2>2. req' = [req EXCEPT ![r] = q]
    BY DEF TakeLock, Goto
  <2> HIDE DEF q
  <2> QED BY <2>1, <2>2 DEF ChainInv, Shape, TakeLock
<1>2. \A q \in Requests : req'[q].rows = req[q].rows
  BY DEF ChainInv, Shape, TakeLock, Goto, AnyRequest
<1>3. Exclusive'
  <2> SUFFICES ASSUME NEW q \in Requests, (req[q].pc \in Critical \/ req[q].rows # {})'
               PROVE  lock' = q
    BY DEF Exclusive
  <2>1. CASE q = r
    BY <2>1 DEF TakeLock
  <2>2. CASE q # r
    <3>1. lock = q
      BY <1>2, <2>2 DEF ChainInv, Shape, Exclusive, TakeLock, Goto, AnyRequest
    <3> QED BY <3>1, <2>2, AuditAssumption DEF TakeLock, Lockable
  <2> QED BY <2>1, <2>2
<1>4. Fresh'
  BY <1>2 DEF ChainInv, Shape, Fresh, Sees, TakeLock, Goto, AnyRequest
<1> QED BY <1>1, <1>2, <1>3, <1>4
        DEF ChainInv, OneChain, Numbered, Sees, Chained, Linked, TakeLock

LEMMA ReadHeadChain ==
    ASSUME ChainInv, NEW r \in Requests, ReadHead(r)
    PROVE  ChainInv'
<1>1. PICK h \in Newest(Sees(r)) :
          req' = [req EXCEPT ![r].pc = "insert", ![r].head = h]
  BY DEF ReadHead, Sees
<1>2. Sees(r) \subseteq AnyRow
  BY DEF ChainInv, Shape, Sees, AnyRequest
<1>3. h \in Nat /\ \A x \in Sees(r) : x.seq <= h
  BY <1>1, <1>2 DEF Newest, AnyRow
<1>4. Shape'
  <2> DEFINE q == [req[r] EXCEPT !.pc = "insert", !.head = h]
  <2>1. q \in AnyRequest
    BY <1>3 DEF ChainInv, Shape, AnyRequest, Steps
  <2>2. req' = [req EXCEPT ![r] = q]
    BY <1>1
  <2> HIDE DEF q
  <2> QED BY <2>1, <2>2 DEF ChainInv, Shape, ReadHead
<1>5. \A q \in Requests : /\ req'[q].rows = req[q].rows
                          /\ q # r => req'[q] = req[q]
  BY <1>1 DEF ChainInv, Shape, AnyRequest
<1>6. Exclusive'
  BY <1>5 DEF ChainInv, Exclusive, Critical, ReadHead
<1>7. Fresh'
  <2>1. req'[r].head = h
    BY <1>1 DEF ChainInv, Shape, AnyRequest
  <2> QED BY <2>1, <1>3, <1>5 DEF ChainInv, Fresh, Sees, ReadHead
<1> QED BY <1>4, <1>5, <1>6, <1>7
        DEF ChainInv, OneChain, Numbered, Sees, Chained, Linked, ReadHead

LEMMA InsertChain ==
    ASSUME ChainInv, NEW r \in Requests, Insert(r)
    PROVE  ChainInv'
<1> DEFINE new == [seq |-> seqs + 1, prev |-> req[r].head]
<1>1. new \in AnyRow /\ seqs' \in Nat /\ seqs' = seqs + 1 /\ seqs \in Nat
  <2>1. req[r] \in AnyRequest /\ seqs \in Nat /\ seqs' = seqs + 1
    BY DEF ChainInv, Shape, Insert
  <2>2. req[r].head \in Nat
    BY <2>1 DEF AnyRequest
  <2> QED BY <2>1, <2>2 DEF AnyRow
<1>2. Shape'
  <2> DEFINE q == [req[r] EXCEPT !.pc = IF req[r].beside THEN "commit" ELSE "handler",
                                 !.rows = req[r].rows \union {new}]
  <2>1. q \in AnyRequest
    BY <1>1 DEF ChainInv, Shape, AnyRequest, Steps
  <2>2. req' = [req EXCEPT ![r] = q] /\ UNCHANGED <<log, lock>>
    BY DEF Insert
  <2> HIDE DEF q, new
  <2> QED BY <1>1, <2>1, <2>2 DEF ChainInv, Shape
<1>3. /\ req'[r].rows = req[r].rows \union {new}
      /\ req'[r].pc \in {"commit", "handler"}
      /\ \A q \in Requests \ {r} : req'[q] = req[q]
  BY DEF ChainInv, Shape, Insert, AnyRequest
<1>4. Exclusive'
  BY <1>3 DEF ChainInv, Exclusive, Critical, Insert
<1>5. log' = log /\ log \subseteq AnyRow /\ \A q \in Requests : Sees(q) \subseteq AnyRow
  BY DEF ChainInv, Shape, Insert, Sees, AnyRequest
<1>6. \A q \in Requests \ {r} : Sees(q)' = Sees(q)
  BY <1>3, <1>5 DEF Sees
<1>7. Sees(r)' = Sees(r) \union {new}
  BY <1>3, <1>5 DEF Sees
<1>8. \A x \in Sees(r) : x.seq <= seqs /\ x.seq <= req[r].head
  BY DEF ChainInv, Numbered, Fresh, Insert
<1>9. Numbered'
  BY <1>1, <1>5, <1>6, <1>7 DEF ChainInv, Numbered, AnyRow
<1>10. Chained'
  <2>1. Linked(Sees(r)')
    <3> SUFFICES ASSUME NEW x \in Sees(r) \union {new}, NEW y \in Sees(r) \union {new},
                        y.seq < x.seq
                 PROVE  y.seq <= x.prev
      BY <1>7 DEF Linked
    <3>1. CASE x \in Sees(r) /\ y \in Sees(r)
      BY <3>1 DEF ChainInv, Chained, Linked
    <3>2. CASE x = new
      <4>1. y \in Sees(r)
        BY <3>2, <1>1 DEF AnyRow
      <4> QED BY <4>1, <3>2, <1>8
    <3>3. CASE x \in Sees(r) /\ y = new
      BY <3>3, <1>1, <1>5, <1>8 DEF AnyRow
    <3> QED BY <3>1, <3>2, <3>3
  <2> QED BY <2>1, <1>6 DEF ChainInv, Chained, Linked
<1>11. Fresh'
  BY <1>3, <1>6 DEF ChainInv, Fresh
<1> QED BY <1>1, <1>2, <1>4, <1>5, <1>9, <1>10, <1>11 DEF ChainInv, OneChain, AnyRow

\* A request ends, or its transaction beside does, with its rows committed or not; nobody
\* else has any, nor a head that was read.
LEMMA CloseChain ==
    ASSUME ChainInv, NEW r \in Requests, NEW q \in AnyRequest,
           q.rows = {}, q.pc \notin Critical,
           req' = [req EXCEPT ![r] = q], Unlock(r), seqs' = seqs,
           log' = log \/ log' = Sees(r)
    PROVE  ChainInv'
<1>1. Shape'
  BY DEF ChainInv, Shape, Sees, AnyRequest, Unlock
<1>2. req'[r] = q /\ \A p \in Requests \ {r} : req'[p] = req[p]
  BY DEF ChainInv, Shape
<1>3. \A p \in Requests \ {r} :
          (req[p].pc \in Critical \/ req[p].rows # {}) => lock = p /\ req[r].rows = {}
  BY DEF ChainInv, Exclusive
<1>4. \A p \in Requests \ {r} :
          (req[p].pc \in Critical \/ req[p].rows # {}) => log' = log
  BY <1>3 DEF Sees
<1>5. Exclusive'
  BY <1>2, <1>3 DEF Exclusive, Unlock
<1>6. Sees(r)' = log' /\ \A p \in Requests \ {r} : Sees(p)' = Sees(p) \/ Sees(p)' = log'
  BY <1>2, <1>4 DEF Sees
<1>7. log' \subseteq Sees(r) /\ \A x \in log' : x.seq <= seqs'
  BY DEF ChainInv, Numbered, Sees
<1>8. Linked(log')
  BY <1>7 DEF ChainInv, Chained, Linked
<1>9. Numbered'
  BY <1>6, <1>7 DEF ChainInv, Numbered
<1>10. Chained'
  BY <1>6, <1>8 DEF ChainInv, Chained, Linked
<1>11. Fresh'
  BY <1>2, <1>4 DEF ChainInv, Fresh, Sees, Critical
<1> QED BY <1>1, <1>5, <1>7, <1>8, <1>9, <1>10, <1>11 DEF ChainInv, OneChain, Linked

LEMMA StepChain == ChainInv /\ [Next]_vars => ChainInv'
<1> SUFFICES ASSUME ChainInv, [Next]_vars PROVE ChainInv'
  OBVIOUS
<1>1. ASSUME NEW r \in Requests, Begin(r) \/ Record(r) \/ Refuse(r) \/ Connect(r)
                                 \/ PoolTimeout(r)
      PROVE  ChainInv'
  <2>1. req[r] \in AnyRequest /\ req[r].rows \subseteq AnyRow
    BY DEF ChainInv, Shape, AnyRequest
  <2> DEFINE At(step) == [req[r] EXCEPT !.pc = step]
  <2>2. CASE Begin(r)
    <3>1. At("handler") \in AnyRequest /\ At("handler").rows = req[r].rows
      BY <2>1 DEF AnyRequest, Steps
    <3>2. At("handler").pc = "handler" /\ req' = [req EXCEPT ![r] = At("handler")]
      BY <2>1, <2>2 DEF Begin, Goto, AnyRequest
    <3> HIDE DEF At
    <3> QED BY <3>1, <3>2, <2>2, Waits DEF Begin, Critical
  <2>3. CASE Record(r)
    <3>1. At("lock") \in AnyRequest /\ At("lock").rows = req[r].rows
      BY <2>1 DEF AnyRequest, Steps
    <3>2. At("lock").pc = "lock" /\ req' = [req EXCEPT ![r] = At("lock")]
      BY <2>1, <2>3 DEF Record, Goto, AnyRequest
    <3> HIDE DEF At
    <3> QED BY <3>1, <3>2, <2>3, Waits DEF Record, Critical
  <2>4. CASE Refuse(r)
    <3>1. At("pool") \in AnyRequest /\ At("pool").rows = req[r].rows
      BY <2>1 DEF AnyRequest, Steps
    <3>2. At("pool").pc = "pool" /\ req' = [req EXCEPT ![r] = At("pool")]
      BY <2>1, <2>4 DEF Refuse, Goto, AnyRequest
    <3> HIDE DEF At
    <3> QED BY <3>1, <3>2, <2>4, Waits DEF Refuse, Critical
  <2>5. CASE Connect(r)
    <3> DEFINE own == [req[r] EXCEPT !.pc = "lock", !.beside = TRUE]
    <3>1. own \in AnyRequest /\ own.rows = req[r].rows
      BY <2>1 DEF AnyRequest, Steps
    <3>2. own.pc = "lock" /\ req' = [req EXCEPT ![r] = own]
      BY <2>1, <2>5 DEF Connect, AnyRequest
    <3> HIDE DEF own
    <3> QED BY <3>1, <3>2, <2>5, Waits DEF Connect, Critical
  <2>6. CASE PoolTimeout(r)
    <3>1. Idle \in AnyRequest /\ Idle.rows = {} /\ Idle.pc = "idle"
      BY DEF Idle, AnyRequest, AnyRow, Steps
    <3> QED BY <3>1, <2>6, Waits DEF PoolTimeout, Critical
  <2> QED BY <1>1, <2>2, <2>3, <2>4, <2>5, <2>6
<1>2. ASSUME NEW r \in Requests, CommitBeside(r) PROVE ChainInv'
  <2> DEFINE q == [Idle EXCEPT !.pc = "handler"]
  <2>1. q \in AnyRequest /\ q.rows = {} /\ q.pc = "handler"
    BY DEF Idle, AnyRequest, AnyRow, Steps
  <2>2. req' = [req EXCEPT ![r] = q] /\ log' = Sees(r) /\ Unlock(r) /\ seqs' = seqs
    BY <1>2 DEF CommitBeside, Sees
  <2> HIDE DEF q
  <2> QED BY <2>1, <2>2, CloseChain DEF Critical
<1>3. ASSUME NEW r \in Requests, End(r) \/ Abort(r) PROVE ChainInv'
  <2>1. Idle \in AnyRequest /\ Idle.rows = {} /\ Idle.pc = "idle"
    BY DEF Idle, AnyRequest, AnyRow, Steps
  <2>2. /\ req' = [req EXCEPT ![r] = Idle] /\ Unlock(r) /\ seqs' = seqs
        /\ log' = log \/ log' = Sees(r)
    BY <1>3 DEF End, Abort, Sees
  <2> QED BY <2>1, <2>2, CloseChain DEF Critical
<1>4. ASSUME Expire \/ SweepStep \/ VerifyStep \/ UNCHANGED vars PROVE ChainInv'
  <2>1. log' \subseteq log /\ UNCHANGED <<seqs, req, lock>>
    BY <1>4 DEF Expire, SweepStep, SweepDelete, SweepCut, SweepPin, SweepCommit, SweepAbort,
                Survivors, VerifyStep, VerifyStart, VerifyBatch, VerifyTail, vars
  <2> QED BY <2>1, Shrinks
<1> QED BY <1>1, <1>2, <1>3, <1>4, TakeLockChain, ReadHeadChain, InsertChain
        DEF Next, Proceed

\* The audit log never forks: whatever overlaps, rolls back, is refused or swept away, a
\* row is linked to the newest row that was committed before it (append, _lock_chain).
THEOREM NeverForks == Spec => []OneChain
<1>1. ChainInv => OneChain
  BY DEF ChainInv
<1> QED BY <1>1, InitChain, StepChain, PTL DEF Spec

-----------------------------------------------------------------------------
(* Where the sweep cuts. The newest row is never due, unless nothing was   *)
(* audited for 730 days, so that a sweep always leaves a row to name.      *)

AnySweep == [pc : {"idle", "cut", "pin", "commit"}, doomed : SUBSET AnyRow,
             cut : Nat, pin : Nat]

SweepShape ==
    /\ sweep \in AnySweep /\ due \subseteq Nat
    /\ \A x \in log : x.seq # 0
    /\ \A r \in Requests : \A x \in req[r].rows : x.seq # 0

\* Rows that are not committed come after those that are.
Ahead == \A r \in Requests : \A x \in req[r].rows : \A y \in log : y.seq < x.seq

\* The first row of all names none.
Anew == log = {} =>
    \A r \in Requests :
        /\ \A x \in req[r].rows : (\A y \in req[r].rows : x.seq <= y.seq) => x.prev = 0
        /\ req[r].pc = "insert" /\ req[r].rows = {} => req[r].head = 0

\* Above a row that is, or was, due there is one that is not.
NewestStays == \A d \in due : \E y \in log : y.seq \notin due /\ d < y.seq

\* What the sweep deletes is due, and what it is about to name is the oldest row it leaves.
CutsRight ==
    /\ \A x \in sweep.doomed : x.seq \in due
    /\ sweep.pc = "cut" => log # {}
    /\ sweep.pc \in {"pin", "commit"} /\ sweep.doomed # {} =>
          \E s \in Survivors : s.seq = sweep.cut /\ \A y \in Survivors : s.seq <= y.seq

CutsInv == /\ ChainInv /\ SweepShape /\ Ahead /\ Anew /\ NewestStays /\ CutsRight
           /\ CutsExplained

(* What a walk finds. Without a row that is due before an older one, what  *)
(* the sweep takes is the beginning of the log, and every row but the      *)
(* first names the one before it.                                          *)

\* Every row but the first names another one.
Rooted(R) == \A x \in R : /\ x.prev < x.seq
                          /\ (\E y \in R : y.seq = x.prev) \/ (\A y \in R : x.seq <= y.seq)
Beginning(D, R) == \A x \in D : \A y \in R : y.seq <= x.seq => y \in D

Whole ==
    /\ IsFiniteSet(log) /\ Rooted(log)
    /\ \A r \in Requests : IsFiniteSet(req[r].rows) /\ Rooted(Sees(r))
    /\ \A r \in Requests : req[r].pc = "insert" =>
          /\ req[r].head <= seqs
          /\ Sees(r) = {} \/ \E y \in Sees(r) : y.seq = req[r].head

FromTheOldest ==
    /\ Beginning({x \in log : x.seq \in due}, log)
    /\ sweep.doomed \subseteq log /\ Beginning(sweep.doomed, log)

\* No anchor is ahead of the log.
PinBehind ==
    /\ pin = 0 \/ \E y \in log : pin <= y.seq
    /\ sweep.pc = "commit" => sweep.pin = 0 \/ \E y \in Survivors : sweep.pin <= y.seq

AnyWalk == [pc : {"idle", "rows", "tail", "done"}, last : Nat, prev : Nat,
            checked : Nat, cuts : SUBSET Nat, ok : BOOLEAN, swept : BOOLEAN]

\* A walk no sweep has overtaken is at a row of the log, or before the first, which one of
\* its cuts names if it has to.
OnTheWay ==
    /\ walk \in AnyWalk /\ cuts \subseteq Nat /\ pin \in Nat
    /\ walk.pc \in {"rows", "tail"} /\ ~walk.swept =>
          /\ walk.ok
          /\ walk.last # 0 => walk.prev = walk.last /\ \E y \in log : y.seq = walk.last
          /\ walk.pc = "tail" => pin <= walk.last
          /\ \A x \in log : (\A y \in log : x.seq <= y.seq) => x.prev = 0 \/ x.seq \in walk.cuts

WalkInv == CutsInv /\ Whole /\ FromTheOldest /\ PinBehind /\ OnTheWay /\ NoFalseAlarm

-----------------------------------------------------------------------------
(* What a step of a request does to the log and to what is not committed.  *)

RequestStep(r) == Begin(r) \/ Proceed(r) \/ TakeLock(r) \/ Abort(r)

Alters(r) ==
    /\ \A p \in Requests \ {r} : req'[p] = req[p]
    /\ UNCHANGED <<due, cuts, pin, sweep, walk>>
    /\ \/ /\ log' = log /\ seqs' = seqs /\ req'[r].pc # "insert"
          /\ req'[r].rows \in {req[r].rows, {}}
       \/ /\ log' = log /\ seqs' = seqs /\ req'[r].rows = req[r].rows
          /\ req'[r].head \in Newest(Sees(r))
       \/ /\ log' = log /\ seqs' = seqs + 1 /\ req[r].pc = "insert" /\ req'[r].pc # "insert"
          /\ req'[r].rows = req[r].rows \union {[seq |-> seqs + 1, prev |-> req[r].head]}
       \/ /\ log' = Sees(r) /\ seqs' = seqs /\ req'[r].pc # "insert" /\ req'[r].rows = {}

LEMMA StepAlters ==
    ASSUME ChainInv, NEW r \in Requests, RequestStep(r)
    PROVE  Alters(r)
<1>1. req \in [Requests -> AnyRequest] /\ req[r] \in AnyRequest
  BY DEF ChainInv, Shape
<1>2. CASE Begin(r) \/ Record(r) \/ Refuse(r) \/ TakeLock(r)
  BY <1>1, <1>2 DEF Begin, Record, Refuse, TakeLock, Goto, Alters, AnyRequest
<1>3. CASE Connect(r) \/ PoolTimeout(r) \/ Abort(r)
  BY <1>1, <1>3 DEF Connect, PoolTimeout, Abort, Idle, Alters, AnyRequest
<1>4. CASE ReadHead(r)
  <2>1. PICK h \in Newest(Sees(r)) : req' = [req EXCEPT ![r].pc = "insert", ![r].head = h]
    BY <1>4 DEF ReadHead, Sees
  <2> QED BY <1>1, <1>4, <2>1 DEF ReadHead, Alters, AnyRequest
<1>5. CASE Insert(r)
  BY <1>1, <1>5 DEF Insert, Alters, AnyRequest
<1>6. CASE CommitBeside(r) \/ End(r)
  BY <1>1, <1>6 DEF CommitBeside, End, Idle, Sees, Alters, AnyRequest
<1> QED
  BY <1>2, <1>3, <1>4, <1>5, <1>6 DEF RequestStep, Proceed

\* One request at most has rows that are not committed, or a head that was read.
LEMMA OnlyOne ==
    ASSUME ChainInv, NEW r \in Requests, Alters(r), log' # log, NEW p \in Requests
    PROVE  req'[p].rows = {} /\ req'[p].pc # "insert" /\ log' = Sees(r)
<1>1. log' = Sees(r) /\ req'[r].rows = {} /\ req'[r].pc # "insert" /\ req[r].rows # {}
  BY DEF Alters, Sees
<1>2. lock = r
  BY <1>1 DEF ChainInv, Exclusive
<1> QED
  BY <1>1, <1>2 DEF ChainInv, Exclusive, Critical, Alters

LEMMA AltersKeepsCuts ==
    ASSUME CutsInv, ChainInv', NEW r \in Requests, Alters(r)
    PROVE  CutsInv'
<1>1. /\ seqs \in Nat /\ log \subseteq AnyRow /\ log \subseteq log'
      /\ \A p \in Requests : req[p].rows \subseteq AnyRow
      /\ \A p \in Requests : \A x \in log \union req[p].rows : x.seq <= seqs /\ x.seq # 0 /\ x.seq \in Nat
  BY DEF CutsInv, ChainInv, Shape, Numbered, Sees, SweepShape, Alters, AnyRequest, AnyRow
<1>2. UNCHANGED due /\ UNCHANGED cuts /\ UNCHANGED sweep
  BY DEF Alters
<1> DEFINE new == [seq |-> seqs + 1, prev |-> req[r].head]
<1>3. /\ \A p \in Requests \ {r} : req'[p] = req[p]
      /\ req'[r].rows \in {{}, req[r].rows, req[r].rows \union {new}}
      /\ log' = log \/ (log' = log \union req[r].rows /\ \A p \in Requests : req'[p].rows = {})
  BY OnlyOne DEF CutsInv, Alters, Sees
<1>4. \A p \in Requests : \A x \in req'[p].rows : x \in req[p].rows \/ x = new
  BY <1>3
<1>5. SweepShape'
  <2>1. \A p \in Requests : \A x \in req'[p].rows : x.seq # 0
    BY <1>1, <1>4
  <2>2. \A x \in log' : x.seq # 0
    BY <1>1, <1>3
  <2> QED BY <1>2, <2>1, <2>2 DEF CutsInv, SweepShape
<1>6. Ahead'
  <2> SUFFICES ASSUME NEW p \in Requests, NEW x \in req'[p].rows, NEW y \in log'
               PROVE  y.seq < x.seq
    BY DEF Ahead
  <2>1. y \in log
    BY <1>3
  <2>2. CASE x \in req[p].rows
    BY <2>1, <2>2 DEF CutsInv, Ahead
  <2>3. CASE x = new
    BY <1>1, <2>1, <2>3
  <2> QED BY <1>4, <2>2, <2>3
<1>7. Anew'
  <2> SUFFICES ASSUME log' = {}, NEW p \in Requests
               PROVE  /\ \A x \in req'[p].rows :
                            (\A y \in req'[p].rows : x.seq <= y.seq) => x.prev = 0
                      /\ req'[p].pc = "insert" /\ req'[p].rows = {} => req'[p].head = 0
    BY DEF Anew
  <2>1. log = {}
    BY <1>1
  <2>2. CASE p # r
    BY <1>3, <2>1, <2>2 DEF CutsInv, Anew
  <2>3. CASE p = r /\ req'[r].pc # "insert" /\ req'[r].rows \in {req[r].rows, {}}
    BY <2>1, <2>3 DEF CutsInv, Anew
  <2>4. CASE /\ p = r /\ log' = log /\ req'[r].rows = req[r].rows
             /\ req'[r].head \in Newest(Sees(r))
    BY <2>1, <2>4 DEF CutsInv, Anew, Newest, Sees
  <2>5. CASE /\ p = r /\ req[r].pc = "insert" /\ req'[r].pc # "insert"
             /\ req'[r].rows = req[r].rows \union {new}
    <3> SUFFICES ASSUME NEW x \in req'[r].rows, \A y \in req'[r].rows : x.seq <= y.seq
                 PROVE  x.prev = 0
      BY <2>5
    <3>1. CASE x \in req[r].rows
      BY <2>1, <2>5, <3>1 DEF CutsInv, Anew
    <3>2. CASE x = new
      <4>1. req[r].rows = {}
        BY <1>1, <2>5, <3>2
      <4> QED BY <2>1, <2>5, <3>2, <4>1 DEF CutsInv, Anew
    <3> QED BY <2>5, <3>1, <3>2
  <2> QED
    BY <2>2, <2>3, <2>4, <2>5 DEF Alters
<1>8. NewestStays'
  BY <1>1, <1>2 DEF CutsInv, NewestStays
<1>9. CutsRight'
  <2>1. sweep.pc = "cut" => log' # {}
    BY <1>1 DEF CutsInv, CutsRight
  <2>2. ASSUME sweep.pc \in {"pin", "commit"}, sweep.doomed # {}
        PROVE  \E s \in Survivors' : s.seq = sweep.cut /\ \A y \in Survivors' : s.seq <= y.seq
    <3>1. PICK s \in Survivors : s.seq = sweep.cut /\ \A y \in Survivors : s.seq <= y.seq
      BY <2>2 DEF CutsInv, CutsRight
    <3>2. s \in Survivors'
      BY <1>1, <1>2, <3>1 DEF Survivors
    <3>3. ASSUME NEW y \in Survivors' PROVE s.seq <= y.seq
      <4>1. CASE y \in log
        BY <1>2, <3>1, <4>1 DEF Survivors
      <4>2. CASE y \in req[r].rows
        BY <1>1, <3>1, <4>2 DEF CutsInv, Ahead, Survivors
      <4> QED BY <1>3, <4>1, <4>2 DEF Survivors
    <3> QED BY <3>1, <3>2, <3>3
  <2> QED
    BY <1>2, <2>1, <2>2 DEF CutsInv, CutsRight
<1>10. CutsExplained'
  <2> SUFFICES ASSUME NEW x \in log', \A y \in log' : x.seq <= y.seq
               PROVE  x.prev = 0 \/ x.seq \in cuts
    BY <1>2 DEF CutsExplained
  <2>1. CASE x \in log
    BY <1>1, <2>1 DEF CutsInv, CutsExplained
  <2>2. CASE x \notin log
    <3>1. x \in req[r].rows /\ log' = log \union req[r].rows
      BY <1>3, <2>2
    <3>2. log = {}
      <4> SUFFICES ASSUME NEW y \in log PROVE FALSE
        OBVIOUS
      <4>1. y.seq < x.seq /\ x.seq <= y.seq /\ x.seq \in Nat /\ y.seq \in Nat
        BY <1>1, <3>1 DEF CutsInv, Ahead
      <4> QED BY <4>1
    <3> QED BY <3>1, <3>2 DEF CutsInv, Anew
  <2> QED BY <2>1, <2>2
<1> QED
  BY <1>5, <1>6, <1>7, <1>8, <1>9, <1>10 DEF CutsInv

LEMMA InitCuts == Init => CutsInv
BY InitChain
   DEF Init, CutsInv, SweepShape, AnySweep, NoSweep, Idle, Ahead, Anew, NewestStays, CutsRight,
       CutsExplained

\* The last row is not one the sweep may take.
LEMMA SomeStay ==
    ASSUME CutsInv, log # {}
    PROVE  \E y \in log : y.seq \notin due
BY DEF CutsInv, NewestStays

LEMMA ExpireKeepsCuts ==
    ASSUME "idle" \notin Faults, CutsInv, ChainInv', Expire
    PROVE  CutsInv'
<1>1. PICK x \in log : /\ due' = due \union {x.seq}
                       /\ \E y \in log : y.seq > x.seq
  BY DEF Expire
<1>2. /\ UNCHANGED log /\ UNCHANGED cuts /\ UNCHANGED req /\ UNCHANGED sweep
      /\ \A y \in log : y.seq \in Nat
  BY DEF Expire, CutsInv, ChainInv, Shape, AnyRow
<1>3. NewestStays'
  <2> SUFFICES ASSUME NEW d \in due' PROVE \E y \in log : y.seq \notin due' /\ d < y.seq
    BY <1>2 DEF NewestStays
  <2>1. PICK z \in log : z.seq \notin due /\ x.seq < z.seq
    <3>1. PICK y \in log : y.seq > x.seq
      BY <1>1
    <3>2. CASE y.seq \notin due
      BY <3>1, <3>2, <1>2
    <3>3. CASE y.seq \in due
      <4>1. PICK z \in log : z.seq \notin due /\ y.seq < z.seq
        BY <3>3 DEF CutsInv, NewestStays
      <4> QED BY <1>2, <3>1, <4>1
    <3> QED BY <3>2, <3>3
  <2>2. z.seq \notin due'
    BY <1>1, <1>2, <2>1
  <2>3. CASE d = x.seq
    BY <2>1, <2>2, <2>3
  <2>4. CASE d \in due
    <3>1. PICK y \in log : y.seq \notin due /\ d < y.seq
      BY <2>4 DEF CutsInv, NewestStays
    <3>2. d \in Nat
      BY <2>4 DEF CutsInv, SweepShape
    <3>3. CASE y.seq = x.seq
      BY <1>2, <2>1, <2>2, <3>1, <3>2, <3>3
    <3>4. CASE y.seq # x.seq
      BY <1>1, <3>1, <3>4
    <3> QED BY <3>3, <3>4
  <2> QED BY <1>1, <2>3, <2>4
<1>4. SweepShape' /\ Ahead' /\ Anew' /\ CutsExplained'
  BY <1>1, <1>2 DEF CutsInv, SweepShape, Ahead, Anew, CutsExplained
<1>5. CutsRight'
  BY <1>1, <1>2 DEF CutsInv, CutsRight, Survivors
<1> QED
  BY <1>3, <1>4, <1>5 DEF CutsInv

LEMMA SweepKeepsCuts ==
    ASSUME CutsInv, ChainInv', SweepStep
    PROVE  CutsInv'
<1>1. /\ UNCHANGED seqs /\ UNCHANGED due /\ UNCHANGED req /\ log' \subseteq log
      /\ sweep \in AnySweep /\ log \subseteq AnyRow
  BY DEF SweepStep, SweepDelete, SweepCut, SweepPin, SweepCommit, SweepAbort, Survivors, CutsInv,
         SweepShape, ChainInv, Shape
<1>2. Ahead'
  BY <1>1 DEF CutsInv, Ahead
<1>3. CASE SweepDelete
  <2>1. First(PurgeBatch, Due) \subseteq Due /\ Due \subseteq log
    BY DEF First, Due
  <2>2. /\ sweep'.doomed = First(PurgeBatch, Due) /\ sweep'.cut = 0 /\ sweep'.pin = 0
        /\ sweep'.pc = (IF Due = {} THEN "pin" ELSE "cut") /\ sweep' \in AnySweep
        /\ UNCHANGED log /\ UNCHANGED cuts
    BY <1>1, <1>3, <2>1 DEF SweepDelete, NoSweep, AnySweep
  <2>3. SweepShape' /\ Anew' /\ NewestStays' /\ CutsExplained'
    BY <1>1, <2>2 DEF CutsInv, SweepShape, Anew, NewestStays, CutsExplained
  <2>4. CutsRight'
    BY <1>1, <2>1, <2>2 DEF CutsRight, Due
  <2> QED BY <1>2, <2>3, <2>4 DEF CutsInv
<1>4. CASE SweepCut
  <2>1. PICK s \in Oldest(Survivors) : sweep' = [sweep EXCEPT !.pc = "pin", !.cut = s]
    BY <1>4 DEF SweepCut
  <2>2. PICK row \in Survivors : row.seq = s /\ \A y \in Survivors : row.seq <= y.seq
    <3>1. PICK y \in log : y.seq \notin due
      BY <1>4, SomeStay DEF SweepCut, CutsInv, CutsRight
    <3>2. y \in Survivors
      BY <3>1 DEF Survivors, CutsInv, CutsRight
    <3> QED BY <2>1, <3>2 DEF Oldest
  <2>3. /\ sweep'.doomed = sweep.doomed /\ sweep'.cut = s /\ sweep'.pc = "pin"
        /\ sweep' \in AnySweep /\ UNCHANGED log /\ UNCHANGED cuts
    BY <1>1, <1>4, <2>1, <2>2 DEF SweepCut, AnySweep, Survivors, AnyRow
  <2>4. SweepShape' /\ Anew' /\ NewestStays' /\ CutsExplained'
    BY <1>1, <2>3 DEF CutsInv, SweepShape, Anew, NewestStays, CutsExplained
  <2>5. CutsRight'
    BY <1>1, <2>2, <2>3 DEF CutsInv, CutsRight, Survivors
  <2> QED BY <1>2, <2>4, <2>5 DEF CutsInv
<1>5. CASE SweepPin
  <2>1. PICK h \in Newest(Survivors) : sweep' = [sweep EXCEPT !.pc = "commit", !.pin = h]
    BY <1>5 DEF SweepPin
  <2>2. h \in Nat
    BY <1>1, <2>1 DEF Newest, Survivors, AnyRow
  <2>3. /\ sweep'.doomed = sweep.doomed /\ sweep'.cut = sweep.cut /\ sweep'.pc = "commit"
        /\ sweep' \in AnySweep /\ UNCHANGED log /\ UNCHANGED cuts /\ sweep.pc = "pin"
    BY <1>1, <1>5, <2>1, <2>2 DEF SweepPin, AnySweep
  <2>4. SweepShape' /\ Anew' /\ NewestStays' /\ CutsExplained'
    BY <1>1, <2>3 DEF CutsInv, SweepShape, Anew, NewestStays, CutsExplained
  <2>5. CutsRight'
    BY <1>1, <2>3 DEF CutsInv, CutsRight, Survivors
  <2> QED BY <1>2, <2>4, <2>5 DEF CutsInv
<1>6. CASE SweepCommit
  <2>1. /\ log' = log \ sweep.doomed /\ cuts' = cuts \union ({sweep.cut} \ {0})
        /\ sweep' = NoSweep /\ sweep.pc = "commit"
    BY <1>6 DEF SweepCommit, Survivors
  <2>2. \A x \in sweep.doomed : x.seq \in due
    BY DEF CutsInv, CutsRight
  <2>3. NewestStays'
    BY <1>1, <2>1, <2>2 DEF CutsInv, NewestStays
  <2>4. log' = {} => log = {}
    BY <2>1, <2>2, SomeStay
  <2>5. SweepShape' /\ Anew' /\ CutsRight'
    BY <1>1, <2>1, <2>4 DEF CutsInv, SweepShape, AnySweep, NoSweep, Anew, CutsRight
  <2>6. CutsExplained'
    <3> SUFFICES ASSUME NEW x \in log', \A y \in log' : x.seq <= y.seq
                 PROVE  x.prev = 0 \/ x.seq \in cuts'
      BY DEF CutsExplained
    <3>1. CASE sweep.doomed = {}
      BY <2>1, <3>1 DEF CutsInv, CutsExplained
    <3>2. CASE sweep.doomed # {}
      <4>1. PICK s \in Survivors : s.seq = sweep.cut /\ \A y \in Survivors : s.seq <= y.seq
        BY <2>1, <3>2 DEF CutsInv, CutsRight
      <4>2. s.seq <= x.seq /\ x.seq <= s.seq /\ s.seq \in Nat /\ x.seq \in Nat /\ s.seq # 0
        BY <1>1, <2>1, <4>1 DEF Survivors, AnyRow, CutsInv, SweepShape
      <4>3. x.seq = sweep.cut /\ sweep.cut # 0
        BY <4>1, <4>2
      <4> QED BY <2>1, <4>3
    <3> QED BY <3>1, <3>2
  <2> QED BY <1>2, <2>3, <2>5, <2>6 DEF CutsInv
<1>7. CASE SweepAbort
  <2>1. sweep' = NoSweep /\ UNCHANGED log /\ UNCHANGED cuts
    BY <1>7 DEF SweepAbort
  <2> QED
    BY <1>1, <1>2, <2>1 DEF CutsInv, SweepShape, AnySweep, NoSweep, Anew, NewestStays, CutsRight,
       CutsExplained
<1> QED
  BY <1>3, <1>4, <1>5, <1>6, <1>7 DEF SweepStep

\* A verification reads, and nothing else.
LEMMA VerifyReads ==
    ASSUME CutsInv, ChainInv', UNCHANGED <<log, seqs, due, cuts, req, sweep>>
    PROVE  CutsInv'
BY DEF CutsInv, SweepShape, Ahead, Anew, NewestStays, CutsRight, CutsExplained, Survivors

LEMMA StepCuts ==
    ASSUME "idle" \notin Faults
    PROVE  CutsInv /\ [Next]_vars => CutsInv'
<1> SUFFICES ASSUME CutsInv, [Next]_vars PROVE CutsInv'
  OBVIOUS
<1>1. ChainInv' /\ ChainInv
  BY StepChain DEF CutsInv
<1>2. ASSUME NEW r \in Requests, RequestStep(r) PROVE CutsInv'
  BY <1>1, <1>2, StepAlters, AltersKeepsCuts
<1>3. CASE VerifyStep \/ UNCHANGED vars
  BY <1>1, <1>3, VerifyReads DEF VerifyStep, VerifyStart, VerifyBatch, VerifyTail, vars
<1> QED
  BY <1>1, <1>2, <1>3, ExpireKeepsCuts, SweepKeepsCuts DEF Next, RequestStep

\* Where rows are gone from the beginning of the log, an anchor that was committed with
\* their deletion names the row that comes next, as long as something is audited once in
\* 730 days (purge_audit_log).
THEOREM CutsAreExplained ==
    ASSUME "idle" \notin Faults
    PROVE  Spec => []CutsExplained
<1>1. CutsInv => CutsExplained
  BY DEF CutsInv
<1> QED BY <1>1, InitCuts, StepCuts, PTL DEF Spec

-----------------------------------------------------------------------------
(* The oldest rows of a finite set of them. *)

LEMMA LeastNumber ==
    ASSUME NEW T, T \subseteq Nat, T # {}
    PROVE  \E n \in T : \A m \in T : n <= m
<1>1. PICK n \in T : \A m \in T : <<m, n>> \notin OpToRel(<, Nat)
  BY NatLessThanWellFounded, WFMin
<1>2. \A m \in T : ~(m < n)
  BY <1>1 DEF OpToRel
<1>3. ASSUME NEW m \in T PROVE n <= m
  <2>1. m \in Nat /\ n \in Nat /\ ~(m < n)
    BY <1>2
  <2> QED BY <2>1
<1> QED BY <1>3

\* With a row they have every row that is not younger.
LEMMA FirstIsBeginning ==
    ASSUME NEW R, IsFiniteSet(R), R \subseteq AnyRow, NEW n \in Int
    PROVE  First(n, R) \subseteq R /\ Beginning(First(n, R), R)
<1> DEFINE Before(x) == {y \in R : y.seq < x.seq}
<1> SUFFICES ASSUME NEW x \in First(n, R), NEW y \in R, y.seq <= x.seq
             PROVE  y \in First(n, R)
  BY DEF First, Beginning
<1>1. x \in R /\ x.seq \in Nat /\ y.seq \in Nat /\ \A z \in R : z.seq \in Nat
  BY DEF First, AnyRow
<1>2. Before(y) \subseteq Before(x)
  BY <1>1
<1>3. IsFiniteSet(Before(x))
  BY FS_Subset
<1>4. /\ Cardinality(Before(y)) <= Cardinality(Before(x))
      /\ Cardinality(Before(y)) \in Nat /\ Cardinality(Before(x)) \in Nat
  BY <1>2, <1>3, FS_Subset, FS_CardinalityType
<1>5. Cardinality(Before(x)) < n
  BY DEF First
<1>6. Cardinality(Before(y)) < n
  BY <1>4, <1>5
<1> QED BY <1>6 DEF First

\* A batch that is not full leaves none out.
LEMMA FirstIsAll ==
    ASSUME NEW R, IsFiniteSet(R), R \subseteq AnyRow, NEW n \in Int,
           Cardinality(First(n, R)) < n
    PROVE  First(n, R) = R
<1> DEFINE Before(x) == {y \in R : y.seq < x.seq}
           left == R \ First(n, R)
<1> SUFFICES ASSUME left # {} PROVE FALSE
  BY DEF First
<1>1. {x.seq : x \in left} \subseteq Nat /\ {x.seq : x \in left} # {}
  BY DEF AnyRow
<1>2. PICK x \in left : \A y \in left : x.seq <= y.seq
  <2> HIDE DEF left
  <2>1. PICK low \in {x.seq : x \in left} : \A m \in {x.seq : x \in left} : low <= m
    BY <1>1, LeastNumber
  <2> QED BY <2>1
<1>3. Before(x) \subseteq First(n, R)
  BY <1>2 DEF First, AnyRow
<1>4. /\ IsFiniteSet(First(n, R)) /\ Cardinality(Before(x)) <= Cardinality(First(n, R))
      /\ Cardinality(Before(x)) \in Nat /\ Cardinality(First(n, R)) \in Nat
  <2>1. IsFiniteSet(First(n, R))
    BY FS_Subset DEF First
  <2>2. IsFiniteSet(Before(x)) /\ Cardinality(Before(x)) <= Cardinality(First(n, R))
    BY <1>3, <2>1, FS_Subset
  <2> QED BY <2>1, <2>2, FS_CardinalityType
<1>5. Cardinality(Before(x)) < n
  BY <1>4
<1> QED BY <1>2, <1>5 DEF First

-----------------------------------------------------------------------------
(* A verification raises no false alarm. *)

LEMMA InitWalk == Init => WalkInv
<1> SUFFICES ASSUME Init PROVE WalkInv
  OBVIOUS
<1>1. /\ log = {} /\ pin = 0 /\ cuts = {} /\ sweep = NoSweep /\ walk = NoWalk
      /\ \A r \in Requests : req[r] = Idle
  BY DEF Init
<1>2. Whole
  BY <1>1, FS_EmptySet DEF Whole, Rooted, Sees, Idle
<1>3. OnTheWay /\ NoFalseAlarm
  BY <1>1 DEF OnTheWay, AnyWalk, NoWalk, NoFalseAlarm
<1> QED
  BY <1>1, <1>2, <1>3, InitCuts DEF WalkInv, FromTheOldest, PinBehind, Beginning, NoSweep

\* With its beginning gone, a log is rooted in the oldest row that is left.
LEMMA Rerooted ==
    ASSUME NEW R, R \subseteq AnyRow, Rooted(R), Linked(R), NEW D, Beginning(D, R), D \subseteq R
    PROVE  Rooted(R \ D)
<1> SUFFICES ASSUME NEW x \in R \ D, NEW y \in R, y.seq = x.prev, y \in D, NEW z \in R \ D
             PROVE  x.seq <= z.seq
  BY DEF Rooted
<1>1. x.seq \in Nat /\ z.seq \in Nat /\ y.seq \in Nat
  BY DEF AnyRow
<1>2. ~(z.seq <= y.seq)
  BY DEF Beginning
<1>3. z.seq < x.seq => z.seq <= y.seq
  BY DEF Linked
<1> QED BY <1>1, <1>2, <1>3

LEMMA AltersKeepsWalk ==
    ASSUME WalkInv, CutsInv', NEW r \in Requests, Alters(r)
    PROVE  WalkInv'
<1> DEFINE new == [seq |-> seqs + 1, prev |-> req[r].head]
<1>0. CutsInv /\ ChainInv
  BY DEF WalkInv, CutsInv
<1>1. /\ seqs \in Nat /\ log \subseteq AnyRow /\ log \subseteq log'
      /\ \A p \in Requests : Sees(p) \subseteq AnyRow /\ req[p] \in AnyRequest
      /\ \A p \in Requests : \A x \in Sees(p) : x.seq <= seqs
      /\ \A p \in Requests : \A x \in req[p].rows : \A y \in log : y.seq < x.seq
  BY <1>0 DEF CutsInv, Ahead, ChainInv, Shape, Numbered, Sees, Alters, AnyRequest
<1>2. UNCHANGED due /\ UNCHANGED cuts /\ UNCHANGED sweep /\ UNCHANGED pin /\ UNCHANGED walk
  BY DEF Alters
<1>3. \/ log' = log
      \/ /\ log' = Sees(r)
         /\ \A p \in Requests : req'[p].rows = {} /\ req'[p].pc # "insert"
  BY <1>0, OnlyOne
<1>4. Whole'
  <2>1. \A p \in Requests : IsFiniteSet(Sees(p)) /\ IsFiniteSet(req[p].rows) /\ Rooted(Sees(p))
    BY FS_Union DEF WalkInv, Whole, Sees
  <2>2. IsFiniteSet(log) /\ Rooted(log)
    BY DEF WalkInv, Whole
  <2>3. IsFiniteSet(log') /\ Rooted(log')
    BY <1>3, <2>1, <2>2
  <2>4. ASSUME NEW p \in Requests
        PROVE  /\ IsFiniteSet(req'[p].rows) /\ Rooted(Sees(p)')
               /\ req'[p].pc = "insert" =>
                    /\ req'[p].head <= seqs'
                    /\ Sees(p)' = {} \/ \E y \in Sees(p)' : y.seq = req'[p].head
    <3>1. CASE log' # log
      BY <1>3, <2>3, <3>1, FS_EmptySet DEF Sees
    <3>2. CASE log' = log /\ p # r
      <4>1. Sees(p)' = Sees(p) /\ req'[p] = req[p]
        BY <3>2 DEF Sees, Alters
      <4>2. seqs' \in Nat /\ seqs <= seqs'
        BY <1>1 DEF Alters
      <4>3. req[p].head \in Nat
        BY <1>1 DEF AnyRequest
      <4> QED BY <1>1, <2>1, <4>1, <4>2, <4>3 DEF WalkInv, Whole
    <3>3. CASE log' = log /\ p = r /\ req'[r].pc # "insert" /\ req'[r].rows \in {req[r].rows, {}}
      BY <2>1, <2>2, <3>3, FS_EmptySet DEF Sees
    <3>4. CASE /\ log' = log /\ p = r /\ req'[r].rows = req[r].rows
               /\ req'[r].head \in Newest(Sees(r)) /\ seqs' = seqs
      <4>1. Sees(r)' = Sees(r)
        BY <3>4 DEF Sees
      <4>2. Sees(r) = {} => req'[r].head = 0
        BY <3>4 DEF Newest
      <4>3. Sees(r) # {} => \E y \in Sees(r) : y.seq = req'[r].head
        BY <3>4 DEF Newest
      <4>4. req'[r].head <= seqs
        BY <1>1, <4>2, <4>3
      <4> QED BY <2>1, <3>4, <4>1, <4>3, <4>4
    <3>5. CASE /\ log' = log /\ p = r /\ req[r].pc = "insert" /\ req'[r].pc # "insert"
               /\ req'[r].rows = req[r].rows \union {new}
      <4>1. Sees(r)' = Sees(r) \union {new} /\ IsFiniteSet(req'[r].rows)
        <5>1. IsFiniteSet(req[r].rows \union {new})
          BY <2>1, FS_AddElement
        <5>2. log' \union req'[r].rows = (log \union req[r].rows) \union {new}
          BY <3>5
        <5> QED BY <3>5, <5>1, <5>2 DEF Sees
      <4>2. /\ req[r].head <= seqs /\ req[r].head \in Nat
            /\ Sees(r) = {} \/ \E y \in Sees(r) : y.seq = req[r].head
        BY <1>1, <3>5 DEF WalkInv, Whole, AnyRequest
      <4>3. Rooted(Sees(r) \union {new})
        <5> SUFFICES ASSUME NEW x \in Sees(r) \union {new}
                     PROVE  /\ x.prev < x.seq
                            /\ \/ \E y \in Sees(r) \union {new} : y.seq = x.prev
                               \/ \A y \in Sees(r) \union {new} : x.seq <= y.seq
          BY DEF Rooted
        <5>1. CASE x = new
          BY <1>1, <4>2, <5>1
        <5>2. CASE x \in Sees(r)
          <6>1. x.seq <= new.seq
            BY <1>1, <5>2 DEF AnyRow
          <6> QED BY <2>1, <5>2, <6>1 DEF Rooted
        <5> QED BY <5>1, <5>2
      <4> QED BY <3>5, <4>1, <4>3
    <3>6. CASE log' = log /\ p = r /\ req'[r].pc # "insert" /\ req'[r].rows = {}
      BY <2>2, <3>6, FS_EmptySet DEF Sees
    <3> QED BY <3>1, <3>2, <3>3, <3>4, <3>5, <3>6 DEF Alters
  <2> QED BY <2>3, <2>4 DEF Whole
<1>5. FromTheOldest'
  <2>1. ASSUME NEW x \in log', x.seq \in due PROVE x \in log
    <3>1. PICK y \in log : x.seq < y.seq
      BY <1>0, <2>1 DEF CutsInv, NewestStays
    <3>2. x \notin req[r].rows
      <4> SUFFICES ASSUME x \in req[r].rows PROVE FALSE
        OBVIOUS
      <4>1. y.seq < x.seq /\ x.seq \in Nat /\ y.seq \in Nat
        BY <1>1 DEF Sees, AnyRow
      <4> QED BY <3>1, <4>1
    <3> QED BY <1>3, <3>2 DEF Sees
  <2>2. ASSUME NEW x \in log, NEW y \in log', y.seq <= x.seq PROVE y \in log
    <3>1. y \notin req[r].rows
      <4> SUFFICES ASSUME y \in req[r].rows PROVE FALSE
        OBVIOUS
      <4>1. x.seq < y.seq /\ x.seq \in Nat /\ y.seq \in Nat
        BY <1>1 DEF Sees, AnyRow
      <4> QED BY <2>2, <4>1
    <3> QED BY <1>3, <3>1 DEF Sees
  <2> QED BY <1>1, <1>2, <2>1, <2>2 DEF WalkInv, FromTheOldest, Beginning
<1>6. PinBehind'
  <2>1. Survivors \subseteq Survivors'
    BY <1>1, <1>2 DEF Survivors
  <2> QED BY <1>1, <1>2, <2>1 DEF WalkInv, PinBehind
<1>7. OnTheWay'
  <2>1. ASSUME NEW x \in log', \A y \in log' : x.seq <= y.seq,
               walk.pc \in {"rows", "tail"}, ~walk.swept
        PROVE  x.prev = 0 \/ x.seq \in walk.cuts
    <3>1. CASE x \in log
      BY <1>1, <2>1, <3>1 DEF WalkInv, OnTheWay
    <3>2. CASE x \notin log
      <4>1. x \in req[r].rows /\ log' = log \union req[r].rows
        BY <1>3, <3>2 DEF Sees
      <4>2. log = {}
        <5> SUFFICES ASSUME NEW y \in log PROVE FALSE
          OBVIOUS
        <5>1. y.seq < x.seq /\ x.seq <= y.seq /\ x.seq \in Nat /\ y.seq \in Nat
          BY <1>1, <2>1, <4>1 DEF Sees, AnyRow
        <5> QED BY <5>1
      <4> QED BY <1>0, <2>1, <4>1, <4>2 DEF CutsInv, Anew
    <3> QED BY <3>1, <3>2
  <2> QED BY <1>1, <1>2, <2>1 DEF WalkInv, OnTheWay
<1>8. NoFalseAlarm'
  BY <1>2 DEF WalkInv, NoFalseAlarm
<1> QED
  BY <1>4, <1>5, <1>6, <1>7, <1>8 DEF WalkInv

LEMMA ExpireKeepsWalk ==
    ASSUME "skew" \notin Faults, WalkInv, CutsInv', Expire
    PROVE  WalkInv'
<1>1. PICK x \in log : /\ due' = due \union {x.seq}
                       /\ \A y \in log : y.seq < x.seq => y.seq \in due
  BY DEF Expire
<1>2. /\ UNCHANGED log /\ UNCHANGED seqs /\ UNCHANGED cuts /\ UNCHANGED pin /\ UNCHANGED req
      /\ UNCHANGED sweep /\ UNCHANGED walk /\ \A y \in log : y.seq \in Nat
  BY DEF Expire, WalkInv, CutsInv, ChainInv, Shape, AnyRow
<1>3. Beginning({y \in log : y.seq \in due'}, log)
  <2> SUFFICES ASSUME NEW z \in log, z.seq \in due', NEW y \in log, y.seq <= z.seq
               PROVE  y.seq \in due'
    BY DEF Beginning
  <2>1. CASE z.seq \in due
    BY <1>1, <2>1 DEF WalkInv, FromTheOldest, Beginning
  <2>2. CASE z.seq = x.seq
    BY <1>1, <1>2, <2>2
  <2> QED BY <1>1, <2>1, <2>2
<1>4. FromTheOldest'
  BY <1>2, <1>3 DEF WalkInv, FromTheOldest, Beginning
<1>5. Whole' /\ PinBehind' /\ OnTheWay' /\ NoFalseAlarm'
  BY <1>2 DEF WalkInv, Whole, Sees, PinBehind, Survivors, OnTheWay, NoFalseAlarm
<1> QED
  BY <1>4, <1>5 DEF WalkInv

LEMMA SweepKeepsWalk ==
    ASSUME WalkInv, CutsInv', SweepStep
    PROVE  WalkInv'
<1>0. CutsInv /\ ChainInv
  BY DEF WalkInv, CutsInv
<1>1. /\ UNCHANGED seqs /\ UNCHANGED due /\ UNCHANGED req /\ sweep \in AnySweep
      /\ log \subseteq AnyRow /\ IsFiniteSet(log)
      /\ \A p \in Requests : Sees(p) \subseteq AnyRow /\ req[p] \in AnyRequest
  BY <1>0 DEF SweepStep, SweepDelete, SweepCut, SweepPin, SweepCommit, SweepAbort, CutsInv,
         SweepShape, ChainInv, Shape, WalkInv, Whole, Sees, AnyRequest
<1>2. CASE SweepDelete
  <2> DEFINE doomed == First(PurgeBatch, Due)
  <2>1. /\ sweep'.doomed = doomed /\ sweep'.pc # "commit" /\ UNCHANGED log /\ UNCHANGED cuts
        /\ UNCHANGED pin /\ UNCHANGED walk
    BY <1>2 DEF SweepDelete, NoSweep
  <2>2. Due \subseteq log /\ Due \subseteq AnyRow /\ IsFiniteSet(Due) /\ PurgeBatch \in Int
    BY <1>1, FS_Subset, AuditAssumption DEF Due, AuditAssumption
  <2>3. doomed \subseteq Due /\ Beginning(doomed, Due)
    BY <2>2, FirstIsBeginning
  <2>4. Beginning(Due, log)
    BY DEF WalkInv, FromTheOldest, Due
  <2>5. Beginning(doomed, log)
    BY <2>3, <2>4 DEF Beginning
  <2>6. FromTheOldest'
    BY <1>1, <2>1, <2>2, <2>3, <2>5 DEF WalkInv, FromTheOldest, Beginning
  <2>7. Whole' /\ PinBehind' /\ OnTheWay' /\ NoFalseAlarm'
    BY <1>1, <2>1 DEF WalkInv, Whole, Sees, PinBehind, OnTheWay, NoFalseAlarm
  <2> QED BY <2>6, <2>7 DEF WalkInv
<1>3. CASE SweepCut
  <2>1. /\ sweep'.doomed = sweep.doomed /\ sweep'.pc = "pin" /\ UNCHANGED log /\ UNCHANGED cuts
        /\ UNCHANGED pin /\ UNCHANGED walk
    BY <1>1, <1>3 DEF SweepCut, AnySweep
  <2> QED
    BY <1>1, <2>1 DEF WalkInv, Whole, Sees, FromTheOldest, Beginning, PinBehind, OnTheWay,
       NoFalseAlarm
<1>4. CASE SweepPin
  <2>1. PICK h \in Newest(Survivors) : sweep' = [sweep EXCEPT !.pc = "commit", !.pin = h]
    BY <1>4 DEF SweepPin
  <2>2. /\ sweep'.doomed = sweep.doomed /\ sweep'.pin = h /\ UNCHANGED log /\ UNCHANGED cuts
        /\ UNCHANGED pin /\ UNCHANGED walk
    BY <1>1, <1>4, <2>1 DEF SweepPin, AnySweep
  <2>3. h = 0 \/ \E y \in Survivors : h <= y.seq
    BY <1>1, <2>1 DEF Newest, Survivors, AnyRow
  <2>4. PinBehind'
    BY <2>2, <2>3 DEF WalkInv, PinBehind, Survivors
  <2>5. Whole' /\ FromTheOldest' /\ OnTheWay' /\ NoFalseAlarm'
    BY <1>1, <2>2 DEF WalkInv, Whole, Sees, FromTheOldest, Beginning, OnTheWay, NoFalseAlarm
  <2> QED BY <2>4, <2>5 DEF WalkInv
<1>5. CASE SweepCommit
  <2>1. /\ log' = log \ sweep.doomed /\ pin' = sweep.pin /\ sweep' = NoSweep
        /\ cuts' = cuts \union ({sweep.cut} \ {0}) /\ sweep.pc = "commit"
        /\ walk' = [walk EXCEPT !.swept = walk.swept \/ walk.pc \in {"rows", "tail"}]
    BY <1>5 DEF SweepCommit, Survivors
  <2>2. /\ sweep.doomed \subseteq log /\ Beginning(sweep.doomed, log)
        /\ \A p \in Requests : \A x \in req[p].rows : \A y \in log : y.seq < x.seq
    BY <1>0 DEF WalkInv, FromTheOldest, CutsInv, Ahead
  <2>3. ASSUME NEW p \in Requests
        PROVE  /\ Beginning(sweep.doomed, Sees(p)) /\ Sees(p)' = Sees(p) \ sweep.doomed
               /\ sweep.doomed \subseteq Sees(p)
    <3>1. ASSUME NEW x \in req[p].rows, NEW y \in log PROVE ~(x.seq <= y.seq)
      <4>1. y.seq < x.seq /\ x.seq \in Nat /\ y.seq \in Nat
        BY <1>1, <2>2, <3>1 DEF Sees, AnyRow
      <4> QED BY <4>1
    <3>2. \A x \in req[p].rows : x \notin sweep.doomed
      BY <1>1, <2>2, <3>1 DEF Sees, AnyRow
    <3> QED BY <1>1, <2>1, <2>2, <3>1, <3>2 DEF Sees, Beginning
  <2>4. ASSUME NEW p \in Requests, req[p].pc = "insert"
        PROVE  Sees(p)' = {} \/ \E y \in Sees(p)' : y.seq = req[p].head
    <3>1. CASE Sees(p) = {}
      BY <2>3, <3>1
    <3>2. CASE Sees(p) # {}
      <4>1. PICK y \in Sees(p) : y.seq = req[p].head
        BY <2>4, <3>2 DEF WalkInv, Whole
      <4>2. y \notin sweep.doomed
        <5> SUFFICES ASSUME y \in sweep.doomed PROVE FALSE
          OBVIOUS
        <5>1. PICK z \in log : y.seq < z.seq
          BY <1>0 DEF CutsInv, CutsRight, NewestStays
        <5>2. z.seq <= y.seq /\ z.seq \in Nat /\ y.seq \in Nat
          BY <1>0, <1>1, <2>4, <4>1, <5>1 DEF ChainInv, Fresh, Sees, AnyRow
        <5> QED BY <5>1, <5>2
      <4> QED BY <2>3, <4>1, <4>2
    <3> QED BY <3>1, <3>2
  <2>5. Whole'
    <3>1. IsFiniteSet(log') /\ Rooted(log')
      <4>1. Linked(log) /\ Rooted(log)
        BY <1>0 DEF ChainInv, OneChain, Linked, WalkInv, Whole
      <4> QED BY <1>1, <2>1, <2>2, <4>1, FS_Subset, Rerooted
    <3>2. ASSUME NEW p \in Requests PROVE Rooted(Sees(p)')
      <4>1. Linked(Sees(p)) /\ Rooted(Sees(p))
        BY <1>0 DEF ChainInv, Chained, WalkInv, Whole
      <4> QED BY <1>1, <2>3, <4>1, Rerooted
    <3>3. Rooted(log)' /\ \A p \in Requests : Rooted(Sees(p))'
      BY <3>1, <3>2 DEF Rooted
    <3> QED BY <1>1, <2>4, <3>1, <3>3 DEF WalkInv, Whole
  <2>6. FromTheOldest'
    BY <1>1, <2>1 DEF WalkInv, FromTheOldest, Beginning, NoSweep
  <2>7. PinBehind'
    BY <2>1 DEF WalkInv, PinBehind, NoSweep, Survivors
  <2>8. PICK over \in BOOLEAN :
           /\ walk' = [walk EXCEPT !.swept = over]
           /\ over <=> walk.swept \/ walk.pc \in {"rows", "tail"}
    <3> (walk.swept \/ walk.pc \in {"rows", "tail"}) \in BOOLEAN
      OBVIOUS
    <3> WITNESS (walk.swept \/ walk.pc \in {"rows", "tail"}) \in BOOLEAN
    <3> QED BY <2>1
  <2>9. /\ walk' \in AnyWalk /\ walk'.swept = over /\ walk'.pc = walk.pc /\ walk'.ok = walk.ok
    BY <2>8 DEF WalkInv, OnTheWay, AnyWalk
  <2>10. OnTheWay'
    <3>1. cuts' \subseteq Nat /\ pin' \in Nat
      BY <1>1, <2>1 DEF WalkInv, OnTheWay, AnySweep
    <3> QED BY <2>8, <2>9, <3>1 DEF OnTheWay
  <2>11. NoFalseAlarm'
    BY <2>8, <2>9 DEF WalkInv, NoFalseAlarm
  <2> QED BY <2>5, <2>6, <2>7, <2>10, <2>11 DEF WalkInv
<1>6. CASE SweepAbort
  <2>1. sweep' = NoSweep /\ UNCHANGED log /\ UNCHANGED cuts /\ UNCHANGED pin /\ UNCHANGED walk
    BY <1>6 DEF SweepAbort
  <2> QED
    BY <1>1, <2>1 DEF WalkInv, Whole, Sees, FromTheOldest, Beginning, PinBehind, OnTheWay,
       NoFalseAlarm, NoSweep
<1> QED
  BY <1>2, <1>3, <1>4, <1>5, <1>6 DEF SweepStep

\* The rows a batch is taken from.
RestOf(w) == {x \in log : x.seq > w.last}

\* In a batch every row follows the one before it.
LEMMA BatchFollows ==
    ASSUME WalkInv, walk.pc = "rows", ~walk.swept, NEW n \in Int,
           NEW x \in First(n, RestOf(walk))
    PROVE  Follows(x, First(n, RestOf(walk)))
<1> DEFINE batch == First(n, RestOf(walk))
           before == {y \in batch : y.seq < x.seq}
<1>1. /\ log \subseteq AnyRow /\ IsFiniteSet(log) /\ Rooted(log) /\ Linked(log) /\ walk \in AnyWalk
      /\ \A y \in log : y.seq # 0
  BY DEF WalkInv, CutsInv, SweepShape, ChainInv, Shape, OneChain, Linked, Whole, OnTheWay
<1>2. RestOf(walk) \subseteq AnyRow /\ IsFiniteSet(RestOf(walk))
  BY <1>1, FS_Subset DEF RestOf
<1>3. batch \subseteq RestOf(walk) /\ Beginning(batch, RestOf(walk))
  BY <1>2, FirstIsBeginning
<1>4. x \in log /\ x.seq > walk.last /\ walk.last \in Nat /\ \A y \in log : y.seq \in Nat /\ y.prev \in Nat
  BY <1>1, <1>3 DEF RestOf, AnyRow, AnyWalk
<1>5. ASSUME NEW y \in log, y.seq < x.seq, y.seq > walk.last PROVE y \in before
  <2>1. y.seq <= x.seq /\ y \in RestOf(walk)
    BY <1>4, <1>5 DEF RestOf
  <2> QED BY <1>3, <1>5, <2>1 DEF Beginning
<1>6. before \subseteq log /\ \A y \in before : y.seq < x.seq /\ y.seq > walk.last
  BY <1>3 DEF RestOf
\* The first of all.
<1>7. CASE before = {} /\ walk.last = 0
  <2>1. \A y \in log : x.seq <= y.seq
    BY <1>1, <1>4, <1>5, <1>7
  <2>2. x.prev = 0 \/ x.seq \in walk.cuts
    BY <1>4, <2>1 DEF WalkInv, OnTheWay
  <2> QED BY <1>7, <2>2 DEF Follows
\* Any other names a row of the log, which nothing is between.
<1>8. CASE before # {} \/ walk.last # 0
  <2>1. PICK o \in log : o.seq < x.seq
    BY <1>4, <1>6, <1>8 DEF WalkInv, OnTheWay
  <2>2. PICK z \in log : z.seq = x.prev /\ z.seq < x.seq
    BY <1>1, <1>4, <2>1 DEF Rooted
  <2>3. \A y \in log : y.seq < x.seq => y.seq <= z.seq
    BY <1>1, <1>4, <2>2 DEF Linked
  <2>4. CASE before = {}
    <3>1. z.seq <= walk.last
      BY <1>4, <1>5, <2>2, <2>4
    <3>2. PICK y \in log : y.seq = walk.last /\ walk.prev = walk.last
      BY <1>8, <2>4 DEF WalkInv, OnTheWay
    <3>3. walk.last <= z.seq
      BY <1>4, <2>3, <3>2
    <3>4. x.prev = walk.prev
      BY <1>4, <2>2, <3>1, <3>2, <3>3
    <3> QED BY <1>8, <2>4, <3>4 DEF Follows
  <2>5. CASE before # {}
    <3>1. PICK y \in before : TRUE
      BY <2>5
    <3>2. z.seq > walk.last
      BY <1>4, <1>6, <2>3, <3>1
    <3>3. z \in before /\ \A v \in before : v.seq <= z.seq
      BY <1>4, <1>5, <1>6, <2>2, <2>3, <3>2
    <3>4. x.prev \in Newest(before)
      BY <2>2, <3>3 DEF Newest
    <3> QED BY <2>5, <3>4 DEF Follows
  <2> QED BY <2>4, <2>5
<1> QED
  BY <1>7, <1>8

LEMMA BatchKeepsWalk ==
    ASSUME WalkInv, CutsInv', VerifyBatch
    PROVE  WalkInv'
<1> DEFINE batch == First(Limit, RestOf(walk))
           checked == walk.checked + Cardinality(batch)
<1>1. /\ log \subseteq AnyRow /\ IsFiniteSet(log) /\ walk \in AnyWalk /\ walk.pc = "rows"
      /\ UNCHANGED log /\ UNCHANGED seqs /\ UNCHANGED due /\ UNCHANGED cuts /\ UNCHANGED pin
      /\ UNCHANGED req /\ UNCHANGED sweep
  BY DEF VerifyBatch, WalkInv, CutsInv, ChainInv, Shape, Whole, OnTheWay
<1>2. Limit \in Int /\ Limit <= ReadBatch /\ Limit <= MaxChecked - walk.checked
      /\ ReadBatch \in Nat /\ MaxChecked \in Nat /\ walk.checked \in Nat
  BY <1>1, AuditAssumption DEF AuditAssumption, Limit, AnyWalk
<1>3. RestOf(walk) \subseteq AnyRow /\ IsFiniteSet(RestOf(walk)) /\ batch \subseteq RestOf(walk)
  BY <1>1, <1>2, FS_Subset, FirstIsBeginning DEF RestOf
<1>4. Cardinality(batch) \in Nat /\ checked \in Nat
  BY <1>2, <1>3, FS_Subset, FS_CardinalityType
<1>5. PICK last \in IF batch = {} THEN {walk.last} ELSE Newest(batch) :
        walk' = IF \E x \in batch : ~Follows(x, batch)
                THEN [walk EXCEPT !.pc = "done", !.ok = FALSE]
                ELSE [walk EXCEPT !.checked = checked, !.last = last,
                         !.prev = IF batch = {} THEN walk.prev ELSE last,
                         !.pc = IF checked >= MaxChecked THEN "done"
                                ELSE IF Cardinality(batch) < ReadBatch THEN "tail"
                                ELSE "rows"]
  BY DEF VerifyBatch, RestOf
<1>6. /\ last \in Nat
      /\ batch = {} => last = walk.last
      /\ batch # {} => \E y \in log : y.seq = last /\ \A x \in batch : x.seq <= last
  <2>1. walk.last \in Nat
    BY <1>1 DEF AnyWalk
  <2>2. batch \subseteq log /\ \A x \in batch : x.seq \in Nat
    <3>1. RestOf(walk) \subseteq log
      BY DEF RestOf
    <3> HIDE DEF batch, checked
    <3> QED BY <1>3, <3>1 DEF AnyRow
  <2>3. last \in IF batch = {} THEN {walk.last} ELSE Newest(batch)
    BY <1>5
  <2> HIDE DEF batch, checked
  <2>4. CASE batch = {}
    BY <2>1, <2>3, <2>4
  <2>5. CASE batch # {}
    <3>1. last \in Newest(batch)
      BY <2>3, <2>5
    <3>2. PICK y \in batch : y.seq = last /\ \A x \in batch : x.seq <= y.seq
      BY <2>5, <3>1 DEF Newest
    <3> QED BY <2>2, <2>5, <3>2
  <2> QED BY <2>4, <2>5
<1>7. Whole' /\ FromTheOldest' /\ PinBehind'
  BY <1>1 DEF WalkInv, Whole, Sees, FromTheOldest, PinBehind, Survivors
<1>8. walk' \in AnyWalk /\ walk'.swept = walk.swept /\ walk'.cuts = walk.cuts
  <2>1. CASE \E x \in batch : ~Follows(x, batch)
    BY <1>1, <1>5, <2>1 DEF AnyWalk
  <2>2. CASE ~\E x \in batch : ~Follows(x, batch)
    <3> HIDE DEF batch, checked
    <3> QED BY <1>1, <1>4, <1>5, <1>6, <2>2 DEF AnyWalk
  <2> QED BY <2>1, <2>2
<1>9. CASE walk.swept
  BY <1>1, <1>7, <1>8, <1>9 DEF WalkInv, OnTheWay, NoFalseAlarm
<1>10. CASE ~walk.swept
  <2>1. \A x \in batch : Follows(x, batch)
    BY <1>1, <1>2, <1>10, BatchFollows
  <2>2. walk.ok /\ (walk.last # 0 => walk.prev = walk.last /\ \E y \in log : y.seq = walk.last)
    BY <1>1, <1>10 DEF WalkInv, OnTheWay
  <2>3. /\ walk'.last = last /\ walk'.ok = walk.ok
        /\ walk'.prev = IF batch = {} THEN walk.prev ELSE last
        /\ walk'.pc = IF checked >= MaxChecked THEN "done"
                       ELSE IF Cardinality(batch) < ReadBatch THEN "tail" ELSE "rows"
    BY <1>1, <1>5, <2>1 DEF AnyWalk
  <2>4. walk'.last # 0 => walk'.prev = walk'.last /\ \E y \in log : y.seq = walk'.last
    BY <1>6, <2>2, <2>3
  <2>5. ASSUME walk'.pc = "tail" PROVE pin <= walk'.last
    <3>1. checked < MaxChecked /\ Cardinality(batch) < ReadBatch
      BY <1>2, <1>4, <2>3, <2>5
    <3>2. Cardinality(batch) < Limit
      <4>1. Cardinality(batch) < MaxChecked - walk.checked
        BY <1>2, <1>4, <3>1
      <4> QED BY <3>1, <4>1 DEF Limit
    <3>3. batch = RestOf(walk)
      BY <1>2, <1>3, <3>2, FirstIsAll
    <3>4. \A y \in log : y.seq <= last
      <4> SUFFICES ASSUME NEW y \in log PROVE y.seq <= last
        OBVIOUS
      <4>1. y.seq \in Nat /\ walk.last \in Nat
        BY <1>1 DEF AnyRow, AnyWalk
      <4>2. CASE y.seq > walk.last
        <5>1. y \in batch
          BY <3>3, <4>2 DEF RestOf
        <5> QED BY <1>6, <5>1
      <4>3. CASE y.seq <= walk.last
        <5>1. CASE batch = {}
          BY <1>6, <4>3, <5>1
        <5>2. CASE batch # {}
          <6>1. PICK x \in batch : TRUE
            BY <5>2
          <6>2. x.seq > walk.last /\ x.seq <= last /\ x.seq \in Nat
            BY <1>3, <1>6, <6>1 DEF RestOf, AnyRow
          <6> QED BY <1>6, <4>1, <4>3, <6>2
        <5> QED BY <5>1, <5>2
      <4> QED BY <4>1, <4>2, <4>3
    <3>5. CASE pin = 0
      BY <1>6, <2>3, <3>5
    <3>6. CASE pin # 0
      <4>1. PICK y \in log : pin <= y.seq
        BY <3>6 DEF WalkInv, PinBehind
      <4>2. y.seq \in Nat /\ pin \in Nat /\ y.seq <= last
        BY <1>1, <3>4 DEF AnyRow, WalkInv, OnTheWay
      <4> QED BY <1>6, <2>3, <4>1, <4>2
    <3> QED BY <3>5, <3>6
  <2>6. \A x \in log : (\A y \in log : x.seq <= y.seq) => x.prev = 0 \/ x.seq \in walk.cuts
    BY <1>1, <1>10 DEF WalkInv, OnTheWay
  <2>7. OnTheWay'
    BY <1>1, <1>8, <2>2, <2>3, <2>4, <2>5, <2>6 DEF WalkInv, OnTheWay
  <2>8. NoFalseAlarm'
    BY <2>2, <2>3 DEF NoFalseAlarm
  <2> QED BY <1>7, <2>7, <2>8 DEF WalkInv
<1> QED
  BY <1>9, <1>10 DEF WalkInv, OnTheWay, AnyWalk

LEMMA VerifyKeepsWalk ==
    ASSUME WalkInv, CutsInv', VerifyStep \/ UNCHANGED vars
    PROVE  WalkInv'
<1>1. /\ UNCHANGED log /\ UNCHANGED seqs /\ UNCHANGED due /\ UNCHANGED cuts /\ UNCHANGED pin
      /\ UNCHANGED req /\ UNCHANGED sweep /\ walk \in AnyWalk
  BY DEF VerifyStep, VerifyStart, VerifyBatch, VerifyTail, vars, WalkInv, OnTheWay
<1>2. Whole' /\ FromTheOldest' /\ PinBehind'
  BY <1>1 DEF WalkInv, Whole, Sees, FromTheOldest, PinBehind, Survivors
<1>3. CASE VerifyStart
  <2>1. cuts \subseteq Nat /\ walk' = [NoWalk EXCEPT !.pc = "rows", !.cuts = cuts]
    BY <1>3 DEF VerifyStart, WalkInv, OnTheWay
  <2>2. /\ walk'.pc = "rows" /\ walk'.ok /\ walk'.last = 0 /\ walk'.cuts = cuts
        /\ walk' \in AnyWalk
    BY <2>1 DEF NoWalk, AnyWalk
  <2>3. CutsExplained
    BY DEF WalkInv, CutsInv
  <2>4. OnTheWay' /\ NoFalseAlarm'
    BY <1>1, <2>2, <2>3 DEF WalkInv, OnTheWay, NoFalseAlarm, CutsExplained
  <2> QED BY <1>2, <2>4 DEF WalkInv
<1>4. CASE VerifyTail
  <2>1. PICK ok \in BOOLEAN : /\ walk' = [walk EXCEPT !.pc = "done", !.ok = ok]
                              /\ ok <=> walk.last >= pin
    <3> (walk.last >= pin) \in BOOLEAN
      BY <1>1 DEF AnyWalk, WalkInv, OnTheWay
    <3> WITNESS (walk.last >= pin) \in BOOLEAN
    <3> QED BY <1>4 DEF VerifyTail
  <2>2. /\ walk' \in AnyWalk /\ walk'.pc = "done" /\ walk'.ok = ok /\ walk'.swept = walk.swept
        /\ walk.last \in Nat /\ pin \in Nat
    BY <1>1, <2>1 DEF AnyWalk, WalkInv, OnTheWay
  <2>3. ~walk.swept => ok
    BY <1>4, <2>1, <2>2 DEF VerifyTail, WalkInv, OnTheWay
  <2>4. OnTheWay' /\ NoFalseAlarm'
    BY <1>1, <2>2, <2>3 DEF WalkInv, OnTheWay, NoFalseAlarm
  <2> QED BY <1>2, <2>4 DEF WalkInv
<1>5. CASE UNCHANGED vars
  BY <1>1, <1>2, <1>5 DEF vars, WalkInv, OnTheWay, NoFalseAlarm
<1> QED
  BY <1>3, <1>4, <1>5, BatchKeepsWalk DEF VerifyStep

LEMMA StepWalk ==
    ASSUME Faults = {}
    PROVE  WalkInv /\ [Next]_vars => WalkInv'
<1> SUFFICES ASSUME WalkInv, [Next]_vars PROVE WalkInv'
  OBVIOUS
<1>1. CutsInv' /\ CutsInv /\ ChainInv
  BY StepCuts DEF WalkInv, CutsInv
<1>2. ASSUME NEW r \in Requests, RequestStep(r) PROVE WalkInv'
  BY <1>1, <1>2, StepAlters, AltersKeepsWalk
<1> QED
  BY <1>1, <1>2, ExpireKeepsWalk, SweepKeepsWalk, VerifyKeepsWalk DEF Next, RequestStep

\* A verification of a log nobody tampered with reports no break, whatever requests append
\* and roll back between its batches, as long as rows come due in their order and the newest
\* never does (verify_chain, _verify_batch, _tail_break).
THEOREM NeverAFalseAlarm ==
    ASSUME Faults = {}
    PROVE  Spec => []NoFalseAlarm
<1>1. WalkInv => NoFalseAlarm
  BY DEF WalkInv
<1> QED BY <1>1, InitWalk, StepWalk, PTL DEF Spec

-----------------------------------------------------------------------------
(* The bounds of the types. A sequence number is kept for everybody who is *)
(* about to append; no two rows share one, so that a batch is no larger    *)
(* than it was asked to be.                                                *)

Distinct(R) == \A x, y \in R : x.seq = y.seq => x = y

Fits ==
    /\ log \subseteq Row /\ IsFiniteSet(log) /\ Distinct(log)
    /\ \A r \in Requests :
          /\ req[r].rows \subseteq Row /\ IsFiniteSet(req[r].rows) /\ req[r].head \in 0..MaxRows
          /\ Distinct(Sees(r))
    /\ seqs + Cardinality(Appending) <= MaxRows

Places ==
    /\ due \subseteq Seqs /\ cuts \subseteq Seqs /\ pin \in 0..MaxRows
    /\ sweep \in Sweep /\ walk \in Walk

LEMMA Sizes ==
    /\ {ReadBatch, MaxChecked, PurgeBatch, MaxRows} \subseteq Nat \ {0}
    /\ Seqs \subseteq 0..MaxRows /\ 0 \in 0..MaxRows /\ \A n \in 0..MaxRows : n # 0 => n \in Seqs
<1>1. {ReadBatch, MaxChecked, PurgeBatch, MaxRows} \subseteq Nat \ {0}
  BY AuditAssumption DEF AuditAssumption
<1> QED BY <1>1 DEF Seqs

LEMMA Counted ==
    ASSUME IsFiniteSet(Requests)
    PROVE  \A A \in SUBSET Requests :
              /\ IsFiniteSet(A) /\ Cardinality(A) \in Nat
              /\ \A r \in A : Cardinality(A \ {r}) = Cardinality(A) - 1
              /\ \A r \in Requests \ A : Cardinality(A \union {r}) = Cardinality(A) + 1
<1> SUFFICES ASSUME NEW A \in SUBSET Requests
             PROVE  /\ IsFiniteSet(A) /\ Cardinality(A) \in Nat
                    /\ \A r \in A : Cardinality(A \ {r}) = Cardinality(A) - 1
                    /\ \A r \in Requests \ A : Cardinality(A \union {r}) = Cardinality(A) + 1
  OBVIOUS
<1>1. IsFiniteSet(A)
  BY FS_Subset
<1> QED BY <1>1, FS_CardinalityType, FS_RemoveElement, FS_AddElement

\* The newest and the oldest of some rows are the numbers of rows, or none.
LEMMA EndsOfRows ==
    ASSUME NEW R \in SUBSET Row
    PROVE  /\ \A h \in Newest(R) : h \in 0..MaxRows /\ (R # {} => h \in Seqs)
           /\ \A h \in Oldest(R) : h \in 0..MaxRows
<1>1. \A x \in R : x.seq \in Seqs
  BY DEF Row
<1> QED BY <1>1, Sizes DEF Newest, Oldest

\* The n oldest of some rows are n at the most.
LEMMA FirstIsFew ==
    ASSUME NEW R \in SUBSET Row, IsFiniteSet(R), Distinct(R), NEW n \in Nat
    PROVE  /\ First(n, R) \subseteq R /\ IsFiniteSet(First(n, R))
           /\ Cardinality(First(n, R)) \in Nat /\ Cardinality(First(n, R)) <= n
<1> DEFINE F == First(n, R)
<1>1. F \subseteq R /\ IsFiniteSet(F) /\ Cardinality(F) \in Nat
  <2>1. F \subseteq R
    BY DEF First
  <2> QED BY <2>1, FS_Subset, FS_CardinalityType
<1>2. CASE F = {}
  BY <1>1, <1>2, FS_EmptySet
<1>3. CASE F # {}
  <2>1. \A x \in R : x.seq \in Seqs /\ MaxRows - x.seq \in Nat
    BY Sizes DEF Row, Seqs
  <2>2. PICK x \in F : \A y \in F : y.seq <= x.seq
    <3> DEFINE Turned == {MaxRows - y.seq : y \in F}
    <3>1. Turned \subseteq Nat /\ Turned # {}
      BY <1>1, <1>3, <2>1
    <3> HIDE DEF F
    <3>2. PICK low \in Turned : \A m \in Turned : low <= m
      BY <3>1, LeastNumber
    <3>3. PICK x \in F : low = MaxRows - x.seq
      BY <3>2
    <3>4. ASSUME NEW y \in F PROVE y.seq <= x.seq
      <4>1. MaxRows - x.seq <= MaxRows - y.seq
        BY <3>2, <3>3
      <4>2. x.seq \in Nat /\ y.seq \in Nat /\ MaxRows \in Nat
        BY <1>1, <2>1, Sizes DEF Seqs
      <4> QED BY <4>1, <4>2
    <3> QED BY <3>4
  <2> DEFINE Before == {y \in R : y.seq < x.seq}
  <2>3. Cardinality(Before) < n
    BY DEF First
  <2>4. F \ {x} \subseteq Before
    <3> SUFFICES ASSUME NEW y \in F, y # x PROVE y \in R /\ y.seq < x.seq
      OBVIOUS
    <3>1. y \in R /\ x \in R /\ y.seq # x.seq
      BY <1>1 DEF Distinct
    <3>2. y.seq \in Nat /\ x.seq \in Nat /\ y.seq <= x.seq
      BY <2>1, <2>2, <3>1, Sizes DEF Seqs
    <3> HIDE DEF F
    <3> QED BY <3>1, <3>2
  <2>5. IsFiniteSet(Before) /\ Cardinality(Before) \in Nat
    <3>1. Before \subseteq R
      OBVIOUS
    <3> QED BY <3>1, FS_Subset, FS_CardinalityType
  <2> HIDE DEF Before, F
  <2>6. Cardinality(F \ {x}) = Cardinality(F) - 1
    BY <1>1, <2>2, FS_RemoveElement
  <2>7. Cardinality(F \ {x}) <= Cardinality(Before)
    BY <2>4, <2>5, FS_Subset
  <2>8. Cardinality(F) <= n
    BY <1>1, <2>3, <2>5, <2>6, <2>7
  <2> QED BY <1>1, <2>8 DEF F
<1> QED BY <1>2, <1>3

\* Rows may leave the log.
LEMMA FewerFit ==
    ASSUME Fits, log' \subseteq log, UNCHANGED <<seqs, req>>
    PROVE  Fits'
<1>1. IsFiniteSet(log')
  BY FS_Subset DEF Fits
<1> QED BY <1>1 DEF Fits, Distinct, Sees, Appending

\* Who appends after a step of r.
LEMMA WhoAppends ==
    ASSUME IsFiniteSet(Requests), ChainInv, ChainInv', Fits, NEW r \in Requests, RequestStep(r)
    PROVE  seqs' + Cardinality(Appending') <= MaxRows
<1> DEFINE Working == {"pool", "lock", "head", "insert"}
<1>0. /\ req \in [Requests -> AnyRequest] /\ req' \in [Requests -> AnyRequest]
      /\ req[r] \in AnyRequest /\ seqs \in Nat
  BY DEF ChainInv, Shape
<1>1. /\ \A p \in Requests \ {r} : req'[p] = req[p]
      /\ Appending \in SUBSET Requests
  BY StepAlters DEF Alters, Appending
<1>2. Cardinality(Appending) \in Nat /\ seqs + Cardinality(Appending) <= MaxRows /\ MaxRows \in Nat
  BY <1>1, Counted, Sizes DEF Fits
<1>3. Appending' = IF req'[r].pc \in Working THEN Appending \union {r} ELSE Appending \ {r}
  BY <1>1 DEF Appending
<1>4. Cardinality(Appending \ {r}) \in Nat /\ Cardinality(Appending \ {r}) <= Cardinality(Appending)
  <2>1. CASE r \in Appending
    BY <1>1, <1>2, <2>1, Counted
  <2>2. CASE r \notin Appending
    <3>1. Appending \ {r} = Appending
      BY <2>2
    <3> QED BY <1>2, <3>1
  <2> QED BY <2>1, <2>2
<1>5. CASE Record(r) \/ Refuse(r)
  <2>1. /\ seqs' = seqs /\ r \notin Appending /\ req'[r].pc \in Working
        /\ seqs + Cardinality(Appending) < MaxRows
    BY <1>0, <1>5 DEF Record, Refuse, Goto, Room, Appending, AnyRequest
  <2>2. Cardinality(Appending \union {r}) = Cardinality(Appending) + 1
    BY <1>1, <2>1, Counted
  <2> HIDE DEF Working
  <2> QED BY <1>0, <1>2, <1>3, <2>1, <2>2
<1>6. CASE Connect(r) \/ TakeLock(r) \/ ReadHead(r)
  <2>1. seqs' = seqs /\ r \in Appending
    BY <1>6 DEF Connect, TakeLock, ReadHead, Appending
  <2>2. req'[r].pc \in Working
    BY <1>0, <1>6 DEF Connect, TakeLock, ReadHead, Goto, AnyRequest
  <2>3. Appending' = Appending
    BY <1>3, <2>1, <2>2
  <2> QED BY <1>2, <2>1, <2>3
<1>7. CASE Insert(r)
  <2>1. seqs' = seqs + 1 /\ r \in Appending
    BY <1>7 DEF Insert, Appending
  <2>2. req'[r].pc \notin Working
    BY <1>0, <1>7 DEF Insert, AnyRequest
  <2>3. Cardinality(Appending') = Cardinality(Appending) - 1
    BY <1>1, <1>3, <2>1, <2>2, Counted
  <2> QED BY <1>0, <1>2, <2>1, <2>3
<1>8. CASE Begin(r) \/ PoolTimeout(r) \/ CommitBeside(r) \/ End(r) \/ Abort(r)
  <2>1. seqs' = seqs
    BY <1>8 DEF Begin, PoolTimeout, CommitBeside, End, Abort
  <2>2. req'[r].pc \notin Working
    BY <1>0, <1>8 DEF Begin, PoolTimeout, CommitBeside, End, Abort, Goto, Idle, AnyRequest
  <2> HIDE DEF Working
  <2> QED BY <1>0, <1>2, <1>3, <1>4, <2>1, <2>2
<1> QED BY <1>5, <1>6, <1>7, <1>8 DEF RequestStep, Proceed

\* What r appends fits, and no row has its number.
LEMMA RequestFits ==
    ASSUME IsFiniteSet(Requests), ChainInv, ChainInv', Fits, NEW r \in Requests, RequestStep(r)
    PROVE  Fits'
<1> DEFINE new == [seq |-> seqs + 1, prev |-> req[r].head]
<1>0. /\ req \in [Requests -> AnyRequest] /\ req[r] \in AnyRequest /\ seqs \in Nat
      /\ \A p \in Requests : \A x \in Sees(p) : x.seq <= seqs
  BY DEF ChainInv, Shape, Numbered
<1>1. Alters(r) /\ \A p \in Requests \ {r} : req'[p] = req[p]
  BY StepAlters DEF Alters
<1>2. /\ log \subseteq Row /\ IsFiniteSet(log) /\ Distinct(log)
      /\ \A p \in Requests :
            /\ req[p].rows \subseteq Row /\ IsFiniteSet(req[p].rows)
            /\ req[p].head \in 0..MaxRows /\ Distinct(Sees(p))
  BY DEF Fits
<1>3. Insert(r) => new \in Row
  <2> SUFFICES ASSUME Insert(r) PROVE new \in Row
    OBVIOUS
  <2>1. r \in Appending /\ Appending \in SUBSET Requests
    BY DEF Insert, Appending
  <2>2. Cardinality(Appending \ {r}) \in Nat /\ Cardinality(Appending) \in Nat
        /\ Cardinality(Appending \ {r}) = Cardinality(Appending) - 1
    <3>1. Appending \ {r} \in SUBSET Requests
      BY <2>1
    <3> QED BY <2>1, <3>1, Counted
  <2>3. seqs + 1 \in Seqs
    BY <1>0, <2>2, Sizes DEF Fits, Seqs
  <2> QED BY <1>2, <2>3 DEF Row
<1>4. \A p \in Requests : req'[p].head \in 0..MaxRows
  <2>1. CASE ReadHead(r)
    <3>1. PICK h \in Newest(Sees(r)) : req' = [req EXCEPT ![r].pc = "insert", ![r].head = h]
      BY <2>1 DEF ReadHead, Sees
    <3>2. Sees(r) \in SUBSET Row
      BY <1>2 DEF Sees
    <3>3. h \in 0..MaxRows
      BY <3>1, <3>2, EndsOfRows
    <3>4. req'[r].head = h
      BY <1>0, <3>1 DEF AnyRequest
    <3> QED BY <1>1, <1>2, <3>3, <3>4
  <2>2. CASE ~ReadHead(r)
    <3>1. req'[r].head \in {0, req[r].head}
      <4>1. CASE Begin(r) \/ Record(r) \/ Refuse(r) \/ TakeLock(r)
        BY <1>0, <4>1 DEF Begin, Record, Refuse, TakeLock, Goto, AnyRequest
      <4>2. CASE Connect(r) \/ Insert(r)
        BY <1>0, <4>2 DEF Connect, Insert, AnyRequest
      <4>3. CASE PoolTimeout(r) \/ CommitBeside(r) \/ End(r) \/ Abort(r)
        BY <1>0, <4>3 DEF PoolTimeout, CommitBeside, End, Abort, Idle
      <4> QED BY <2>2, <4>1, <4>2, <4>3 DEF RequestStep, Proceed
    <3> QED BY <1>1, <1>2, <3>1, Sizes
  <2> QED BY <2>1, <2>2
<1>5. /\ log' \subseteq Row /\ IsFiniteSet(log') /\ Distinct(log')
      /\ \A p \in Requests :
            /\ req'[p].rows \subseteq Row /\ IsFiniteSet(req'[p].rows) /\ Distinct(Sees(p)')
  <2>1. CASE log' = log /\ req'[r].rows \in {req[r].rows, {}}
    <3>1. \A p \in Requests : req'[p].rows \in {req[p].rows, {}}
      BY <1>1, <2>1
    <3>2. \A p \in Requests : Sees(p)' \subseteq Sees(p)
      BY <2>1, <3>1 DEF Sees
    <3>3. \A p \in Requests : Distinct(Sees(p)')
      BY <1>2, <3>2 DEF Distinct
    <3>4. \A p \in Requests : req'[p].rows \subseteq Row /\ IsFiniteSet(req'[p].rows)
      BY <1>2, <3>1, FS_EmptySet
    <3> QED BY <1>2, <2>1, <3>3, <3>4
  <2>2. CASE log' = log /\ Insert(r)
    <3>1. req'[r].rows = req[r].rows \union {new} /\ new \in Row /\ new.seq = seqs + 1
      BY <1>0, <1>3, <2>2 DEF Insert, AnyRequest
    <3> HIDE DEF new
    <3>2. IsFiniteSet(req'[r].rows) /\ req'[r].rows \subseteq Row
      <4>1. IsFiniteSet(req[r].rows) /\ req[r].rows \subseteq Row
        BY <1>2
      <4>2. IsFiniteSet(req[r].rows \union {new})
        BY <4>1, FS_AddElement
      <4> QED BY <3>1, <4>1, <4>2
    <3>3. Sees(r)' = Sees(r) \union {new}
      BY <2>2, <3>1 DEF Sees
    <3>4. \A x \in Sees(r) : x.seq # new.seq
      <4>1. Sees(r) \subseteq Row
        BY <1>2 DEF Sees
      <4>2. \A x \in Row : x.seq \in Nat
        BY Sizes DEF Row, Seqs
      <4>3. \A x \in Sees(r) : x.seq \in Nat /\ x.seq <= seqs
        BY <1>0, <4>1, <4>2
      <4> QED BY <1>0, <3>1, <4>3
    <3>5. Distinct(Sees(r)')
      BY <1>2, <3>3, <3>4 DEF Distinct
    <3>6. \A p \in Requests \ {r} : Sees(p)' = Sees(p)
      BY <1>1, <2>2 DEF Sees
    <3> QED BY <1>1, <1>2, <2>2, <3>2, <3>5, <3>6
  <2>3. CASE log' # log
    <3>1. log' = Sees(r) /\ \A p \in Requests : req'[p].rows = {}
      BY <1>1, <2>3, OnlyOne
    <3>2. log' = log \union req[r].rows /\ \A p \in Requests : Sees(p)' = log'
      BY <3>1 DEF Sees
    <3>3. IsFiniteSet(log')
      BY <1>2, <3>2, FS_Union
    <3> QED BY <1>2, <3>1, <3>2, <3>3, FS_EmptySet
  <2>4. /\ req'[r].rows \in {req[r].rows, {}} \/ Insert(r)
        /\ Insert(r) => log' = log
    <3>1. CASE Insert(r)
      BY <3>1 DEF Insert
    <3>2. CASE ~Insert(r)
      <4>1. CASE Begin(r) \/ Record(r) \/ Refuse(r) \/ TakeLock(r)
        BY <1>0, <4>1 DEF Begin, Record, Refuse, TakeLock, Goto, AnyRequest
      <4>2. CASE Connect(r) \/ ReadHead(r)
        BY <1>0, <4>2 DEF Connect, ReadHead, AnyRequest
      <4>3. CASE PoolTimeout(r) \/ CommitBeside(r) \/ End(r) \/ Abort(r)
        <5>1. req'[r].rows = {}
          BY <1>0, <4>3 DEF PoolTimeout, CommitBeside, End, Abort, Idle
        <5> QED BY <3>2, <5>1
      <4> QED BY <3>2, <4>1, <4>2, <4>3 DEF RequestStep, Proceed
    <3> QED BY <3>1, <3>2
  <2> QED BY <2>1, <2>2, <2>3, <2>4
<1> QED BY <1>4, <1>5, WhoAppends DEF Fits

LEMMA StepFits ==
    ASSUME IsFiniteSet(Requests), ChainInv, ChainInv', Fits, [Next]_vars
    PROVE  Fits'
<1>1. ASSUME NEW r \in Requests, RequestStep(r) PROVE Fits'
  BY <1>1, RequestFits
<1>2. CASE Expire \/ SweepStep \/ VerifyStep \/ UNCHANGED vars
  <2>1. log' \subseteq log /\ UNCHANGED <<seqs, req>>
    BY <1>2 DEF Expire, SweepStep, SweepDelete, SweepCut, SweepPin, SweepCommit, SweepAbort,
                Survivors, VerifyStep, VerifyStart, VerifyBatch, VerifyTail, vars
  <2> QED BY <2>1, FewerFit
<1> QED BY <1>1, <1>2 DEF Next, RequestStep

\* The sweep deletes rows of the log, and names rows of it.
LEMMA SweepPlaces ==
    ASSUME Fits, Places, Expire \/ SweepStep
    PROVE  Places'
<1>0. /\ log \in SUBSET Row /\ sweep \in Sweep /\ walk \in Walk
      /\ \A x \in log : x.seq \in Seqs
  BY DEF Fits, Places, Row
<1>1. CASE Expire
  BY <1>0, <1>1 DEF Expire, Places
<1>2. CASE SweepDelete
  <2> DEFINE doomed == First(PurgeBatch, Due)
             step == IF Due = {} THEN "pin" ELSE "cut"
  <2>1. doomed \in SUBSET Row /\ step \in {"idle", "cut", "pin", "commit"}
    BY <1>0 DEF First, Due
  <2>2. sweep' = [NoSweep EXCEPT !.pc = step, !.doomed = doomed]
    BY <1>2 DEF SweepDelete
  <2> HIDE DEF doomed, step
  <2>3. sweep' \in Sweep
    BY <2>1, <2>2, Sizes DEF NoSweep, Sweep
  <2> QED BY <1>2, <2>3 DEF SweepDelete, Places
<1>3. Survivors \in SUBSET Row
  BY <1>0 DEF Survivors
<1>4. CASE SweepCut
  <2>1. PICK s \in Oldest(Survivors) : sweep' = [sweep EXCEPT !.pc = "pin", !.cut = s]
    BY <1>4 DEF SweepCut
  <2>2. s \in 0..MaxRows
    BY <1>3, <2>1, EndsOfRows
  <2>3. sweep' \in Sweep
    BY <1>0, <2>1, <2>2 DEF Sweep
  <2> QED BY <1>4, <2>3 DEF SweepCut, Places
<1>5. CASE SweepPin
  <2>1. PICK h \in Newest(Survivors) : sweep' = [sweep EXCEPT !.pc = "commit", !.pin = h]
    BY <1>5 DEF SweepPin
  <2>2. h \in 0..MaxRows
    BY <1>3, <2>1, EndsOfRows
  <2>3. sweep' \in Sweep
    BY <1>0, <2>1, <2>2 DEF Sweep
  <2> QED BY <1>5, <2>3 DEF SweepPin, Places
<1>6. CASE SweepCommit \/ SweepAbort
  <2>1. sweep.cut \in 0..MaxRows /\ sweep.pin \in 0..MaxRows
    BY <1>0 DEF Sweep
  <2>2. cuts' \subseteq Seqs /\ pin' \in 0..MaxRows
    BY <1>6, <2>1, Sizes DEF SweepCommit, SweepAbort, Places
  <2>3. sweep' \in Sweep
    BY <1>6, Sizes DEF SweepCommit, SweepAbort, NoSweep, Sweep
  <2>4. walk' \in Walk
    BY <1>0, <1>6 DEF SweepCommit, SweepAbort, Walk
  <2> QED BY <1>6, <2>2, <2>3, <2>4 DEF SweepCommit, SweepAbort, Places
<1> QED BY <1>1, <1>2, <1>4, <1>5, <1>6 DEF SweepStep

\* A walk goes from row to row, and no further than MAX_VERIFY_ROWS.
LEMMA VerifyPlaces ==
    ASSUME Fits, Places, VerifyStep
    PROVE  Places'
<1>0. walk \in Walk /\ UNCHANGED <<due, cuts, pin, sweep>> /\ cuts \subseteq Seqs
  BY DEF Places, VerifyStep, VerifyStart, VerifyBatch, VerifyTail
<1>1. CASE VerifyStart
  <2>1. walk' = [NoWalk EXCEPT !.pc = "rows", !.cuts = cuts]
    BY <1>1 DEF VerifyStart
  <2>2. 0 \in 0..MaxRows /\ 0 \in 0..MaxChecked
    BY Sizes
  <2>3. walk' \in Walk
    BY <1>0, <2>1, <2>2 DEF NoWalk, Walk
  <2> QED BY <1>0, <2>3 DEF Places
<1>2. CASE VerifyTail
  <2>1. walk' \in Walk
    <3> DEFINE ok == walk.last >= pin
    <3>1. ok \in BOOLEAN /\ walk' = [walk EXCEPT !.pc = "done", !.ok = ok]
      BY <1>2 DEF VerifyTail
    <3> HIDE DEF ok
    <3> QED BY <1>0, <3>1 DEF Walk
  <2> QED BY <1>0, <2>1 DEF Places
<1>3. CASE VerifyBatch
  <2> DEFINE rest == {x \in log : x.seq > walk.last}
             batch == First(Limit, rest)
             checked == walk.checked + Cardinality(batch)
             step == IF checked >= MaxChecked THEN "done"
                     ELSE IF Cardinality(batch) < ReadBatch THEN "tail" ELSE "rows"
  <2>1. PICK last \in IF batch = {} THEN {walk.last} ELSE Newest(batch) :
          walk' = IF \E x \in batch : ~Follows(x, batch)
                  THEN [walk EXCEPT !.pc = "done", !.ok = FALSE]
                  ELSE [walk EXCEPT !.checked = checked, !.last = last,
                           !.prev = IF batch = {} THEN walk.prev ELSE last, !.pc = step]
    BY <1>3 DEF VerifyBatch
  <2>2. walk.checked \in 0..MaxChecked /\ walk.last \in 0..MaxRows /\ walk.prev \in 0..MaxRows
    BY <1>0 DEF Walk
  <2>3. Limit \in Nat /\ Limit <= MaxChecked - walk.checked
    BY <2>2, Sizes DEF Limit
  <2>4. rest \in SUBSET Row /\ IsFiniteSet(rest) /\ Distinct(rest)
    <3>1. rest \subseteq log
      OBVIOUS
    <3> HIDE DEF rest
    <3> QED BY <3>1, FS_Subset DEF Fits, Distinct
  <2>5. batch \subseteq rest /\ Cardinality(batch) \in Nat /\ Cardinality(batch) <= Limit
    BY <2>3, <2>4, FirstIsFew
  <2> HIDE DEF rest, batch
  <2>6. checked \in 0..MaxChecked
    BY <2>2, <2>3, <2>5, Sizes
  <2>7. last \in 0..MaxRows
    <3>1. batch \in SUBSET Row
      BY <2>4, <2>5
    <3> QED BY <2>1, <2>2, <3>1, EndsOfRows
  <2>8. step \in {"idle", "rows", "tail", "done"}
    OBVIOUS
  <2> DEFINE prev == IF batch = {} THEN walk.prev ELSE last
  <2>9. prev \in 0..MaxRows
    BY <2>2, <2>7
  <2> HIDE DEF checked, step, prev
  <2>10. walk' \in {[walk EXCEPT !.pc = "done", !.ok = FALSE],
                    [walk EXCEPT !.checked = checked, !.last = last, !.prev = prev, !.pc = step]}
    BY <2>1 DEF prev
  <2>11. [walk EXCEPT !.pc = "done", !.ok = FALSE] \in Walk
    BY <1>0 DEF Walk
  <2>12. [walk EXCEPT !.checked = checked, !.last = last, !.prev = prev, !.pc = step] \in Walk
    BY <1>0, <2>6, <2>7, <2>8, <2>9 DEF Walk
  <2>13. walk' \in Walk
    BY <2>10, <2>11, <2>12
  <2> QED BY <1>0, <2>13 DEF Places
<1> QED BY <1>1, <1>2, <1>3 DEF VerifyStep

\* Every variable has its type: the sequence never runs past the room that Record and
\* Refuse keep for it, no two rows have one number, and a walk checks no more than
\* MAX_VERIFY_ROWS rows, batch by batch (append, verify_chain, purge_audit_log).
THEOREM TypeCorrect ==
    ASSUME IsFiniteSet(Requests)
    PROVE  Spec => []TypeOK
<1>1. Init => ChainInv /\ Fits /\ Places
  <2> SUFFICES ASSUME Init PROVE Fits /\ Places
    BY InitChain
  <2>1. /\ log = {} /\ seqs = 0 /\ due = {} /\ cuts = {} /\ pin = 0
        /\ \A r \in Requests : req[r] = Idle
        /\ sweep = NoSweep /\ walk = NoWalk
    BY DEF Init
  <2>2. Appending = {} /\ \A r \in Requests : req[r].rows = {} /\ req[r].head = 0
    BY <2>1 DEF Appending, Idle
  <2>3. Fits
    <3>1. seqs + Cardinality(Appending) = 0 /\ 0 <= MaxRows /\ IsFiniteSet(log)
      BY <2>1, <2>2, FS_EmptySet, Sizes
    <3> QED BY <2>1, <2>2, <3>1, FS_EmptySet, Sizes DEF Fits, Distinct, Sees
  <2>4. 0 \in 0..MaxRows /\ 0 \in 0..MaxChecked
    BY Sizes
  <2>5. sweep \in Sweep /\ walk \in Walk
    BY <2>1, <2>4 DEF NoSweep, Sweep, NoWalk, Walk
  <2> QED BY <2>1, <2>3, <2>4, <2>5 DEF Places
<1>2. (ChainInv /\ Fits /\ Places) /\ [Next]_vars => (ChainInv /\ Fits /\ Places)'
  <2> SUFFICES ASSUME ChainInv, Fits, Places, [Next]_vars PROVE (ChainInv /\ Fits /\ Places)'
    OBVIOUS
  <2>1. ChainInv' /\ Fits'
    BY StepChain, StepFits
  <2>2. ASSUME NEW r \in Requests, RequestStep(r) PROVE Places'
    BY <2>2, StepAlters DEF Alters, Places
  <2>3. ASSUME UNCHANGED vars PROVE Places'
    <3>1. UNCHANGED <<due, cuts, pin, sweep, walk>>
      BY <2>3 DEF vars
    <3>2. due' \subseteq Seqs /\ cuts' \subseteq Seqs /\ pin' \in 0..MaxRows
      BY <3>1 DEF Places
    <3>3. sweep' \in Sweep /\ walk' \in Walk
      BY <3>1 DEF Places
    <3> QED BY <3>2, <3>3 DEF Places
  <2> QED BY <2>1, <2>2, <2>3, SweepPlaces, VerifyPlaces DEF Next, RequestStep
<1>3. ChainInv /\ Fits /\ Places => TypeOK
  <2> SUFFICES ASSUME ChainInv, Fits, Places PROVE TypeOK
    OBVIOUS
  <2>1. seqs \in 0..MaxRows
    <3>1. Appending \in SUBSET Requests
      BY DEF Appending
    <3>2. seqs \in Nat /\ Cardinality(Appending) \in Nat /\ MaxRows \in Nat
      BY <3>1, Counted, Sizes DEF ChainInv, Shape
    <3> QED BY <3>2 DEF Fits
  <2>2. \A r \in Requests : req[r] \in Request
    BY DEF ChainInv, Shape, Fits, AnyRequest, Request
  <2>3. req \in [Requests -> Request]
    BY <2>2 DEF ChainInv, Shape
  <2> QED BY <2>1, <2>3 DEF TypeOK, ChainInv, Shape, Fits, Places
<1> QED BY <1>1, <1>2, <1>3, PTL DEF Spec

=============================================================================
