----------------------------- MODULE AuditChain -----------------------------
(***************************************************************************)
(* The audit log of the admin panel (db.admin.audit, admin.audit_sink,     *)
(* db.purge_admin): every request appends rows that name the row before    *)
(* them, in its own transaction or in one beside it, out of one small pool *)
(* of connections; the hourly sweep deletes what is past its 730 days and  *)
(* says where it cut; and GET /audit/verify walks the chain, batch by      *)
(* batch, while both go on.                                                *)
(*                                                                         *)
(* A row stands for its MAC, which is keyed and covers a random id: equal  *)
(* MACs are the same row. Nobody tampers with the log here: the question   *)
(* is whether the code keeps one chain, and calls it clean.                *)
(***************************************************************************)
EXTENDS Naturals, FiniteSets

CONSTANTS
    Requests,       \* requests of the panel that may run at once
    None,
    Connections,    \* ADMIN_POOL_SIZE + ADMIN_MAX_OVERFLOW
    ReadBatch,      \* VERIFY_BATCH_SIZE
    MaxChecked,     \* MAX_VERIFY_ROWS
    PurgeBatch,     \* the batch size of the sweep
    MaxRows,        \* bound: sequence numbers
    Faults          \* bound: which of the two rarities may happen

\* skew: a request that read its clock first appended last, and the sweep cuts between
\* the two. idle: nothing was audited for 730 days, so that the newest row is due.
AllFaults == {"skew", "idle"}

ASSUME AuditAssumption ==
    /\ {Connections, ReadBatch, MaxChecked, PurgeBatch, MaxRows} \subseteq Nat \ {0}
    /\ None \notin Requests /\ Faults \subseteq AllFaults

VARIABLES
    log,    \* the committed rows of admin_audit_log
    seqs,   \* the last sequence number handed out; a rollback does not return it
    due,    \* sequence numbers whose expires_at is past
    cuts,   \* rows that TRUNCATION anchors name
    pin,    \* the row the HEAD anchor names, or 0
    lock,   \* who holds the advisory lock of appenders
    req,    \* req[r]: a request and its transactions
    sweep,  \* the audit part of the retention sweep's transaction
    walk    \* a verification

vars == <<log, seqs, due, cuts, pin, lock, req, sweep, walk>>

-----------------------------------------------------------------------------
Seqs == 1..MaxRows
\* prev: the row prev_hmac is the MAC of; 0 when it is NULL.
Row == [seq : Seqs, prev : 0..MaxRows]
Steps == {"idle", "handler", "pool", "lock", "head", "insert", "commit"}
\* beside: it appends in a transaction of its own, beside the request's. rows: what
\* that transaction wrote and has not committed.
Request == [pc : Steps, beside : BOOLEAN, head : 0..MaxRows, rows : SUBSET Row]
Idle == [pc |-> "idle", beside |-> FALSE, head |-> 0, rows |-> {}]
\* cut, pin: the anchors of the transaction; 0 when it wrote none.
Sweep == [pc : {"idle", "cut", "pin", "commit"}, doomed : SUBSET Row,
          cut : 0..MaxRows, pin : 0..MaxRows]
NoSweep == [pc |-> "idle", doomed |-> {}, cut |-> 0, pin |-> 0]
\* last, prev: the walk's place. cuts: the anchors it excuses. swept: a sweep committed
\* since it began (history).
Walk == [pc : {"idle", "rows", "tail", "done"}, last : 0..MaxRows, prev : 0..MaxRows,
         checked : 0..MaxChecked, cuts : SUBSET Seqs, ok : BOOLEAN, swept : BOOLEAN]
NoWalk == [pc |-> "idle", last |-> 0, prev |-> 0, checked |-> 0, cuts |-> {},
           ok |-> TRUE, swept |-> FALSE]

Init ==
    /\ log = {} /\ seqs = 0 /\ due = {} /\ cuts = {} /\ pin = 0 /\ lock = None
    /\ req = [r \in Requests |-> Idle]
    /\ sweep = NoSweep /\ walk = NoWalk

\* The newest of some rows (read_head), the oldest, and the n oldest.
Newest(R) == IF R = {} THEN {0}
             ELSE {r.seq : r \in {x \in R : \A y \in R : y.seq <= x.seq}}
Oldest(R) == IF R = {} THEN {0}
             ELSE {r.seq : r \in {x \in R : \A y \in R : x.seq <= y.seq}}
First(n, R) == {x \in R : Cardinality({y \in R : y.seq < x.seq}) < n}

\* A request holds a connection from its first read, its transaction beside another.
Held == Cardinality({r \in Requests : req[r].pc # "idle"})
        + Cardinality({r \in Requests : req[r].beside})
        + (IF walk.pc \in {"rows", "tail"} THEN 1 ELSE 0)
Appending == {r \in Requests : req[r].pc \in {"pool", "lock", "head", "insert"}}
Room == seqs + Cardinality(Appending) < MaxRows
Goto(r, step) == req' = [req EXCEPT ![r].pc = step]
Unlock(r) == lock' = IF lock = r THEN None ELSE lock

-----------------------------------------------------------------------------
\* A request, and the rows it appends.

Begin(r) ==
    /\ req[r].pc = "idle" /\ Held < Connections
    /\ Goto(r, "handler")
    /\ UNCHANGED <<log, seqs, due, cuts, pin, lock, sweep, walk>>

\* audit_sink.record: into the request's own transaction.
Record(r) ==
    /\ req[r].pc = "handler" /\ Room
    /\ Goto(r, "lock")
    /\ UNCHANGED <<log, seqs, due, cuts, pin, lock, sweep, walk>>

\* Fault: a request that has recorded its action is refused after all.
RefusableLate(r) == TRUE
\* record_refusal and record_reveal: in a transaction that outlives the request's. No
\* handler does so after it recorded something in its own.
Refusable(r) == req[r].rows = {}
Refuse(r) ==
    /\ req[r].pc = "handler" /\ Refusable(r) /\ Room
    /\ Goto(r, "pool")
    /\ UNCHANGED <<log, seqs, due, cuts, pin, lock, sweep, walk>>

Connect(r) ==
    /\ req[r].pc = "pool" /\ Held < Connections
    /\ req' = [req EXCEPT ![r].pc = "lock", ![r].beside = TRUE]
    /\ UNCHANGED <<log, seqs, due, cuts, pin, lock, sweep, walk>>

\* No connection came free in the pool's time: logged, and the refusal goes out without
\* its row.
PoolTimeout(r) ==
    /\ req[r].pc = "pool" /\ Held >= Connections
    /\ req' = [req EXCEPT ![r] = Idle]
    /\ UNCHANGED <<log, seqs, due, cuts, pin, lock, sweep, walk>>

\* append: lock, read, insert.
\* Fault: no lock is taken, as on a database other than PostgreSQL.
LockableAlways(r) == TRUE
Lockable(r) == lock \in {None, r}
TakeLock(r) ==
    /\ req[r].pc = "lock" /\ Lockable(r)
    /\ lock' = r
    /\ Goto(r, "head")
    /\ UNCHANGED <<log, seqs, due, cuts, pin, sweep, walk>>

ReadHead(r) ==
    /\ req[r].pc = "head"
    /\ \E h \in Newest(log \union req[r].rows) :
          req' = [req EXCEPT ![r].pc = "insert", ![r].head = h]
    /\ UNCHANGED <<log, seqs, due, cuts, pin, lock, sweep, walk>>

Insert(r) ==
    /\ req[r].pc = "insert"
    /\ seqs' = seqs + 1
    /\ req' = [req EXCEPT ![r].pc = IF req[r].beside THEN "commit" ELSE "handler",
                          ![r].rows = @ \union {[seq |-> seqs + 1, prev |-> req[r].head]}]
    /\ UNCHANGED <<log, due, cuts, pin, lock, sweep, walk>>

\* The transaction beside is committed, and its request goes on.
CommitBeside(r) ==
    /\ req[r].pc = "commit"
    /\ log' = log \union req[r].rows
    /\ req' = [req EXCEPT ![r] = [Idle EXCEPT !.pc = "handler"]]
    /\ Unlock(r)
    /\ UNCHANGED <<seqs, due, cuts, pin, sweep, walk>>

\* get_db_session: the request ends well and commits.
End(r) ==
    /\ req[r].pc = "handler"
    /\ log' = log \union req[r].rows
    /\ req' = [req EXCEPT ![r] = Idle]
    /\ Unlock(r)
    /\ UNCHANGED <<seqs, due, cuts, pin, sweep, walk>>

\* It raises, its database fails, its client goes away: both transactions roll back.
Abort(r) ==
    /\ req[r].pc # "idle"
    /\ req' = [req EXCEPT ![r] = Idle]
    /\ Unlock(r)
    /\ UNCHANGED <<log, seqs, due, cuts, pin, sweep, walk>>

-----------------------------------------------------------------------------
\* 730 days pass, and the sweep comes round.

Expire ==
    /\ \E x \in log :
          /\ x.seq \notin due
          /\ \/ "skew" \in Faults
             \/ \A y \in log : y.seq < x.seq => y.seq \in due
          /\ \/ "idle" \in Faults
             \/ \E y \in log : y.seq > x.seq
          /\ due' = due \union {x.seq}
    /\ UNCHANGED <<log, seqs, cuts, pin, lock, req, sweep, walk>>

Due == {x \in log : x.seq \in due}

\* purge_audit_log deletes a batch, looks for the survivor and names it; nothing of it
\* when nothing was due.
SweepDelete ==
    /\ sweep.pc = "idle"
    /\ sweep' = [NoSweep EXCEPT !.pc = IF Due = {} THEN "pin" ELSE "cut",
                                !.doomed = First(PurgeBatch, Due)]
    /\ UNCHANGED <<log, seqs, due, cuts, pin, lock, req, walk>>

Survivors == log \ sweep.doomed

\* Fault: the survivor is looked for among the rows that are being deleted.
SweepCutEarly ==
    /\ sweep.pc = "cut"
    /\ \E s \in Oldest(log) : sweep' = [sweep EXCEPT !.pc = "pin", !.cut = s]
    /\ UNCHANGED <<log, seqs, due, cuts, pin, lock, req, walk>>

SweepCut ==
    /\ sweep.pc = "cut"
    /\ \E s \in Oldest(Survivors) : sweep' = [sweep EXCEPT !.pc = "pin", !.cut = s]
    /\ UNCHANGED <<log, seqs, due, cuts, pin, lock, req, walk>>

\* pin_audit_head replaces the HEAD anchor.
SweepPin ==
    /\ sweep.pc = "pin"
    /\ \E h \in Newest(Survivors) : sweep' = [sweep EXCEPT !.pc = "commit", !.pin = h]
    /\ UNCHANGED <<log, seqs, due, cuts, pin, lock, req, walk>>

SweepCommit ==
    /\ sweep.pc = "commit"
    /\ log' = Survivors
    /\ cuts' = cuts \union ({sweep.cut} \ {0})
    /\ pin' = sweep.pin
    /\ sweep' = NoSweep
    /\ walk' = [walk EXCEPT !.swept = @ \/ walk.pc \in {"rows", "tail"}]
    /\ UNCHANGED <<seqs, due, lock, req>>

\* A later sweep of the same transaction fails and takes this one back.
SweepAbort ==
    /\ sweep.pc # "idle"
    /\ sweep' = NoSweep
    /\ UNCHANGED <<log, seqs, due, cuts, pin, lock, req, walk>>

-----------------------------------------------------------------------------
\* verify_chain: the cuts, the rows in batches, the pin.

VerifyStart ==
    /\ walk.pc \in {"idle", "done"} /\ Held < Connections
    /\ walk' = [NoWalk EXCEPT !.pc = "rows", !.cuts = cuts]
    /\ UNCHANGED <<log, seqs, due, cuts, pin, lock, req, sweep>>

\* Fault: a batch begins as if the walk began with it.
FollowsInBatch(x, batch) ==
    LET before == {y \in batch : y.seq < x.seq}
    IN  x.prev \in IF before = {} THEN {0} \union walk.cuts ELSE Newest(before)

\* A row of a batch follows the row before it; the first of all may point below a cut.
Follows(x, batch) ==
    LET before == {y \in batch : y.seq < x.seq}
        first == before = {} /\ walk.last = 0
    IN  \/ first /\ (x.prev = 0 \/ x.seq \in walk.cuts)
        \/ ~first /\ x.prev \in IF before = {} THEN {walk.prev} ELSE Newest(before)

Limit == LET left == MaxChecked - walk.checked
         IN  IF left < ReadBatch THEN left ELSE ReadBatch

VerifyBatch ==
    /\ walk.pc = "rows"
    /\ LET batch == First(Limit, {x \in log : x.seq > walk.last})
           checked == walk.checked + Cardinality(batch)
       IN  \E last \in IF batch = {} THEN {walk.last} ELSE Newest(batch) :
              walk' = IF \E x \in batch : ~Follows(x, batch)
                      THEN [walk EXCEPT !.pc = "done", !.ok = FALSE]
                      ELSE [walk EXCEPT !.checked = checked, !.last = last,
                               !.prev = IF batch = {} THEN @ ELSE last,
                               !.pc = IF checked >= MaxChecked THEN "done"
                                      ELSE IF Cardinality(batch) < ReadBatch THEN "tail"
                                      ELSE "rows"]
    /\ UNCHANGED <<log, seqs, due, cuts, pin, lock, req, sweep>>

VerifyTail ==
    /\ walk.pc = "tail"
    /\ walk' = [walk EXCEPT !.pc = "done", !.ok = walk.last >= pin]
    /\ UNCHANGED <<log, seqs, due, cuts, pin, lock, req, sweep>>

-----------------------------------------------------------------------------
Proceed(r) == \/ Record(r) \/ Refuse(r) \/ Connect(r) \/ PoolTimeout(r)
              \/ ReadHead(r) \/ Insert(r) \/ CommitBeside(r) \/ End(r)
SweepStep == SweepDelete \/ SweepCut \/ SweepPin \/ SweepCommit \/ SweepAbort
VerifyStep == VerifyStart \/ VerifyBatch \/ VerifyTail

Next ==
    \/ \E r \in Requests : Begin(r) \/ Proceed(r) \/ TakeLock(r) \/ Abort(r)
    \/ Expire \/ SweepStep \/ VerifyStep

Spec == Init /\ [][Next]_vars

\* A handler goes on, or its pool's time is over; a waiter gets the lock if it keeps
\* coming free, as PostgreSQL queues its waiters. Nothing is asked of sweep or walk.
FairSpec == Spec /\ \A r \in Requests : WF_vars(Proceed(r)) /\ SF_vars(TakeLock(r))

-----------------------------------------------------------------------------
(* Properties. *)

\* Every variable has its type.
TypeOK ==
    /\ log \subseteq Row /\ seqs \in 0..MaxRows /\ due \subseteq Seqs
    /\ cuts \subseteq Seqs /\ pin \in 0..MaxRows
    /\ lock \in Requests \union {None}
    /\ req \in [Requests -> Request]
    /\ sweep \in Sweep /\ walk \in Walk

\* The log is one chain: no committed row lies between a row and the one it names, so
\* that no two rows name the same one and rows stand in the order of their links
\* (append, under _lock_chain), whatever overlaps, rolls back or is swept away.
OneChain == \A x, y \in log : y.seq < x.seq => y.seq <= x.prev

\* When the rows before the oldest are gone, an anchor that is committed with their
\* deletion names it (purge_audit_log, write_truncation_anchor).
CutsExplained ==
    \A x \in log : (\A y \in log : x.seq <= y.seq) => x.prev = 0 \/ x.seq \in cuts

\* A verification of a log nobody tampered with reports no break, however requests
\* append and roll back between its batches, unless a sweep committed meanwhile
\* (verify_chain, _verify_batch, _tail_break).
NoFalseAlarm == walk.pc = "done" /\ ~walk.swept => walk.ok

\* No request waits for ever: not for the appenders' lock, which a transaction beside it
\* may want, nor for a connection others hold while they wait for one themselves.
RequestsEnd == \A r \in Requests : req[r].pc # "idle" ~> req[r].pc = "idle"

=============================================================================
