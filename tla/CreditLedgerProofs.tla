------------------------- MODULE CreditLedgerProofs -------------------------
(***************************************************************************)
(* Theorems about CreditLedger for every set of accounts, orders and       *)
(* sessions, every cost and policy. In five parts:                         *)
(*                                                                         *)
(* 1. Charges. NeverDoubleCharged is not inductive: that a debit of        *)
(*    generation g has a refund of g - 1 below it follows from the refunds *)
(*    of an order being numbered without gaps, which in turn needs what    *)
(*    open transactions have read (a generation) and written (a refund     *)
(*    that is the next one).                                               *)
(* 2. Plan songs. A claim of the song a plan counts next is a key that no  *)
(*    other session of the account can hold.                               *)
(* 3. Balances. The argument is a lock: a transaction that has opened,     *)
(*    moved or deleted the account row holds it, at most one transaction   *)
(*    of an account holds it, and what a holder has made of the balance is *)
(*    not negative, because TakePayment looks at the row it has locked.    *)
(* 4. Settlements. For every order that is not contested: no refund        *)
(*    without its debit, no positive answer without a paid order. And      *)
(*    OrderPayment implemented step by step.                               *)
(* 5. Sums. For every account that is not torn, the balance is the sum of  *)
(*    its rows.                                                            *)
(***************************************************************************)
EXTENDS CreditLedger, FiniteSetTheorems, WellFoundedInduction, TLAPS

Refunds(o) == Generations(ledger, "refund", o)
Debits(o) == Generations(ledger, "debit", o)
Below(g) == 0 .. (g - 1)

\* The refunds of an order are numbered 0, 1, ... without gaps.
Segments == \A o \in Orders : \E n \in Nat : Refunds(o) = Below(n)

\* A debit row stands on the refund of the generation before its own; a refund
\* row not yet committed is the next one of its order.
DebitStands(r) ==
    r.key[1] = "debit" /\ r.key[3] > 0 => r.key[3] - 1 \in Refunds(r.key[2])
RefundIsNext(r) == r.key[1] = "refund" => Refunds(r.key[2]) = Below(r.key[3])

\* A row of an account's own kinds is written by a transaction of the account.
OfAccount(r, u) == r.key[1] = "plan" => r.key[2] = u

DebitsStand == \A r \in ledger : DebitStands(r)

\* Two open transactions never hold rows of the same key.
KeysApart ==
    \A s, t \in Sessions : s # t =>
        \A r \in tx[s].rows, q \in tx[t].rows : r.key # q.key

OrderSteps == Steps \ {"idle", "open_grant", "write_grant", "forget_rows",
                       "forget_account", "commit"}

\* What a transaction knows and holds. A grant and an erasure have no order.
TxInv(t) ==
    /\ t.pc # "idle" => t.user \in Users
    /\ t.pc \in OrderSteps => t.order \in Orders
    /\ t.pc = "claim" => t.seen \in Nat
    /\ t.pc \in {"debit", "settle_write"} => Below(t.gen) \subseteq Refunds(t.order)
    /\ \A r \in t.rows : DebitStands(r) /\ RefundIsNext(r) /\ OfAccount(r, t.user)

IInv ==
    /\ TypeOK
    /\ Segments
    /\ DebitsStand
    /\ KeysApart
    /\ \A s \in Sessions : TxInv(tx[s])

-----------------------------------------------------------------------------
\* The names that steps and answers of a transaction go by.
LEMMA Named ==
    /\ "open" \in Steps /\ "mint" \in Steps /\ "state" \in Steps /\ "net" \in Steps
    /\ "live_plan" \in Steps /\ "claim" \in Steps /\ "generation" \in Steps
    /\ "debit" \in Steps /\ "take" \in Steps /\ "settle_net" \in Steps
    /\ "settle_account" \in Steps /\ "settle_generation" \in Steps
    /\ "settle_write" \in Steps /\ "write_grant" \in Steps
    /\ "forget_account" \in Steps /\ "commit" \in Steps
    /\ "none" \in Answers /\ "charged" \in Answers /\ "already_paid" \in Answers
    /\ "settled" \in Answers /\ "unsettled" \in Answers
BY DEF Steps, Answers

LEMMA KeyParts ==
    ASSUME NEW k \in Key
    PROVE  /\ k[3] \in Nat
           /\ k[1] \in OrderKinds => k[2] \in Orders
BY SMT DEF Key, OrderKinds, AccountKinds

LEMMA KeyIsTriple ==
    ASSUME NEW k \in Key
    PROVE  k = <<k[1], k[2], k[3]>>
BY SMT DEF Key, OrderKinds, AccountKinds

LEMMA IdleType == Idle \in Tx /\ TxInv(Idle)
BY SMT DEF Idle, Tx, Ops, Steps, Answers, NotSeen, TxInv, OrderSteps

\* A row's generation is a member of the generations of its kind and order.
LEMMA GenerationsMember ==
    ASSUME NEW rows, NEW kind, NEW o, NEW g
    PROVE  g \in Generations(rows, kind, o)
             <=> \E r \in rows : r.key[1] = kind /\ r.key[2] = o /\ r.key[3] = g
BY DEF Generations

\* The generation an order is on is the number of its refunds.
LEMMA GenerationIsNext ==
    ASSUME Segments, NEW o \in Orders
    PROVE  Generation(ledger, o) \in Nat /\ Refunds(o) = Below(Generation(ledger, o))
<1>1. PICK n \in Nat : Refunds(o) = Below(n)
  BY DEF Segments
<1>2. Cardinality(0 .. (n - 1)) = n
  <2>1. 0 \in Int /\ n - 1 \in Int
    OBVIOUS
  <2>2. Cardinality(0 .. (n - 1)) = IF 0 > n - 1 THEN 0 ELSE n - 1 - 0 + 1
    BY <2>1, FS_Interval
  <2> QED  BY <2>2
<1> QED  BY <1>1, <1>2 DEF Below, Generation, Refunds

\* The debits of an order fit in one generation more than its refunds.
LEMMA DebitsBounded ==
    ASSUME TypeOK, Segments, DebitsStand, NEW o \in Orders
    PROVE  /\ \A g \in Debits(o) : g \in Nat /\ (g > 0 => g - 1 \in Refunds(o))
           /\ IsFiniteSet(Debits(o)) /\ Cardinality(Debits(o)) \in Nat
           /\ Cardinality(Debits(o)) <= Generation(ledger, o) + 1
<1> DEFINE n == Generation(ledger, o)
<1>1. n \in Nat /\ Refunds(o) = Below(n)
  BY GenerationIsNext
<1>2. ASSUME NEW g \in Debits(o)
      PROVE  g \in Nat /\ (g > 0 => g - 1 \in Refunds(o)) /\ g <= n
  <2>1. PICK r \in ledger : r.key[1] = "debit" /\ r.key[2] = o /\ r.key[3] = g
    BY GenerationsMember DEF Debits
  <2>2. g \in Nat
    <3>1. r.key \in Key
      BY DEF TypeOK, Row
    <3> QED  BY <2>1, <3>1, KeyParts
  <2>3. g > 0 => g - 1 \in Refunds(o)
    BY <2>1 DEF DebitsStand, DebitStands
  <2>4. g <= n
    BY <1>1, <2>2, <2>3 DEF Below
  <2> QED  BY <2>2, <2>3, <2>4
<1>3. Debits(o) \in SUBSET Nat /\ \A g \in Debits(o) : g <= n
  BY <1>2
<1>4. IsFiniteSet(Debits(o)) /\ Cardinality(Debits(o)) <= n + 1
  <2> HIDE DEF n
  <2> QED  BY <1>1, <1>3, FS_BoundedSetOfNaturals
<1> QED  BY <1>2, <1>4, FS_CardinalityType

LEMMA NetType ==
    ASSUME CreditAssumption, TypeOK, Segments, DebitsStand, NEW o \in Orders
    PROVE  NetPosition(ledger, o) \in Int
<1>1. Cardinality(Generations(ledger, "refund", o)) \in Nat
  BY GenerationIsNext DEF Generation
<1>2. Cardinality(Generations(ledger, "debit", o)) \in Nat
  BY DebitsBounded DEF Debits
<1> QED  BY <1>1, <1>2 DEF NetPosition, CreditAssumption

-----------------------------------------------------------------------------
\* A step that only turns one transaction into another keeps the invariant when
\* the new transaction is well formed and inserts no key another one holds.
LEMMA BecomeInv ==
    ASSUME IInv, NEW s \in Sessions, NEW t \in Tx, TxInv(t),
           \A r \in t.rows : r \in tx[s].rows \/ KeyFree(s, r.key),
           Become(s, t)
    PROVE  IInv'
<1>1. /\ tx' = [tx EXCEPT ![s] = t]
      /\ UNCHANGED <<account, ledger, plan, window, contested, torn>>
  BY DEF Become, history
<1>2. TypeOK'
  BY <1>1 DEF IInv, TypeOK
<1>3. Segments' /\ DebitsStand'
  BY <1>1 DEF IInv, Segments, DebitsStand, DebitStands, Refunds
<1>4. KeysApart'
  <2> SUFFICES ASSUME NEW x \in Sessions, NEW y \in Sessions, x # y,
                      NEW r \in tx'[x].rows, NEW q \in tx'[y].rows
               PROVE  r.key # q.key
    BY DEF KeysApart
  <2>1. tx'[s] = t /\ \A z \in Sessions \ {s} : tx'[z] = tx[z]
    BY <1>1 DEF IInv, TypeOK
  <2>2. CASE x # s /\ y # s
    BY <2>1, <2>2 DEF IInv, KeysApart
  <2>3. CASE x = s
    <3>1. q \in tx[y].rows /\ y \in Sessions \ {s}
      BY <2>1, <2>3
    <3>2. CASE r \in tx[s].rows
      BY <2>3, <3>1, <3>2 DEF IInv, KeysApart
    <3>3. CASE KeyFree(s, r.key)
      BY <3>1, <3>3 DEF KeyFree, Has
    <3> QED  BY <2>1, <2>3, <3>2, <3>3
  <2>4. CASE y = s
    <3>1. r \in tx[x].rows /\ x \in Sessions \ {s}
      BY <2>1, <2>4
    <3>2. CASE q \in tx[s].rows
      BY <2>4, <3>1, <3>2 DEF IInv, KeysApart
    <3>3. CASE KeyFree(s, q.key)
      BY <3>1, <3>3 DEF KeyFree, Has
    <3> QED  BY <2>1, <2>4, <3>2, <3>3
  <2> QED  BY <2>2, <2>3, <2>4
<1>5. \A x \in Sessions : TxInv(tx[x])'
  <2> SUFFICES ASSUME NEW x \in Sessions
               PROVE  TxInv(tx[x])'
    OBVIOUS
  <2>1. tx'[x] = t \/ tx'[x] = tx[x]
    BY <1>1 DEF IInv, TypeOK
  <2>2. TxInv(tx'[x])
    BY <2>1 DEF IInv
  <2>3. \A o : Refunds(o)' = Refunds(o)
    BY <1>1 DEF Refunds
  <2> QED
    BY <2>2, <2>3 DEF TxInv, DebitStands, RefundIsNext, OfAccount
<1> QED  BY <1>2, <1>3, <1>4, <1>5 DEF IInv

LEMMA RollbackInv ==
    ASSUME IInv, NEW s \in Sessions, Rollback(s)
    PROVE  IInv'
<1>1. Idle.rows = {}
  BY DEF Idle
<1> QED  BY <1>1, IdleType, BecomeInv DEF Rollback

\* A transaction that changes no row and moves to a step that expects nothing
\* new of it stays well formed.
LEMMA SameRows ==
    ASSUME IInv, NEW s \in Sessions, NEW t \in Tx, t.rows = tx[s].rows,
           t.user = tx[s].user, Become(s, t),
           t.pc # "idle" => t.user \in Users,
           t.pc \in OrderSteps => t.order \in Orders,
           t.pc = "claim" => t.seen \in Nat,
           t.pc \in {"debit", "settle_write"} => Below(t.gen) \subseteq Refunds(t.order)
    PROVE  IInv'
<1>1. TxInv(t)
  BY DEF IInv, TxInv
<1> QED  BY <1>1, BecomeInv

\* A transaction that adds one row, of a key no other holds.
LEMMA OneRow ==
    ASSUME IInv, NEW s \in Sessions, NEW t \in Tx, NEW k \in Key, NEW q,
           q.key = k, KeyFree(s, k),
           DebitStands(q), RefundIsNext(q),
           t.rows = tx[s].rows \union {q}, t.user = tx[s].user, OfAccount(q, t.user),
           Become(s, t),
           t.pc # "idle" => t.user \in Users,
           t.pc \in OrderSteps => t.order \in Orders,
           t.pc # "claim", t.pc # "debit", t.pc # "settle_write"
    PROVE  IInv'
<1>1. TxInv(t)
  BY DEF IInv, TxInv
<1>2. \A r \in t.rows : r \in tx[s].rows \/ KeyFree(s, r.key)
  OBVIOUS
<1> QED  BY <1>1, <1>2, BecomeInv

\* A row that is neither a debit nor a refund stands anywhere.
LEMMA OtherKindStands ==
    ASSUME NEW q, q.key[1] \notin {"debit", "refund"}
    PROVE  DebitStands(q) /\ RefundIsNext(q)
BY DEF DebitStands, RefundIsNext

\* Credited adds exactly the row it is given, under the key it is given.
LEMMA CreditedInv ==
    ASSUME IInv, NEW s \in Sessions, NEW k \in Key, NEW d \in Int, NEW step \in Steps,
           ~At(s, "idle"), KeyFree(s, k),
           NEW t \in {Credited(s, k, d, step),
                      [Credited(s, k, d, step) EXCEPT !.answer = "settled"]},
           Become(s, t),
           DebitStands(NewRow(k, tx[s].user, d)),
           RefundIsNext(NewRow(k, tx[s].user, d)),
           k[1] = "plan" => k[2] = tx[s].user,
           step \in OrderSteps => tx[s].order \in Orders,
           step \notin {"claim", "debit", "settle_write"}
    PROVE  IInv'
<1> DEFINE q == NewRow(k, tx[s].user, d)
<1>1. tx[s] \in Tx /\ tx[s].user \in Users
  BY DEF IInv, TypeOK, TxInv, At
<1>2. q \in Row /\ q.key = k
  BY <1>1 DEF Row, NewRow
<1>3. t.rows = tx[s].rows \union {q} /\ t.pc = step
      /\ t.user = tx[s].user /\ t.order = tx[s].order
  <2>1. Credited(s, k, d, step).rows = tx[s].rows \union {q}
    BY <1>1 DEF Credited, Tx
  <2> QED  BY <1>1, <2>1 DEF Credited, Tx
<1>4. t \in Tx
  <2>1. tx[s].rows \union {q} \in SUBSET Row /\ tx[s].credit + d \in Int
    BY <1>1, <1>2 DEF Tx
  <2> HIDE DEF q
  <2>2. Credited(s, k, d, step) \in Tx
    BY <1>1, <2>1 DEF Credited, Tx, q
  <2> QED  BY <2>2 DEF Tx, Answers
<1> HIDE DEF q
<1>5. DebitStands(q) /\ RefundIsNext(q) /\ OfAccount(q, t.user)
  BY <1>2, <1>3 DEF q, OfAccount
<1> QED
  BY <1>1, <1>2, <1>3, <1>4, <1>5, OneRow

LEMMA MintInv ==
    ASSUME CreditAssumption, IInv, NEW s \in Sessions,
           OpenAccount(s) \/ MintNothing(s) \/ MintAllowance(s)
    PROVE  IInv'
<1>0. tx[s] \in Tx /\ TxInv(tx[s]) /\ account \in [Users -> Account]
  BY DEF IInv, TypeOK
<1>1. CASE OpenAccount(s)
  <2> DEFINE t == [tx[s] EXCEPT !.opened = ~account[tx[s].user].open,
                        !.pc = IF @ = "open" THEN "mint" ELSE "write_grant"]
  <2>1. t \in Tx
    <3>1. PICK opened \in BOOLEAN, step \in Steps : t = [tx[s] EXCEPT !.opened = opened, !.pc = step]
      <4> WITNESS (~account[tx[s].user].open) \in BOOLEAN
      <4>1. CASE tx[s].pc = "open"
        BY <4>1, Named
      <4>2. CASE tx[s].pc # "open"
        BY <4>2, Named
      <4> QED  BY <4>1, <4>2
    <3> HIDE DEF t
    <3> QED  BY <1>0, <3>1 DEF Tx
  <2>2. /\ t.rows = tx[s].rows /\ t.user = tx[s].user /\ t.order = tx[s].order
        /\ t.pc = IF tx[s].pc = "open" THEN "mint" ELSE "write_grant"
    BY <1>0 DEF Tx
  <2>3. Become(s, t)
    BY <1>1 DEF OpenAccount
  <2> HIDE DEF t
  <2> QED
    BY <1>0, <1>1, <2>1, <2>2, <2>3, SameRows DEF OpenAccount, At, TxInv, OrderSteps, Steps
<1>2. CASE MintNothing(s)
  <2> DEFINE t == [tx[s] EXCEPT !.pc = "state"]
  <2>1. t \in Tx /\ t.rows = tx[s].rows /\ t.user = tx[s].user /\ t.order = tx[s].order
        /\ t.pc = "state"
    BY <1>0, Named DEF Tx
  <2>2. Become(s, t)
    BY <1>2 DEF MintNothing, Goto
  <2> HIDE DEF t
  <2> QED
    BY <1>0, <1>2, <2>1, <2>2, SameRows DEF MintNothing, At, TxInv, OrderSteps, Steps
<1>3. CASE MintAllowance(s)
  <2>1. tx[s].user \in Users /\ tx[s].order \in Orders /\ ~At(s, "idle")
    BY <1>0, <1>3 DEF MintAllowance, At, TxInv, OrderSteps, Steps
  <2>2. AllowanceKey(s) \in Key
    BY <1>0, <2>1 DEF AllowanceKey, Key, AccountKinds, Tx
  <2>3. CASE Rollback(s)
    BY <2>3, RollbackInv
  <2>4. CASE Become(s, Credited(s, AllowanceKey(s), Allowance, "state"))
    <3>1. DebitStands(NewRow(AllowanceKey(s), tx[s].user, Allowance))
          /\ RefundIsNext(NewRow(AllowanceKey(s), tx[s].user, Allowance))
      BY OtherKindStands DEF NewRow, AllowanceKey
    <3>2. Allowance \in Int /\ KeyFree(s, AllowanceKey(s)) /\ "state" \in Steps
          /\ AllowanceKey(s)[1] # "plan"
      BY <1>3 DEF CreditAssumption, MintAllowance, Steps, AllowanceKey
    <3> QED  BY <2>1, <2>2, <2>4, <3>1, <3>2, CreditedInv
  <2> QED  BY <1>3, <2>3, <2>4 DEF MintAllowance
<1> QED  BY <1>1, <1>2, <1>3

LEMMA DecideInv ==
    ASSUME CreditAssumption, IInv, NEW s \in Sessions,
           \/ ReadState(s) \/ RefuseBarred(s)
           \/ AlreadyPaid(s) \/ RefuseStacked(s) \/ MayRender(s)
    PROVE  IInv'
<1>0. tx[s] \in Tx /\ TxInv(tx[s])
  BY DEF IInv, TypeOK
<1>1. CASE ReadState(s)
  <2> DEFINE full == InFlight(Seen(s), tx[s].user, tx[s].order) >= MaxInFlight
             t == [tx[s] EXCEPT !.full = full, !.pc = "net"]
  <2>1. full \in BOOLEAN
    OBVIOUS
  <2>2. Become(s, t)
    BY <1>1 DEF ReadState
  <2> HIDE DEF full
  <2>3. t \in Tx /\ t.rows = tx[s].rows /\ t.user = tx[s].user /\ t.order = tx[s].order
        /\ t.pc = "net"
    BY <1>0, <2>1, Named DEF Tx
  <2> HIDE DEF t
  <2> QED
    BY <1>0, <1>1, <2>2, <2>3, SameRows DEF ReadState, At, TxInv, OrderSteps, Steps
<1>2. CASE RefuseBarred(s) \/ RefuseStacked(s)
  BY <1>2, RollbackInv DEF RefuseBarred, RefuseStacked
<1>3. CASE AlreadyPaid(s)
  <2> DEFINE t == [tx[s] EXCEPT !.pc = "commit", !.answer = "already_paid"]
  <2>1. t \in Tx /\ t.rows = tx[s].rows /\ t.user = tx[s].user /\ t.pc = "commit"
    BY <1>0, Named DEF Tx
  <2>2. Become(s, t)
    BY <1>3 DEF AlreadyPaid, Answer
  <2> HIDE DEF t
  <2> QED
    BY <1>0, <1>3, <2>1, <2>2, SameRows DEF AlreadyPaid, At, TxInv, OrderSteps
<1>4. CASE MayRender(s)
  <2> DEFINE t == [tx[s] EXCEPT !.pc = "live_plan"]
  <2>1. t \in Tx /\ t.rows = tx[s].rows /\ t.user = tx[s].user /\ t.order = tx[s].order
        /\ t.pc = "live_plan"
    BY <1>0, Named DEF Tx
  <2>2. Become(s, t)
    BY <1>4 DEF MayRender, Goto
  <2> HIDE DEF t
  <2> QED
    BY <1>0, <1>4, <2>1, <2>2, SameRows DEF MayRender, At, TxInv, OrderSteps, Steps
<1> QED  BY <1>1, <1>2, <1>3, <1>4

LEMMA PlanSongInv ==
    ASSUME CreditAssumption, IInv, NEW s \in Sessions,
           ReadPlan(s) \/ ClaimPlanSong(s) \/ LosePlanSong(s)
    PROVE  IInv'
<1>0. tx[s] \in Tx /\ TxInv(tx[s]) /\ plan \in [Users -> Plan]
  BY DEF IInv, TypeOK
<1>1. ASSUME Goto(s, "generation"), At(s, "live_plan") \/ At(s, "claim")
      PROVE  IInv'
  <2> DEFINE t == [tx[s] EXCEPT !.pc = "generation"]
  <2>1. t \in Tx /\ t.rows = tx[s].rows /\ t.user = tx[s].user /\ t.order = tx[s].order
        /\ t.pc = "generation"
    BY <1>0, Named DEF Tx
  <2>2. Become(s, t)
    BY <1>1 DEF Goto
  <2> HIDE DEF t
  <2> QED
    BY <1>0, <1>1, <2>1, <2>2, SameRows DEF At, TxInv, OrderSteps, Steps
<1>2. CASE ReadPlan(s)
  <2> DEFINE t == [tx[s] EXCEPT !.seen = plan[tx[s].user].used, !.pc = "claim"]
  <2>1. At(s, "live_plan") /\ tx[s].user \in Users /\ tx[s].order \in Orders
    BY <1>0, <1>2 DEF ReadPlan, At, TxInv, OrderSteps, Steps
  <2>2. plan[tx[s].user].used \in Nat
    BY <1>0, <2>1 DEF Plan
  <2>3. t \in Tx /\ t.rows = tx[s].rows /\ t.user = tx[s].user /\ t.order = tx[s].order
        /\ t.pc = "claim" /\ t.seen \in Nat
    BY <1>0, <2>2, Named DEF Tx
  <2>4. ASSUME Become(s, t)
        PROVE  IInv'
    <3> HIDE DEF t
    <3> QED  BY <2>1, <2>3, <2>4, SameRows
  <2> QED  BY <1>1, <1>2, <2>1, <2>4 DEF ReadPlan
<1>3. CASE ClaimPlanSong(s)
  <2> DEFINE k == <<"plan", tx[s].user, tx[s].seen>>
  <2>1. tx[s].user \in Users /\ tx[s].order \in Orders /\ ~At(s, "idle")
        /\ tx[s].seen \in Nat
    BY <1>0, <1>3 DEF ClaimPlanSong, At, TxInv, OrderSteps, Steps
  <2>2. k \in Key
    BY <2>1 DEF Key, AccountKinds
  <2>3. KeyFree(s, k)
    <3> SUFFICES ASSUME NEW x \in Sessions \ {s}, NEW r \in tx[x].rows, r.key = k
                 PROVE  FALSE
      BY DEF KeyFree, Has
    <3>1. r.key[1] = "plan" /\ r.key[2] = tx[s].user
      OBVIOUS
    <3>2. tx[x].user = tx[s].user
      BY <3>1 DEF IInv, TxInv, OfAccount
    <3> QED  BY <1>3, <3>1, <3>2 DEF ClaimPlanSong, PlanFree, Others
  <2>4. CASE Rollback(s)
    BY <2>4, RollbackInv
  <2>5. CASE Become(s, Credited(s, k, 1, "generation"))
    <3>1. DebitStands(NewRow(k, tx[s].user, 1)) /\ RefundIsNext(NewRow(k, tx[s].user, 1))
      BY OtherKindStands DEF NewRow
    <3>2. 1 \in Int /\ "generation" \in Steps
      BY DEF Steps
    <3>3. k[2] = tx[s].user
      OBVIOUS
    <3> HIDE DEF k
    <3> QED  BY <2>1, <2>2, <2>3, <2>5, <3>1, <3>2, <3>3, CreditedInv
  <2> QED  BY <1>3, <2>4, <2>5 DEF ClaimPlanSong
<1>4. CASE LosePlanSong(s)
  BY <1>1, <1>4 DEF LosePlanSong
<1> QED  BY <1>2, <1>3, <1>4

LEMMA DebitInv ==
    ASSUME CreditAssumption, IInv, NEW s \in Sessions,
           ReadGeneration(s) \/ WriteDebit(s) \/ LoseDebit(s)
    PROVE  IInv'
<1>0. tx[s] \in Tx /\ TxInv(tx[s])
  BY DEF IInv, TypeOK
<1>1. CASE ReadGeneration(s)
  <2> DEFINE g == Generation(ledger, tx[s].order)
             t == [tx[s] EXCEPT !.gen = g, !.pc = "debit"]
  <2>1. tx[s].user \in Users /\ tx[s].order \in Orders
    BY <1>0, <1>1 DEF ReadGeneration, At, TxInv, OrderSteps, Steps
  <2>2. g \in Nat /\ Refunds(tx[s].order) = Below(g)
    BY <2>1, GenerationIsNext DEF IInv
  <2>3. Become(s, t)
    BY <1>1 DEF ReadGeneration
  <2> HIDE DEF g
  <2>4. t \in Tx /\ t.rows = tx[s].rows /\ t.user = tx[s].user /\ t.order = tx[s].order
        /\ t.pc = "debit" /\ t.gen = g
    BY <1>0, <2>2, Named DEF Tx
  <2> HIDE DEF t
  <2> QED  BY <2>1, <2>2, <2>3, <2>4, SameRows
<1>2. CASE WriteDebit(s)
  <2> DEFINE q == NewRow(DebitKey(s), tx[s].user, -Cost)
             t == [tx[s] EXCEPT !.rows = @ \union {q}, !.pc = "take"]
  <2>1. tx[s].user \in Users /\ tx[s].order \in Orders /\ tx[s].gen \in Nat
        /\ Below(tx[s].gen) \subseteq Refunds(tx[s].order)
    BY <1>0, <1>2 DEF WriteDebit, At, TxInv, OrderSteps, Steps, Tx
  <2>2. DebitKey(s) \in Key
    BY <2>1 DEF DebitKey, Key, OrderKinds
  <2>3. q \in Row /\ q.key = DebitKey(s)
    BY <2>1, <2>2 DEF Row, NewRow, CreditAssumption
  <2>4. DebitStands(q) /\ RefundIsNext(q) /\ OfAccount(q, tx[s].user)
    BY <2>1, <2>3 DEF DebitStands, RefundIsNext, OfAccount, DebitKey, Below
  <2>5. Become(s, t) /\ KeyFree(s, DebitKey(s))
    BY <1>2 DEF WriteDebit
  <2> HIDE DEF q
  <2>6. t \in Tx /\ t.rows = tx[s].rows \union {q} /\ t.user = tx[s].user
        /\ t.order = tx[s].order /\ t.pc = "take"
    BY <1>0, <2>3, Named DEF Tx
  <2> HIDE DEF t
  <2> QED  BY <2>1, <2>2, <2>3, <2>4, <2>5, <2>6, OneRow
<1>3. CASE LoseDebit(s)
  <2> DEFINE t == [tx[s] EXCEPT !.pc = "commit", !.answer = "already_paid"]
  <2>1. t \in Tx /\ t.rows = tx[s].rows /\ t.user = tx[s].user /\ t.pc = "commit"
    BY <1>0, Named DEF Tx
  <2>2. Become(s, t)
    BY <1>3 DEF LoseDebit, Answer
  <2> HIDE DEF t
  <2> QED
    BY <1>0, <1>3, <2>1, <2>2, SameRows DEF LoseDebit, At, TxInv, OrderSteps
<1> QED  BY <1>1, <1>2, <1>3

\* The shortfall of a dark deployment is covered under the generation of the
\* debit just written, so nobody else holds its key either.
LEMMA TakeInv ==
    ASSUME CreditAssumption, IInv, NEW s \in Sessions,
           TakePayment(s) \/ RefuseInsufficient(s) \/ CoverShortfall(s)
    PROVE  IInv'
<1>0. tx[s] \in Tx /\ TxInv(tx[s])
  BY DEF IInv, TypeOK
<1>1. CASE TakePayment(s)
  <2> DEFINE t == [tx[s] EXCEPT !.credit = @ - Cost, !.touched = TRUE,
                                !.pc = "commit", !.answer = "charged"]
  <2>0. tx[s].credit - Cost \in Int
    BY <1>0 DEF Tx, CreditAssumption
  <2>1. t \in Tx /\ t.rows = tx[s].rows /\ t.user = tx[s].user /\ t.pc = "commit"
    BY <1>0, <2>0, Named DEF Tx
  <2>2. Become(s, t)
    BY <1>1 DEF TakePayment
  <2> HIDE DEF t
  <2> QED
    BY <1>0, <1>1, <2>1, <2>2, SameRows DEF TakePayment, At, TxInv, OrderSteps
<1>2. CASE RefuseInsufficient(s)
  BY <1>2, RollbackInv DEF RefuseInsufficient
<1>3. CASE CoverShortfall(s)
  <2> DEFINE q == NewRow(CoverKey(s), tx[s].user, Cost)
             t == [tx[s] EXCEPT !.rows = @ \union {q}, !.touched = TRUE,
                                !.pc = "commit", !.answer = "charged"]
  <2>1. tx[s].user \in Users /\ tx[s].order \in Orders /\ tx[s].gen \in Nat
    BY <1>0, <1>3 DEF CoverShortfall, At, TxInv, OrderSteps, Steps, Tx
  <2>2. CoverKey(s) \in Key /\ CoverKey(s)[1] = "unenforced"
    BY <2>1 DEF CoverKey, Key
  <2>3. q \in Row /\ q.key = CoverKey(s)
    BY <2>1, <2>2 DEF Row, NewRow, CreditAssumption
  <2>4. DebitStands(q) /\ RefundIsNext(q) /\ OfAccount(q, tx[s].user)
    BY <2>2, <2>3 DEF DebitStands, RefundIsNext, OfAccount
  <2>5. Become(s, t) /\ KeyFree(s, CoverKey(s))
    BY <1>3 DEF CoverShortfall
  <2> HIDE DEF q
  <2>6. t \in Tx /\ t.rows = tx[s].rows \union {q} /\ t.user = tx[s].user
        /\ t.pc = "commit"
    BY <1>0, <2>3, Named DEF Tx
  <2> HIDE DEF t
  <2> QED  BY <2>1, <2>2, <2>3, <2>4, <2>5, <2>6, OneRow DEF OrderSteps
<1> QED  BY <1>1, <1>2, <1>3

LEMMA SettleReadInv ==
    ASSUME CreditAssumption, IInv, NEW s \in Sessions,
           \/ HoldsCredit(s) \/ HoldsNothing(s) \/ LoseSettlement(s)
           \/ AccountThere(s) \/ AccountErased(s) \/ SettleGeneration(s)
    PROVE  IInv'
<1>0. tx[s] \in Tx /\ TxInv(tx[s])
  BY DEF IInv, TypeOK
<1>1. CASE HoldsCredit(s)
  <2> DEFINE net == NetPosition(ledger, tx[s].order)
             t == [tx[s] EXCEPT !.net = net,
                     !.pc = IF tx[s].close = "refund" THEN "settle_account"
                                                      ELSE "settle_generation"]
  <2>1. tx[s].user \in Users /\ tx[s].order \in Orders
    BY <1>0, <1>1 DEF HoldsCredit, At, TxInv, OrderSteps, Steps
  <2>2. net \in Int
    BY <2>1, NetType DEF IInv
  <2>3. Become(s, t)
    BY <1>1 DEF HoldsCredit
  <2> HIDE DEF net
  <2>4. t \in Tx /\ t.rows = tx[s].rows /\ t.user = tx[s].user /\ t.order = tx[s].order
        /\ t.pc \in {"settle_account", "settle_generation"}
    BY <1>0, <2>2, Named DEF Tx
  <2> HIDE DEF t
  <2> QED  BY <2>1, <2>3, <2>4, SameRows
<1>2. ASSUME Answer(s, "unsettled"), ~At(s, "idle")
      PROVE  IInv'
  <2> DEFINE t == [tx[s] EXCEPT !.pc = "commit", !.answer = "unsettled"]
  <2>1. t \in Tx /\ t.rows = tx[s].rows /\ t.user = tx[s].user /\ t.pc = "commit"
    BY <1>0, Named DEF Tx
  <2>2. Become(s, t)
    BY <1>2 DEF Answer
  <2> HIDE DEF t
  <2> QED  BY <1>0, <1>2, <2>1, <2>2, SameRows DEF At, TxInv, OrderSteps
<1>3. CASE HoldsNothing(s) \/ AccountErased(s) \/ LoseSettlement(s)
  BY <1>2, <1>3 DEF HoldsNothing, AccountErased, LoseSettlement, At
<1>4. CASE AccountThere(s)
  <2> DEFINE t == [tx[s] EXCEPT !.pc = "settle_generation"]
  <2>1. t \in Tx /\ t.rows = tx[s].rows /\ t.user = tx[s].user /\ t.order = tx[s].order
        /\ t.pc = "settle_generation"
    BY <1>0, Named DEF Tx
  <2>2. Become(s, t)
    BY <1>4 DEF AccountThere, Goto
  <2> HIDE DEF t
  <2> QED
    BY <1>0, <1>4, <2>1, <2>2, SameRows DEF AccountThere, At, TxInv, OrderSteps, Steps
<1>5. CASE SettleGeneration(s)
  <2> DEFINE g == Generation(ledger, tx[s].order)
             t == [tx[s] EXCEPT !.gen = g, !.pc = "settle_write"]
  <2>1. tx[s].user \in Users /\ tx[s].order \in Orders
    BY <1>0, <1>5 DEF SettleGeneration, At, TxInv, OrderSteps, Steps
  <2>2. g \in Nat /\ Refunds(tx[s].order) = Below(g)
    BY <2>1, GenerationIsNext DEF IInv
  <2>3. Become(s, t)
    BY <1>5 DEF SettleGeneration
  <2> HIDE DEF g
  <2>4. t \in Tx /\ t.rows = tx[s].rows /\ t.user = tx[s].user /\ t.order = tx[s].order
        /\ t.pc = "settle_write" /\ t.gen = g
    BY <1>0, <2>2, Named DEF Tx
  <2> HIDE DEF t
  <2> QED  BY <2>1, <2>2, <2>3, <2>4, SameRows
<1> QED  BY <1>1, <1>3, <1>4, <1>5

\* The one place a refund is written: its generation was read when the refunds
\* reached at least that far, and its key is still free, so it is the next one.
LEMMA SettleWriteInv ==
    ASSUME CreditAssumption, IInv, NEW s \in Sessions,
           WriteRefund(s) \/ WriteConsume(s)
    PROVE  IInv'
<1>0. tx[s] \in Tx /\ TxInv(tx[s])
  BY DEF IInv, TypeOK
<1>1. /\ tx[s].user \in Users /\ tx[s].order \in Orders /\ tx[s].gen \in Nat
      /\ Below(tx[s].gen) \subseteq Refunds(tx[s].order) /\ ~At(s, "idle")
      /\ SettleKey(s) \in Key
      /\ SettleKey(s) = <<tx[s].close, tx[s].order, tx[s].gen>>
  BY <1>0 DEF WriteRefund, WriteConsume, At, TxInv, OrderSteps, Steps, Tx, SettleKey,
              Key, OrderKinds
<1>2. CASE WriteRefund(s)
  <2>1. tx[s].gen \notin Refunds(tx[s].order)
    <3> SUFFICES ASSUME tx[s].gen \in Refunds(tx[s].order)
                 PROVE  FALSE
      OBVIOUS
    <3>1. PICK r \in ledger : r.key[1] = "refund" /\ r.key[2] = tx[s].order
                                /\ r.key[3] = tx[s].gen
      BY GenerationsMember DEF Refunds
    <3>2. r.key \in Key
      BY DEF IInv, TypeOK, Row
    <3>3. r.key = SettleKey(s)
      BY <1>1, <1>2, <3>1, <3>2, KeyIsTriple DEF WriteRefund
    <3> QED  BY <1>2, <3>3 DEF WriteRefund, Has
  <2>2. Refunds(tx[s].order) = Below(tx[s].gen)
    <3>1. PICK n \in Nat : Refunds(tx[s].order) = Below(n)
      BY <1>1 DEF IInv, Segments
    <3>2. n = tx[s].gen
      <4>1. tx[s].gen \in Nat /\ Below(tx[s].gen) \subseteq Below(n)
        BY <1>1, <3>1
      <4>2. tx[s].gen \notin Below(n)
        BY <2>1, <3>1
      <4>3. ASSUME NEW g \in Nat, g \notin 0..(n - 1), 0..(g - 1) \subseteq 0..(n - 1)
            PROVE  n = g
        <5>1. CASE n > g
          BY <3>1, <4>3, <5>1
        <5>2. CASE n < g
          <6>1. n \in 0..(g - 1) /\ n \notin 0..(n - 1)
            BY <3>1, <4>3, <5>2
          <6> QED  BY <4>3, <6>1
        <5> QED  BY <3>1, <4>3, <5>1, <5>2
      <4> QED  BY <4>1, <4>2, <4>3 DEF Below
    <3> QED  BY <3>1, <3>2
  <2>3. DebitStands(NewRow(SettleKey(s), tx[s].user, -tx[s].net))
        /\ RefundIsNext(NewRow(SettleKey(s), tx[s].user, -tx[s].net))
    BY <1>1, <1>2, <2>2 DEF WriteRefund, DebitStands, RefundIsNext, NewRow
  <2>4. -tx[s].net \in Int /\ KeyFree(s, SettleKey(s)) /\ "commit" \in Steps
        /\ SettleKey(s)[1] # "plan"
    BY <1>0, <1>1, <1>2 DEF WriteRefund, Tx, Steps
  <2>5. CASE Become(s, [Credited(s, SettleKey(s), -tx[s].net, "commit")
                          EXCEPT !.answer = "settled"])
    BY <1>1, <2>3, <2>4, <2>5, CreditedInv DEF OrderSteps
  <2> QED  BY <1>2, <2>5, RollbackInv DEF WriteRefund
<1>3. CASE WriteConsume(s)
  <2> DEFINE q == NewRow(SettleKey(s), tx[s].user, 0)
             t == [tx[s] EXCEPT !.rows = @ \union {q},
                                !.pc = "commit", !.answer = "settled"]
  <2>1. q \in Row /\ q.key = SettleKey(s) /\ SettleKey(s)[1] = "consume"
    BY <1>1, <1>3 DEF Row, NewRow, WriteConsume
  <2>2. DebitStands(q) /\ RefundIsNext(q) /\ OfAccount(q, tx[s].user)
    BY <2>1 DEF DebitStands, RefundIsNext, OfAccount
  <2>3. Become(s, t) /\ KeyFree(s, SettleKey(s))
    BY <1>3 DEF WriteConsume
  <2> HIDE DEF q
  <2>4. t \in Tx /\ t.rows = tx[s].rows \union {q} /\ t.user = tx[s].user
        /\ t.pc = "commit"
    BY <1>0, <2>1, Named DEF Tx
  <2> HIDE DEF t
  <2> QED  BY <1>1, <2>1, <2>2, <2>3, <2>4, OneRow DEF OrderSteps
<1> QED  BY <1>2, <1>3

LEMMA BeginInv ==
    ASSUME CreditAssumption, IInv, NEW s \in Sessions, BeginSome(s)
    PROVE  IInv'
<1>0. tx[s] \in Tx /\ window \in Nat /\ TypeOK
  BY DEF IInv, TypeOK
<1>1. ASSUME NEW op \in Ops, NEW u \in Users, NEW o \in Orders \union {Nobody},
             NEW k \in Nat, NEW step \in {"open", "settle_net", "open_grant", "forget_rows"},
             NEW close \in {"refund", "consume"},
             step \in OrderSteps => o \in Orders,
             NEW t \in {Begin(s, op, u, o, k, step),
                        [Begin(s, op, u, o, k, step) EXCEPT !.close = close]},
             Become(s, t)
      PROVE  IInv'
  <2> DEFINE b == Begin(s, op, u, o, k, step)
  <2>0. Idle.rows = {} /\ step \in Steps
    BY DEF Idle, Steps
  <2>a. b \in Tx /\ b.pc = step /\ b.user = u /\ b.order = o /\ b.rows = {}
    BY IdleType, <2>0 DEF Begin, Tx
  <2> HIDE DEF b
  <2>1. /\ t \in Tx /\ t.pc = step /\ t.user = u /\ t.order = o /\ t.rows = {}
    <3>1. CASE t = b
      BY <2>a, <3>1
    <3>2. CASE t = [b EXCEPT !.close = close]
      BY <2>a, <3>2 DEF Tx
    <3> QED  BY <3>1, <3>2 DEF b
  <2>2. TxInv(t)
    BY <1>1, <2>1 DEF TxInv, OrderSteps
  <2> QED  BY <1>1, <2>1, <2>2, BecomeInv
<1>3. CASE \E o \in Orders : BeginCharge(s, o)
  <2>1. PICK o \in Orders : BeginCharge(s, o)
    BY <1>3
  <2>2. Owner[o] \in Users /\ "charge" \in Ops /\ "open" \in Steps
    BY DEF CreditAssumption, Ops, Steps
  <2> QED  BY <1>0, <1>1, <2>1, <2>2 DEF BeginCharge
<1>4. CASE \E o \in Orders, close \in {"refund", "consume"} : BeginSettle(s, o, close)
  <2>1. PICK o \in Orders, close \in {"refund", "consume"} : BeginSettle(s, o, close)
    BY <1>4
  <2>2. Owner[o] \in Users /\ "settle" \in Ops
    BY DEF CreditAssumption, Ops
  <2> QED  BY <1>1, <2>1, <2>2 DEF BeginSettle
<1>5. CASE \E u \in Users, k \in 1..LastGrant : BeginGrant(s, u, k)
  <2>1. PICK u \in Users, k \in 1..LastGrant : BeginGrant(s, u, k)
    BY <1>5
  <2>2. "grant" \in Ops /\ "open_grant" \in Steps /\ k \in Nat
    BY DEF CreditAssumption, Ops, Steps
  <2> QED  BY <1>1, <2>1, <2>2 DEF BeginGrant, OrderSteps
<1>6. CASE \E u \in Leavers : BeginForget(s, u)
  <2>1. PICK u \in Leavers : BeginForget(s, u)
    BY <1>6
  <2>2. "forget" \in Ops /\ "forget_rows" \in Steps /\ u \in Users
    BY DEF CreditAssumption, Ops, Steps
  <2> QED  BY <1>1, <2>1, <2>2 DEF BeginForget, OrderSteps
<1> QED  BY <1>3, <1>4, <1>5, <1>6 DEF BeginSome

LEMMA GrantInv ==
    ASSUME CreditAssumption, IInv, NEW s \in Sessions, WriteGrant(s) \/ GrantAgain(s)
    PROVE  IInv'
<1>0. tx[s] \in Tx /\ TxInv(tx[s])
  BY DEF IInv, TypeOK
<1>1. tx[s].user \in Users /\ ~At(s, "idle")
  BY <1>0 DEF WriteGrant, GrantAgain, At, TxInv
<1>2. CASE WriteGrant(s)
  <2>1. GrantKey(s) \in Key /\ GrantKey(s)[1] = "grant"
    BY <1>0, <1>1 DEF GrantKey, Key, AccountKinds, Tx
  <2>2. DebitStands(NewRow(GrantKey(s), tx[s].user, 1))
        /\ RefundIsNext(NewRow(GrantKey(s), tx[s].user, 1))
    BY <2>1, OtherKindStands DEF NewRow
  <2>3. 1 \in Int /\ KeyFree(s, GrantKey(s)) /\ "commit" \in Steps \ OrderSteps
    BY <1>2 DEF WriteGrant, Steps, OrderSteps
  <2>4. CASE Become(s, Credited(s, GrantKey(s), 1, "commit"))
    BY <1>1, <2>1, <2>2, <2>3, <2>4, CreditedInv
  <2> QED  BY <1>2, <2>4, RollbackInv DEF WriteGrant
<1>3. CASE GrantAgain(s)
  <2> DEFINE t == [tx[s] EXCEPT !.pc = "commit", !.answer = "unsettled"]
  <2>1. t \in Tx /\ t.rows = tx[s].rows /\ t.user = tx[s].user /\ t.pc = "commit"
    BY <1>0, Named DEF Tx
  <2>2. Become(s, t)
    BY <1>3 DEF GrantAgain, Answer
  <2> HIDE DEF t
  <2> QED  BY <1>1, <2>1, <2>2, SameRows DEF OrderSteps
<1> QED  BY <1>2, <1>3

LEMMA ForgetInv ==
    ASSUME IInv, NEW s \in Sessions, AnonymiseRows(s) \/ DeleteAccount(s)
    PROVE  IInv'
<1>0. /\ tx[s] \in Tx /\ TxInv(tx[s]) /\ ledger \subseteq Row
      /\ plan \in [Users -> Plan] /\ account \in [Users -> Account]
  BY DEF IInv, TypeOK
<1>1. tx[s].user \in Users
  BY <1>0 DEF AnonymiseRows, DeleteAccount, At, TxInv
<1>2. CASE AnonymiseRows(s)
  <2> DEFINE u == tx[s].user
             keys == {r.key : r \in {x \in ledger : x.user = u}}
             seen == IF plan[u].owned THEN plan[u].used ELSE NotSeen
             t == [tx[s] EXCEPT !.erased = keys, !.seen = seen, !.pc = "forget_account"]
  <2>1. keys \in SUBSET Key
    BY <1>0 DEF Row
  <2>2. seen \in Nat \union {NotSeen}
    BY <1>0, <1>1 DEF Plan
  <2>3. Become(s, t)
    BY <1>2 DEF AnonymiseRows
  <2> HIDE DEF keys, seen
  <2>4. t \in Tx /\ t.rows = tx[s].rows /\ t.user = tx[s].user /\ t.pc = "forget_account"
    BY <1>0, <2>1, <2>2, Named DEF Tx
  <2> HIDE DEF t
  <2> QED  BY <1>1, <2>3, <2>4, SameRows DEF OrderSteps
<1>3. CASE DeleteAccount(s)
  <2> DEFINE t == [tx[s] EXCEPT !.deleted = account[tx[s].user].open, !.pc = "commit"]
  <2>1. account[tx[s].user].open \in BOOLEAN
    BY <1>0, <1>1 DEF Account
  <2>2. t \in Tx /\ t.rows = tx[s].rows /\ t.user = tx[s].user /\ t.pc = "commit"
    BY <1>0, <2>1, Named DEF Tx
  <2>3. Become(s, t)
    BY <1>3 DEF DeleteAccount
  <2> HIDE DEF t
  <2> QED  BY <1>1, <2>2, <2>3, SameRows DEF OrderSteps
<1> QED  BY <1>2, <1>3

-----------------------------------------------------------------------------
\* What a commit does to the generations of an order: it adds those of its own
\* rows, and taking an owner off a row changes none.
LEMMA MergedGenerations ==
    ASSUME TypeOK, NEW s \in Sessions, NEW kind, NEW o
    PROVE  Generations(Merged(s), kind, o)
             = Generations(ledger, kind, o) \union Generations(tx[s].rows, kind, o)
<1> DEFINE named(r) == [r EXCEPT !.user = IF r.key \in tx[s].erased THEN Nobody ELSE @]
<1>1. \A r \in ledger : named(r).key = r.key
  BY DEF TypeOK, Row
<1>2. \A k : (\E r \in Merged(s) : r.key = k)
               <=> (\E r \in ledger : r.key = k) \/ (\E r \in tx[s].rows : r.key = k)
  <2>1. Merged(s) = {named(r) : r \in ledger} \union tx[s].rows
    BY DEF Merged
  <2> HIDE DEF named
  <2>2. SUFFICES ASSUME NEW k
                 PROVE  (\E r \in Merged(s) : r.key = k)
                          <=> (\E r \in ledger : r.key = k)
                                \/ (\E r \in tx[s].rows : r.key = k)
    OBVIOUS
  <2>3. ASSUME NEW r \in Merged(s), r.key = k
        PROVE  (\E q \in ledger : q.key = k) \/ (\E q \in tx[s].rows : q.key = k)
    <3>1. CASE r \in tx[s].rows
      BY <2>3, <3>1
    <3>2. CASE \E q \in ledger : r = named(q)
      BY <1>1, <2>3, <3>2
    <3> QED  BY <2>1, <3>1, <3>2
  <2>4. ASSUME NEW q \in ledger, q.key = k
        PROVE  \E r \in Merged(s) : r.key = k
    <3>1. named(q) \in Merged(s) /\ named(q).key = k
      BY <1>1, <2>1, <2>4
    <3> QED  BY <3>1
  <2>5. ASSUME NEW q \in tx[s].rows, q.key = k
        PROVE  \E r \in Merged(s) : r.key = k
    BY <2>1, <2>5
  <2> QED  BY <2>3, <2>4, <2>5
<1> SUFFICES ASSUME NEW g
             PROVE  g \in Generations(Merged(s), kind, o)
                      <=> g \in Generations(ledger, kind, o)
                            \/ g \in Generations(tx[s].rows, kind, o)
  OBVIOUS
<1>3. ASSUME NEW rows
      PROVE  g \in Generations(rows, kind, o)
               <=> \E k : /\ \E r \in rows : r.key = k
                          /\ k[1] = kind /\ k[2] = o /\ k[3] = g
  BY GenerationsMember
<1> QED  BY <1>2, <1>3

LEMMA MergedRows ==
    ASSUME TypeOK, NEW s \in Sessions, NEW r \in Merged(s)
    PROVE  r \in Row /\ \E q \in ledger \union tx[s].rows : q.key = r.key
<1>1. CASE r \in tx[s].rows
  BY <1>1 DEF TypeOK, Tx
<1>2. CASE \E q \in ledger :
             r = [q EXCEPT !.user = IF q.key \in tx[s].erased THEN Nobody ELSE @]
  BY <1>2 DEF TypeOK, Row
<1> QED  BY <1>1, <1>2 DEF Merged

LEMMA CommitType ==
    ASSUME IInv, NEW s \in Sessions, Commit(s)
    PROVE  TypeOK'
<1>0. /\ tx[s] \in Tx /\ tx[s].user \in Users /\ account \in [Users -> Account]
      /\ plan \in [Users -> Plan]
  BY DEF IInv, TypeOK, Commit, At, TxInv
<1>1. ledger' \subseteq Row
  BY MergedRows DEF IInv, Commit
<1>2. account' \in [Users -> Account]
  <2>1. \A a \in Account : AccountAfter(s, a) \in Account
    <3> SUFFICES ASSUME NEW a \in Account
                 PROVE  AccountAfter(s, a) \in Account
      OBVIOUS
    <3>1. NoAccount \in Account
      BY DEF NoAccount, Account, Windows
    <3>2. /\ (a.open \/ tx[s].opened) \in BOOLEAN
          /\ a.balance + tx[s].credit \in Int
          /\ (IF Has(tx[s].rows, AllowanceKey(s)) THEN tx[s].n ELSE a.minted) \in Windows
      BY <1>0 DEF Account, Tx, Windows
    <3> QED  BY <3>1, <3>2 DEF AccountAfter, Account
  <2> QED  BY <1>0, <2>1 DEF Commit
<1>3. plan' \in [Users -> Plan]
  <2>1. \A p \in Plan : PlanAfter(s, p) \in Plan
    <3> SUFFICES ASSUME NEW p \in Plan
                 PROVE  PlanAfter(s, p) \in Plan
      OBVIOUS
    <3> DEFINE owned == p.owned /\ ~(tx[s].op = "forget" /\ tx[s].seen # NotSeen)
               used == IF \E r \in tx[s].rows : r.key[1] = "plan"
                       THEN p.used + 1 ELSE p.used
    <3>1. owned \in BOOLEAN /\ used \in Nat
      BY DEF Plan
    <3>2. PlanAfter(s, p) = [p EXCEPT !.owned = owned, !.used = used]
      BY DEF PlanAfter
    <3> HIDE DEF owned, used
    <3> QED  BY <3>1, <3>2 DEF Plan
  <2> QED  BY <1>0, <2>1 DEF Commit
<1>4. tx' \in [Sessions -> Tx]
  BY IdleType DEF IInv, TypeOK, Commit
<1>5. contested' \subseteq Orders /\ torn' \subseteq Users
  BY DEF IInv, TypeOK, Commit, Contests, Tears
<1> QED  BY <1>1, <1>2, <1>3, <1>4, <1>5 DEF IInv, TypeOK, Commit

\* The rows a transaction commits leave the refunds of an order as they were,
\* or add the next one.
LEMMA CommitRefunds ==
    ASSUME IInv, NEW s \in Sessions, Commit(s), NEW o \in Orders
    PROVE  \/ Refunds(o)' = Refunds(o)
           \/ \E r \in tx[s].rows :
                 /\ r.key[1] = "refund" /\ r.key[2] = o /\ r.key[3] \in Nat
                 /\ Refunds(o) = Below(r.key[3])
                 /\ Refunds(o)' = Below(r.key[3] + 1)
<1> DEFINE own == Generations(tx[s].rows, "refund", o)
<1>1. Refunds(o)' = Refunds(o) \union own
  BY MergedGenerations DEF IInv, Commit, Refunds
<1>2. CASE own = {}
  BY <1>1, <1>2
<1>3. CASE own # {}
  <2>1. PICK r \in tx[s].rows : r.key[1] = "refund" /\ r.key[2] = o
    BY <1>3 DEF Generations
  <2>2. r.key[3] \in Nat /\ Refunds(o) = Below(r.key[3])
    <3>1. r.key \in Key
      BY DEF IInv, TypeOK, Tx, Row
    <3> QED  BY <2>1, <3>1, KeyParts DEF IInv, TxInv, RefundIsNext
  <2>3. own = {r.key[3]}
    <3>1. ASSUME NEW q \in tx[s].rows, q.key[1] = "refund", q.key[2] = o
          PROVE  q.key[3] = r.key[3]
      <4>1. q.key \in Key
        BY DEF IInv, TypeOK, Tx, Row
      <4>2. q.key[3] \in Nat /\ Refunds(o) = Below(q.key[3])
        BY <3>1, <4>1, KeyParts DEF IInv, TxInv, RefundIsNext
      <4> QED  BY <2>2, <4>2 DEF Below
    <3>2. \A g : g \in own <=> g = r.key[3]
      BY <2>1, <3>1, GenerationsMember
    <3> QED  BY <3>2
  <2>4. Below(r.key[3]) \union {r.key[3]} = Below(r.key[3] + 1)
    BY <2>2 DEF Below
  <2> QED  BY <1>1, <2>1, <2>2, <2>3, <2>4
<1> QED  BY <1>2, <1>3

LEMMA CommitInv ==
    ASSUME IInv, NEW s \in Sessions, Commit(s)
    PROVE  IInv'
<1>0. TypeOK /\ TypeOK'
  BY CommitType DEF IInv
<1>1. Segments'
  <2> SUFFICES ASSUME NEW o \in Orders
               PROVE  \E n \in Nat : Refunds(o)' = Below(n)
    BY DEF Segments, Below
  <2>1. PICK n \in Nat : Refunds(o) = Below(n)
    BY DEF IInv, Segments
  <2>2. \A n1 \in Nat : n1 + 1 \in Nat
    OBVIOUS
  <2> QED  BY <2>1, <2>2, CommitRefunds
<1>2. \A o \in Orders : Refunds(o) \subseteq Refunds(o)'
  BY CommitRefunds DEF Below
<1>3. ASSUME NEW r, r.key \in Key, DebitStands(r)
      PROVE  DebitStands(r)'
  <2>1. r.key[1] = "debit" => r.key[2] \in Orders
    BY <1>3, KeyParts DEF OrderKinds
  <2> QED  BY <1>2, <1>3, <2>1 DEF DebitStands
<1>4. DebitsStand'
  <2> SUFFICES ASSUME NEW r \in Merged(s)
               PROVE  DebitStands(r)'
    BY DEF DebitsStand, Commit
  <2>1. PICK q \in ledger \union tx[s].rows : q.key = r.key
    BY <1>0, MergedRows
  <2>2. r.key \in Key
    BY <1>0, MergedRows DEF Row
  <2>3. DebitStands(q)
    BY DEF IInv, DebitsStand, TxInv
  <2>4. DebitStands(r)
    BY <2>1, <2>3 DEF DebitStands
  <2> QED  BY <1>3, <2>2, <2>4
<1>5. KeysApart'
  <2>1. \A x \in Sessions : tx'[x].rows \subseteq tx[x].rows
    BY <1>0 DEF Commit, TypeOK, Idle
  <2> QED  BY <2>1 DEF IInv, KeysApart
<1>6. ASSUME NEW x \in Sessions
      PROVE  TxInv(tx[x])'
  <2>1. CASE x = s
    <3>1. tx'[x] = Idle
      BY <1>0, <2>1 DEF Commit, TypeOK
    <3> QED  BY <3>1 DEF TxInv, Idle, OrderSteps
  <2>2. CASE x # s
    <3>1. tx'[x] = tx[x] /\ TxInv(tx[x]) /\ tx[x] \in Tx
      BY <1>0, <2>2 DEF Commit, TypeOK, IInv
    <3>2. tx[x].pc \in {"debit", "settle_write"} =>
             Below(tx[x].gen) \subseteq Refunds(tx[x].order)'
      BY <1>2, <3>1 DEF TxInv, OrderSteps, Steps
    <3>3. ASSUME NEW r \in tx[x].rows
          PROVE  DebitStands(r)' /\ RefundIsNext(r)' /\ OfAccount(r, tx[x].user)
      <4>1. r.key \in Key
        BY <3>1 DEF Tx, Row
      <4>2. DebitStands(r)' /\ OfAccount(r, tx[x].user)
        BY <1>3, <3>1, <4>1 DEF TxInv
      <4>3. CASE r.key[1] = "refund"
        <5>1. r.key[2] \in Orders /\ r.key[3] \in Nat
              /\ Refunds(r.key[2]) = Below(r.key[3])
          BY <3>1, <4>1, <4>3, KeyParts DEF OrderKinds, TxInv, RefundIsNext
        <5>2. ASSUME NEW q \in tx[s].rows, q.key[1] = "refund", q.key[2] = r.key[2],
                     q.key[3] \in Nat, Refunds(r.key[2]) = Below(q.key[3])
              PROVE  FALSE
          <6>1. q.key[3] = r.key[3]
            BY <5>1, <5>2 DEF Below
          <6>2. q.key \in Key
            BY <1>0 DEF TypeOK, Tx, Row
          <6>3. q.key = r.key
            BY <4>1, <4>3, <5>2, <6>1, <6>2, KeyIsTriple
          <6> QED  BY <2>2, <6>3 DEF IInv, KeysApart
        <5>3. Refunds(r.key[2])' = Refunds(r.key[2])
          BY <5>1, <5>2, CommitRefunds
        <5> QED  BY <4>2, <5>1, <5>3 DEF RefundIsNext
      <4>4. CASE r.key[1] # "refund"
        BY <4>2, <4>4 DEF RefundIsNext
      <4> QED  BY <4>3, <4>4
    <3> QED  BY <3>1, <3>2, <3>3 DEF TxInv
  <2> QED  BY <2>1, <2>2
<1> QED  BY <1>0, <1>1, <1>4, <1>5, <1>6 DEF IInv

LEMMA AroundInv ==
    ASSUME IInv, (\E u \in Users : PlanSale(u)) \/ NextWindow \/ UNCHANGED vars
    PROVE  IInv'
<1>1. UNCHANGED <<ledger, account, tx, contested, torn>>
  BY DEF PlanSale, NextWindow, vars, history
<1>2. plan' \in [Users -> Plan] /\ window' \in Nat
  <2>1. CASE \E u \in Users : PlanSale(u)
    <3>1. PICK u \in Users : PlanSale(u)
      BY <2>1
    <3>2. window \in Nat /\ plan \in [Users -> Plan]
      BY DEF IInv, TypeOK
    <3>3. [NoPlan EXCEPT !.owned = TRUE, !.ends = window] \in Plan
      BY <3>2 DEF NoPlan, Plan, Windows
    <3> QED  BY <3>1, <3>2, <3>3 DEF PlanSale
  <2>2. CASE NextWindow
    BY <2>2 DEF IInv, TypeOK, NextWindow
  <2>3. CASE UNCHANGED vars
    BY <2>3 DEF IInv, TypeOK, vars
  <2> QED  BY <2>1, <2>2, <2>3
<1>3. TypeOK'
  BY <1>1, <1>2 DEF IInv, TypeOK
<1> QED
  BY <1>1, <1>3 DEF IInv, Segments, DebitsStand, KeysApart, TxInv, DebitStands,
                    RefundIsNext, OfAccount, Refunds

-----------------------------------------------------------------------------
LEMMA InitInv == CreditAssumption /\ Init => IInv
<1> SUFFICES ASSUME CreditAssumption, Init
             PROVE  IInv
  OBVIOUS
<1>1. TypeOK
  BY IdleType DEF Init, TypeOK, Account, NoAccount, Plan, NoPlan, Windows, Never
<1>2. \A o \in Orders : Refunds(o) = Below(0)
  BY DEF Init, Refunds, Generations, Below
<1>3. Segments
  BY <1>2 DEF Segments
<1>4. \A x \in Sessions : tx[x] = Idle /\ tx[x].rows = {}
  BY DEF Init, Idle
<1> QED
  BY <1>1, <1>3, <1>4, IdleType DEF IInv, DebitsStand, KeysApart, Init

LEMMA NextInv == CreditAssumption /\ IInv /\ [Next]_vars => IInv'
<1> SUFFICES ASSUME CreditAssumption, IInv, [Next]_vars
             PROVE  IInv'
  OBVIOUS
<1>1. ASSUME NEW s \in Sessions, BeginSome(s)
      PROVE  IInv'
  BY <1>1, BeginInv
<1>2. ASSUME NEW s \in Sessions, ChargeStep(s)
      PROVE  IInv'
  BY <1>2, MintInv, DecideInv, PlanSongInv, DebitInv, TakeInv DEF ChargeStep
<1>3. ASSUME NEW s \in Sessions, SettleStep(s)
      PROVE  IInv'
  BY <1>3, SettleReadInv, SettleWriteInv DEF SettleStep
<1>4. ASSUME NEW s \in Sessions,
             WriteGrant(s) \/ GrantAgain(s) \/ AnonymiseRows(s) \/ DeleteAccount(s)
      PROVE  IInv'
  BY <1>4, GrantInv, ForgetInv
<1>5. ASSUME NEW s \in Sessions, Commit(s) \/ Abort(s)
      PROVE  IInv'
  BY <1>5, CommitInv, RollbackInv DEF Abort
<1>6. CASE (\E u \in Users : PlanSale(u)) \/ NextWindow \/ UNCHANGED vars
  BY <1>6, AroundInv
<1> QED  BY <1>1, <1>2, <1>3, <1>4, <1>5, <1>6 DEF Next

\* The invariant holds in every state the ledger reaches, whatever overlaps.
THEOREM Invariance == Spec => []IInv
<1>1. CreditAssumption
  BY CreditAssumption
<1> QED  BY <1>1, InitInv, NextInv, PTL DEF Spec

\* Every state is well typed: generations are counted, positions are numbers,
\* rows carry keys of their kind.
THEOREM TypeCorrect == Spec => []TypeOK
<1>1. IInv => TypeOK
  BY DEF IInv
<1> QED  BY <1>1, Invariance, PTL

\* An order's debits are at most one more than its refunds, in every state of the invariant.
LEMMA Once == IInv => NeverDoubleCharged
<1> SUFFICES ASSUME IInv
             PROVE  NeverDoubleCharged
  OBVIOUS
<1> QED  BY DebitsBounded DEF IInv, NeverDoubleCharged, Debits, Refunds

\* However charges, settlements, grants and erasures overlap, abort or repeat,
\* an order is debited at most once more than it is refunded, and each debit
\* after the first stands on the refund before it.
THEOREM ChargedOnce == Spec => []NeverDoubleCharged
BY Once, Invariance, PTL

-----------------------------------------------------------------------------
\* PlanSongsMinted beside IInv. A session about to claim read a song the plan
\* still had; a session that holds a claimed song holds the very song the plan
\* counts next, since the claim is refused otherwise and no other session of
\* the account can hold the same key, so committing it closes the count.
PlanTx(t) ==
    /\ t.pc = "claim" => t.seen < PlanSize
    /\ \A r \in t.rows : r.key[1] = "plan" =>
          r.key[3] = plan[r.key[2]].used /\ r.key[3] < PlanSize

PlanInv == PlanSongsMinted /\ \A s \in Sessions : PlanTx(tx[s])

\* The songs minted from a plan are the generations of its rows.
LEMMA SongsAreGenerations ==
    ASSUME NEW rows, NEW u
    PROVE  {k[3] : k \in {r.key : r \in {x \in rows : x.key[1] = "plan" /\ x.key[2] = u}}}
             = Generations(rows, "plan", u)
BY DEF Generations

LEMMA PlanBecome ==
    ASSUME IInv, PlanInv, NEW s \in Sessions, NEW t, Become(s, t), PlanTx(t)
    PROVE  PlanInv'
<1>1. /\ tx'[s] = t /\ \A x \in Sessions \ {s} : tx'[x] = tx[x]
      /\ plan' = plan /\ ledger' = ledger
  BY DEF Become, IInv, TypeOK
<1>2. PlanSongsMinted'
  BY <1>1 DEF PlanInv, PlanSongsMinted
<1>3. \A x \in Sessions : PlanTx(tx[x])'
  BY <1>1 DEF PlanInv, PlanTx
<1> QED  BY <1>2, <1>3 DEF PlanInv

\* A step that neither goes to claim nor adds a row of a plan.
LEMMA PlanKeep ==
    ASSUME IInv, PlanInv, NEW s \in Sessions, NEW t, Become(s, t), t.pc # "claim",
           \A r \in t.rows : r \in tx[s].rows \/ r.key[1] # "plan"
    PROVE  PlanInv'
<1>1. PlanTx(t)
  BY DEF PlanInv, PlanTx
<1> QED  BY <1>1, PlanBecome

LEMMA PlanRollback ==
    ASSUME IInv, PlanInv, NEW s \in Sessions, Rollback(s)
    PROVE  PlanInv'
BY PlanKeep DEF Rollback, Idle

LEMMA PlanGoto ==
    ASSUME IInv, PlanInv, NEW s \in Sessions, NEW step, Goto(s, step), step # "claim"
    PROVE  PlanInv'
<1> DEFINE t == [tx[s] EXCEPT !.pc = step]
<1>1. tx[s] \in Tx /\ Become(s, t)
  BY DEF IInv, TypeOK, Goto
<1>2. t.pc = step /\ t.rows = tx[s].rows
  BY <1>1 DEF Tx
<1> QED  BY <1>1, <1>2, PlanKeep

LEMMA PlanAnswer ==
    ASSUME IInv, PlanInv, NEW s \in Sessions, NEW a, Answer(s, a)
    PROVE  PlanInv'
<1> DEFINE t == [tx[s] EXCEPT !.pc = "commit", !.answer = a]
<1>1. tx[s] \in Tx /\ Become(s, t)
  BY DEF IInv, TypeOK, Answer
<1>2. t.pc = "commit" /\ t.rows = tx[s].rows
  BY <1>1 DEF Tx
<1> QED  BY <1>1, <1>2, PlanKeep

\* The row a transaction credits itself with, and the step it goes to.
LEMMA CreditedRows ==
    ASSUME IInv, NEW s \in Sessions, NEW k, NEW d, NEW step,
           NEW t \in {Credited(s, k, d, step),
                      [Credited(s, k, d, step) EXCEPT !.answer = "settled"]}
    PROVE  t.rows = tx[s].rows \union {NewRow(k, tx[s].user, d)} /\ t.pc = step
<1>1. tx[s] \in Tx
  BY DEF IInv, TypeOK
<1> DEFINE q == NewRow(k, tx[s].user, d)
           c == tx[s].credit + d
<1>2. Credited(s, k, d, step)
        = [tx[s] EXCEPT !.rows = @ \union {q}, !.credit = c, !.touched = TRUE, !.pc = step]
  BY <1>1 DEF Credited, Tx
<1> HIDE DEF q, c
<1>3. /\ Credited(s, k, d, step).rows = tx[s].rows \union {q}
      /\ Credited(s, k, d, step).pc = step
      /\ [Credited(s, k, d, step) EXCEPT !.answer = "settled"].rows = tx[s].rows \union {q}
      /\ [Credited(s, k, d, step) EXCEPT !.answer = "settled"].pc = step
  BY <1>1, <1>2 DEF Tx
<1> QED  BY <1>3 DEF q

LEMMA PlanCredited ==
    ASSUME IInv, PlanInv, NEW s \in Sessions, NEW k, NEW d, NEW step,
           NEW t \in {Credited(s, k, d, step),
                      [Credited(s, k, d, step) EXCEPT !.answer = "settled"]},
           Become(s, t), step # "claim", k[1] # "plan"
    PROVE  PlanInv'
<1>1. t.rows = tx[s].rows \union {NewRow(k, tx[s].user, d)} /\ t.pc = step
  <2> DEFINE C == Credited(s, k, d, step)
             S == [C EXCEPT !.answer = "settled"]
             Q == tx[s].rows \union {NewRow(k, tx[s].user, d)}
  <2>1. C.rows = Q /\ C.pc = step
    BY CreditedRows
  <2>2. S.rows = Q /\ S.pc = step
    BY CreditedRows
  <2> HIDE DEF C, S, Q
  <2>3. t \in {C, S}
    BY DEF C, S
  <2>4. t.rows = Q /\ t.pc = step
    BY <2>1, <2>2, <2>3
  <2> QED  BY <2>4 DEF Q
<1>2. NewRow(k, tx[s].user, d).key = k
  BY DEF NewRow
<1> QED  BY <1>1, <1>2, PlanKeep

-----------------------------------------------------------------------------
LEMMA PlanCharge ==
    ASSUME CreditAssumption, IInv, PlanInv, NEW s \in Sessions, ChargeStep(s)
    PROVE  PlanInv'
<1>0. tx[s] \in Tx /\ TxInv(tx[s]) /\ plan \in [Users -> Plan]
  BY DEF IInv, TypeOK
<1>1. CASE OpenAccount(s)
  <2> DEFINE t == [tx[s] EXCEPT !.opened = ~account[tx[s].user].open,
                        !.pc = IF @ = "open" THEN "mint" ELSE "write_grant"]
  <2>1. Become(s, t) /\ t.rows = tx[s].rows /\ t.pc # "claim"
    BY <1>0, <1>1 DEF OpenAccount, Tx
  <2> QED  BY <2>1, PlanKeep
<1>2. CASE MintNothing(s) \/ MayRender(s) \/ LosePlanSong(s)
  BY <1>2, PlanGoto DEF MintNothing, MayRender, LosePlanSong
<1>3. CASE MintAllowance(s)
  <2>1. AllowanceKey(s)[1] # "plan"
    BY DEF AllowanceKey
  <2> QED  BY <1>3, <2>1, PlanCredited, PlanRollback DEF MintAllowance
<1>4. CASE ReadState(s)
  <2> DEFINE full == InFlight(Seen(s), tx[s].user, tx[s].order) >= MaxInFlight
             t == [tx[s] EXCEPT !.full = full, !.pc = "net"]
  <2>1. Become(s, t)
    BY <1>4 DEF ReadState
  <2> HIDE DEF full
  <2>2. t.rows = tx[s].rows /\ t.pc # "claim"
    BY <1>0 DEF Tx
  <2> QED  BY <2>1, <2>2, PlanKeep
<1>5. CASE RefuseBarred(s) \/ RefuseStacked(s) \/ RefuseInsufficient(s)
  BY <1>5, PlanRollback DEF RefuseBarred, RefuseStacked, RefuseInsufficient
<1>6. CASE AlreadyPaid(s) \/ LoseDebit(s)
  BY <1>6, PlanAnswer DEF AlreadyPaid, LoseDebit
<1>7. CASE ReadPlan(s)
  <2> DEFINE t == [tx[s] EXCEPT !.seen = plan[tx[s].user].used, !.pc = "claim"]
  <2>1. CASE LivePlan(s)
    <3>1. Become(s, t) /\ plan[tx[s].user].used < PlanSize
      BY <1>7, <2>1 DEF ReadPlan, LivePlan
    <3>2. t.rows = tx[s].rows /\ t.seen = plan[tx[s].user].used
      BY <1>0 DEF Tx
    <3> HIDE DEF t
    <3>3. PlanTx(t)
      BY <3>1, <3>2 DEF PlanInv, PlanTx
    <3> QED  BY <3>1, <3>3, PlanBecome
  <2>2. CASE ~LivePlan(s)
    BY <1>7, <2>2, PlanGoto DEF ReadPlan
  <2> QED  BY <2>1, <2>2
<1>8. CASE ClaimPlanSong(s)
  <2> DEFINE u == tx[s].user
             k == <<"plan", u, tx[s].seen>>
             t == Credited(s, k, 1, "generation")
  <2>1. plan[u].used = tx[s].seen /\ tx[s].seen < PlanSize
    BY <1>8 DEF ClaimPlanSong, At, PlanInv, PlanTx
  <2>2. CASE AccountSeen(s)
    <3>1. Become(s, t)
      BY <1>8, <2>2 DEF ClaimPlanSong
    <3>2. t.rows = tx[s].rows \union {NewRow(k, u, 1)} /\ t.pc = "generation"
      BY CreditedRows
    <3>3. NewRow(k, u, 1).key = k /\ k[2] = u /\ k[3] = tx[s].seen
      BY DEF NewRow
    <3> HIDE DEF t, k
    <3>4. PlanTx(t)
      BY <2>1, <3>2, <3>3 DEF PlanInv, PlanTx
    <3> QED  BY <3>1, <3>4, PlanBecome
  <2> QED  BY <1>8, <2>2, PlanRollback DEF ClaimPlanSong
<1>9. CASE ReadGeneration(s)
  <2> DEFINE gen == Generation(ledger, tx[s].order)
             t == [tx[s] EXCEPT !.gen = gen, !.pc = "debit"]
  <2>1. Become(s, t)
    BY <1>9 DEF ReadGeneration
  <2> HIDE DEF gen
  <2>2. t.rows = tx[s].rows /\ t.pc # "claim"
    BY <1>0 DEF Tx
  <2> QED  BY <2>1, <2>2, PlanKeep
<1>10. CASE WriteDebit(s)
  <2> DEFINE q == NewRow(DebitKey(s), tx[s].user, -Cost)
             t == [tx[s] EXCEPT !.rows = @ \union {q}, !.pc = "take"]
  <2>1. Become(s, t) /\ q.key[1] # "plan"
    BY <1>10 DEF WriteDebit, NewRow, DebitKey
  <2> HIDE DEF q
  <2>2. t.rows = tx[s].rows \union {q} /\ t.pc # "claim"
    BY <1>0 DEF Tx
  <2> QED  BY <2>1, <2>2, PlanKeep
<1>11. CASE TakePayment(s)
  <2> DEFINE c == tx[s].credit - Cost
             t == [tx[s] EXCEPT !.credit = c, !.touched = TRUE,
                         !.pc = "commit", !.answer = "charged"]
  <2>1. Become(s, t)
    BY <1>11 DEF TakePayment
  <2> HIDE DEF c
  <2>2. t.rows = tx[s].rows /\ t.pc # "claim"
    BY <1>0 DEF Tx
  <2> QED  BY <2>1, <2>2, PlanKeep
<1>12. CASE CoverShortfall(s)
  <2> DEFINE q == NewRow(CoverKey(s), tx[s].user, Cost)
             t == [tx[s] EXCEPT !.rows = @ \union {q}, !.touched = TRUE,
                         !.pc = "commit", !.answer = "charged"]
  <2>1. Become(s, t) /\ q.key[1] # "plan"
    BY <1>12 DEF CoverShortfall, NewRow, CoverKey
  <2> HIDE DEF q
  <2>2. t.rows = tx[s].rows \union {q} /\ t.pc # "claim"
    BY <1>0 DEF Tx
  <2> QED  BY <2>1, <2>2, PlanKeep
<1> QED
  BY <1>1, <1>2, <1>3, <1>4, <1>5, <1>6, <1>7, <1>8, <1>9, <1>10, <1>11, <1>12
  DEF ChargeStep

LEMMA PlanSettle ==
    ASSUME CreditAssumption, IInv, PlanInv, NEW s \in Sessions, SettleStep(s)
    PROVE  PlanInv'
<1>0. tx[s] \in Tx
  BY DEF IInv, TypeOK
<1>1. CASE HoldsCredit(s)
  <2> DEFINE net == NetPosition(ledger, tx[s].order)
             t == [tx[s] EXCEPT !.net = net,
                     !.pc = IF tx[s].close = "refund" THEN "settle_account"
                                                      ELSE "settle_generation"]
  <2>1. Become(s, t)
    BY <1>1 DEF HoldsCredit
  <2> HIDE DEF net
  <2>2. t.rows = tx[s].rows /\ t.pc # "claim"
    BY <1>0 DEF Tx
  <2> HIDE DEF t
  <2> QED  BY <2>1, <2>2, PlanKeep
<1>2. CASE HoldsNothing(s) \/ AccountErased(s) \/ LoseSettlement(s)
  BY <1>2, PlanAnswer DEF HoldsNothing, AccountErased, LoseSettlement
<1>3. CASE AccountThere(s)
  BY <1>3, PlanGoto DEF AccountThere
<1>4. CASE SettleGeneration(s)
  <2> DEFINE gen == Generation(ledger, tx[s].order)
             t == [tx[s] EXCEPT !.gen = gen, !.pc = "settle_write"]
  <2>1. Become(s, t)
    BY <1>4 DEF SettleGeneration
  <2> HIDE DEF gen
  <2>2. t.rows = tx[s].rows /\ t.pc # "claim"
    BY <1>0 DEF Tx
  <2> QED  BY <2>1, <2>2, PlanKeep
<1>5. SettleKey(s)[1] # "plan"
  BY <1>0 DEF SettleKey, Tx
<1>6. CASE WriteRefund(s)
  BY <1>5, <1>6, PlanCredited, PlanRollback DEF WriteRefund
<1>7. CASE WriteConsume(s)
  <2> DEFINE q == NewRow(SettleKey(s), tx[s].user, 0)
             t == [tx[s] EXCEPT !.rows = @ \union {q},
                         !.pc = "commit", !.answer = "settled"]
  <2>1. Become(s, t) /\ q.key[1] # "plan"
    BY <1>5, <1>7 DEF WriteConsume, NewRow
  <2> HIDE DEF q
  <2>2. t.rows = tx[s].rows \union {q} /\ t.pc # "claim"
    BY <1>0 DEF Tx
  <2> QED  BY <2>1, <2>2, PlanKeep
<1> QED  BY <1>1, <1>2, <1>3, <1>4, <1>6, <1>7 DEF SettleStep

LEMMA PlanOther ==
    ASSUME CreditAssumption, IInv, PlanInv, NEW s \in Sessions,
           \/ BeginSome(s) \/ WriteGrant(s) \/ GrantAgain(s)
           \/ AnonymiseRows(s) \/ DeleteAccount(s) \/ Abort(s)
    PROVE  PlanInv'
<1>0. tx[s] \in Tx
  BY DEF IInv, TypeOK
<1>1. CASE BeginSome(s)
  <2>1. ASSUME NEW op, NEW u, NEW o, NEW k,
               NEW step \in {"open", "settle_net", "open_grant", "forget_rows"},
               NEW t \in {Begin(s, op, u, o, k, step),
                          [Begin(s, op, u, o, k, step) EXCEPT !.close = "refund"],
                          [Begin(s, op, u, o, k, step) EXCEPT !.close = "consume"]},
               Become(s, t)
        PROVE  PlanInv'
    <3>1. t.rows = {} /\ t.pc = step
      <4>1. CASE t = Begin(s, op, u, o, k, step)
        BY <4>1 DEF Begin, Idle
      <4>2. ASSUME NEW close, t = [Begin(s, op, u, o, k, step) EXCEPT !.close = close]
            PROVE  t.rows = {} /\ t.pc = step
        BY <4>2 DEF Begin, Idle
      <4> QED  BY <2>1, <4>1, <4>2
    <3> QED  BY <2>1, <3>1, PlanKeep
  <2>2. CASE \E o \in Orders : BeginCharge(s, o)
    BY <2>1, <2>2 DEF BeginCharge
  <2>3. CASE \E o \in Orders, close \in {"refund", "consume"} : BeginSettle(s, o, close)
    BY <2>1, <2>3 DEF BeginSettle
  <2>4. CASE \E u \in Users, k \in 1..LastGrant : BeginGrant(s, u, k)
    BY <2>1, <2>4 DEF BeginGrant
  <2>5. CASE \E u \in Leavers : BeginForget(s, u)
    BY <2>1, <2>5 DEF BeginForget
  <2> QED  BY <1>1, <2>2, <2>3, <2>4, <2>5 DEF BeginSome
<1>2. CASE WriteGrant(s)
  <2>1. GrantKey(s)[1] # "plan"
    BY DEF GrantKey
  <2> QED  BY <1>2, <2>1, PlanCredited, PlanRollback DEF WriteGrant
<1>3. CASE GrantAgain(s)
  BY <1>3, PlanAnswer DEF GrantAgain
<1>4. CASE AnonymiseRows(s)
  <2> DEFINE gone == {r.key : r \in {x \in ledger : x.user = tx[s].user}}
             songs == IF plan[tx[s].user].owned THEN plan[tx[s].user].used ELSE NotSeen
             t == [tx[s] EXCEPT !.erased = gone, !.seen = songs,
                         !.pc = "forget_account"]
  <2>1. Become(s, t)
    BY <1>4 DEF AnonymiseRows
  <2> HIDE DEF gone, songs
  <2>2. t.rows = tx[s].rows /\ t.pc # "claim"
    BY <1>0 DEF Tx
  <2> QED  BY <2>1, <2>2, PlanKeep
<1>5. CASE DeleteAccount(s)
  <2> DEFINE t == [tx[s] EXCEPT !.deleted = account[tx[s].user].open, !.pc = "commit"]
  <2>1. Become(s, t) /\ t.rows = tx[s].rows /\ t.pc # "claim"
    BY <1>0, <1>5 DEF DeleteAccount, Tx
  <2> QED  BY <2>1, PlanKeep
<1>6. CASE Abort(s)
  BY <1>6, PlanRollback DEF Abort
<1> QED  BY <1>1, <1>2, <1>3, <1>4, <1>5, <1>6

\* A commit that hands out a song is the only holder of it, and the song is the
\* next one of the plan; any other commit leaves the count alone.
LEMMA PlanCommit ==
    ASSUME CreditAssumption, IInv, PlanInv, NEW s \in Sessions, Commit(s)
    PROVE  PlanInv'
<1> DEFINE u == tx[s].user
           Own == Generations(tx[s].rows, "plan", u)
<1>0. /\ tx[s] \in Tx /\ u \in Users /\ plan \in [Users -> Plan]
      /\ TypeOK /\ PlanTx(tx[s]) /\ PlanSize \in Nat
  BY DEF IInv, TypeOK, TxInv, Commit, At, PlanInv, CreditAssumption
<1>1. /\ plan'[u] = PlanAfter(s, plan[u])
      /\ \A v \in Users \ {u} : plan'[v] = plan[v]
      /\ tx'[s] = Idle /\ \A x \in Sessions \ {s} : tx'[x] = tx[x]
      /\ ledger' = Merged(s)
  BY <1>0 DEF Commit, IInv, TypeOK
<1>2. \A r \in tx[s].rows : r.key[1] = "plan" => r.key[2] = u
  BY DEF IInv, TxInv, OfAccount
<1>3. ASSUME NEW v \in Users
      PROVE  Generations(ledger', "plan", v)
               = Generations(ledger, "plan", v) \union Generations(tx[s].rows, "plan", v)
  BY <1>0, <1>1, MergedGenerations
<1>4. plan'[u].used = IF \E r \in tx[s].rows : r.key[1] = "plan"
                      THEN plan[u].used + 1 ELSE plan[u].used
  <2> DEFINE owned == plan[u].owned /\ ~(tx[s].op = "forget" /\ tx[s].seen # NotSeen)
             used == IF \E r \in tx[s].rows : r.key[1] = "plan"
                     THEN plan[u].used + 1 ELSE plan[u].used
  <2>1. plan'[u] = [plan[u] EXCEPT !.owned = owned, !.used = used]
    BY <1>1 DEF PlanAfter
  <2> HIDE DEF owned, used
  <2>2. plan'[u].used = used
    BY <1>0, <2>1 DEF Plan
  <2> QED  BY <2>2 DEF used
<1>5. /\ Generations(ledger, "plan", u) = 0 .. (plan[u].used - 1)
      /\ plan[u].used <= PlanSize /\ plan[u].used \in Nat
  BY <1>0, SongsAreGenerations DEF PlanInv, PlanSongsMinted, Plan
<1>6. /\ Generations(ledger', "plan", u) = 0 .. (plan'[u].used - 1)
      /\ plan'[u].used <= PlanSize
  <2>1. CASE \E r \in tx[s].rows : r.key[1] = "plan"
    <3>1. PICK r \in tx[s].rows : r.key[1] = "plan"
      BY <2>1
    <3>2. r.key[3] = plan[u].used /\ plan[u].used < PlanSize
      BY <1>0, <1>2, <3>1 DEF PlanTx
    <3>3. Own = {plan[u].used}
      <4>1. \A g : g \in Own <=> g = plan[u].used
        BY <1>0, <1>2, <3>1, <3>2, GenerationsMember DEF PlanTx
      <4> QED  BY <4>1
    <3>4. plan'[u].used = plan[u].used + 1
      BY <1>4, <2>1
    <3>5. Generations(ledger', "plan", u)
            = (0 .. (plan[u].used - 1)) \union {plan[u].used}
      BY <1>0, <1>3, <1>5, <3>3
    <3>6. \A n \in Nat : (0 .. (n - 1)) \union {n} = 0 .. ((n + 1) - 1)
      OBVIOUS
    <3>7. plan'[u].used <= PlanSize
      BY <1>0, <1>5, <3>2, <3>4
    <3> QED  BY <1>5, <3>4, <3>5, <3>6, <3>7
  <2>2. CASE ~\E r \in tx[s].rows : r.key[1] = "plan"
    <3>1. Own = {}
      BY <2>2 DEF Generations
    <3> QED  BY <1>0, <1>3, <1>4, <1>5, <2>2, <3>1
  <2> QED  BY <2>1, <2>2
<1>7. ASSUME NEW v \in Users \ {u}
      PROVE  /\ Generations(ledger', "plan", v) = 0 .. (plan'[v].used - 1)
             /\ plan'[v].used <= PlanSize
  <2>1. Generations(tx[s].rows, "plan", v) = {}
    BY <1>2 DEF Generations
  <2>2. Generations(ledger, "plan", v) = 0 .. (plan[v].used - 1)
        /\ plan[v].used <= PlanSize
    BY SongsAreGenerations DEF PlanInv, PlanSongsMinted
  <2> QED  BY <1>1, <1>3, <2>1, <2>2
<1>8. PlanSongsMinted'
  <2> SUFFICES ASSUME NEW v \in Users
               PROVE  /\ Generations(ledger', "plan", v) = 0 .. (plan'[v].used - 1)
                      /\ plan'[v].used <= PlanSize
    BY SongsAreGenerations DEF PlanSongsMinted
  <2> QED  BY <1>6, <1>7
<1>9. ASSUME NEW x \in Sessions
      PROVE  PlanTx(tx[x])'
  <2>1. CASE x = s
    BY <1>1, <2>1 DEF PlanTx, Idle
  <2>2. CASE x # s
    <3>1. tx'[x] = tx[x] /\ PlanTx(tx[x])
      BY <1>1, <2>2 DEF PlanInv
    <3>2. ASSUME NEW r \in tx[x].rows, r.key[1] = "plan"
          PROVE  r.key[3] = plan'[r.key[2]].used /\ r.key[3] < PlanSize
      <4>1. r.key \in Key /\ r.key[2] \in Users
        BY <3>2 DEF IInv, TypeOK, Tx, Row, Key, OrderKinds, AccountKinds
      <4>2. r.key[3] = plan[r.key[2]].used /\ r.key[3] < PlanSize
        BY <3>1, <3>2 DEF PlanTx
      <4>3. CASE r.key[2] # u
        BY <1>1, <4>1, <4>2, <4>3
      <4>4. CASE r.key[2] = u
        <5>1. ASSUME NEW q \in tx[s].rows, q.key[1] = "plan"
              PROVE  FALSE
          <6>1. q.key \in Key /\ q.key[2] = u /\ q.key[3] = plan[u].used
            BY <1>0, <1>2, <5>1 DEF PlanTx, TypeOK, Tx, Row
          <6>2. q.key = r.key
            BY <3>2, <4>1, <4>2, <4>4, <5>1, <6>1, KeyIsTriple
          <6> QED  BY <2>2, <6>2 DEF IInv, KeysApart
        <5> QED  BY <1>4, <4>2, <4>4, <5>1
      <4> QED  BY <4>3, <4>4
    <3> QED  BY <3>1, <3>2 DEF PlanTx
  <2> QED  BY <2>1, <2>2
<1> QED  BY <1>8, <1>9 DEF PlanInv

LEMMA PlanAround ==
    ASSUME CreditAssumption, IInv, PlanInv,
           (\E u \in Users : PlanSale(u)) \/ NextWindow \/ UNCHANGED vars
    PROVE  PlanInv'
<1>1. UNCHANGED <<ledger, tx>>
  BY DEF PlanSale, NextWindow, vars
<1>2. \A v \in Users : plan'[v].used = plan[v].used
  <2>1. CASE \E u \in Users : PlanSale(u)
    <3>1. PICK u \in Users : PlanSale(u)
      BY <2>1
    <3>2. plan[u].used = 0 /\ [NoPlan EXCEPT !.owned = TRUE, !.ends = window].used = 0
      BY <3>1 DEF PlanSale, NoPlan
    <3> QED  BY <3>1, <3>2 DEF PlanSale, IInv, TypeOK
  <2> QED  BY <2>1 DEF NextWindow, vars
<1>3. PlanSongsMinted'
  BY <1>1, <1>2 DEF PlanInv, PlanSongsMinted
<1>4. ASSUME NEW x \in Sessions
      PROVE  PlanTx(tx[x])'
  <2>1. ASSUME NEW r \in tx[x].rows, r.key[1] = "plan"
        PROVE  r.key[2] \in Users
    BY <2>1 DEF IInv, TypeOK, Tx, Row, Key, OrderKinds, AccountKinds
  <2> QED  BY <1>1, <1>2, <2>1 DEF PlanInv, PlanTx
<1> QED  BY <1>3, <1>4 DEF PlanInv

LEMMA Songs == Spec => []PlanInv
<1>1. CreditAssumption
  BY CreditAssumption
<1>2. CreditAssumption /\ Init => PlanInv
  BY DEF Init, PlanInv, PlanSongsMinted, PlanTx, Idle, NoPlan, CreditAssumption
<1>3. CreditAssumption /\ IInv /\ PlanInv /\ [Next]_vars => PlanInv'
  BY PlanCharge, PlanSettle, PlanOther, PlanCommit, PlanAround DEF Next
<1> QED  BY <1>1, <1>2, <1>3, Invariance, PTL DEF Spec

\* However the charges of an account race for the songs of its plan, the songs
\* minted are exactly 0 .. used - 1, each once, and no more than were sold.
THEOREM SongsAreCounted == Spec => []PlanSongsMinted
<1>1. PlanInv => PlanSongsMinted
  BY DEF PlanInv
<1> QED  BY <1>1, Songs, PTL

-----------------------------------------------------------------------------
\* Balances. What it means to hold an account row, and that one transaction does.
Holds(t) == t.opened \/ t.touched \/ t.deleted

OneHolder ==
    \A x, y \in Sessions :
        x # y /\ tx[x].user = tx[y].user => ~(Holds(tx[x]) /\ Holds(tx[y]))

\* A transaction moves the balance only of a row it can see, a row it has
\* inserted is nobody else's yet, and a refund gives back a held credit.
TxLocks(t) ==
    /\ ~t.touched => t.credit = 0
    /\ Holds(t) => t.pc # "idle"
    /\ t.touched => account[t.user].open \/ t.opened
    /\ t.opened => ~account[t.user].open
    /\ t.pc \in {"open", "open_grant"} => ~t.touched
    /\ t.pc \in {"settle_account", "settle_generation", "settle_write"} => t.net < 0
    /\ t.pc # "idle" => account[t.user].balance + t.credit >= 0

LockInv ==
    /\ IInv
    /\ \A u \in Users : account[u].balance >= 0
    /\ OneHolder
    /\ \A s \in Sessions : TxLocks(tx[s])

-----------------------------------------------------------------------------
LEMMA LockBecome ==
    ASSUME LockInv, IInv', NEW s \in Sessions, NEW t, Become(s, t), TxLocks(t),
           \/ ~Holds(t)
           \/ t.user = tx[s].user /\ Holds(tx[s])
           \/ \A x \in Sessions \ {s} : tx[x].user = t.user => ~Holds(tx[x])
    PROVE  LockInv'
<1>1. /\ tx'[s] = t /\ \A x \in Sessions \ {s} : tx'[x] = tx[x]
      /\ account' = account
  BY DEF Become, LockInv, IInv, TypeOK
<1>2. \A x \in Sessions : TxLocks(tx[x])'
  BY <1>1 DEF LockInv, TxLocks
<1>3. OneHolder'
  BY <1>1 DEF LockInv, OneHolder, Holds
<1> QED  BY <1>1, <1>2, <1>3 DEF LockInv

LEMMA IdleLocks == TxLocks(Idle) /\ ~Holds(Idle)
BY DEF TxLocks, Holds, Idle

LEMMA LockRollback ==
    ASSUME LockInv, IInv', NEW s \in Sessions, Rollback(s)
    PROVE  LockInv'
BY IdleLocks, LockBecome DEF Rollback

\* A step that moves neither the account row nor its own hold of it.
LEMMA LockSame ==
    ASSUME LockInv, IInv', NEW s \in Sessions, NEW t \in Tx, Become(s, t),
           ~At(s, "idle"), t.user = tx[s].user, t.opened = tx[s].opened,
           t.touched = tx[s].touched, t.deleted = tx[s].deleted,
           t.credit = tx[s].credit,
           t.pc \notin {"idle", "open", "open_grant"},
           t.pc \in {"settle_account", "settle_generation", "settle_write"} => t.net < 0
    PROVE  LockInv'
<1>1. TxLocks(t)
  BY DEF LockInv, TxLocks, At
<1>2. Holds(t) <=> Holds(tx[s])
  BY DEF Holds
<1> QED  BY <1>1, <1>2, LockBecome

\* An account row that can be seen and is free is held by no other transaction.
LEMMA FreeRow ==
    ASSUME LockInv, NEW s \in Sessions, AccountFree(s, tx[s].user),
           AccountSeen(s),
           NEW x \in Sessions \ {s}, tx[x].user = tx[s].user
    PROVE  ~Holds(tx[x])
<1>1. tx[x].opened \/ ~(tx[x].touched \/ tx[x].deleted)
  BY DEF AccountFree, Others
<1>2. ~tx[x].opened
  <2> SUFFICES ASSUME tx[x].opened
               PROVE  FALSE
    OBVIOUS
  <2>1. ~account[tx[s].user].open
    BY DEF LockInv, TxLocks
  <2>2. tx[s].opened
    BY <2>1 DEF AccountSeen
  <2> QED  BY <2>2 DEF LockInv, OneHolder, Holds
<1> QED  BY <1>1, <1>2 DEF Holds

\* A move of the balance by a transaction that sees the row and finds it free.
LEMMA LockMove ==
    ASSUME LockInv, IInv', NEW s \in Sessions, NEW t \in Tx, Become(s, t),
           ~At(s, "idle"), t.user = tx[s].user, t.opened = tx[s].opened,
           t.touched, AccountFree(s, tx[s].user), AccountSeen(s),
           account[tx[s].user].balance + t.credit >= 0,
           t.pc \in {"state", "generation", "commit"}
    PROVE  LockInv'
<1>1. TxLocks(t)
  BY DEF LockInv, TxLocks, AccountSeen
<1>2. \A x \in Sessions \ {s} : tx[x].user = t.user => ~Holds(tx[x])
  BY FreeRow
<1> QED  BY <1>1, <1>2, LockBecome

LEMMA LockCredited ==
    ASSUME LockInv, IInv', NEW s \in Sessions, ~At(s, "idle"),
           NEW k \in Key, NEW d \in Nat, NEW step \in {"state", "generation", "commit"},
           NEW t \in {Credited(s, k, d, step),
                      [Credited(s, k, d, step) EXCEPT !.answer = "settled"]},
           Become(s, t), AccountFree(s, tx[s].user), AccountSeen(s)
    PROVE  LockInv'
<1>1. tx[s] \in Tx /\ account \in [Users -> Account] /\ tx[s].user \in Users
  BY DEF LockInv, IInv, TypeOK, TxInv, At
<1>2. account[tx[s].user].balance \in Int /\ tx[s].credit \in Int
      /\ account[tx[s].user].balance + tx[s].credit >= 0
  BY <1>1 DEF LockInv, TxLocks, At, Account, Tx
<1>3. NewRow(k, tx[s].user, d) \in Row
  BY <1>1 DEF NewRow, Row
<1>4. /\ Credited(s, k, d, step) \in Tx
      /\ Credited(s, k, d, step).user = tx[s].user
      /\ Credited(s, k, d, step).opened = tx[s].opened
      /\ Credited(s, k, d, step).touched
      /\ Credited(s, k, d, step).credit = tx[s].credit + d
      /\ Credited(s, k, d, step).pc = step
  <2> DEFINE q == NewRow(k, tx[s].user, d)
  <2>1. tx[s].rows \union {q} \in SUBSET Row /\ tx[s].credit + d \in Int /\ step \in Steps
    BY <1>1, <1>2, <1>3, Named DEF Tx
  <2> HIDE DEF q
  <2> QED  BY <1>1, <2>1 DEF Credited, Tx, q
<1>5. /\ t \in Tx /\ t.user = tx[s].user /\ t.opened = tx[s].opened /\ t.touched
      /\ t.credit = tx[s].credit + d /\ t.pc = step
  BY <1>4 DEF Tx, Answers
<1>6. account[tx[s].user].balance + t.credit >= 0
  BY <1>2, <1>5
<1> QED  BY <1>5, <1>6, LockMove

LEMMA LockAnswer ==
    ASSUME LockInv, IInv', NEW s \in Sessions, NEW a \in Answers, Answer(s, a),
           ~At(s, "idle")
    PROVE  LockInv'
<1> DEFINE t == [tx[s] EXCEPT !.pc = "commit", !.answer = a]
<1>1. tx[s] \in Tx
  BY DEF LockInv, IInv, TypeOK
<1>2. /\ t \in Tx /\ t.user = tx[s].user /\ t.opened = tx[s].opened
      /\ t.touched = tx[s].touched /\ t.deleted = tx[s].deleted
      /\ t.credit = tx[s].credit /\ t.pc = "commit"
  BY <1>1, Named DEF Tx
<1>3. Become(s, t)
  BY DEF Answer
<1> HIDE DEF t
<1> QED  BY <1>2, <1>3, LockSame

-----------------------------------------------------------------------------
LEMMA LockCharge ==
    ASSUME CreditAssumption, LockInv, IInv', NEW s \in Sessions, ChargeStep(s)
    PROVE  LockInv'
<1>0. /\ tx[s] \in Tx /\ TxInv(tx[s]) /\ TxLocks(tx[s])
      /\ account \in [Users -> Account] /\ plan \in [Users -> Plan]
  BY DEF LockInv, IInv, TypeOK
<1>u. ~At(s, "idle") => tx[s].user \in Users
  BY <1>0 DEF TxInv, At
<1>1. CASE OpenAccount(s)
  <2> DEFINE t == [tx[s] EXCEPT !.opened = ~account[tx[s].user].open,
                        !.pc = IF @ = "open" THEN "mint" ELSE "write_grant"]
  <2>1. tx[s].user \in Users /\ ~tx[s].touched /\ ~At(s, "idle")
    BY <1>0, <1>1, <1>u DEF OpenAccount, At, TxLocks
  <2>2. account[tx[s].user].open \in BOOLEAN
    BY <1>0, <2>1 DEF Account
  <2>3. /\ t.user = tx[s].user /\ t.opened = ~account[tx[s].user].open
        /\ t.touched = tx[s].touched /\ t.deleted = tx[s].deleted
        /\ t.credit = tx[s].credit /\ t.pc \in {"mint", "write_grant"}
    BY <1>0 DEF Tx
  <2>4. Become(s, t)
    BY <1>1 DEF OpenAccount
  <2> HIDE DEF t
  <2>5. TxLocks(t)
    BY <1>0, <2>1, <2>2, <2>3 DEF TxLocks, At
  <2>6. CASE account[tx[s].user].open
    <3>1. Holds(t) => Holds(tx[s])
      BY <2>3, <2>6 DEF Holds
    <3> QED  BY <2>3, <2>4, <2>5, <3>1, LockBecome
  <2>7. CASE ~account[tx[s].user].open
    <3>1. ASSUME NEW x \in Sessions \ {s}, tx[x].user = tx[s].user
          PROVE  ~Holds(tx[x])
      <4>1. ~tx[x].opened /\ ~tx[x].deleted
        BY <1>1, <3>1 DEF OpenAccount, InsertFree, Others
      <4> QED  BY <2>7, <3>1, <4>1 DEF LockInv, TxLocks, Holds
    <3> QED  BY <2>3, <2>4, <2>5, <3>1, LockBecome
  <2> QED  BY <2>6, <2>7
<1>2. ASSUME NEW step \in {"state", "live_plan", "generation"}, Goto(s, step), ~At(s, "idle")
      PROVE  LockInv'
  <2> DEFINE t == [tx[s] EXCEPT !.pc = step]
  <2>1. /\ t \in Tx /\ t.user = tx[s].user /\ t.opened = tx[s].opened
        /\ t.touched = tx[s].touched /\ t.deleted = tx[s].deleted
        /\ t.credit = tx[s].credit /\ t.pc = step
    BY <1>0, Named DEF Tx
  <2>2. Become(s, t)
    BY <1>2 DEF Goto
  <2> HIDE DEF t
  <2> QED  BY <1>2, <2>1, <2>2, LockSame
<1>4. CASE MintNothing(s)
  BY <1>2, <1>4 DEF MintNothing, At
<1>5. CASE MintAllowance(s)
  <2>1. tx[s].user \in Users /\ ~At(s, "idle")
    BY <1>0, <1>5, <1>u DEF MintAllowance, At
  <2>2. AllowanceKey(s) \in Key /\ Allowance \in Nat
    BY <1>0, <2>1 DEF AllowanceKey, Key, AccountKinds, Tx, CreditAssumption
  <2>3. CASE AccountSeen(s)
    <3>1. Become(s, Credited(s, AllowanceKey(s), Allowance, "state"))
          /\ AccountFree(s, tx[s].user)
      BY <1>5, <2>3 DEF MintAllowance
    <3> QED  BY <2>1, <2>2, <2>3, <3>1, LockCredited
  <2> QED  BY <1>5, <2>3, LockRollback DEF MintAllowance
<1>6. CASE ReadState(s)
  <2> DEFINE full == InFlight(Seen(s), tx[s].user, tx[s].order) >= MaxInFlight
             t == [tx[s] EXCEPT !.full = full, !.pc = "net"]
  <2>1. full \in BOOLEAN
    OBVIOUS
  <2>2. Become(s, t) /\ ~At(s, "idle")
    BY <1>6 DEF ReadState, At
  <2> HIDE DEF full
  <2>3. /\ t \in Tx /\ t.user = tx[s].user /\ t.opened = tx[s].opened
        /\ t.touched = tx[s].touched /\ t.deleted = tx[s].deleted
        /\ t.credit = tx[s].credit /\ t.pc = "net"
    BY <1>0, <2>1, Named DEF Tx
  <2> HIDE DEF t
  <2> QED  BY <2>2, <2>3, LockSame
<1>7. CASE RefuseBarred(s) \/ RefuseStacked(s) \/ RefuseInsufficient(s)
  BY <1>7, LockRollback DEF RefuseBarred, RefuseStacked, RefuseInsufficient
<1>8. CASE AlreadyPaid(s) \/ LoseDebit(s)
  BY <1>8, LockAnswer DEF AlreadyPaid, LoseDebit, At, Answers
<1>9. CASE MayRender(s) \/ LosePlanSong(s)
  BY <1>2, <1>9 DEF MayRender, LosePlanSong, At
<1>10. CASE ReadPlan(s)
  <2> DEFINE t == [tx[s] EXCEPT !.seen = plan[tx[s].user].used, !.pc = "claim"]
  <2>1. tx[s].user \in Users /\ ~At(s, "idle")
    BY <1>10, <1>u DEF ReadPlan, At
  <2>2. CASE Become(s, t)
    <3>1. plan[tx[s].user].used \in Nat
      BY <1>0, <2>1 DEF Plan
    <3>2. /\ t \in Tx /\ t.user = tx[s].user /\ t.opened = tx[s].opened
          /\ t.touched = tx[s].touched /\ t.deleted = tx[s].deleted
          /\ t.credit = tx[s].credit /\ t.pc = "claim"
      BY <1>0, <3>1, Named DEF Tx
    <3> HIDE DEF t
    <3> QED  BY <2>1, <2>2, <3>2, LockSame
  <2>3. CASE Goto(s, "generation")
    BY <1>2, <2>1, <2>3
  <2> QED  BY <1>10, <2>2, <2>3 DEF ReadPlan
<1>11. CASE ClaimPlanSong(s)
  <2> DEFINE k == <<"plan", tx[s].user, tx[s].seen>>
  <2>1. tx[s].user \in Users /\ ~At(s, "idle") /\ tx[s].seen \in Nat
    BY <1>0, <1>11, <1>u DEF ClaimPlanSong, At, TxInv
  <2>2. k \in Key
    BY <2>1 DEF Key, AccountKinds
  <2>3. CASE AccountSeen(s)
    <3>1. Become(s, Credited(s, k, 1, "generation")) /\ AccountFree(s, tx[s].user)
      BY <1>11, <2>3 DEF ClaimPlanSong
    <3> HIDE DEF k
    <3> QED  BY <2>1, <2>2, <2>3, <3>1, LockCredited
  <2> QED  BY <1>11, <2>3, LockRollback DEF ClaimPlanSong
<1>12. CASE ReadGeneration(s)
  <2> DEFINE t == [tx[s] EXCEPT !.gen = Generation(ledger, tx[s].order), !.pc = "debit"]
  <2>1. tx[s].order \in Orders /\ ~At(s, "idle")
    BY <1>0, <1>12 DEF ReadGeneration, At, TxInv, OrderSteps, Steps
  <2>2. Generation(ledger, tx[s].order) \in Nat
    BY <2>1, GenerationIsNext DEF LockInv, IInv
  <2>3. /\ t \in Tx /\ t.user = tx[s].user /\ t.opened = tx[s].opened
        /\ t.touched = tx[s].touched /\ t.deleted = tx[s].deleted
        /\ t.credit = tx[s].credit /\ t.pc = "debit"
    BY <1>0, <2>2, Named DEF Tx
  <2>4. Become(s, t)
    BY <1>12 DEF ReadGeneration
  <2> HIDE DEF t
  <2> QED  BY <2>1, <2>3, <2>4, LockSame
<1>13. CASE WriteDebit(s)
  <2> DEFINE q == NewRow(DebitKey(s), tx[s].user, -Cost)
             t == [tx[s] EXCEPT !.rows = @ \union {q}, !.pc = "take"]
  <2>1. tx[s].order \in Orders /\ tx[s].user \in Users /\ ~At(s, "idle")
    BY <1>0, <1>13, <1>u DEF WriteDebit, At, TxInv, OrderSteps, Steps
  <2>2. q \in Row
    <3>1. DebitKey(s) \in Key /\ -Cost \in Int
      BY <1>0, <2>1 DEF DebitKey, Key, OrderKinds, Tx, CreditAssumption
    <3> QED  BY <2>1, <3>1 DEF NewRow, Row
  <2>3. Become(s, t)
    BY <1>13 DEF WriteDebit
  <2> HIDE DEF q
  <2>4. /\ t \in Tx /\ t.user = tx[s].user /\ t.opened = tx[s].opened
        /\ t.touched = tx[s].touched /\ t.deleted = tx[s].deleted
        /\ t.credit = tx[s].credit /\ t.pc = "take"
    BY <1>0, <2>2, Named DEF Tx
  <2> HIDE DEF t
  <2> QED  BY <2>1, <2>3, <2>4, LockSame
<1>14. CASE TakePayment(s)
  <2> DEFINE t == [tx[s] EXCEPT !.credit = @ - Cost, !.touched = TRUE,
                         !.pc = "commit", !.answer = "charged"]
  <2>1. tx[s].user \in Users /\ ~At(s, "idle")
    BY <1>14, <1>u DEF TakePayment, At
  <2>2. account[tx[s].user].balance \in Int /\ tx[s].credit \in Int /\ Cost \in Int
    BY <1>0, <2>1 DEF Account, Tx, CreditAssumption
  <2>3. /\ t \in Tx /\ t.user = tx[s].user /\ t.opened = tx[s].opened
        /\ t.touched /\ t.credit = tx[s].credit - Cost /\ t.pc = "commit"
    <3>1. tx[s].credit - Cost \in Int
      BY <2>2
    <3> QED  BY <1>0, <3>1, Named DEF Tx
  <2>4. Become(s, t) /\ AccountFree(s, tx[s].user) /\ AccountSeen(s)
        /\ BalanceSeen(s) >= Cost
    BY <1>14 DEF TakePayment, CanPay
  <2> HIDE DEF t
  <2>5. account[tx[s].user].balance + t.credit >= 0
    BY <2>2, <2>3, <2>4 DEF BalanceSeen
  <2> QED  BY <2>1, <2>3, <2>4, <2>5, LockMove
<1>15. CASE CoverShortfall(s)
  <2> DEFINE q == NewRow(CoverKey(s), tx[s].user, Cost)
             t == [tx[s] EXCEPT !.rows = @ \union {q}, !.touched = TRUE,
                         !.pc = "commit", !.answer = "charged"]
  <2>1. tx[s].order \in Orders /\ tx[s].user \in Users /\ ~At(s, "idle")
    BY <1>0, <1>15, <1>u DEF CoverShortfall, At, TxInv, OrderSteps, Steps
  <2>2. q \in Row
    <3>1. CoverKey(s) \in Key /\ Cost \in Int
      BY <1>0, <2>1 DEF CoverKey, Key, OrderKinds, Tx, CreditAssumption
    <3> QED  BY <2>1, <3>1 DEF NewRow, Row
  <2>3. Become(s, t) /\ AccountFree(s, tx[s].user) /\ AccountSeen(s)
    BY <1>15 DEF CoverShortfall
  <2> HIDE DEF q
  <2>4. /\ t \in Tx /\ t.user = tx[s].user /\ t.opened = tx[s].opened
        /\ t.touched /\ t.credit = tx[s].credit /\ t.pc = "commit"
    BY <1>0, <2>2, Named DEF Tx
  <2> HIDE DEF t
  <2>5. account[tx[s].user].balance + t.credit >= 0
    BY <1>0, <2>1, <2>4 DEF TxLocks, At
  <2> QED  BY <2>1, <2>3, <2>4, <2>5, LockMove
<1> QED
  BY <1>1, <1>4, <1>5, <1>6, <1>7, <1>8, <1>9, <1>10, <1>11, <1>12, <1>13, <1>14, <1>15
  DEF ChargeStep

-----------------------------------------------------------------------------
LEMMA LockSettle ==
    ASSUME CreditAssumption, LockInv, IInv', NEW s \in Sessions, SettleStep(s)
    PROVE  LockInv'
<1>0. tx[s] \in Tx /\ TxInv(tx[s]) /\ TxLocks(tx[s])
  BY DEF LockInv, IInv, TypeOK
<1>1. CASE HoldsCredit(s)
  <2> DEFINE net == NetPosition(ledger, tx[s].order)
             t == [tx[s] EXCEPT !.net = net,
                     !.pc = IF tx[s].close = "refund" THEN "settle_account"
                                                      ELSE "settle_generation"]
  <2>1. tx[s].order \in Orders /\ ~At(s, "idle")
    BY <1>0, <1>1 DEF HoldsCredit, At, TxInv, OrderSteps, Steps
  <2>2. net \in Int /\ net < 0
    BY <1>1, <2>1, NetType DEF HoldsCredit, LockInv, IInv
  <2>3. Become(s, t)
    BY <1>1 DEF HoldsCredit
  <2> HIDE DEF net
  <2>4. /\ t \in Tx /\ t.user = tx[s].user /\ t.opened = tx[s].opened
        /\ t.touched = tx[s].touched /\ t.deleted = tx[s].deleted
        /\ t.credit = tx[s].credit /\ t.net = net
        /\ t.pc \in {"settle_account", "settle_generation"}
    BY <1>0, <2>2, Named DEF Tx
  <2> HIDE DEF t
  <2> QED  BY <2>1, <2>2, <2>3, <2>4, LockSame
<1>2. CASE AccountThere(s)
  <2> DEFINE t == [tx[s] EXCEPT !.pc = "settle_generation"]
  <2>1. tx[s].net < 0 /\ ~At(s, "idle")
    BY <1>0, <1>2 DEF AccountThere, At, TxLocks
  <2>2. /\ t \in Tx /\ t.user = tx[s].user /\ t.opened = tx[s].opened
        /\ t.touched = tx[s].touched /\ t.deleted = tx[s].deleted
        /\ t.credit = tx[s].credit /\ t.net = tx[s].net /\ t.pc = "settle_generation"
    BY <1>0, Named DEF Tx
  <2>3. Become(s, t)
    BY <1>2 DEF AccountThere, Goto
  <2> HIDE DEF t
  <2> QED  BY <2>1, <2>2, <2>3, LockSame
<1>3. CASE SettleGeneration(s)
  <2> DEFINE t == [tx[s] EXCEPT !.gen = Generation(ledger, tx[s].order),
                         !.pc = "settle_write"]
  <2>1. tx[s].net < 0 /\ ~At(s, "idle") /\ tx[s].order \in Orders
    BY <1>0, <1>3 DEF SettleGeneration, At, TxLocks, TxInv, OrderSteps, Steps
  <2>2. Generation(ledger, tx[s].order) \in Nat
    BY <2>1, GenerationIsNext DEF LockInv, IInv
  <2>3. /\ t \in Tx /\ t.user = tx[s].user /\ t.opened = tx[s].opened
        /\ t.touched = tx[s].touched /\ t.deleted = tx[s].deleted
        /\ t.credit = tx[s].credit /\ t.net = tx[s].net /\ t.pc = "settle_write"
    BY <1>0, <2>2, Named DEF Tx
  <2>4. Become(s, t)
    BY <1>3 DEF SettleGeneration
  <2> HIDE DEF t
  <2> QED  BY <2>1, <2>3, <2>4, LockSame
<1>4. ASSUME At(s, "settle_write")
      PROVE  /\ tx[s].net \in Int /\ tx[s].net < 0 /\ tx[s].user \in Users
             /\ ~At(s, "idle") /\ SettleKey(s) \in Key
  <2>1. /\ tx[s].net \in Int /\ tx[s].net < 0 /\ tx[s].user \in Users
        /\ tx[s].order \in Orders /\ tx[s].close \in {"refund", "consume"}
        /\ tx[s].gen \in Nat /\ ~At(s, "idle")
    BY <1>0, <1>4 DEF At, TxLocks, TxInv, OrderSteps, Steps, Tx
  <2> QED  BY <2>1 DEF SettleKey, Key, OrderKinds
<1>5. CASE WriteRefund(s)
  <2>1. At(s, "settle_write") /\ AccountFree(s, tx[s].user)
    BY <1>5 DEF WriteRefund
  <2>2. -tx[s].net \in Nat
    BY <1>4, <2>1
  <2>3. CASE AccountSeen(s)
    <3>1. Become(s, [Credited(s, SettleKey(s), -tx[s].net, "commit")
                       EXCEPT !.answer = "settled"])
      BY <1>5, <2>3 DEF WriteRefund
    <3> QED  BY <1>4, <2>1, <2>2, <2>3, <3>1, LockCredited
  <2> QED  BY <1>5, <2>3, LockRollback DEF WriteRefund
<1>6. CASE WriteConsume(s)
  <2> DEFINE q == NewRow(SettleKey(s), tx[s].user, 0)
             t == [tx[s] EXCEPT !.rows = @ \union {q},
                         !.pc = "commit", !.answer = "settled"]
  <2>1. q \in Row /\ ~At(s, "idle")
    BY <1>4, <1>6 DEF WriteConsume, NewRow, Row
  <2>2. Become(s, t)
    BY <1>6 DEF WriteConsume
  <2> HIDE DEF q
  <2>3. /\ t \in Tx /\ t.user = tx[s].user /\ t.opened = tx[s].opened
        /\ t.touched = tx[s].touched /\ t.deleted = tx[s].deleted
        /\ t.credit = tx[s].credit /\ t.pc = "commit"
    BY <1>0, <2>1, Named DEF Tx
  <2> HIDE DEF t
  <2> QED  BY <2>1, <2>2, <2>3, LockSame
<1>7. CASE HoldsNothing(s) \/ AccountErased(s) \/ LoseSettlement(s)
  <2>1. Answer(s, "unsettled") /\ ~At(s, "idle")
    BY <1>7 DEF HoldsNothing, AccountErased, LoseSettlement, At
  <2> QED  BY <2>1, LockAnswer DEF Answers
<1> QED  BY <1>1, <1>2, <1>3, <1>5, <1>6, <1>7 DEF SettleStep

LEMMA LockGrant ==
    ASSUME CreditAssumption, LockInv, IInv', NEW s \in Sessions,
           WriteGrant(s) \/ GrantAgain(s)
    PROVE  LockInv'
<1>0. tx[s] \in Tx /\ TxInv(tx[s])
  BY DEF LockInv, IInv, TypeOK
<1>1. CASE WriteGrant(s)
  <2>1. tx[s].user \in Users /\ tx[s].n \in Nat /\ ~At(s, "idle")
        /\ AccountFree(s, tx[s].user)
    BY <1>0, <1>1 DEF WriteGrant, At, TxInv, Tx
  <2>2. GrantKey(s) \in Key
    BY <2>1 DEF GrantKey, Key, AccountKinds
  <2>3. CASE AccountSeen(s)
    <3>1. Become(s, Credited(s, GrantKey(s), 1, "commit"))
      BY <1>1, <2>3 DEF WriteGrant
    <3> QED  BY <2>1, <2>2, <2>3, <3>1, LockCredited
  <2> QED  BY <1>1, <2>3, LockRollback DEF WriteGrant
<1>2. CASE GrantAgain(s)
  BY <1>2, LockAnswer DEF GrantAgain, At, Answers
<1> QED  BY <1>1, <1>2

LEMMA LockForget ==
    ASSUME CreditAssumption, LockInv, IInv', NEW s \in Sessions,
           AnonymiseRows(s) \/ DeleteAccount(s)
    PROVE  LockInv'
<1>0. /\ tx[s] \in Tx /\ TxInv(tx[s]) /\ TxLocks(tx[s])
      /\ account \in [Users -> Account] /\ plan \in [Users -> Plan]
      /\ ledger \subseteq Row
  BY DEF LockInv, IInv, TypeOK
<1>1. CASE AnonymiseRows(s)
  <2> DEFINE u == tx[s].user
             gone == {r.key : r \in {x \in ledger : x.user = u}}
             songs == IF plan[u].owned THEN plan[u].used ELSE NotSeen
             t == [tx[s] EXCEPT !.erased = gone, !.seen = songs,
                         !.pc = "forget_account"]
  <2>1. u \in Users /\ ~At(s, "idle")
    BY <1>0, <1>1 DEF AnonymiseRows, At, TxInv
  <2>2. gone \in SUBSET Key /\ songs \in Nat \union {NotSeen}
    BY <1>0, <2>1 DEF Plan, Row
  <2>3. Become(s, t)
    BY <1>1 DEF AnonymiseRows
  <2> HIDE DEF gone, songs
  <2>4. /\ t \in Tx /\ t.user = tx[s].user /\ t.opened = tx[s].opened
        /\ t.touched = tx[s].touched /\ t.deleted = tx[s].deleted
        /\ t.credit = tx[s].credit /\ t.pc = "forget_account"
    BY <1>0, <2>2, Named DEF Tx
  <2> HIDE DEF t
  <2> QED  BY <2>1, <2>3, <2>4, LockSame
<1>2. CASE DeleteAccount(s)
  <2> DEFINE t == [tx[s] EXCEPT !.deleted = account[tx[s].user].open, !.pc = "commit"]
  <2>1. tx[s].user \in Users /\ ~At(s, "idle") /\ AccountFree(s, tx[s].user)
    BY <1>0, <1>2 DEF DeleteAccount, At, TxInv
  <2>2. /\ t.user = tx[s].user /\ t.opened = tx[s].opened
        /\ t.touched = tx[s].touched /\ t.deleted = account[tx[s].user].open
        /\ t.credit = tx[s].credit /\ t.pc = "commit"
    BY <1>0 DEF Tx
  <2>3. Become(s, t)
    BY <1>2 DEF DeleteAccount
  <2> HIDE DEF t
  <2>4. TxLocks(t)
    BY <1>0, <2>1, <2>2 DEF TxLocks, At
  <2>5. CASE account[tx[s].user].open
    <3>1. \A x \in Sessions \ {s} : tx[x].user = t.user => ~Holds(tx[x])
      BY <2>1, <2>2, <2>5, FreeRow DEF AccountSeen
    <3> QED  BY <2>3, <2>4, <3>1, LockBecome
  <2>6. CASE ~account[tx[s].user].open
    <3>1. Holds(t) => Holds(tx[s])
      BY <2>2, <2>6 DEF Holds
    <3> QED  BY <2>2, <2>3, <2>4, <3>1, LockBecome
  <2> QED  BY <2>5, <2>6
<1> QED  BY <1>1, <1>2

\* A transaction that begins holds nothing.
LEMMA LockFresh ==
    ASSUME CreditAssumption, LockInv, IInv', NEW s \in Sessions, NEW t, Become(s, t),
           ~Holds(t), t.credit = 0, t.user \in Users,
           t.pc \in {"open", "settle_net", "open_grant", "forget_rows"}
    PROVE  LockInv'
<1>1. account[t.user].balance \in Int /\ account[t.user].balance >= 0
  BY DEF LockInv, IInv, TypeOK, Account
<1>2. TxLocks(t)
  BY <1>1 DEF TxLocks, Holds
<1> QED  BY <1>2, LockBecome

LEMMA LockBegin ==
    ASSUME CreditAssumption, LockInv, IInv', NEW s \in Sessions, BeginSome(s)
    PROVE  LockInv'
<1>1. ASSUME NEW op, NEW u \in Users, NEW o, NEW k,
             NEW step \in {"open", "settle_net", "open_grant", "forget_rows"},
             NEW t, t.opened = Begin(s, op, u, o, k, step).opened,
             t.touched = Begin(s, op, u, o, k, step).touched,
             t.deleted = Begin(s, op, u, o, k, step).deleted,
             t.credit = Begin(s, op, u, o, k, step).credit,
             t.user = Begin(s, op, u, o, k, step).user,
             t.pc = Begin(s, op, u, o, k, step).pc, Become(s, t)
      PROVE  LockInv'
  <2>1. ~Holds(t) /\ t.credit = 0 /\ t.user = u /\ t.pc = step
    BY <1>1 DEF Begin, Idle, Holds
  <2> QED  BY <1>1, <2>1, LockFresh
<1>2. CASE \E o \in Orders : BeginCharge(s, o)
  <2>1. PICK o \in Orders : BeginCharge(s, o)
    BY <1>2
  <2>2. Owner[o] \in Users
    BY DEF CreditAssumption
  <2> QED  BY <1>1, <2>1, <2>2 DEF BeginCharge
<1>3. CASE \E o \in Orders, close \in {"refund", "consume"} : BeginSettle(s, o, close)
  <2>1. PICK o \in Orders, close \in {"refund", "consume"} : BeginSettle(s, o, close)
    BY <1>3
  <2> DEFINE b == Begin(s, "settle", Owner[o], o, 0, "settle_net")
             t == [b EXCEPT !.close = close]
  <2>2. Owner[o] \in Users
    BY DEF CreditAssumption
  <2>3. Become(s, t)
    BY <2>1 DEF BeginSettle
  <2>4. /\ t.opened = b.opened /\ t.touched = b.touched /\ t.deleted = b.deleted
        /\ t.credit = b.credit /\ t.user = b.user /\ t.pc = b.pc
    BY DEF Begin, Idle
  <2> HIDE DEF t
  <2> QED  BY <1>1, <2>2, <2>3, <2>4
<1>4. CASE \E u \in Users, k \in 1..LastGrant : BeginGrant(s, u, k)
  BY <1>1, <1>4 DEF BeginGrant
<1>5. CASE \E u \in Leavers : BeginForget(s, u)
  BY <1>1, <1>5 DEF BeginForget, CreditAssumption
<1> QED  BY <1>2, <1>3, <1>4, <1>5 DEF BeginSome

-----------------------------------------------------------------------------
LEMMA LockCommit ==
    ASSUME CreditAssumption, LockInv, IInv', NEW s \in Sessions, Commit(s)
    PROVE  LockInv'
<1> DEFINE u == tx[s].user
<1>0. /\ tx[s] \in Tx /\ TxInv(tx[s]) /\ TxLocks(tx[s]) /\ tx[s].pc = "commit"
      /\ account \in [Users -> Account] /\ u \in Users
  BY DEF LockInv, IInv, TypeOK, TxInv, Commit, At
<1>1. /\ account'[u] = AccountAfter(s, account[u])
      /\ \A v \in Users \ {u} : account'[v] = account[v]
      /\ tx'[s] = Idle /\ \A x \in Sessions \ {s} : tx'[x] = tx[x]
  BY <1>0 DEF Commit, LockInv, IInv, TypeOK
<1>2. account[u].balance \in Int /\ tx[s].credit \in Int /\ account[u].open \in BOOLEAN
      /\ account[u].balance >= 0 /\ account[u].balance + tx[s].credit >= 0
  BY <1>0 DEF Account, Tx, LockInv, TxLocks
<1>3. account'[u].balance >= 0
  <2>1. CASE tx[s].deleted
    BY <1>1, <2>1 DEF AccountAfter, NoAccount
  <2>2. CASE ~tx[s].deleted
    BY <1>1, <1>2, <2>2 DEF AccountAfter
  <2> QED  BY <2>1, <2>2
<1>4. \A v \in Users : account'[v].balance >= 0
  BY <1>1, <1>3 DEF LockInv
<1>5. OneHolder'
  <2>1. ~Holds(Idle)
    BY IdleLocks
  <2> QED  BY <1>1, <2>1 DEF LockInv, OneHolder, Holds
<1>6. ASSUME NEW x \in Sessions \ {s}
      PROVE  TxLocks(tx[x])'
  <2>0. TxLocks(tx[x]) /\ tx'[x] = tx[x] /\ TxInv(tx[x]) /\ tx[x] \in Tx
    BY <1>1 DEF LockInv, IInv, TypeOK
  <2>1. CASE tx[x].pc = "idle"
    BY <2>0, <2>1 DEF TxLocks, Holds
  <2>2. CASE tx[x].pc # "idle" /\ tx[x].user # u
    <3>1. account'[tx[x].user] = account[tx[x].user]
      BY <1>1, <2>0, <2>2 DEF TxInv
    <3> QED  BY <2>0, <3>1 DEF TxLocks, Holds
  <2>3. CASE tx[x].pc # "idle" /\ tx[x].user = u /\ ~Holds(tx[s])
    <3>1. account'[u].open = account[u].open /\ account'[u].balance = account[u].balance
      <4>1. tx[s].credit = 0 /\ ~tx[s].opened /\ ~tx[s].deleted
        BY <1>0, <2>3 DEF TxLocks, Holds
      <4> QED  BY <1>1, <1>2, <4>1 DEF AccountAfter
    <3> QED  BY <2>0, <2>3, <3>1 DEF TxLocks, Holds
  <2>4. CASE tx[x].pc # "idle" /\ tx[x].user = u /\ Holds(tx[s])
    <3>1. ~Holds(tx[x])
      BY <2>4 DEF LockInv, OneHolder
    <3>2. ~tx[x].opened /\ ~tx[x].touched /\ tx[x].credit = 0
      BY <2>0, <3>1 DEF Holds, TxLocks
    <3>3. account'[u].balance + tx[x].credit >= 0
      <4>1. account'[u].balance \in Int
        BY <1>0 DEF IInv, TypeOK, Account
      <4> QED  BY <1>3, <3>2, <4>1
    <3> QED  BY <2>0, <2>4, <3>2, <3>3 DEF TxLocks, Holds
  <2> QED  BY <2>1, <2>2, <2>3, <2>4
<1>7. TxLocks(tx[s])'
  BY <1>1 DEF TxLocks, Idle, Holds
<1> QED  BY <1>4, <1>5, <1>6, <1>7 DEF LockInv

LEMMA LockNext == CreditAssumption /\ LockInv /\ [Next]_vars => LockInv'
<1> SUFFICES ASSUME CreditAssumption, LockInv, [Next]_vars
             PROVE  LockInv'
  OBVIOUS
<1>0. IInv'
  BY NextInv DEF LockInv
<1>1. ASSUME NEW s \in Sessions, BeginSome(s) \/ ChargeStep(s) \/ SettleStep(s)
      PROVE  LockInv'
  BY <1>0, <1>1, LockBegin, LockCharge, LockSettle
<1>2. ASSUME NEW s \in Sessions,
             WriteGrant(s) \/ GrantAgain(s) \/ AnonymiseRows(s) \/ DeleteAccount(s)
      PROVE  LockInv'
  BY <1>0, <1>2, LockGrant, LockForget
<1>3. ASSUME NEW s \in Sessions, Commit(s) \/ Abort(s)
      PROVE  LockInv'
  BY <1>0, <1>3, LockCommit, LockRollback DEF Abort
<1>4. CASE (\E u \in Users : PlanSale(u)) \/ NextWindow \/ UNCHANGED vars
  <2>1. UNCHANGED <<account, tx>>
    BY <1>4 DEF PlanSale, NextWindow, vars
  <2> QED  BY <1>0, <2>1 DEF LockInv, OneHolder, Holds, TxLocks
<1> QED  BY <1>1, <1>2, <1>3, <1>4 DEF Next

LEMMA LockInit == CreditAssumption /\ Init => LockInv
<1> SUFFICES ASSUME CreditAssumption, Init
             PROVE  LockInv
  OBVIOUS
<1>1. IInv
  BY InitInv
<1>2. \A s \in Sessions : tx[s] = Idle
  BY DEF Init
<1>3. \A u \in Users : account[u].balance >= 0
  BY DEF Init, NoAccount
<1> QED  BY <1>1, <1>2, <1>3, IdleLocks DEF LockInv, OneHolder

LEMMA Locks == Spec => []LockInv
<1>1. CreditAssumption
  BY CreditAssumption
<1> QED  BY <1>1, LockInit, LockNext, PTL DEF Spec

\* No interleaving of charges, settlements, grants and erasures ever takes a
\* balance below zero, neither the committed row nor what an open transaction
\* has made of the row it holds.
THEOREM NeverNegative == Spec => []NeverOverdrawn
<1>1. LockInv => NeverOverdrawn
  <2> SUFFICES ASSUME LockInv
               PROVE  NeverOverdrawn
    OBVIOUS
  <2>1. ASSUME NEW s \in Sessions, tx[s].touched
        PROVE  BalanceSeen(s) >= 0
    BY <2>1 DEF LockInv, TxLocks, Holds, BalanceSeen
  <2> QED  BY <2>1 DEF LockInv, NeverOverdrawn
<1> QED  BY <1>1, Locks, PTL

-----------------------------------------------------------------------------
\* Refunds match debits, a positive answer means the order is paid for, and the
\* ledger implements OrderPayment. RefundsMatchDebits is not inductive: a refund
\* not yet committed must still find the credit it read as held. So the invariant
\* says of every open transaction what its reads and its answer still mean, as
\* long as its order is not contested: a refund that commits leaves the order
\* uncontested only where no other transaction of it has read that far.

ChargeSteps == {"open", "mint", "state", "net", "live_plan", "claim",
                "generation", "debit", "take"}
SettleSteps == {"settle_net", "settle_account", "settle_generation", "settle_write"}

\* A credit is held for the order: a debit its refunds have not reached.
Held(o) == \E g \in Debits(o) : g \notin Refunds(o)

\* Which operation is at which step, and for whom.
Course(t) ==
    /\ t.pc \in ChargeSteps => t.op = "charge"
    /\ t.pc \in SettleSteps => t.op = "settle"
    /\ t.pc \in {"forget_rows", "forget_account"} => t.op = "forget"
    /\ t.pc \in {"open_grant", "write_grant"} => t.op = "grant"
    /\ t.op \in {"charge", "settle"} => t.order \in Orders /\ t.user = Owner[t.order]
    /\ t.answer \in {"charged", "already_paid"} => t.op = "charge" /\ t.pc = "commit"
    /\ t.answer = "settled" => t.op = "settle" /\ t.pc = "commit"
    /\ t.deleted => t.op = "forget"

\* What it moves, and the debit or refund row it holds.
Moves(t) ==
    /\ t.op = "forget" => t.credit = 0
    /\ t.credit >= IF t.answer = "charged" THEN -Cost ELSE 0
    /\ t.pc \in SettleSteps => t.credit = 0 /\ t.rows = {}
    /\ t.answer = "settled" /\ t.close = "refund" => t.credit = Cost
    /\ \A r \in t.rows :
          /\ r.key[1] = "debit" => /\ r.key = <<"debit", t.order, t.gen>>
                                   /\ t.pc = "take" \/ t.answer = "charged"
          /\ r.key[1] = "refund" => /\ r.key = <<"refund", t.order, t.gen>>
                                    /\ t.answer = "settled" /\ t.close = "refund"

\* What no other transaction can change: the row of an order it holds, under a key
\* nobody else can take, and the position it acts on.
Certain(t) ==
    /\ t.pc = "take" \/ t.answer = "charged"
         => /\ t.gen \notin Debits(t.order)
            /\ \E r \in t.rows : r.key = <<"debit", t.order, t.gen>>
    /\ t.answer = "settled" /\ t.close = "refund"
         => \E r \in t.rows : r.key = <<"refund", t.order, t.gen>>
    /\ t.pc \in SettleSteps \ {"settle_net"} => t.net = -Cost

\* What it has read of its order, as the committed rows still have it.
Current(t) ==
    /\ t.pc \in {"debit", "take", "settle_write"} \/ t.answer \in {"charged", "settled"}
         => Refunds(t.order) = Below(t.gen)
    /\ t.answer \in {"already_paid", "settled"} \/ t.pc \in SettleSteps \ {"settle_net"}
         => Held(t.order)

Knows(t) == Certain(t) /\ (t.order \notin contested => Current(t))

PromiseTx(t) == Course(t) /\ Moves(t) /\ Knows(t)

PromiseInv == RefundsMatchDebits /\ \A s \in Sessions : PromiseTx(tx[s])

-----------------------------------------------------------------------------
LEMMA BelowCount == ASSUME NEW n \in Nat PROVE Cardinality(Below(n)) = n
<1>1. 0 \in Int /\ n - 1 \in Int
  OBVIOUS
<1>2. Cardinality(0 .. (n - 1)) = IF 0 > n - 1 THEN 0 ELSE n - 1 - 0 + 1
  BY <1>1, FS_Interval
<1> QED  BY <1>2 DEF Below

LEMMA BelowGrows ==
    ASSUME NEW n \in Nat
    PROVE  Below(n) \union {n} = Below(n + 1) /\ n \notin Below(n)
BY DEF Below

\* The position of an order with n refunds and m debits, both without gaps.
LEMMA NetOf ==
    ASSUME NEW rows, NEW o, NEW n \in Nat, NEW m \in Nat,
           Generations(rows, "refund", o) = Below(n),
           Generations(rows, "debit", o) = Below(m)
    PROVE  NetPosition(rows, o) = Cost * (n - m)
BY BelowCount DEF NetPosition

\* An order is at zero, its debits and refunds the same generations, or holds
\* exactly one credit, of the generation its refunds have come to.
LEMMA Position ==
    ASSUME CreditAssumption, IInv, NEW o \in Orders, RefundOwed(o)
    PROVE  \E n \in Nat :
              /\ Refunds(o) = Below(n)
              /\ Generation(ledger, o) = n
              /\ Held(o) => Debits(o) = Below(n + 1) /\ NetPosition(ledger, o) = -Cost
              /\ ~Held(o) => Debits(o) = Below(n) /\ NetPosition(ledger, o) = 0
<1> DEFINE n == Generation(ledger, o)
<1>1. n \in Nat /\ Refunds(o) = Below(n)
  BY GenerationIsNext DEF IInv
<1> HIDE DEF n
<1>2. \A g \in Debits(o) : g \in Nat /\ (g > 0 => g - 1 \in Below(n))
  BY <1>1, DebitsBounded DEF IInv
<1>3. Below(n) \subseteq Debits(o)
  BY <1>1 DEF RefundOwed, Refunds, Debits
<1>4. Cost \in Nat
  BY DEF CreditAssumption
<1>5. CASE Held(o)
  <2>1. PICK g \in Debits(o) : g \notin Below(n)
    BY <1>1, <1>5 DEF Held
  <2>2. g = n
    BY <1>1, <1>2, <2>1 DEF Below
  <2>3. Debits(o) = Below(n + 1)
    <3>1. \A h \in Debits(o) : h \in Below(n + 1)
      BY <1>1, <1>2 DEF Below
    <3>2. \A h \in Below(n + 1) : h \in Debits(o)
      BY <1>1, <1>3, <2>1, <2>2, BelowGrows
    <3> QED  BY <3>1, <3>2
  <2>4. NetPosition(ledger, o) = Cost * (n - (n + 1))
    BY <1>1, <2>3, NetOf DEF Refunds, Debits
  <2>5. NetPosition(ledger, o) = -Cost
    BY <1>1, <1>4, <2>4
  <2> QED  BY <1>1, <1>5, <2>3, <2>5 DEF n
<1>6. CASE ~Held(o)
  <2>1. Debits(o) = Below(n)
    BY <1>1, <1>3, <1>6 DEF Held
  <2>2. NetPosition(ledger, o) = Cost * (n - n)
    BY <1>1, <2>1, NetOf DEF Refunds, Debits
  <2>3. NetPosition(ledger, o) = 0
    BY <1>1, <1>4, <2>2
  <2> QED  BY <1>1, <1>6, <2>1, <2>3 DEF n
<1> QED  BY <1>5, <1>6

\* An order that is below zero is there by one cost, contested or not.
LEMMA OneCost ==
    ASSUME CreditAssumption, IInv, NEW o \in Orders, NetPosition(ledger, o) < 0
    PROVE  NetPosition(ledger, o) = -Cost
<1> DEFINE n == Generation(ledger, o)
           m == Cardinality(Debits(o))
<1>1. n \in Nat /\ m \in Nat /\ m <= n + 1 /\ Cost \in Nat
  BY GenerationIsNext, DebitsBounded DEF IInv, CreditAssumption
<1>2. NetPosition(ledger, o) = Cost * (n - m)
  BY DEF NetPosition, Generation, Debits
<1> HIDE DEF n, m
<1>3. CASE m = n + 1
  BY <1>1, <1>2, <1>3
<1>4. CASE m <= n
  <2>1. PICK k \in Nat : k = n - m
    BY <1>1, <1>4
  <2>2. Cost * k \in Nat
    BY <1>1
  <2> QED  BY <1>2, <2>1, <2>2
<1> QED  BY <1>1, <1>3, <1>4

\* A transaction whose order is contested need only be certain of what it holds.
LEMMA KnowsBy ==
    ASSUME NEW t, Certain(t), t.order \notin contested => Current(t)
    PROVE  Knows(t)
BY DEF Knows

-----------------------------------------------------------------------------
\* A step that only turns one transaction into another.
LEMMA PromiseBecome ==
    ASSUME IInv, PromiseInv, NEW s \in Sessions, NEW t, Become(s, t), PromiseTx(t)
    PROVE  PromiseInv'
<1>1. /\ tx'[s] = t /\ \A x \in Sessions \ {s} : tx'[x] = tx[x]
      /\ ledger' = ledger /\ contested' = contested
  BY DEF Become, IInv, TypeOK, history
<1>2. RefundsMatchDebits'
  BY <1>1 DEF PromiseInv, RefundsMatchDebits, RefundOwed
<1>4. ASSUME NEW x \in Sessions
      PROVE  PromiseTx(tx[x])'
  <2>1. PromiseTx(tx'[x])
    BY <1>1 DEF PromiseInv
  <2>2. \A o : Refunds(o)' = Refunds(o) /\ Debits(o)' = Debits(o)
    BY <1>1 DEF Refunds, Debits
  <2>3. \A o : Held(o)' = Held(o)
    BY <2>2 DEF Held
  <2> QED
    BY <1>1, <2>1, <2>2, <2>3 DEF PromiseTx, Course, Moves, Knows, Certain, Current
<1> QED  BY <1>2, <1>4 DEF PromiseInv

LEMMA PromiseRollback ==
    ASSUME CreditAssumption, IInv, PromiseInv, NEW s \in Sessions, Rollback(s)
    PROVE  PromiseInv'
<1>1. PromiseTx(Idle)
  BY DEF PromiseTx, Course, Moves, Knows, Certain, Current, Idle, ChargeSteps, SettleSteps
<1> QED  BY <1>1, PromiseBecome DEF Rollback

\* The fields that say what a transaction is about, and those that say what it
\* has read and done.
Kept(t, b) ==
    t.op = b.op /\ t.user = b.user /\ t.order = b.order /\ t.close = b.close
Quiet(t, b) ==
    /\ Kept(t, b)
    /\ t.gen = b.gen /\ t.net = b.net /\ t.deleted = b.deleted
    /\ t.credit = b.credit /\ t.rows = b.rows

\* A step inside a charge or a grant that only goes on.
LEMMA PromiseOn ==
    ASSUME IInv, PromiseInv, NEW s \in Sessions, NEW t, Become(s, t),
           Quiet(t, tx[s]), t.answer = tx[s].answer,
           \/ /\ tx[s].pc \in ChargeSteps \ {"take"}
              /\ t.pc \in {"mint", "state", "net", "live_plan", "claim", "generation"}
           \/ tx[s].pc = "open_grant" /\ t.pc = "write_grant"
    PROVE  PromiseInv'
<1>0. PromiseTx(tx[s])
  BY DEF PromiseInv
<1>1. PromiseTx(t)
  <2>1. Course(t)
    BY <1>0 DEF PromiseTx, Course, Quiet, Kept, ChargeSteps, SettleSteps
  <2>2. Moves(t)
    BY <1>0 DEF PromiseTx, Course, Moves, Quiet, Kept, ChargeSteps, SettleSteps
  <2>3. Knows(t)
    BY <1>0 DEF PromiseTx, Course, Knows, Certain, Current, Quiet, Kept, ChargeSteps, SettleSteps
  <2> QED  BY <2>1, <2>2, <2>3 DEF PromiseTx
<1> QED  BY <1>1, PromiseBecome

LEMMA PromiseGoto ==
    ASSUME IInv, PromiseInv, NEW s \in Sessions, NEW step, Goto(s, step),
           tx[s].pc \in ChargeSteps \ {"take"}, step \in {"state", "live_plan", "generation"}
    PROVE  PromiseInv'
<1> DEFINE t == [tx[s] EXCEPT !.pc = step]
<1>1. tx[s] \in Tx /\ Become(s, t)
  BY DEF IInv, TypeOK, Goto
<1>2. Quiet(t, tx[s]) /\ t.answer = tx[s].answer /\ t.pc = step
  BY <1>1 DEF Quiet, Kept, Tx
<1> HIDE DEF t
<1> QED  BY <1>1, <1>2, PromiseOn

\* An answer that claims nothing, or that the order is held.
LEMMA PromiseAnswer ==
    ASSUME IInv, PromiseInv, NEW s \in Sessions, NEW a, Answer(s, a),
           \/ a = "unsettled" /\ tx[s].pc \in SettleSteps \union {"write_grant"}
           \/ /\ a = "already_paid" /\ tx[s].pc \in ChargeSteps \ {"take"}
              /\ tx[s].order \notin contested => Held(tx[s].order)
    PROVE  PromiseInv'
<1> DEFINE t == [tx[s] EXCEPT !.pc = "commit", !.answer = a]
<1>0. PromiseTx(tx[s])
  BY DEF PromiseInv
<1>1. tx[s] \in Tx /\ Become(s, t)
  BY DEF IInv, TypeOK, Answer
<1>2. Quiet(t, tx[s]) /\ t.answer = a /\ t.pc = "commit"
  BY <1>1 DEF Quiet, Kept, Tx
<1> HIDE DEF t
<1>3. PromiseTx(t)
  <2>1. Course(t)
    BY <1>0, <1>2 DEF PromiseTx, Course, Quiet, Kept, ChargeSteps, SettleSteps
  <2>2. Moves(t)
    BY <1>0, <1>2 DEF PromiseTx, Course, Moves, Quiet, Kept, ChargeSteps, SettleSteps
  <2>3. Knows(t)
    BY <1>0, <1>2 DEF PromiseTx, Course, Knows, Certain, Current, Quiet, Kept, ChargeSteps, SettleSteps
  <2> QED  BY <2>1, <2>2, <2>3 DEF PromiseTx
<1> QED  BY <1>1, <1>3, PromiseBecome

\* Credits of an account's own kinds, inside a charge or as a grant.
LEMMA PromiseCredited ==
    ASSUME IInv, PromiseInv, NEW s \in Sessions, NEW k, NEW d \in Nat, NEW step,
           Become(s, Credited(s, k, d, step)), k[1] \in AccountKinds,
           \/ tx[s].pc \in ChargeSteps \ {"take"} /\ step \in {"state", "generation"}
           \/ tx[s].pc = "write_grant" /\ step = "commit"
    PROVE  PromiseInv'
<1> DEFINE q == NewRow(k, tx[s].user, d)
           c == tx[s].credit + d
           t == [tx[s] EXCEPT !.rows = @ \union {q}, !.credit = c,
                       !.touched = TRUE, !.pc = step]
<1>0. tx[s] \in Tx /\ PromiseTx(tx[s])
  BY DEF IInv, TypeOK, PromiseInv
<1>1. Become(s, t) /\ q.key[1] \notin {"debit", "refund"}
      /\ tx[s].credit \in Int /\ c = tx[s].credit + d
  BY <1>0 DEF Credited, NewRow, AccountKinds, Tx
<1> HIDE DEF q, c
<1>2. /\ Kept(t, tx[s]) /\ t.gen = tx[s].gen /\ t.net = tx[s].net
      /\ t.deleted = tx[s].deleted /\ t.answer = tx[s].answer /\ t.pc = step
      /\ t.credit = c /\ t.rows = tx[s].rows \union {q}
  BY <1>0 DEF Kept, Tx
<1> HIDE DEF t
<1>3. PromiseTx(t)
  <2>1. Course(t)
    BY <1>0, <1>2 DEF PromiseTx, Course, Kept, ChargeSteps, SettleSteps
  <2>2. Moves(t)
    BY <1>0, <1>1, <1>2 DEF PromiseTx, Course, Moves, Kept, ChargeSteps, SettleSteps
  <2>3. Knows(t)
    BY <1>0, <1>2 DEF PromiseTx, Course, Knows, Certain, Current, Kept, ChargeSteps, SettleSteps
  <2> QED  BY <2>1, <2>2, <2>3 DEF PromiseTx
<1> QED  BY <1>1, <1>3, PromiseBecome

-----------------------------------------------------------------------------
LEMMA PromiseCharge ==
    ASSUME CreditAssumption, IInv, PromiseInv, NEW s \in Sessions, ChargeStep(s)
    PROVE  PromiseInv'
<1>0. /\ tx[s] \in Tx /\ TxInv(tx[s]) /\ PromiseTx(tx[s]) /\ plan \in [Users -> Plan]
      /\ Cost \in Nat /\ Allowance \in Nat
  BY DEF IInv, TypeOK, PromiseInv, CreditAssumption
<1>1. ASSUME tx[s].pc \in ChargeSteps
      PROVE  tx[s].op = "charge" /\ tx[s].order \in Orders /\ tx[s].user = Owner[tx[s].order]
  BY <1>0, <1>1 DEF PromiseTx, Course
<1>2. CASE OpenAccount(s)
  <2> DEFINE t == [tx[s] EXCEPT !.opened = ~account[tx[s].user].open,
                        !.pc = IF @ = "open" THEN "mint" ELSE "write_grant"]
  <2>1. Become(s, t) /\ tx[s].pc \in {"open", "open_grant"}
    BY <1>2 DEF OpenAccount, At
  <2>2. /\ Quiet(t, tx[s]) /\ t.answer = tx[s].answer
        /\ t.pc = IF tx[s].pc = "open" THEN "mint" ELSE "write_grant"
    BY <1>0 DEF Quiet, Kept, Tx
  <2> HIDE DEF t
  <2> QED  BY <2>1, <2>2, PromiseOn DEF ChargeSteps
<1>3. CASE MintNothing(s) \/ MayRender(s) \/ LosePlanSong(s)
  BY <1>3, PromiseGoto DEF MintNothing, MayRender, LosePlanSong, At, ChargeSteps
<1>4. CASE MintAllowance(s)
  <2>1. AllowanceKey(s)[1] \in AccountKinds /\ tx[s].pc \in ChargeSteps \ {"take"}
    BY <1>4 DEF AllowanceKey, AccountKinds, MintAllowance, At, ChargeSteps
  <2> QED  BY <1>0, <1>4, <2>1, PromiseCredited, PromiseRollback DEF MintAllowance
<1>5. CASE ReadState(s)
  <2> DEFINE full == InFlight(Seen(s), tx[s].user, tx[s].order) >= MaxInFlight
             t == [tx[s] EXCEPT !.full = full, !.pc = "net"]
  <2>1. Become(s, t) /\ tx[s].pc = "state"
    BY <1>5 DEF ReadState, At
  <2> HIDE DEF full
  <2>2. Quiet(t, tx[s]) /\ t.answer = tx[s].answer /\ t.pc = "net"
    BY <1>0 DEF Quiet, Kept, Tx
  <2> HIDE DEF t
  <2> QED  BY <2>1, <2>2, PromiseOn DEF ChargeSteps
<1>6. CASE RefuseBarred(s) \/ RefuseStacked(s) \/ RefuseInsufficient(s)
  BY <1>6, PromiseRollback DEF RefuseBarred, RefuseStacked, RefuseInsufficient
<1>7. CASE AlreadyPaid(s)
  <2>1. tx[s].pc \in ChargeSteps \ {"take"} /\ NetPosition(ledger, tx[s].order) < 0
    BY <1>7 DEF AlreadyPaid, At, ChargeSteps
  <2>2. tx[s].order \notin contested => Held(tx[s].order)
    BY <1>1, <2>1, Position DEF PromiseInv, RefundsMatchDebits
  <2> QED  BY <1>7, <2>1, <2>2, PromiseAnswer DEF AlreadyPaid
<1>8. CASE ReadPlan(s)
  <2> DEFINE t == [tx[s] EXCEPT !.seen = plan[tx[s].user].used, !.pc = "claim"]
  <2>1. tx[s].pc = "live_plan"
    BY <1>8 DEF ReadPlan, At
  <2>2. CASE Become(s, t)
    <3>1. Quiet(t, tx[s]) /\ t.answer = tx[s].answer /\ t.pc = "claim"
      BY <1>0 DEF Quiet, Kept, Tx
    <3> HIDE DEF t
    <3> QED  BY <2>1, <2>2, <3>1, PromiseOn DEF ChargeSteps
  <2>3. CASE Goto(s, "generation")
    BY <2>1, <2>3, PromiseGoto DEF ChargeSteps
  <2> QED  BY <1>8, <2>2, <2>3 DEF ReadPlan
<1>9. CASE ClaimPlanSong(s)
  <2> DEFINE k == <<"plan", tx[s].user, tx[s].seen>>
  <2>1. k[1] \in AccountKinds /\ tx[s].pc \in ChargeSteps \ {"take"} /\ 1 \in Nat
    BY <1>9 DEF AccountKinds, ClaimPlanSong, At, ChargeSteps
  <2>2. Become(s, Credited(s, k, 1, "generation")) \/ Rollback(s)
    BY <1>9 DEF ClaimPlanSong
  <2> HIDE DEF k
  <2> QED  BY <2>1, <2>2, PromiseCredited, PromiseRollback
<1>10. CASE ReadGeneration(s)
  <2> DEFINE gen == Generation(ledger, tx[s].order)
             t == [tx[s] EXCEPT !.gen = gen, !.pc = "debit"]
  <2>1. Become(s, t) /\ tx[s].pc = "generation"
    BY <1>10 DEF ReadGeneration, At
  <2>2. Refunds(tx[s].order) = Below(gen)
    BY <1>1, <2>1, GenerationIsNext DEF IInv, ChargeSteps
  <2> HIDE DEF gen
  <2>3. /\ Kept(t, tx[s]) /\ t.net = tx[s].net /\ t.deleted = tx[s].deleted
        /\ t.credit = tx[s].credit /\ t.rows = tx[s].rows
        /\ t.answer = tx[s].answer /\ t.pc = "debit" /\ t.gen = gen
    BY <1>0 DEF Kept, Tx
  <2> HIDE DEF t
  <2>4. PromiseTx(t)
    <3>1. Course(t)
      BY <1>0, <2>1, <2>3 DEF PromiseTx, Course, Kept, ChargeSteps, SettleSteps
    <3>2. Moves(t)
      BY <1>0, <2>1, <2>3 DEF PromiseTx, Course, Moves, Kept, ChargeSteps, SettleSteps
    <3>3. Knows(t)
      BY <1>0, <2>1, <2>2, <2>3 DEF PromiseTx, Course, Knows, Certain, Current, Kept, ChargeSteps, SettleSteps
    <3> QED  BY <3>1, <3>2, <3>3 DEF PromiseTx
  <2> QED  BY <2>1, <2>4, PromiseBecome
<1>11. CASE WriteDebit(s)
  <2> DEFINE q == NewRow(DebitKey(s), tx[s].user, -Cost)
             t == [tx[s] EXCEPT !.rows = @ \union {q}, !.pc = "take"]
  <2>1. /\ Become(s, t) /\ tx[s].pc = "debit" /\ ~Has(ledger, DebitKey(s))
        /\ q.key = <<"debit", tx[s].order, tx[s].gen>>
    BY <1>11 DEF WriteDebit, At, NewRow, DebitKey
  <2>2. tx[s].gen \notin Debits(tx[s].order)
    <3> SUFFICES ASSUME tx[s].gen \in Debits(tx[s].order)
                 PROVE  FALSE
      OBVIOUS
    <3>1. PICK r \in ledger : r.key[1] = "debit" /\ r.key[2] = tx[s].order
                              /\ r.key[3] = tx[s].gen
      BY GenerationsMember DEF Debits
    <3>2. r.key = DebitKey(s)
      BY <3>1, KeyIsTriple DEF IInv, TypeOK, Row, DebitKey
    <3> QED  BY <2>1, <3>2 DEF Has
  <2> HIDE DEF q
  <2>3. /\ Kept(t, tx[s]) /\ t.net = tx[s].net /\ t.deleted = tx[s].deleted
        /\ t.credit = tx[s].credit /\ t.rows = tx[s].rows \union {q}
        /\ t.answer = tx[s].answer /\ t.pc = "take" /\ t.gen = tx[s].gen
    BY <1>0 DEF Kept, Tx
  <2> HIDE DEF t
  <2>4. PromiseTx(t)
    <3>1. Course(t)
      BY <1>0, <2>1, <2>3 DEF PromiseTx, Course, Kept, ChargeSteps, SettleSteps
    <3>2. Moves(t)
      BY <1>0, <2>1, <2>3 DEF PromiseTx, Course, Moves, Kept, ChargeSteps, SettleSteps
    <3>3. Knows(t)
      BY <1>0, <2>1, <2>2, <2>3 DEF PromiseTx, Course, Knows, Certain, Current, Kept, ChargeSteps, SettleSteps
    <3> QED  BY <3>1, <3>2, <3>3 DEF PromiseTx
  <2> QED  BY <2>1, <2>4, PromiseBecome
<1>12. CASE LoseDebit(s)
  <2>1. tx[s].pc = "debit" /\ Has(ledger, DebitKey(s))
    BY <1>12 DEF LoseDebit, At
  <2>2. tx[s].gen \in Debits(tx[s].order)
    BY <2>1, GenerationsMember DEF Has, DebitKey, Debits
  <2>3. /\ tx[s].order \notin contested => Refunds(tx[s].order) = Below(tx[s].gen)
        /\ tx[s].gen \in Nat
    BY <1>0, <2>1 DEF PromiseTx, Knows, Current, Tx
  <2>4. tx[s].order \notin contested => Held(tx[s].order)
    BY <2>2, <2>3, BelowGrows DEF Held
  <2> QED  BY <1>12, <2>1, <2>4, PromiseAnswer DEF LoseDebit, ChargeSteps
<1>13. ASSUME NEW t, Become(s, t), tx[s].pc = "take",
              Kept(t, tx[s]), t.net = tx[s].net, t.deleted = tx[s].deleted,
              t.gen = tx[s].gen, t.answer = "charged", t.pc = "commit",
              t.credit = tx[s].credit \/ t.credit = tx[s].credit - Cost,
              tx[s].rows \subseteq t.rows,
              \A r \in t.rows : r \in tx[s].rows \/ r.key[1] = "unenforced"
       PROVE  PromiseInv'
  <2>1. Course(t)
    BY <1>0, <1>13 DEF PromiseTx, Course, Kept, ChargeSteps, SettleSteps
  <2>2. Moves(t)
    <3>1. t.credit >= -Cost
      <4>1. tx[s].answer # "charged" /\ tx[s].credit \in Int
        BY <1>0, <1>13 DEF PromiseTx, Course, Tx
      <4>2. tx[s].credit >= 0
        BY <1>0, <4>1 DEF PromiseTx, Moves
      <4> QED  BY <1>0, <1>13, <4>1, <4>2
    <3>2. ASSUME NEW r \in t.rows
          PROVE  /\ r.key[1] = "debit" => r.key = <<"debit", t.order, t.gen>>
                 /\ r.key[1] # "refund"
      <4>1. CASE r.key[1] = "unenforced"
        BY <1>13, <4>1
      <4>2. CASE r \in tx[s].rows
        BY <1>0, <1>13, <4>2 DEF PromiseTx, Moves, Course, Kept
      <4> QED  BY <1>13, <4>1, <4>2
    <3>3. t.op = "charge" /\ t.pc = "commit" /\ t.answer = "charged"
      BY <1>1, <1>13 DEF Kept, ChargeSteps
    <3> QED  BY <3>1, <3>2, <3>3 DEF Moves, SettleSteps
  <2>3. Knows(t)
    BY <1>0, <1>13 DEF PromiseTx, Course, Knows, Certain, Current, Kept, ChargeSteps, SettleSteps
  <2> QED  BY <1>13, <2>1, <2>2, <2>3, PromiseBecome DEF PromiseTx
<1>14. CASE TakePayment(s)
  <2> DEFINE c == tx[s].credit - Cost
             t == [tx[s] EXCEPT !.credit = c, !.touched = TRUE,
                         !.pc = "commit", !.answer = "charged"]
  <2>1. Become(s, t) /\ tx[s].pc = "take" /\ c = tx[s].credit - Cost
    BY <1>14 DEF TakePayment, At
  <2> HIDE DEF c
  <2>2. /\ Kept(t, tx[s]) /\ t.net = tx[s].net /\ t.deleted = tx[s].deleted
        /\ t.credit = c /\ t.rows = tx[s].rows
        /\ t.answer = "charged" /\ t.pc = "commit" /\ t.gen = tx[s].gen
    BY <1>0 DEF Kept, Tx
  <2> HIDE DEF t
  <2> QED  BY <1>13, <2>1, <2>2
<1>15. CASE CoverShortfall(s)
  <2> DEFINE q == NewRow(CoverKey(s), tx[s].user, Cost)
             t == [tx[s] EXCEPT !.rows = @ \union {q}, !.touched = TRUE,
                         !.pc = "commit", !.answer = "charged"]
  <2>1. Become(s, t) /\ tx[s].pc = "take" /\ q.key[1] = "unenforced"
    BY <1>15 DEF CoverShortfall, At, NewRow, CoverKey
  <2> HIDE DEF q
  <2>2. /\ Kept(t, tx[s]) /\ t.net = tx[s].net /\ t.deleted = tx[s].deleted
        /\ t.credit = tx[s].credit /\ t.rows = tx[s].rows \union {q}
        /\ t.answer = "charged" /\ t.pc = "commit" /\ t.gen = tx[s].gen
    BY <1>0 DEF Kept, Tx
  <2> HIDE DEF t
  <2> QED  BY <1>13, <2>1, <2>2
<1> QED
  BY <1>2, <1>3, <1>4, <1>5, <1>6, <1>7, <1>8, <1>9, <1>10, <1>11, <1>12, <1>14, <1>15
  DEF ChargeStep

LEMMA PromiseSettle ==
    ASSUME CreditAssumption, IInv, PromiseInv, NEW s \in Sessions, SettleStep(s)
    PROVE  PromiseInv'
<1>0. /\ tx[s] \in Tx /\ TxInv(tx[s]) /\ PromiseTx(tx[s]) /\ Cost \in Nat
  BY DEF IInv, TypeOK, PromiseInv, CreditAssumption
<1>1. ASSUME tx[s].pc \in SettleSteps
      PROVE  /\ tx[s].op = "settle" /\ tx[s].order \in Orders
             /\ tx[s].credit = 0 /\ tx[s].rows = {}
             /\ tx[s].answer \notin {"charged", "already_paid", "settled"}
             /\ ~tx[s].deleted
  BY <1>0, <1>1 DEF PromiseTx, Course, Moves, SettleSteps
<1>2. ASSUME NEW t, Become(s, t), tx[s].pc \in SettleSteps, Kept(t, tx[s]),
             t.deleted = tx[s].deleted, t.credit = 0, t.rows = {},
             t.answer = tx[s].answer, t.pc \in SettleSteps \ {"settle_net"},
             t.net = -Cost, t.order \notin contested => Held(t.order),
             t.pc = "settle_write" => Refunds(t.order) = Below(t.gen)
      PROVE  PromiseInv'
  <2>1. Course(t)
    BY <1>0, <1>1, <1>2 DEF PromiseTx, Course, Kept, ChargeSteps, SettleSteps
  <2>2. Moves(t)
    BY <1>1, <1>2 DEF Moves, Kept, SettleSteps
  <2>3. Knows(t)
    BY <1>1, <1>2 DEF Knows, Certain, Current, Kept, SettleSteps
  <2> QED  BY <1>2, <2>1, <2>2, <2>3, PromiseBecome DEF PromiseTx
<1>3. CASE HoldsCredit(s)
  <2> DEFINE net == NetPosition(ledger, tx[s].order)
             t == [tx[s] EXCEPT !.net = net,
                     !.pc = IF tx[s].close = "refund" THEN "settle_account"
                                                      ELSE "settle_generation"]
  <2>1. Become(s, t) /\ tx[s].pc \in SettleSteps /\ net < 0
    BY <1>3 DEF HoldsCredit, At, SettleSteps
  <2>2. net = -Cost /\ (tx[s].order \notin contested => Held(tx[s].order))
    BY <1>0, <1>1, <2>1, Position, OneCost DEF PromiseInv, RefundsMatchDebits
  <2> HIDE DEF net
  <2>3. /\ Kept(t, tx[s]) /\ t.deleted = tx[s].deleted /\ t.credit = tx[s].credit
        /\ t.rows = tx[s].rows /\ t.answer = tx[s].answer /\ t.net = net
        /\ t.pc \in {"settle_account", "settle_generation"}
    BY <1>0 DEF Kept, Tx
  <2> HIDE DEF t
  <2> QED  BY <1>1, <1>2, <2>1, <2>2, <2>3 DEF Kept, SettleSteps
<1>4. CASE AccountThere(s)
  <2> DEFINE t == [tx[s] EXCEPT !.pc = "settle_generation"]
  <2>1. Become(s, t) /\ tx[s].pc = "settle_account"
    BY <1>4 DEF AccountThere, Goto, At
  <2>2. tx[s].net = -Cost /\ (tx[s].order \notin contested => Held(tx[s].order))
    BY <1>0, <2>1 DEF PromiseTx, Knows, Certain, Current, SettleSteps
  <2>3. /\ Kept(t, tx[s]) /\ t.deleted = tx[s].deleted /\ t.credit = tx[s].credit
        /\ t.rows = tx[s].rows /\ t.answer = tx[s].answer /\ t.net = tx[s].net
        /\ t.pc = "settle_generation"
    BY <1>0 DEF Kept, Tx
  <2> HIDE DEF t
  <2> QED  BY <1>1, <1>2, <2>1, <2>2, <2>3 DEF Kept, SettleSteps
<1>5. CASE SettleGeneration(s)
  <2> DEFINE gen == Generation(ledger, tx[s].order)
             t == [tx[s] EXCEPT !.gen = gen, !.pc = "settle_write"]
  <2>1. Become(s, t) /\ tx[s].pc = "settle_generation"
    BY <1>5 DEF SettleGeneration, At
  <2>2. tx[s].net = -Cost /\ (tx[s].order \notin contested => Held(tx[s].order))
    BY <1>0, <2>1 DEF PromiseTx, Knows, Certain, Current, SettleSteps
  <2>3. Refunds(tx[s].order) = Below(gen)
    BY <1>1, <2>1, GenerationIsNext DEF IInv, SettleSteps
  <2> HIDE DEF gen
  <2>4. /\ Kept(t, tx[s]) /\ t.deleted = tx[s].deleted /\ t.credit = tx[s].credit
        /\ t.rows = tx[s].rows /\ t.answer = tx[s].answer /\ t.net = tx[s].net
        /\ t.pc = "settle_write" /\ t.gen = gen
    BY <1>0 DEF Kept, Tx
  <2> HIDE DEF t
  <2> QED  BY <1>1, <1>2, <2>1, <2>2, <2>3, <2>4 DEF Kept, SettleSteps
<1>6. CASE HoldsNothing(s) \/ AccountErased(s) \/ LoseSettlement(s)
  <2>1. Answer(s, "unsettled") /\ tx[s].pc \in SettleSteps
    BY <1>6 DEF HoldsNothing, AccountErased, LoseSettlement, At, SettleSteps
  <2> QED  BY <2>1, PromiseAnswer
<1>7. ASSUME NEW t, Become(s, t), tx[s].pc = "settle_write", Kept(t, tx[s]),
             t.deleted = tx[s].deleted, t.gen = tx[s].gen, t.answer = "settled",
             t.pc = "commit", NEW q, q.key = SettleKey(s), t.rows = {q},
             t.credit = IF t.close = "refund" THEN Cost ELSE 0
      PROVE  PromiseInv'
  <2>1. Course(t)
    BY <1>0, <1>1, <1>7 DEF PromiseTx, Course, Kept, ChargeSteps, SettleSteps
  <2>2. q.key = <<t.close, t.order, t.gen>> /\ t.close \in {"refund", "consume"}
    BY <1>0, <1>7 DEF Kept, SettleKey, Tx
  <2>3. Moves(t)
    BY <1>0, <1>1, <1>7, <2>2 DEF Moves, Kept, SettleSteps
  <2>4. Knows(t)
    <3>1. t.order \notin contested => Refunds(t.order) = Below(t.gen) /\ Held(t.order)
      BY <1>0, <1>7 DEF PromiseTx, Knows, Current, Kept, SettleSteps
    <3>2. t.close = "refund" => \E r \in t.rows : r.key = <<"refund", t.order, t.gen>>
      BY <1>7, <2>2
    <3> QED  BY <1>7, <3>1, <3>2 DEF Knows, Certain, Current, SettleSteps
  <2> QED  BY <1>7, <2>1, <2>3, <2>4, PromiseBecome DEF PromiseTx
<1>8. CASE WriteRefund(s)
  <2> DEFINE q == NewRow(SettleKey(s), tx[s].user, -tx[s].net)
             c == tx[s].credit + -tx[s].net
             t == [tx[s] EXCEPT !.rows = @ \union {q}, !.credit = c,
                         !.touched = TRUE, !.pc = "commit", !.answer = "settled"]
  <2>1. tx[s].pc = "settle_write" /\ tx[s].close = "refund" /\ q.key = SettleKey(s)
    BY <1>8 DEF WriteRefund, At, NewRow
  <2>2. c = Cost
    <3>1. tx[s].net = -Cost /\ tx[s].credit = 0
      BY <1>0, <1>1, <2>1 DEF PromiseTx, Knows, Certain, SettleSteps
    <3> QED  BY <1>0, <3>1
  <2>3. CASE AccountSeen(s)
    <3>1. Become(s, t)
      <4>1. Become(s, [Credited(s, SettleKey(s), -tx[s].net, "commit")
                         EXCEPT !.answer = "settled"])
        BY <1>8, <2>3 DEF WriteRefund
      <4>2. Credited(s, SettleKey(s), -tx[s].net, "commit")
              = [tx[s] EXCEPT !.rows = @ \union {q}, !.credit = c,
                              !.touched = TRUE, !.pc = "commit"]
        BY <1>0 DEF Credited
      <4> HIDE DEF q, c
      <4>3. [[tx[s] EXCEPT !.rows = @ \union {q}, !.credit = c,
                           !.touched = TRUE, !.pc = "commit"]
              EXCEPT !.answer = "settled"] = t
        BY <1>0 DEF Tx
      <4> QED  BY <4>1, <4>2, <4>3
    <3> HIDE DEF q, c
    <3>2. /\ Kept(t, tx[s]) /\ t.deleted = tx[s].deleted /\ t.credit = c
          /\ t.rows = tx[s].rows \union {q} /\ t.answer = "settled"
          /\ t.pc = "commit" /\ t.gen = tx[s].gen
      BY <1>0 DEF Kept, Tx
    <3> HIDE DEF t
    <3>3. t.rows = {q} /\ t.close = "refund" /\ t.credit = Cost
      BY <1>1, <2>1, <2>2, <3>2 DEF Kept, SettleSteps
    <3> QED  BY <1>7, <2>1, <3>1, <3>2, <3>3
  <2> QED  BY <1>8, <2>3, PromiseRollback DEF WriteRefund
<1>9. CASE WriteConsume(s)
  <2> DEFINE q == NewRow(SettleKey(s), tx[s].user, 0)
             t == [tx[s] EXCEPT !.rows = @ \union {q},
                         !.pc = "commit", !.answer = "settled"]
  <2>1. /\ Become(s, t) /\ tx[s].pc = "settle_write" /\ tx[s].close = "consume"
        /\ q.key = SettleKey(s)
    BY <1>9 DEF WriteConsume, At, NewRow
  <2> HIDE DEF q
  <2>2. /\ Kept(t, tx[s]) /\ t.deleted = tx[s].deleted /\ t.credit = tx[s].credit
        /\ t.rows = tx[s].rows \union {q} /\ t.answer = "settled"
        /\ t.pc = "commit" /\ t.gen = tx[s].gen
    BY <1>0 DEF Kept, Tx
  <2> HIDE DEF t
  <2>3. t.rows = {q} /\ t.close = "consume" /\ t.credit = 0
    BY <1>1, <2>1, <2>2 DEF Kept, SettleSteps
  <2> QED  BY <1>7, <2>1, <2>2, <2>3
<1> QED  BY <1>3, <1>4, <1>5, <1>6, <1>8, <1>9 DEF SettleStep

-----------------------------------------------------------------------------
LEMMA PromiseOther ==
    ASSUME CreditAssumption, IInv, PromiseInv, NEW s \in Sessions,
           \/ WriteGrant(s) \/ GrantAgain(s)
           \/ AnonymiseRows(s) \/ DeleteAccount(s) \/ Abort(s)
    PROVE  PromiseInv'
<1>0. tx[s] \in Tx /\ TxInv(tx[s]) /\ PromiseTx(tx[s])
  BY DEF IInv, TypeOK, PromiseInv
<1>1. CASE WriteGrant(s)
  <2>1. GrantKey(s)[1] \in AccountKinds /\ tx[s].pc = "write_grant" /\ 1 \in Nat
    BY <1>1 DEF GrantKey, AccountKinds, WriteGrant, At
  <2> QED  BY <1>1, <2>1, PromiseCredited, PromiseRollback DEF WriteGrant
<1>2. CASE GrantAgain(s)
  BY <1>2, PromiseAnswer DEF GrantAgain, At
<1>3. ASSUME NEW t, Become(s, t), Kept(t, tx[s]), t.credit = tx[s].credit,
             t.rows = tx[s].rows, t.answer = tx[s].answer,
             tx[s].pc \in {"forget_rows", "forget_account"},
             t.pc \in {"forget_account", "commit"}
      PROVE  PromiseInv'
  <2>1. tx[s].op = "forget" /\ tx[s].answer \notin {"charged", "already_paid", "settled"}
    BY <1>0, <1>3 DEF PromiseTx, Course
  <2>2. Course(t)
    BY <1>0, <1>3, <2>1 DEF PromiseTx, Course, Kept, ChargeSteps, SettleSteps
  <2>3. Moves(t)
    BY <1>0, <1>3, <2>1 DEF PromiseTx, Moves, Kept, SettleSteps
  <2>4. Knows(t)
    BY <1>3, <2>1 DEF Knows, Certain, Current, SettleSteps
  <2> QED  BY <1>3, <2>2, <2>3, <2>4, PromiseBecome DEF PromiseTx
<1>4. CASE AnonymiseRows(s)
  <2> DEFINE gone == {r.key : r \in {x \in ledger : x.user = tx[s].user}}
             songs == IF plan[tx[s].user].owned THEN plan[tx[s].user].used ELSE NotSeen
             t == [tx[s] EXCEPT !.erased = gone, !.seen = songs,
                         !.pc = "forget_account"]
  <2>1. Become(s, t) /\ tx[s].pc = "forget_rows"
    BY <1>4 DEF AnonymiseRows, At
  <2> HIDE DEF gone, songs
  <2>2. /\ Kept(t, tx[s]) /\ t.credit = tx[s].credit /\ t.rows = tx[s].rows
        /\ t.answer = tx[s].answer /\ t.pc = "forget_account"
    BY <1>0 DEF Kept, Tx
  <2> HIDE DEF t
  <2> QED  BY <1>3, <2>1, <2>2
<1>5. CASE DeleteAccount(s)
  <2> DEFINE t == [tx[s] EXCEPT !.deleted = account[tx[s].user].open, !.pc = "commit"]
  <2>1. Become(s, t) /\ tx[s].pc = "forget_account"
    BY <1>5 DEF DeleteAccount, At
  <2>2. /\ Kept(t, tx[s]) /\ t.credit = tx[s].credit /\ t.rows = tx[s].rows
        /\ t.answer = tx[s].answer /\ t.pc = "commit"
    BY <1>0 DEF Kept, Tx
  <2> HIDE DEF t
  <2> QED  BY <1>3, <2>1, <2>2
<1>6. CASE Abort(s)
  BY <1>6, PromiseRollback DEF Abort
<1> QED  BY <1>1, <1>2, <1>4, <1>5, <1>6

LEMMA PromiseBegin ==
    ASSUME CreditAssumption, IInv, PromiseInv, NEW s \in Sessions, BeginSome(s)
    PROVE  PromiseInv'
<1>1. ASSUME NEW t, Become(s, t),
             t.rows = {}, t.credit = 0, t.answer = "none", ~t.deleted,
             \/ /\ \/ t.op = "charge" /\ t.pc = "open"
                   \/ t.op = "settle" /\ t.pc = "settle_net"
                /\ t.order \in Orders /\ t.user = Owner[t.order]
             \/ t.op = "grant" /\ t.pc = "open_grant"
             \/ t.op = "forget" /\ t.pc = "forget_rows"
      PROVE  PromiseInv'
  <2>1. Course(t)
    BY <1>1 DEF Course, ChargeSteps, SettleSteps
  <2>2. Moves(t)
    BY <1>1 DEF Moves
  <2>3. Knows(t)
    BY <1>1 DEF Knows, Certain, Current, SettleSteps
  <2> QED  BY <1>1, <2>1, <2>2, <2>3, PromiseBecome DEF PromiseTx
<1>2. CASE \E o \in Orders : BeginCharge(s, o)
  <2>1. PICK o \in Orders : BeginCharge(s, o)
    BY <1>2
  <2> DEFINE t == Begin(s, "charge", Owner[o], o, window, "open")
  <2>2. /\ t.op = "charge" /\ t.pc = "open" /\ t.user = Owner[o] /\ t.order = o
        /\ t.rows = {} /\ t.credit = 0 /\ t.answer = "none" /\ ~t.deleted
    BY DEF Begin, Idle
  <2>3. Become(s, t)
    BY <2>1 DEF BeginCharge
  <2> HIDE DEF t
  <2> QED  BY <1>1, <2>2, <2>3
<1>3. CASE \E o \in Orders, close \in {"refund", "consume"} : BeginSettle(s, o, close)
  <2>1. PICK o \in Orders, close \in {"refund", "consume"} : BeginSettle(s, o, close)
    BY <1>3
  <2> DEFINE t == [Begin(s, "settle", Owner[o], o, 0, "settle_net") EXCEPT !.close = close]
  <2>2. /\ t.op = "settle" /\ t.pc = "settle_net" /\ t.user = Owner[o] /\ t.order = o
        /\ t.rows = {} /\ t.credit = 0 /\ t.answer = "none" /\ ~t.deleted
    BY DEF Begin, Idle
  <2>3. Become(s, t)
    BY <2>1 DEF BeginSettle
  <2> HIDE DEF t
  <2> QED  BY <1>1, <2>2, <2>3
<1>4. CASE \E u \in Users, k \in 1..LastGrant : BeginGrant(s, u, k)
  <2>1. PICK u \in Users, k \in 1..LastGrant : BeginGrant(s, u, k)
    BY <1>4
  <2> DEFINE t == Begin(s, "grant", u, Nobody, k, "open_grant")
  <2>2. /\ t.op = "grant" /\ t.pc = "open_grant" /\ t.user = u
        /\ t.rows = {} /\ t.credit = 0 /\ t.answer = "none" /\ ~t.deleted
    BY DEF Begin, Idle
  <2>3. Become(s, t)
    BY <2>1 DEF BeginGrant
  <2> HIDE DEF t
  <2> QED  BY <1>1, <2>2, <2>3
<1>5. CASE \E u \in Leavers : BeginForget(s, u)
  <2>1. PICK u \in Leavers : BeginForget(s, u)
    BY <1>5
  <2> DEFINE t == Begin(s, "forget", u, Nobody, 0, "forget_rows")
  <2>2. /\ t.op = "forget" /\ t.pc = "forget_rows" /\ t.user = u
        /\ t.rows = {} /\ t.credit = 0 /\ t.answer = "none" /\ ~t.deleted
    BY DEF Begin, Idle
  <2>3. Become(s, t)
    BY <2>1 DEF BeginForget
  <2> HIDE DEF t
  <2> QED  BY <1>1, <2>2, <2>3
<1> QED  BY <1>2, <1>3, <1>4, <1>5 DEF BeginSome

-----------------------------------------------------------------------------
\* The generations a commit adds: the debit of a charge that answers charged,
\* the refund of a settlement that gives back, and no other.
Pays(t) == t.answer = "charged"
GivesBack(t) == t.answer = "settled" /\ t.close = "refund"

LEMMA CommitRows ==
    ASSUME IInv, PromiseInv, NEW s \in Sessions, Commit(s), NEW o
    PROVE  /\ Refunds(o)' = Refunds(o) \union
                  (IF GivesBack(tx[s]) /\ o = tx[s].order THEN {tx[s].gen} ELSE {})
           /\ Debits(o)' = Debits(o) \union
                  (IF Pays(tx[s]) /\ o = tx[s].order THEN {tx[s].gen} ELSE {})
<1>1. TypeOK /\ tx[s].pc = "commit" /\ Moves(tx[s]) /\ Knows(tx[s]) /\ ledger' = Merged(s)
  BY DEF IInv, PromiseInv, PromiseTx, Commit, At
<1>2. /\ Refunds(o)' = Refunds(o) \union Generations(tx[s].rows, "refund", o)
      /\ Debits(o)' = Debits(o) \union Generations(tx[s].rows, "debit", o)
  BY <1>1, MergedGenerations DEF Refunds, Debits
<1>3. ASSUME NEW g
      PROVE  g \in Generations(tx[s].rows, "refund", o)
               <=> GivesBack(tx[s]) /\ o = tx[s].order /\ g = tx[s].gen
  BY <1>1, GenerationsMember DEF Moves, Knows, Certain, GivesBack
<1>4. ASSUME NEW g
      PROVE  g \in Generations(tx[s].rows, "debit", o)
               <=> Pays(tx[s]) /\ o = tx[s].order /\ g = tx[s].gen
  BY <1>1, GenerationsMember DEF Moves, Knows, Certain, Pays
<1>5. Generations(tx[s].rows, "refund", o)
        = IF GivesBack(tx[s]) /\ o = tx[s].order THEN {tx[s].gen} ELSE {}
  BY <1>3
<1>6. Generations(tx[s].rows, "debit", o)
        = IF Pays(tx[s]) /\ o = tx[s].order THEN {tx[s].gen} ELSE {}
  BY <1>4
<1> QED  BY <1>2, <1>5, <1>6

\* At the generation its refunds have come to, an order is held exactly when
\* that generation is debited.
LEMMA AtGeneration ==
    ASSUME CreditAssumption, IInv, NEW o \in Orders, RefundOwed(o),
           NEW g \in Nat, Refunds(o) = Below(g)
    PROVE  /\ Held(o) => Debits(o) = Below(g + 1)
           /\ g \notin Debits(o) => Debits(o) = Below(g)
<1>1. PICK n \in Nat : /\ Refunds(o) = Below(n)
                       /\ Held(o) => Debits(o) = Below(n + 1)
                       /\ ~Held(o) => Debits(o) = Below(n)
  BY Position
<1>2. n = g
  BY <1>1 DEF Below
<1>3. g \in Below(g + 1)
  BY DEF Below
<1> QED  BY <1>1, <1>2, <1>3

\* A commit contests at most the order it refunds, and leaves that order alone only
\* where every other transaction of it has yet to read its position.
LEMMA CommitContests ==
    ASSUME IInv, NEW s \in Sessions, Commit(s)
    PROVE  /\ ~GivesBack(tx[s]) => contested' = contested
           /\ GivesBack(tx[s]) =>
                contested' \in {contested, contested \union {tx[s].order}}
           /\ \A x \in Sessions \ {s} :
                /\ GivesBack(tx[s]) /\ tx[s].order \in Orders \ contested'
                /\ tx[x].order = tx[s].order
                => tx[x].pc \in {"open", "mint", "state", "net", "settle_net"}
<1>1. contested' = contested \union Contests(s)
  BY DEF Commit
<1>2. ~GivesBack(tx[s]) => Contests(s) = {}
  BY DEF Contests, Restores, GivesBack
<1>3. Contests(s) \subseteq {tx[s].order}
  BY DEF Contests
<1>4. ASSUME NEW x \in Sessions \ {s}, GivesBack(tx[s]),
             tx[s].order \in Orders \ contested', tx[x].order = tx[s].order
      PROVE  tx[x].pc \in {"open", "mint", "state", "net", "settle_net"}
  <2>1. tx[s].order \notin Contests(s)
    BY <1>1, <1>4
  <2> QED  BY <1>4, <2>1 DEF Contests, Restores, Relies, GivesBack
<1> QED  BY <1>1, <1>2, <1>3, <1>4

LEMMA PromiseCommit ==
    ASSUME CreditAssumption, IInv, PromiseInv, NEW s \in Sessions, Commit(s)
    PROVE  PromiseInv'
<1>0. /\ tx[s] \in Tx /\ tx[s].pc = "commit"
      /\ Course(tx[s]) /\ Moves(tx[s]) /\ Knows(tx[s])
      /\ tx'[s] = Idle /\ \A x \in Sessions \ {s} : tx'[x] = tx[x]
      /\ contested \subseteq contested'
  BY DEF IInv, TypeOK, PromiseInv, PromiseTx, Commit, At
<1>1. RefundsMatchDebits'
  <2> SUFFICES ASSUME NEW o \in Orders, o \notin contested'
               PROVE  Refunds(o)' \subseteq Debits(o)'
    BY DEF RefundsMatchDebits, RefundOwed, Refunds, Debits
  <2>1. o \notin contested /\ RefundOwed(o) /\ Refunds(o) \subseteq Debits(o)
    BY <1>0 DEF PromiseInv, RefundsMatchDebits, RefundOwed, Refunds, Debits
  <2>2. CASE GivesBack(tx[s]) /\ o = tx[s].order
    <3>1. Refunds(o) = Below(tx[s].gen) /\ Held(o) /\ tx[s].gen \in Nat
      BY <1>0, <2>1, <2>2 DEF Knows, Current, GivesBack, Tx
    <3>2. Debits(o) = Below(tx[s].gen + 1)
      BY <2>1, <3>1, AtGeneration
    <3>3. tx[s].gen \in Debits(o)
      BY <3>1, <3>2, BelowGrows
    <3> QED  BY <2>1, <3>3, CommitRows
  <2>3. CASE ~(GivesBack(tx[s]) /\ o = tx[s].order)
    BY <2>1, <2>3, CommitRows
  <2> QED  BY <2>2, <2>3
<1>3. ASSUME NEW x \in Sessions
      PROVE  PromiseTx(tx[x])'
  <2>1. CASE x = s
    <3>1. tx'[x] = Idle
      BY <1>0, <2>1
    <3> QED
      BY <3>1 DEF PromiseTx, Course, Moves, Knows, Certain, Current, Idle, ChargeSteps,
                  SettleSteps
  <2>2. CASE x # s
    <3>1. PICK t : t = tx[x] /\ t = tx'[x]
      BY <1>0, <2>2
    <3>2. Course(t) /\ Moves(t) /\ Knows(t)
      <4>1. PromiseTx(tx[x])
        BY DEF PromiseInv
      <4> QED  BY <3>1, <4>1 DEF PromiseTx
    <3>3. PICK o : o = t.order
      OBVIOUS
    <3>4. Debits(o) \subseteq Debits(o)'
      BY CommitRows
    <3>5. ASSUME NEW r \in t.rows, r.key = <<"debit", o, t.gen>>, t.gen \notin Debits(o)
          PROVE  t.gen \notin Debits(o)'
      <4> SUFFICES ASSUME t.gen \in Debits(o)'
                   PROVE  FALSE
        OBVIOUS
      <4>1. Pays(tx[s]) /\ o = tx[s].order /\ t.gen = tx[s].gen
        BY <3>5, CommitRows
      <4>2. PICK q \in tx[s].rows : q.key = <<"debit", tx[s].order, tx[s].gen>>
        BY <1>0, <4>1 DEF Knows, Certain, Pays
      <4> QED  BY <2>2, <3>1, <3>5, <4>1, <4>2 DEF IInv, KeysApart
    <3>6. Certain(t)'
      BY <3>2, <3>3, <3>5 DEF Knows, Certain
    <3>7. ASSUME o \notin contested'
          PROVE  Current(t)'
      <4>1. Current(t)
        BY <1>0, <3>2, <3>3, <3>7 DEF Knows
      <4>2. CASE GivesBack(tx[s]) /\ o = tx[s].order
        <5>1. o \in Orders
          BY <1>0, <4>2 DEF Course, GivesBack
        <5>2. t.pc \in {"open", "mint", "state", "net", "settle_net"}
          BY <2>2, <3>1, <3>3, <3>7, <4>2, <5>1, CommitContests
        <5>3. t.answer \notin {"charged", "already_paid", "settled"}
          BY <3>2, <5>2 DEF Course
        <5> QED  BY <5>2, <5>3 DEF Current, SettleSteps
      <4>3. CASE ~(GivesBack(tx[s]) /\ o = tx[s].order)
        <5>1. Refunds(o)' = Refunds(o) \union {}
          BY <4>3, CommitRows
        <5>2. Refunds(o)' = Refunds(o) /\ (Held(o) => Held(o)')
          BY <3>4, <5>1 DEF Held
        <5> QED  BY <3>3, <4>1, <5>2 DEF Current
      <4> QED  BY <4>2, <4>3
    <3>8. Course(t)' /\ Moves(t)'
      BY <3>2 DEF Course, Moves
    <3>9. PromiseTx(t)'
      BY <3>3, <3>6, <3>7, <3>8 DEF PromiseTx, Knows
    <3> QED  BY <3>1, <3>9 DEF PromiseTx, Course, Moves, Knows, Certain, Current
  <2> QED  BY <2>1, <2>2
<1> QED  BY <1>1, <1>3 DEF PromiseInv

LEMMA PromiseNext ==
    ASSUME CreditAssumption, IInv, PromiseInv, [Next]_vars
    PROVE  PromiseInv'
<1>1. ASSUME NEW s \in Sessions, BeginSome(s) \/ ChargeStep(s) \/ SettleStep(s)
      PROVE  PromiseInv'
  BY <1>1, PromiseBegin, PromiseCharge, PromiseSettle
<1>2. ASSUME NEW s \in Sessions,
             \/ WriteGrant(s) \/ GrantAgain(s) \/ AnonymiseRows(s) \/ DeleteAccount(s)
             \/ Commit(s) \/ Abort(s)
      PROVE  PromiseInv'
  BY <1>2, PromiseOther, PromiseCommit
<1>3. CASE (\E u \in Users : PlanSale(u)) \/ NextWindow \/ UNCHANGED vars
  <2>1. UNCHANGED <<ledger, tx, contested>>
    BY <1>3 DEF PlanSale, NextWindow, vars, history
  <2>2. \A o : /\ Refunds(o)' = Refunds(o) /\ Debits(o)' = Debits(o)
               /\ RefundOwed(o)' = RefundOwed(o)
    BY <2>1 DEF Refunds, Debits, RefundOwed
  <2>3. RefundsMatchDebits'
    BY <2>1, <2>2 DEF PromiseInv, RefundsMatchDebits
  <2>4. ASSUME NEW s \in Sessions
        PROVE  PromiseTx(tx[s])'
    <3>1. PromiseTx(tx[s])
      BY DEF PromiseInv
    <3>2. PICK t : t = tx[s] /\ t = tx[s]'
      BY <2>1
    <3>3. Course(t)' /\ Moves(t)'
      BY <3>1, <3>2 DEF PromiseTx, Course, Moves
    <3>4. Knows(t)'
      BY <2>1, <2>2, <3>1, <3>2 DEF PromiseTx, Knows, Certain, Current, Held
    <3> QED  BY <3>2, <3>3, <3>4 DEF PromiseTx, Course, Moves, Knows, Certain, Current
  <2> QED  BY <2>3, <2>4 DEF PromiseInv
<1> QED  BY <1>1, <1>2, <1>3 DEF Next

LEMMA PromiseInit == CreditAssumption /\ Init => PromiseInv
<1> SUFFICES ASSUME CreditAssumption, Init
             PROVE  PromiseInv
  OBVIOUS
<1>1. \A o : Refunds(o) = {}
  BY DEF Init, Refunds, Generations
<1>2. RefundsMatchDebits
  BY <1>1 DEF RefundsMatchDebits, RefundOwed, Refunds
<1>3. PromiseTx(Idle)
  BY DEF PromiseTx, Course, Moves, Knows, Certain, Current, Idle, ChargeSteps, SettleSteps
<1> QED  BY <1>2, <1>3 DEF Init, PromiseInv

LEMMA Promise == Spec => []PromiseInv
<1>1. CreditAssumption
  BY CreditAssumption
<1>2. Init => PromiseInv
  BY <1>1, PromiseInit
<1>3. IInv /\ PromiseInv /\ [Next]_vars => PromiseInv'
  BY <1>1, PromiseNext
<1> QED  BY <1>2, <1>3, Invariance, PTL DEF Spec

\* No settlement mints a credit: a refund gives back a credit that was taken,
\* whatever overlaps, for every order but those refunded while another transaction
\* had read their position (the run double_refund shows what becomes of one).
THEOREM RefundsAreOwed == Spec => []RefundsMatchDebits
<1>1. PromiseInv => RefundsMatchDebits
  BY DEF PromiseInv
<1> QED  BY <1>1, Promise, PTL

\* An answer that lets a render through leaves its order at minus one cost: the
\* debit it commits, or the one it read, is not settled before it commits.
LEMMA AnswerHolds ==
    ASSUME CreditAssumption, IInv, PromiseInv, NEW s \in Sessions, Commit(s),
           tx[s].answer \in {"charged", "already_paid"}, tx[s].order \notin contested
    PROVE  NetPosition(ledger', tx[s].order) < 0
<1>0. /\ tx[s] \in Tx /\ Course(tx[s]) /\ Certain(tx[s]) /\ Current(tx[s])
      /\ ~GivesBack(tx[s])
  BY DEF IInv, TypeOK, PromiseInv, PromiseTx, Knows, GivesBack
<1>1. PICK o \in Orders : o = tx[s].order /\ RefundOwed(o)
  BY <1>0 DEF Course, PromiseInv, RefundsMatchDebits
<1>2. Cost \in Nat /\ Cost > 0
  BY DEF CreditAssumption
<1>3. \E n \in Nat : Refunds(o)' = Below(n) /\ Debits(o)' = Below(n + 1)
  <2>1. CASE tx[s].answer = "charged"
    <3>1. PICK g \in Nat : /\ g = tx[s].gen /\ Refunds(o) = Below(g)
                           /\ g \notin Debits(o)
      BY <1>0, <1>1, <2>1 DEF Certain, Current, Tx
    <3>2. Debits(o) = Below(g)
      BY <1>1, <3>1, AtGeneration
    <3>3. Refunds(o)' = Refunds(o) /\ Debits(o)' = Debits(o) \union {g}
      BY <1>0, <1>1, <2>1, <3>1, CommitRows DEF Pays
    <3> QED  BY <3>1, <3>2, <3>3, BelowGrows
  <2>2. CASE tx[s].answer = "already_paid"
    <3>1. Held(o)
      BY <1>0, <1>1, <2>2 DEF Current
    <3>2. Refunds(o)' = Refunds(o) /\ Debits(o)' = Debits(o)
      <4>1. ~Pays(tx[s]) /\ ~GivesBack(tx[s])
        BY <1>0, <2>2 DEF Pays
      <4>2. /\ Refunds(o)' = Refunds(o) \union
                  (IF GivesBack(tx[s]) /\ o = tx[s].order THEN {tx[s].gen} ELSE {})
            /\ Debits(o)' = Debits(o) \union
                  (IF Pays(tx[s]) /\ o = tx[s].order THEN {tx[s].gen} ELSE {})
        BY CommitRows
      <4> QED  BY <4>1, <4>2
    <3>3. PICK n \in Nat : Refunds(o) = Below(n) /\ (Held(o) => Debits(o) = Below(n + 1))
      BY <1>1, Position
    <3> QED  BY <3>1, <3>2, <3>3
  <2> QED  BY <2>1, <2>2
<1>4. PICK n \in Nat : Refunds(o)' = Below(n) /\ Debits(o)' = Below(n + 1)
  BY <1>3
<1>5. NetPosition(ledger', o) = Cost * (n - (n + 1))
  <2>1. n + 1 \in Nat
    OBVIOUS
  <2> QED  BY <1>4, <2>1, NetOf DEF Refunds, Debits
<1> QED  BY <1>1, <1>2, <1>5

\* A charge that answers charged or already paid has a paid order when it
\* commits, unless a refund of the order has come between its probe and its
\* commit, or the order was doubly settled before.
THEOREM AnswersArePaid == Spec => AnswerMeansPaid
<1>1. CreditAssumption
  BY CreditAssumption
<1>2. IInv /\ PromiseInv /\ [Next]_vars =>
        [\A s \in Sessions :
            /\ Commit(s) /\ tx[s].answer \in {"charged", "already_paid"}
            /\ tx[s].order \notin contested
            => NetPosition(ledger', tx[s].order) < 0]_vars
  BY <1>1, AnswerHolds
<1> QED  BY <1>2, Invariance, Promise, PTL DEF Spec, AnswerMeansPaid

-----------------------------------------------------------------------------
\* The refinement. What the mapping of Payment makes of a state, by name.
Wallet == [u \in Users |-> account[u].balance]
Charged == [o \in Orders |-> Cardinality(Generations(ledger, "debit", o))]
Refunded == [o \in Orders |-> Generation(ledger, o)]

LEMMA PaymentQuiet ==
    ASSUME UNCHANGED <<account, ledger, contested>>
    PROVE  UNCHANGED Payment!vars
BY DEF Payment!vars, Generation, Generations

\* The committed account of the transaction's owner, after it.
LEMMA CommitWallet ==
    ASSUME CreditAssumption, LockInv, LockInv', NEW s \in Sessions, Commit(s)
    PROVE  /\ tx[s].user \in Users
           /\ Wallet' = [Wallet EXCEPT ![tx[s].user] = account'[tx[s].user].balance]
           /\ account'[tx[s].user].balance \in Nat
           /\ account[tx[s].user].balance \in Nat
           /\ account'[tx[s].user].balance =
                IF tx[s].deleted THEN 0 ELSE account[tx[s].user].balance + tx[s].credit
<1>1. tx[s].user \in Users /\ account \in [Users -> Account] /\ account' \in [Users -> Account]
  BY DEF LockInv, IInv, TypeOK, TxInv, Commit, At
<1>2. PICK u \in Users : u = tx[s].user
  BY <1>1
<1>3. account' = [account EXCEPT ![u] = AccountAfter(s, @)]
  BY <1>2 DEF Commit
<1>4. Wallet' = [Wallet EXCEPT ![u] = account'[u].balance]
  BY <1>1, <1>3 DEF Wallet
<1>5. account'[u].balance \in Nat /\ account[u].balance \in Nat
  <2>1. account'[u].balance \in Int /\ account[u].balance \in Int
    BY <1>1 DEF Account
  <2> QED  BY <2>1 DEF LockInv
<1>6. account'[u].balance =
        IF tx[s].deleted THEN 0 ELSE account[u].balance + tx[s].credit
  <2>1. account'[u] = AccountAfter(s, account[u])
    BY <1>1, <1>3
  <2> QED  BY <2>1 DEF AccountAfter, NoAccount
<1> QED  BY <1>2, <1>4, <1>5, <1>6

\* Counting the generations of an order whose rows are a segment.
LEMMA Counted ==
    ASSUME NEW rows, NEW o, NEW n \in Nat
    PROVE  /\ Generations(rows, "debit", o) = Below(n)
                => Cardinality(Generations(rows, "debit", o)) = n
           /\ Generations(rows, "refund", o) = Below(n) => Generation(rows, o) = n
BY BelowCount DEF Generation

LEMMA CommitRefines ==
    ASSUME CreditAssumption, LockInv, LockInv', PromiseInv, NEW s \in Sessions, Commit(s)
    PROVE  [Payment!Next]_(Payment!vars)
<1>0. /\ tx[s] \in Tx /\ Course(tx[s]) /\ Moves(tx[s]) /\ Knows(tx[s])
      /\ TxInv(tx[s]) /\ IInv /\ IInv' /\ RefundsMatchDebits /\ Cost \in Nat
  BY DEF LockInv, IInv, TypeOK, PromiseInv, PromiseTx, CreditAssumption
<1>1. PICK u \in Users, w \in Nat :
        /\ u = tx[s].user /\ w = account'[u].balance /\ account[u].balance \in Nat
        /\ Wallet' = [Wallet EXCEPT ![u] = w]
        /\ w = IF tx[s].deleted THEN 0 ELSE account[u].balance + tx[s].credit
  BY CommitWallet
<1>2. Wallet[u] = account[u].balance /\ Wallet'[u] = w
  BY <1>1 DEF Wallet
<1>3. ASSUME NEW o
      PROVE  /\ ~(GivesBack(tx[s]) /\ o = tx[s].order) =>
                   Generation(ledger', o) = Generation(ledger, o)
             /\ ~(Pays(tx[s]) /\ o = tx[s].order) =>
                   Cardinality(Generations(ledger', "debit", o))
                     = Cardinality(Generations(ledger, "debit", o))
  BY <1>0, CommitRows DEF Refunds, Debits, Generation
<1>4. CASE Pays(tx[s])
  <2>1. PICK o \in Orders : o = tx[s].order /\ u = Owner[o] /\ ~tx[s].deleted
    BY <1>0, <1>1, <1>4 DEF Course, Pays
  <2>2. Debits(o)' = Debits(o) \union {tx[s].gen} /\ tx[s].gen \notin Debits(o)
    BY <1>0, <1>4, <2>1, CommitRows DEF Knows, Certain, Pays
  <2>3. Cardinality(Debits(o)') = Cardinality(Debits(o)) + 1
    <3>1. IsFiniteSet(Debits(o))
      BY <1>0, DebitsBounded DEF IInv
    <3> QED  BY <2>2, <3>1, FS_AddElement
  <2>4. Charged[o] <= Refunded[o] /\ Charged'[o] = Charged[o] + 1
    <3>1. Cardinality(Debits(o)) \in Nat
      BY <1>0, DebitsBounded DEF IInv
    <3>2. Cardinality(Debits(o)') <= Generation(ledger', o) + 1
      <4>1. NeverDoubleCharged'
        BY <1>0, Once, PTL
      <4> QED  BY <4>1 DEF NeverDoubleCharged, Debits
    <3>3. Generation(ledger', o) = Generation(ledger, o) /\ Generation(ledger, o) \in Nat
      BY <1>0, <1>3, <1>4, GenerationIsNext DEF IInv, GivesBack, Pays
    <3> QED  BY <2>3, <3>1, <3>2, <3>3 DEF Charged, Refunded, Debits
  <2>5. Charged' = [Charged EXCEPT ![o] = @ + 1]
    BY <1>3, <2>1, <2>4 DEF Charged
  <2>6. Refunded' = Refunded
    BY <1>3, <1>4 DEF Refunded, GivesBack, Pays
  <2>7. w >= Wallet[u] - Cost
    <3>1. tx[s].credit >= -Cost
      BY <1>0, <1>4 DEF Moves, Pays
    <3>2. tx[s].credit \in Int
      BY <1>0 DEF Tx
    <3>3. w = Wallet[u] + tx[s].credit
      BY <1>1, <1>2, <2>1
    <3> QED  BY <1>0, <1>1, <1>2, <3>1, <3>2, <3>3
  <2>8. contested' = contested
    BY <1>0, <1>4, CommitContests DEF GivesBack, Pays
  <2>9. Payment!Pay(o)
    BY <1>1, <1>2, <2>1, <2>4, <2>5, <2>6, <2>7, <2>8
    DEF Payment!Pay, Payment!Holds, Wallet, Charged, Refunded
  <2> QED  BY <2>9 DEF Payment!Next
<1>5. CASE GivesBack(tx[s])
  <2>1. PICK o \in Orders : o = tx[s].order /\ u = Owner[o] /\ ~tx[s].deleted
    BY <1>0, <1>1, <1>5 DEF Course, GivesBack
  <2>2. PICK g \in Nat : g = tx[s].gen /\ Refunds(o) = Below(g)
    <3>1. PICK r \in tx[s].rows : r.key = <<"refund", o, tx[s].gen>>
      BY <1>0, <1>5, <2>1 DEF Knows, Certain, GivesBack
    <3>2. Refunds(o) = Below(tx[s].gen)
      BY <1>0, <3>1 DEF TxInv, RefundIsNext
    <3> QED  BY <1>0, <3>2 DEF Tx
  <2>3. Refunds(o)' = Below(g + 1)
    BY <1>0, <1>5, <2>1, <2>2, CommitRows, BelowGrows
  <2>4. Refunded[o] = g /\ Refunded'[o] = g + 1
    <3>1. g + 1 \in Nat
      OBVIOUS
    <3>2. Refunded[o] = g
      BY <2>2, Counted DEF Refunded, Refunds
    <3>3. Generation(ledger', o) = g + 1
      BY <2>3, <3>1, Counted DEF Refunds
    <3> QED  BY <3>2, <3>3 DEF Refunded
  <2>5. Refunded' = [Refunded EXCEPT ![o] = @ + 1]
    BY <1>3, <2>1, <2>4 DEF Refunded
  <2>6. Charged' = Charged
    BY <1>3, <1>5 DEF Charged, GivesBack, Pays
  <2>7. w = Wallet[u] + Cost
    BY <1>0, <1>1, <1>2, <1>5, <2>1 DEF Moves, GivesBack
  <2>8. o \in contested \/ Charged[o] = Refunded[o] + 1
    <3> SUFFICES ASSUME o \notin contested
                 PROVE  Charged[o] = g + 1
      BY <2>4
    <3>1. Held(o) /\ RefundOwed(o)
      BY <1>0, <1>5, <2>1 DEF Knows, Current, GivesBack, RefundsMatchDebits
    <3>2. Debits(o) = Below(g + 1) /\ g + 1 \in Nat
      BY <1>0, <2>2, <3>1, AtGeneration
    <3> QED  BY <3>2, Counted DEF Charged, Debits
  <2>9. contested' \in {contested, contested \union {o}}
    BY <1>0, <1>5, <2>1, CommitContests
  <2>10. Payment!Refund(o)
    BY <1>1, <1>2, <2>1, <2>4, <2>5, <2>6, <2>7, <2>8, <2>9
    DEF Payment!Refund, Payment!Paid, Payment!Holds, Wallet, Charged, Refunded
  <2> QED  BY <2>10 DEF Payment!Next
<1>6. CASE ~Pays(tx[s]) /\ ~GivesBack(tx[s])
  <2>1. Charged' = Charged /\ Refunded' = Refunded /\ contested' = contested
    BY <1>0, <1>3, <1>6, CommitContests DEF Charged, Refunded
  <2>2. CASE tx[s].deleted
    <3>1. Payment!Forget(u)
      BY <1>1, <2>1, <2>2 DEF Payment!Forget, Payment!Holds, Wallet, Charged, Refunded
    <3> QED  BY <3>1 DEF Payment!Next
  <2>3. CASE ~tx[s].deleted
    <3>1. w >= Wallet[u]
      <4>1. tx[s].credit >= 0
        BY <1>0, <1>6 DEF Moves, Pays
      <4>2. tx[s].credit \in Int
        BY <1>0 DEF Tx
      <4>3. w = Wallet[u] + tx[s].credit
        BY <1>1, <1>2, <2>3
      <4> QED  BY <1>1, <1>2, <4>1, <4>2, <4>3
    <3>2. CASE w > Wallet[u]
      <4>1. Payment!Gain(u)
        BY <1>1, <1>2, <2>1, <3>2 DEF Payment!Gain, Payment!Holds, Wallet, Charged, Refunded
      <4> QED  BY <4>1 DEF Payment!Next
    <3>3. CASE w = Wallet[u]
      <4>1. Wallet' = Wallet
        BY <1>1, <3>3 DEF Wallet
      <4> QED  BY <2>1, <4>1 DEF Payment!vars, Wallet, Charged, Refunded
    <3> QED  BY <1>1, <1>2, <3>1, <3>2, <3>3
  <2> QED  BY <2>2, <2>3
<1> QED  BY <1>4, <1>5, <1>6

LEMMA PaymentInit == ASSUME Init PROVE Payment!Init
<1>1. \A o \in Orders : Generations(ledger, "debit", o) = {}
                        /\ Generations(ledger, "refund", o) = {}
  BY DEF Init, Generations
<1>2. Cardinality({}) = 0
  BY FS_EmptySet
<1>3. \A u \in Users : account[u].balance = 0
  BY DEF Init, NoAccount
<1>4. contested = {}
  BY DEF Init
<1> QED  BY <1>1, <1>2, <1>3, <1>4 DEF Payment!Init, Generation

LEMMA PaymentNext ==
    ASSUME CreditAssumption, LockInv, LockInv', PromiseInv, [Next]_vars
    PROVE  [Payment!Next]_(Payment!vars)
<1>1. ASSUME NEW s \in Sessions, Commit(s)
      PROVE  [Payment!Next]_(Payment!vars)
  BY <1>1, CommitRefines
<1>2. ASSUME UNCHANGED <<account, ledger, contested>>
      PROVE  [Payment!Next]_(Payment!vars)
  BY <1>2, PaymentQuiet
<1>3. ASSUME NEW s \in Sessions, BeginSome(s)
      PROVE  UNCHANGED <<account, ledger, contested>>
  BY <1>3 DEF BeginSome, BeginCharge, BeginSettle, BeginGrant, BeginForget, Become, history
<1>4. ASSUME NEW s \in Sessions, ChargeStep(s)
      PROVE  UNCHANGED <<account, ledger, contested>>
  BY <1>4 DEF ChargeStep, OpenAccount, MintNothing, MintAllowance, ReadState, RefuseBarred,
      AlreadyPaid, RefuseStacked, MayRender, ReadPlan, ClaimPlanSong, LosePlanSong,
      ReadGeneration, WriteDebit, LoseDebit, TakePayment, RefuseInsufficient,
      CoverShortfall, Goto, Answer, Rollback, Become, history
<1>5. ASSUME NEW s \in Sessions, SettleStep(s)
      PROVE  UNCHANGED <<account, ledger, contested>>
  BY <1>5 DEF SettleStep, HoldsCredit, HoldsNothing, AccountThere, AccountErased,
      SettleGeneration, WriteRefund, WriteConsume, LoseSettlement, Goto, Answer,
      Rollback, Become, history
<1>6. ASSUME NEW s \in Sessions,
             \/ WriteGrant(s) \/ GrantAgain(s) \/ AnonymiseRows(s) \/ DeleteAccount(s)
             \/ Abort(s)
      PROVE  UNCHANGED <<account, ledger, contested>>
  BY <1>6 DEF WriteGrant, GrantAgain, AnonymiseRows, DeleteAccount, Abort, Answer,
      Rollback, Become, history
<1>7. (\E u \in Users : PlanSale(u)) \/ NextWindow \/ UNCHANGED vars
        => UNCHANGED <<account, ledger, contested>>
  BY DEF PlanSale, NextWindow, vars, history
<1> QED  BY <1>1, <1>2, <1>3, <1>4, <1>5, <1>6, <1>7 DEF Next

\* Every transaction of the ledger takes effect as one step of OrderPayment, or
\* as none, whatever overlaps: a commit that charged pays once out of what is
\* there, a settlement gives back what is held or was contested, an erasure
\* forgets the wallet, and every other commit only adds to one.
THEOREM LedgerKeepsThePromise == Spec => ImplementsPayment
<1>1. CreditAssumption
  BY CreditAssumption
<1>2. Init => Payment!Init
  BY PaymentInit
<1>3. LockInv /\ LockInv' /\ PromiseInv /\ [Next]_vars => [Payment!Next]_(Payment!vars)
  BY <1>1, PaymentNext
<1> QED
  BY <1>2, <1>3, Locks, Promise, PTL DEF Spec, ImplementsPayment, Payment!Spec

\* So an order of the ledger is never paid for twice at a time, and one that is not
\* contested is, in every state, unpaid or paid for once.
THEOREM PaidAtMostOnce == Spec => []Payment!PaidOnce
<1>1. CreditAssumption
  BY CreditAssumption
<1>2. IInv /\ PromiseInv => Payment!PaidOnce
  <2> SUFFICES ASSUME IInv, PromiseInv, NEW o \in Orders
               PROVE  /\ Charged[o] <= Refunded[o] + 1
                      /\ o \notin contested => Refunded[o] <= Charged[o]
    BY DEF Payment!PaidOnce, Charged, Refunded
  <2>1. Charged[o] <= Refunded[o] + 1
    BY DebitsBounded DEF IInv, Charged, Refunded, Debits
  <2>2. ASSUME o \notin contested
        PROVE  Refunded[o] <= Charged[o]
    <3>1. PICK n \in Nat : /\ Refunds(o) = Below(n) /\ Generation(ledger, o) = n
                           /\ Debits(o) = Below(n + 1) \/ Debits(o) = Below(n)
      BY <1>1, <2>2, Position DEF PromiseInv, RefundsMatchDebits
    <3>2. n + 1 \in Nat
      OBVIOUS
    <3>3. Charged[o] \in {n, n + 1} /\ Refunded[o] = n
      BY <3>1, <3>2, Counted DEF Charged, Refunded, Debits
    <3> QED  BY <3>3
  <2> QED  BY <2>1, <2>2
<1> QED  BY <1>2, Invariance, Promise, PTL

-----------------------------------------------------------------------------
\* Sums. SumDelta folds over the rows it chooses first, and what is wanted of it
\* is that the order makes no difference. Induction on the number of rows is had
\* from the least element of a set of numbers: of the sets of rows for which a
\* law failed, one of the fewest rows would give a smaller one.
LEMMA LeastNat ==
    ASSUME NEW T, T \subseteq Nat, T # {}
    PROVE  \E x \in T : \A y \in T : x <= y
<1>1. \E R : IsWellFoundedOn(R, Nat) /\ R = {ss \in Nat \X Nat : ss[1] < ss[2]}
  <2>1. OpToRel(<, Nat) = {ss \in Nat \X Nat : ss[1] < ss[2]}
    BY DEF OpToRel
  <2>2. IsWellFoundedOn({ss \in Nat \X Nat : ss[1] < ss[2]}, Nat)
    BY <2>1, NatLessThanWellFounded, Zenon
  <2> QED  BY <2>2, Zenon
<1>2. PICK R : IsWellFoundedOn(R, Nat) /\ R = {ss \in Nat \X Nat : ss[1] < ss[2]}
  BY <1>1
<1>3. \E x \in T : \A y \in T : ~(<<y, x>> \in R)
  BY <1>2, WFMin, Zenon
<1>4. \A x, y \in Nat : y < x => <<y, x>> \in R
  <2> SUFFICES ASSUME NEW x \in Nat, NEW y \in Nat, y < x
               PROVE  <<y, x>> \in {ss \in Nat \X Nat : ss[1] < ss[2]}
    BY <1>2
  <2> QED  OBVIOUS
<1>5. PICK x \in T : \A y \in T : ~(<<y, x>> \in R)
  BY <1>3
<1>6. \A y \in T : ~(y < x)
  BY <1>4, <1>5
<1> QED  BY <1>5, <1>6

\* One step of the sum, over what is chosen first.
First(rows) == CHOOSE r \in rows : TRUE
Rec(rows, f) ==
    IF rows = {} THEN 0 ELSE First(rows).delta + f[rows \ {First(rows)}]
Sums(f, S) == DOMAIN f = SUBSET S /\ \A T \in SUBSET S : f[T] = Rec(T, f)
Summable(S) == IsFiniteSet(S) /\ \A r \in S : r.delta \in Int

LEMMA FirstIs == ASSUME NEW S, S # {} PROVE First(S) \in S
BY DEF First

LEMMA LessOne ==
    ASSUME NEW S, IsFiniteSet(S), NEW r \in S
    PROVE  /\ IsFiniteSet(S \ {r}) /\ Cardinality(S) \in Nat /\ Cardinality(S \ {r}) \in Nat
           /\ Cardinality(S \ {r}) = Cardinality(S) - 1
BY FS_RemoveElement, FS_CardinalityType

LEMMA SubsetFinite ==
    ASSUME NEW S, IsFiniteSet(S), NEW T \in SUBSET S
    PROVE  /\ IsFiniteSet(T) /\ Cardinality(T) \in Nat /\ Cardinality(T) <= Cardinality(S)
           /\ Cardinality(S) \in Nat
           /\ Cardinality(T) = 0 <=> T = {}
BY FS_Subset, FS_CardinalityType, FS_EmptySet

\* Two such functions agree where both are defined.
LEMMA SumUnique ==
    ASSUME NEW S, IsFiniteSet(S), NEW R, NEW f, NEW g, Sums(f, S), Sums(g, R),
           NEW T \in SUBSET S, T \in SUBSET R
    PROVE  f[T] = g[T]
<1> SUFFICES ASSUME f[T] # g[T] PROVE FALSE
  OBVIOUS
<1> DEFINE Bad == {Q \in (SUBSET S) \cap (SUBSET R) : f[Q] # g[Q]}
           N == {Cardinality(Q) : Q \in Bad}
<1>1. \A Q \in Bad : IsFiniteSet(Q) /\ Cardinality(Q) \in Nat
  BY SubsetFinite
<1>2. T \in Bad
  OBVIOUS
<1>3. N \subseteq Nat /\ N # {}
  BY <1>1, <1>2
<1>4. PICK n \in N : \A m \in N : n <= m
  BY <1>3, LeastNat
<1>5. PICK Q \in Bad : n = Cardinality(Q)
  BY <1>4
<1>6. f[Q] = Rec(Q, f) /\ g[Q] = Rec(Q, g) /\ f[Q] # g[Q]
  BY <1>5 DEF Sums
<1>7. Q # {}
  BY <1>6 DEF Rec
<1> DEFINE P == Q \ {First(Q)}
<1>8. First(Q) \in Q /\ P \in (SUBSET S) \cap (SUBSET R)
  BY <1>5, <1>7, FirstIs
<1>9. f[P] # g[P]
  BY <1>6, <1>7 DEF Rec
<1>10. P \in Bad /\ Cardinality(P) = n - 1
  BY <1>1, <1>5, <1>8, <1>9, LessOne
<1>11. n <= n - 1 /\ n \in Nat
  BY <1>3, <1>4, <1>10
<1> QED  BY <1>11

LEMMA SumExists ==
    ASSUME NEW S, Summable(S)
    PROVE  \E f \in [SUBSET S -> Int] : Sums(f, S)
<1> DEFINE Small(n) == {T \in SUBSET S : Cardinality(T) <= n}
           Good(n) == \E f \in [Small(n) -> Int] : \A T \in Small(n) : f[T] = Rec(T, f)
           Bad == {n \in Nat : ~Good(n)}
<1>0. \A T \in SUBSET S : /\ IsFiniteSet(T) /\ Cardinality(T) \in Nat
                          /\ Cardinality(T) <= Cardinality(S)
                          /\ Cardinality(T) = 0 <=> T = {}
  BY SubsetFinite DEF Summable
<1>1. Good(0)
  <2> DEFINE f == [T \in Small(0) |-> 0]
  <2>1. \A T \in Small(0) : T = {}
    BY <1>0
  <2>2. \A T \in Small(0) : f[T] = Rec(T, f)
    BY <2>1 DEF Rec
  <2>3. f \in [Small(0) -> Int]
    OBVIOUS
  <2> HIDE DEF f
  <2> QED  BY <2>2, <2>3
<1>2. ASSUME NEW n \in Nat, Good(n)
      PROVE  Good(n + 1)
  <2>1. PICK f \in [Small(n) -> Int] : \A T \in Small(n) : f[T] = Rec(T, f)
    BY <1>2
  <2> DEFINE g == [T \in Small(n + 1) |-> IF T \in Small(n) THEN f[T] ELSE Rec(T, f)]
  <2>2. \A T \in Small(n + 1) : T # {} =>
           First(T) \in T /\ T \ {First(T)} \in Small(n) /\ First(T).delta \in Int
    <3> SUFFICES ASSUME NEW T \in Small(n + 1), T # {}
                 PROVE  First(T) \in T /\ T \ {First(T)} \in Small(n) /\ First(T).delta \in Int
      OBVIOUS
    <3>1. First(T) \in T
      BY FirstIs
    <3>2. Cardinality(T \ {First(T)}) = Cardinality(T) - 1 /\ Cardinality(T) \in Nat
      BY <1>0, <3>1, LessOne
    <3> QED  BY <3>1, <3>2 DEF Summable
  <2>3. \A T \in Small(n + 1) : Rec(T, f) \in Int
    BY <2>1, <2>2 DEF Rec
  <2>4. g \in [Small(n + 1) -> Int]
    BY <2>1, <2>3
  <2>5. \A T \in Small(n) : T \in Small(n + 1)
    BY <1>0
  <2>6. \A T \in Small(n + 1) : g[T] = Rec(T, f)
    BY <2>1
  <2>7. \A T \in Small(n) : g[T] = f[T]
    BY <2>5
  <2>8. \A T \in Small(n + 1) : Rec(T, g) = Rec(T, f)
    <3> HIDE DEF g, Small
    <3> QED  BY <2>2, <2>7 DEF Rec
  <2> HIDE DEF g
  <2>9. \A T \in Small(n + 1) : g[T] = Rec(T, g)
    BY <2>6, <2>8
  <2> QED  BY <2>4, <2>9
<1> HIDE DEF Good
<1>3. Bad = {}
  <2> SUFFICES ASSUME Bad # {} PROVE FALSE
    OBVIOUS
  <2>1. PICK n \in Bad : \A m \in Bad : n <= m
    BY LeastNat
  <2>2. n # 0
    BY <1>1
  <2>3. n - 1 \in Nat /\ n - 1 \notin Bad
    BY <2>1, <2>2
  <2>4. Good(n - 1)
    BY <2>3
  <2>5. Good((n - 1) + 1)
    BY <1>2, <2>3, <2>4
  <2> QED  BY <2>1, <2>5
<1>4. Good(Cardinality(S))
  BY <1>0, <1>3
<1>5. Small(Cardinality(S)) = SUBSET S
  BY <1>0
<1>6. PICK f \in [Small(Cardinality(S)) -> Int] :
         \A T \in Small(Cardinality(S)) : f[T] = Rec(T, f)
  BY <1>4 DEF Good
<1> QED  BY <1>5, <1>6 DEF Sums

\* What SumDelta is, with its fold unfolded.
LEMMA SumIs ==
    ASSUME NEW S
    PROVE  SumDelta(S) = (CHOOSE f : f = [T \in SUBSET S |-> Rec(T, f)])[S]
BY DEF SumDelta, MapThenSumSet, MapThenFoldSet, Rec, First

LEMMA SumBy ==
    ASSUME NEW S, Summable(S), NEW f, Sums(f, S), NEW T \in SUBSET S
    PROVE  SumDelta(T) = f[T]
<1>0. Summable(T)
  BY FS_Subset DEF Summable
<1> DEFINE h == CHOOSE g : g = [Q \in SUBSET T |-> Rec(Q, g)]
<1>1. PICK e \in [SUBSET T -> Int] : Sums(e, T)
  BY <1>0, SumExists
<1>2. e = [Q \in SUBSET T |-> Rec(Q, e)]
  BY <1>1 DEF Sums
<1>3. h = [Q \in SUBSET T |-> Rec(Q, h)]
  BY <1>2
<1>4. SumDelta(T) = h[T]
  BY SumIs
<1> HIDE DEF h
<1>5. Sums(h, T)
  BY <1>3 DEF Sums
<1>6. h[T] = f[T]
  BY <1>0, <1>5, SumUnique DEF Summable
<1> QED  BY <1>4, <1>6

\* In which order the rows are taken makes no difference.
AnyOrder(f, S) == \A T \in SUBSET S : \A x \in T : f[T] = x.delta + f[T \ {x}]

LEMMA AnyFirst ==
    ASSUME NEW S, Summable(S), NEW f, f \in [SUBSET S -> Int], Sums(f, S)
    PROVE  AnyOrder(f, S)
<1> SUFFICES ASSUME NEW T \in SUBSET S, NEW x \in T, f[T] # x.delta + f[T \ {x}]
             PROVE  FALSE
  BY DEF AnyOrder
<1> DEFINE Bad == {Q \in SUBSET S : \E y \in Q : f[Q] # y.delta + f[Q \ {y}]}
           N == {Cardinality(Q) : Q \in Bad}
<1>1. \A Q \in SUBSET S : IsFiniteSet(Q) /\ Cardinality(Q) \in Nat
  BY SubsetFinite DEF Summable
<1>2. T \in Bad
  OBVIOUS
<1>3. N \subseteq Nat /\ N # {}
  BY <1>1, <1>2
<1>4. PICK n \in N : \A m \in N : n <= m
  BY <1>3, LeastNat
<1>5. PICK Q \in Bad : n = Cardinality(Q)
  BY <1>4
<1>6. PICK y \in Q : f[Q] # y.delta + f[Q \ {y}]
  BY <1>5
<1>7. PICK r \in Q : f[Q] = r.delta + f[Q \ {r}]
  BY <1>5, <1>6, FirstIs DEF Sums, Rec
<1>8. r # y
  BY <1>6, <1>7
<1>9. \A P \in SUBSET Q : P # Q => \A z \in P : f[P] = z.delta + f[P \ {z}]
  <2> SUFFICES ASSUME NEW P \in SUBSET Q, P # Q, NEW z \in P, f[P] # z.delta + f[P \ {z}]
               PROVE  FALSE
    OBVIOUS
  <2>1. PICK w \in Q : w \notin P
    OBVIOUS
  <2>2. Cardinality(P) <= Cardinality(Q \ {w}) /\ Cardinality(Q \ {w}) = Cardinality(Q) - 1
    <3>1. IsFiniteSet(Q \ {w}) /\ Cardinality(Q \ {w}) = Cardinality(Q) - 1
      BY <1>1, <1>5, <2>1, LessOne
    <3>2. P \in SUBSET (Q \ {w})
      BY <2>1
    <3> QED  BY <3>1, <3>2, SubsetFinite
  <2>3. P \in Bad
    BY <1>5
  <2>4. n <= Cardinality(P)
    BY <1>4, <2>3
  <2> QED  BY <1>1, <1>5, <2>2, <2>3, <2>4
<1>10. f[Q \ {r}] = y.delta + f[(Q \ {r}) \ {y}]
  BY <1>6, <1>7, <1>8, <1>9
<1>11. f[Q \ {y}] = r.delta + f[(Q \ {y}) \ {r}]
  BY <1>6, <1>7, <1>8, <1>9
<1>12. (Q \ {r}) \ {y} = (Q \ {y}) \ {r}
  OBVIOUS
<1>13. /\ r.delta \in Int /\ y.delta \in Int /\ f[(Q \ {y}) \ {r}] \in Int
       /\ f[Q \ {y}] \in Int /\ f[Q \ {r}] \in Int
  BY <1>5, <1>6, <1>7 DEF Summable
<1>14. \A a, b, c, d, e, g \in Int : d = b + e /\ e = a + c /\ g = b + c => d = a + g
  OBVIOUS
<1>15. f[Q \ {y}] = r.delta + f[(Q \ {r}) \ {y}] /\ f[(Q \ {r}) \ {y}] \in Int /\ f[Q] \in Int
  BY <1>5, <1>11, <1>12, <1>13
<1>16. f[Q] = y.delta + f[Q \ {y}]
  BY <1>7, <1>10, <1>13, <1>14, <1>15
<1> QED  BY <1>6, <1>16

LEMMA SumNone == SumDelta({}) = 0
<1>1. Summable({})
  BY FS_EmptySet DEF Summable
<1>2. PICK f \in [SUBSET {} -> Int] : Sums(f, {})
  BY <1>1, SumExists
<1>3. SumDelta({}) = f[{}]
  BY <1>1, <1>2, SumBy
<1> QED  BY <1>2, <1>3 DEF Sums, Rec

LEMMA SumOne ==
    ASSUME NEW S, Summable(S), NEW x, x \notin S, x.delta \in Int
    PROVE  /\ Summable(S \union {x}) /\ SumDelta(S) \in Int
           /\ SumDelta(S \union {x}) = SumDelta(S) + x.delta
<1>1. PICK T : T = S \union {x}
  OBVIOUS
<1>2. Summable(T)
  BY <1>1, FS_AddElement DEF Summable
<1>3. PICK f : f \in [SUBSET T -> Int] /\ Sums(f, T)
  BY <1>2, SumExists
<1>4. T \in SUBSET T /\ S \in SUBSET T /\ x \in T /\ T \ {x} = S
  BY <1>1
<1>5. SumDelta(T) = f[T] /\ SumDelta(S) = f[S]
  BY <1>2, <1>3, <1>4, SumBy
<1>6. AnyOrder(f, T)
  BY <1>2, <1>3, AnyFirst
<1>7. f[T] = x.delta + f[S]
  BY <1>4, <1>6 DEF AnyOrder
<1>8. f[S] \in Int
  BY <1>3, <1>4
<1> QED  BY <1>1, <1>2, <1>5, <1>7, <1>8

LEMMA SumType ==
    ASSUME NEW S, Summable(S)
    PROVE  SumDelta(S) \in Int
<1>1. PICK f \in [SUBSET S -> Int] : Sums(f, S)
  BY SumExists
<1>2. SumDelta(S) = f[S]
  BY <1>1, SumBy
<1> QED  BY <1>1, <1>2

\* The sum of two sets of rows that have none in common.
LEMMA SumBoth ==
    ASSUME NEW S, NEW T, Summable(S), Summable(T), S \cap T = {}
    PROVE  Summable(S \union T) /\ SumDelta(S \union T) = SumDelta(S) + SumDelta(T)
<1>1. Summable(S \union T)
  BY FS_Union DEF Summable
<1> SUFFICES ASSUME SumDelta(S \union T) # SumDelta(S) + SumDelta(T) PROVE FALSE
  BY <1>1
<1> DEFINE Bad == {Q \in SUBSET T : SumDelta(S \union Q) # SumDelta(S) + SumDelta(Q)}
           N == {Cardinality(Q) : Q \in Bad}
<1>2. \A Q \in SUBSET T : Summable(Q) /\ Cardinality(Q) \in Nat /\ IsFiniteSet(Q)
  BY SubsetFinite DEF Summable
<1>3. T \in Bad
  OBVIOUS
<1>4. N \subseteq Nat /\ N # {}
  BY <1>2, <1>3
<1>5. PICK n \in N : \A m \in N : n <= m
  BY <1>4, LeastNat
<1>6. PICK Q \in Bad : n = Cardinality(Q)
  BY <1>5
<1>7. Q # {}
  <2>1. SumDelta(S) \in Int
    BY SumType
  <2>2. SumDelta(S \union {}) = SumDelta(S) + 0
    BY <2>1
  <2> QED  BY <1>6, <2>2, SumNone
<1>8. PICK x : x \in Q
  BY <1>7
<1> DEFINE P == Q \ {x}
<1>9. P \in SUBSET T /\ Cardinality(P) = n - 1 /\ n \in Nat
  BY <1>2, <1>6, <1>8, LessOne
<1>10. P \notin Bad
  <2> SUFFICES ASSUME P \in Bad PROVE FALSE
    OBVIOUS
  <2>1. Cardinality(P) \in N
    OBVIOUS
  <2>2. n <= Cardinality(P)
    BY <1>5, <2>1
  <2> QED  BY <1>9, <2>2
<1>11. SumDelta(S \union P) = SumDelta(S) + SumDelta(P)
  BY <1>9, <1>10
<1>12. x.delta \in Int /\ x \notin P /\ x \notin S \union P
       /\ P \union {x} = Q /\ (S \union P) \union {x} = S \union Q
  BY <1>6, <1>8 DEF Summable
<1>13. Summable(P) /\ Summable(S \union P)
  BY <1>2, <1>9, FS_Union DEF Summable
<1> HIDE DEF P
<1>14. SumDelta(Q) = SumDelta(P) + x.delta /\ SumDelta(P) \in Int
  BY <1>12, <1>13, SumOne
<1>15. SumDelta(S \union Q) = SumDelta(S \union P) + x.delta
  BY <1>12, <1>13, SumOne
<1>16. SumDelta(S) \in Int
  BY SumType
<1>17. SumDelta(S \union Q) = SumDelta(S) + SumDelta(Q)
  BY <1>11, <1>12, <1>14, <1>15, <1>16
<1> QED  BY <1>6, <1>17

-----------------------------------------------------------------------------
\* The balance beside the rows. Every transaction has moved its account by the
\* sum of the rows it has written, but for a debit whose payment it has not yet
\* taken, so committing both keeps the account equal to its rows. That needs the
\* keys of committed rows to be distinct, and an erasure to have named every row
\* of its account when it commits: which it has, unless the account is torn.
RowsOf(u) == {r \in ledger : r.user = u}

\* What the rows of a transaction say that its move of the balance does not yet.
Uncovered(t) == IF t.pc = "take" THEN Cost ELSE 0

\* The steps at which a transaction may hold a row of the key's kind.
Fits(k, step) ==
    /\ step \in {"state", "net", "live_plan", "claim", "generation", "debit",
                 "take", "commit"}
    /\ k[1] # "period" => step \notin {"state", "net", "live_plan", "claim"}
    /\ k[1] \notin {"period", "plan"} => step \in {"take", "commit"}
    /\ k[1] \notin {"period", "plan", "debit"} => step = "commit"

\* A shortfall is covered together with its debit, so its key is as new.
Covered(rows) ==
    \A r \in rows : r.key[1] = "unenforced" => Has(rows, <<"debit", r.key[2], r.key[3]>>)

\* A transaction has moved its account by the sum of the rows it has written,
\* all of that account and none of a key that is committed.
Booked(t) ==
    /\ IsFiniteSet(t.rows)
    /\ \A r \in t.rows : r.user = t.user /\ Fits(r.key, t.pc) /\ ~Has(ledger, r.key)
    /\ \A r, q \in t.rows : r.key = q.key => r = q
    /\ SumDelta(t.rows) = t.credit - Uncovered(t)
    /\ Covered(t.rows)
    /\ t.pc = "take" => Has(t.rows, <<"debit", t.order, t.gen>>)

\* An erasure of an account that is not torn has named every row of it once it has
\* read them, and leaves no account behind but one that holds nothing.
Complete(t) ==
    /\ t.pc # "forget_rows" => \A r \in RowsOf(t.user) : r.key \in t.erased
    /\ t.pc = "commit" /\ ~t.deleted => account[t.user].balance = 0

\* An erasure writes no row, and names committed rows of its account alone.
Leaving(t) ==
    /\ t.pc \in {"forget_rows", "forget_account"} => t.op = "forget"
    /\ t.op = "forget" =>
          /\ t.rows = {} /\ t.user \in Leavers
          /\ t.pc \in {"forget_rows", "forget_account", "commit"}
    /\ t.op # "forget" => t.erased = {} /\ ~t.deleted
    /\ \A k \in t.erased : Has(ledger, k)
    /\ \A r \in ledger : r.key \in t.erased => r.user \in {t.user, Nobody}
    /\ t.op = "forget" /\ t.user \notin torn => Complete(t)

Balanced(u) ==
    /\ account[u].balance = SumDelta(RowsOf(u))
    /\ account[u].open \/ account[u].balance = 0

SumInv ==
    /\ IsFiniteSet(ledger)
    /\ \A r, q \in ledger : r.key = q.key => r = q
    /\ Covered(ledger)
    /\ \A u \in Users \ torn : Balanced(u)
    /\ \A s \in Sessions : Booked(tx[s]) /\ Leaving(tx[s])

-----------------------------------------------------------------------------
LEMMA SumBecome ==
    ASSUME IInv, SumInv, NEW s \in Sessions, NEW t, Become(s, t), Booked(t), Leaving(t)
    PROVE  SumInv'
<1>1. /\ tx'[s] = t /\ \A x \in Sessions \ {s} : tx'[x] = tx[x]
      /\ ledger' = ledger /\ account' = account /\ torn' = torn
  BY DEF Become, IInv, TypeOK, history
<1>3. \A u : RowsOf(u)' = RowsOf(u)
  BY <1>1 DEF RowsOf
<1>4. \A u \in Users \ torn' : Balanced(u)'
  BY <1>1, <1>3 DEF SumInv, Balanced
<1>5. ASSUME NEW x \in Sessions
      PROVE  Booked(tx[x])' /\ Leaving(tx[x])'
  <2>1. Booked(tx'[x]) /\ Leaving(tx'[x])
    BY <1>1 DEF SumInv
  <2> QED  BY <1>1, <1>3, <2>1 DEF Booked, Leaving, Complete, Uncovered, Covered
<1>6. IsFiniteSet(ledger)' /\ (\A r, q \in ledger : r.key = q.key => r = q)'
      /\ Covered(ledger)'
  BY <1>1 DEF SumInv, Covered
<1> QED  BY <1>4, <1>5, <1>6 DEF SumInv

LEMMA IdleBooked == Booked(Idle) /\ Leaving(Idle)
<1>1. Idle.rows = {} /\ Idle.credit = 0 /\ Idle.pc = "idle" /\ Idle.op = "none"
      /\ Idle.erased = {} /\ ~Idle.deleted
  BY DEF Idle
<1> QED  BY <1>1, SumNone, FS_EmptySet DEF Booked, Leaving, Uncovered, Covered

LEMMA SumRollback ==
    ASSUME CreditAssumption, IInv, SumInv, NEW s \in Sessions, Rollback(s)
    PROVE  SumInv'
BY IdleBooked, SumBecome DEF Rollback

\* Inside an operation that is not an erasure: no new row, and the rows that are
\* there fit the next step.
Staying(t, b) ==
    /\ t.op = b.op /\ t.user = b.user /\ t.erased = b.erased /\ t.deleted = b.deleted
    /\ b.pc \notin {"forget_rows", "forget_account", "commit"}
    /\ t.pc \notin {"forget_rows", "forget_account"}

LEMMA SumOn ==
    ASSUME IInv, SumInv, NEW s \in Sessions, NEW t, Become(s, t), Staying(t, tx[s]),
           t.rows = tx[s].rows, t.pc # "take",
           t.credit - Uncovered(t) = tx[s].credit - Uncovered(tx[s]),
           \A k : Fits(k, tx[s].pc) => Fits(k, t.pc)
    PROVE  SumInv'
<1>1. Booked(tx[s]) /\ Leaving(tx[s])
  BY DEF SumInv
<1>2. Booked(t)
  BY <1>1 DEF Booked, Staying
<1>3. Leaving(t)
  BY <1>1 DEF Leaving, Staying
<1> QED  BY <1>2, <1>3, SumBecome

LEMMA SumRow ==
    ASSUME IInv, SumInv, NEW s \in Sessions, NEW t, Become(s, t), Staying(t, tx[s]),
           NEW k, NEW d \in Int, ~Has(ledger, k),
           t.rows = tx[s].rows \union {NewRow(k, tx[s].user, d)},
           t.credit - Uncovered(t) = tx[s].credit - Uncovered(tx[s]) + d,
           ~Fits(k, tx[s].pc), Fits(k, t.pc),
           k[1] = "unenforced" => Has(tx[s].rows, <<"debit", k[2], k[3]>>),
           t.pc = "take" => k = <<"debit", t.order, t.gen>>,
           \A j : Fits(j, tx[s].pc) => Fits(j, t.pc)
    PROVE  SumInv'
<1> DEFINE q == NewRow(k, tx[s].user, d)
<1>1. Booked(tx[s]) /\ Leaving(tx[s]) /\ tx[s] \in Tx
  BY DEF SumInv, IInv, TypeOK
<1>2. q.key = k /\ q.user = tx[s].user /\ q.delta = d
  BY DEF NewRow
<1>3. t.rows = tx[s].rows \union {q}
  OBVIOUS
<1> HIDE DEF q
<1>4. Summable(tx[s].rows) /\ q \notin tx[s].rows
  BY <1>1, <1>2 DEF Booked, Summable, Tx, Row
<1>5. Summable(t.rows) /\ SumDelta(t.rows) = SumDelta(tx[s].rows) + d
  BY <1>2, <1>3, <1>4, SumOne
<1>6. \A r \in t.rows : r.user = t.user /\ Fits(r.key, t.pc) /\ ~Has(ledger, r.key)
  BY <1>1, <1>2, <1>3 DEF Booked, Staying
<1>7. \A r, p \in t.rows : r.key = p.key => r = p
  BY <1>1, <1>2, <1>3 DEF Booked
<1>8. SumDelta(t.rows) = t.credit - Uncovered(t)
  BY <1>1, <1>5 DEF Booked
<1>9. Covered(t.rows) /\ (t.pc = "take" => Has(t.rows, <<"debit", t.order, t.gen>>))
  BY <1>1, <1>2, <1>3 DEF Booked, Covered, Has
<1>10. Booked(t)
  BY <1>5, <1>6, <1>7, <1>8, <1>9 DEF Booked, Summable
<1>11. Leaving(t)
  BY <1>1 DEF Leaving, Staying
<1> QED  BY <1>10, <1>11, SumBecome

LEMMA SumGoto ==
    ASSUME IInv, SumInv, NEW s \in Sessions, NEW step, Goto(s, step),
           tx[s].pc \notin {"take", "forget_rows", "forget_account", "commit"},
           step \notin {"take", "forget_rows", "forget_account"},
           \A k : Fits(k, tx[s].pc) => Fits(k, step)
    PROVE  SumInv'
<1> DEFINE t == [tx[s] EXCEPT !.pc = step]
<1>1. tx[s] \in Tx /\ Become(s, t)
  BY DEF IInv, TypeOK, Goto
<1>2. /\ Staying(t, tx[s]) /\ t.rows = tx[s].rows /\ t.credit = tx[s].credit
      /\ t.pc = step
  BY <1>1 DEF Staying, Tx
<1> HIDE DEF t
<1>3. t.credit - Uncovered(t) = tx[s].credit - Uncovered(tx[s])
  BY <1>2 DEF Uncovered
<1> QED  BY <1>1, <1>2, <1>3, SumOn

LEMMA SumAnswer ==
    ASSUME IInv, SumInv, NEW s \in Sessions, NEW a, Answer(s, a),
           tx[s].pc \notin {"take", "forget_rows", "forget_account", "commit"}
    PROVE  SumInv'
<1> DEFINE t == [tx[s] EXCEPT !.pc = "commit", !.answer = a]
<1>1. tx[s] \in Tx /\ Become(s, t)
  BY DEF IInv, TypeOK, Answer
<1>2. /\ Staying(t, tx[s]) /\ t.rows = tx[s].rows /\ t.credit = tx[s].credit
      /\ t.pc = "commit"
  BY <1>1 DEF Staying, Tx
<1> HIDE DEF t
<1>3. t.credit - Uncovered(t) = tx[s].credit - Uncovered(tx[s])
  BY <1>2 DEF Uncovered
<1>4. \A k : Fits(k, tx[s].pc) => Fits(k, t.pc)
  BY <1>2 DEF Fits
<1> QED  BY <1>1, <1>2, <1>3, <1>4, SumOn

-----------------------------------------------------------------------------
LEMMA SumCredited ==
    ASSUME CreditAssumption, IInv, SumInv, NEW s \in Sessions, NEW k, NEW d \in Int, NEW step,
           NEW t \in {Credited(s, k, d, step),
                      [Credited(s, k, d, step) EXCEPT !.answer = "settled"]},
           Become(s, t), ~Has(ledger, k), ~Fits(k, tx[s].pc), Fits(k, step),
           tx[s].pc \notin {"take", "forget_rows", "forget_account", "commit"},
           step \in {"state", "generation", "commit"}, k[1] # "unenforced",
           \A j : Fits(j, tx[s].pc) => Fits(j, step)
    PROVE  SumInv'
<1> DEFINE q == NewRow(k, tx[s].user, d)
           c == tx[s].credit + d
           C == [tx[s] EXCEPT !.rows = @ \union {q}, !.credit = c, !.touched = TRUE,
                       !.pc = step]
<1>0. tx[s] \in Tx
  BY DEF IInv, TypeOK
<1>1. tx[s].credit \in Int /\ c = tx[s].credit + d
  BY <1>0 DEF Tx
<1>2. Credited(s, k, d, step) = C
  BY <1>0 DEF Credited, Tx
<1> HIDE DEF q, c
<1>3. /\ Staying(C, tx[s]) /\ C.rows = tx[s].rows \union {q} /\ C.credit = c
      /\ C.pc = step
  BY <1>0 DEF Staying, Tx
<1>4. /\ Staying([C EXCEPT !.answer = "settled"], tx[s])
      /\ [C EXCEPT !.answer = "settled"].rows = tx[s].rows \union {q}
      /\ [C EXCEPT !.answer = "settled"].credit = c
      /\ [C EXCEPT !.answer = "settled"].pc = step
  BY <1>0 DEF Staying, Tx
<1> HIDE DEF C
<1>5. /\ Staying(t, tx[s]) /\ t.rows = tx[s].rows \union {q} /\ t.credit = c
      /\ t.pc = step
  BY <1>2, <1>3, <1>4
<1>6. t.credit - Uncovered(t) = tx[s].credit - Uncovered(tx[s]) + d
  BY <1>1, <1>5 DEF Uncovered
<1> QED  BY <1>5, <1>6, SumRow DEF q

LEMMA SumMint ==
    ASSUME CreditAssumption, IInv, SumInv, NEW s \in Sessions,
           OpenAccount(s) \/ MintNothing(s) \/ MintAllowance(s)
    PROVE  SumInv'
<1>0. tx[s] \in Tx
  BY DEF IInv, TypeOK
<1>1. CASE OpenAccount(s)
  <2> DEFINE t == [tx[s] EXCEPT !.opened = ~account[tx[s].user].open,
                        !.pc = IF @ = "open" THEN "mint" ELSE "write_grant"]
  <2>1. /\ Become(s, t) /\ t.rows = tx[s].rows /\ t.credit = tx[s].credit
        /\ Staying(t, tx[s]) /\ t.pc \in {"mint", "write_grant"}
        /\ tx[s].pc \in {"open", "open_grant"}
    BY <1>0, <1>1 DEF OpenAccount, At, Staying, Tx
  <2> HIDE DEF t
  <2>2. t.credit - Uncovered(t) = tx[s].credit - Uncovered(tx[s])
    BY <2>1 DEF Uncovered
  <2>3. \A k : Fits(k, tx[s].pc) => Fits(k, t.pc)
    BY <2>1 DEF Fits
  <2> QED  BY <2>1, <2>2, <2>3, SumOn
<1>2. CASE MintNothing(s)
  <2>1. \A k : Fits(k, "mint") => Fits(k, "state")
    BY DEF Fits
  <2> QED  BY <1>2, <2>1, SumGoto DEF MintNothing, At
<1>3. CASE MintAllowance(s)
  <2>1. ~Has(ledger, AllowanceKey(s)) /\ tx[s].pc = "mint" /\ Allowance \in Int
    BY <1>3 DEF MintAllowance, At, CreditAssumption
  <2>2. /\ AllowanceKey(s)[1] # "unenforced"
        /\ ~Fits(AllowanceKey(s), "mint") /\ Fits(AllowanceKey(s), "state")
        /\ \A k : Fits(k, "mint") => Fits(k, "state")
    BY DEF Fits, AllowanceKey
  <2>3. CASE Become(s, Credited(s, AllowanceKey(s), Allowance, "state"))
    BY <2>1, <2>2, <2>3, SumCredited
  <2> QED  BY <1>3, <2>3, SumRollback DEF MintAllowance
<1> QED  BY <1>1, <1>2, <1>3

LEMMA SumDecide ==
    ASSUME CreditAssumption, IInv, SumInv, NEW s \in Sessions,
           \/ ReadState(s) \/ RefuseBarred(s)
           \/ AlreadyPaid(s) \/ RefuseStacked(s) \/ MayRender(s)
    PROVE  SumInv'
<1>0. tx[s] \in Tx
  BY DEF IInv, TypeOK
<1>1. CASE ReadState(s)
  <2> DEFINE full == InFlight(Seen(s), tx[s].user, tx[s].order) >= MaxInFlight
             t == [tx[s] EXCEPT !.full = full, !.pc = "net"]
  <2>1. Become(s, t) /\ tx[s].pc = "state"
    BY <1>1 DEF ReadState, At
  <2> HIDE DEF full
  <2>2. /\ t.rows = tx[s].rows /\ t.credit = tx[s].credit
        /\ Staying(t, tx[s]) /\ t.pc = "net"
    BY <1>0, <2>1 DEF Staying, Tx
  <2> HIDE DEF t
  <2>3. t.credit - Uncovered(t) = tx[s].credit - Uncovered(tx[s])
    BY <2>1, <2>2 DEF Uncovered
  <2>4. \A k : Fits(k, "state") => Fits(k, "net")
    BY DEF Fits
  <2> QED  BY <2>1, <2>2, <2>3, <2>4, SumOn
<1>2. CASE RefuseBarred(s) \/ RefuseStacked(s)
  BY <1>2, SumRollback DEF RefuseBarred, RefuseStacked
<1>3. \A k : Fits(k, "net") => Fits(k, "live_plan")
  BY DEF Fits
<1>4. CASE AlreadyPaid(s)
  BY <1>4, SumAnswer DEF AlreadyPaid, At
<1>5. CASE MayRender(s)
  BY <1>3, <1>5, SumGoto DEF MayRender, At
<1> QED  BY <1>1, <1>2, <1>4, <1>5

\* The song of a plan is committed once: its number is the next one.
LEMMA SumPlanSong ==
    ASSUME CreditAssumption, IInv, PlanInv, SumInv, NEW s \in Sessions,
           ReadPlan(s) \/ ClaimPlanSong(s) \/ LosePlanSong(s)
    PROVE  SumInv'
<1>0. tx[s] \in Tx /\ TxInv(tx[s])
  BY DEF IInv, TypeOK
<1>1. /\ \A k : Fits(k, "live_plan") => Fits(k, "claim") /\ Fits(k, "generation")
      /\ \A k : Fits(k, "claim") => Fits(k, "generation")
  BY DEF Fits
<1>2. CASE ReadPlan(s)
  <2> DEFINE t == [tx[s] EXCEPT !.seen = plan[tx[s].user].used, !.pc = "claim"]
  <2>1. CASE LivePlan(s)
    <3>1. Become(s, t) /\ tx[s].pc = "live_plan"
      BY <1>2, <2>1 DEF ReadPlan, At
    <3>2. /\ t.rows = tx[s].rows /\ t.credit = tx[s].credit
          /\ Staying(t, tx[s]) /\ t.pc = "claim"
      BY <1>0, <3>1 DEF Staying, Tx
    <3> HIDE DEF t
    <3>3. t.credit - Uncovered(t) = tx[s].credit - Uncovered(tx[s])
      BY <3>1, <3>2 DEF Uncovered
    <3> QED  BY <1>1, <3>1, <3>2, <3>3, SumOn
  <2>2. CASE ~LivePlan(s)
    BY <1>1, <1>2, <2>2, SumGoto DEF ReadPlan, At
  <2> QED  BY <2>1, <2>2
<1>3. CASE LosePlanSong(s)
  BY <1>1, <1>3, SumGoto DEF LosePlanSong, At
<1>4. CASE ClaimPlanSong(s)
  <2>1. PICK u \in Users : u = tx[s].user
    BY <1>0, <1>4 DEF ClaimPlanSong, At, TxInv
  <2>2. PICK k : k = <<"plan", u, tx[s].seen>>
    OBVIOUS
  <2>3. plan[u].used = tx[s].seen /\ tx[s].pc = "claim" /\ tx[s].seen \in Nat
    BY <1>0, <1>4, <2>1 DEF ClaimPlanSong, At, TxInv
  <2>4. ~Has(ledger, k)
    <3> SUFFICES ASSUME NEW r \in ledger, r.key = k
                 PROVE  FALSE
      BY DEF Has
    <3>1. tx[s].seen \in Generations(ledger, "plan", u)
      BY <2>2, GenerationsMember
    <3>2. Generations(ledger, "plan", u) = 0 .. (plan[u].used - 1)
      BY SongsAreGenerations DEF PlanInv, PlanSongsMinted
    <3> QED  BY <2>3, <3>1, <3>2
  <2>5. ~Fits(k, "claim") /\ Fits(k, "generation") /\ k[1] # "unenforced" /\ 1 \in Int
    BY <2>2 DEF Fits
  <2>6. CASE Become(s, Credited(s, k, 1, "generation"))
    BY <1>1, <2>3, <2>4, <2>5, <2>6, SumCredited
  <2>7. CASE Rollback(s)
    BY <2>7, SumRollback
  <2> QED  BY <1>4, <2>1, <2>2, <2>6, <2>7 DEF ClaimPlanSong
<1> QED  BY <1>2, <1>3, <1>4

LEMMA SumDebit ==
    ASSUME CreditAssumption, IInv, SumInv, NEW s \in Sessions,
           ReadGeneration(s) \/ WriteDebit(s) \/ LoseDebit(s)
    PROVE  SumInv'
<1>0. tx[s] \in Tx
  BY DEF IInv, TypeOK
<1>1. /\ \A k : Fits(k, "generation") => Fits(k, "debit")
      /\ \A k : Fits(k, "debit") => Fits(k, "take")
  BY DEF Fits
<1>2. CASE ReadGeneration(s)
  <2> DEFINE gen == Generation(ledger, tx[s].order)
             t == [tx[s] EXCEPT !.gen = gen, !.pc = "debit"]
  <2>1. Become(s, t) /\ tx[s].pc = "generation"
    BY <1>2 DEF ReadGeneration, At
  <2> HIDE DEF gen
  <2>2. /\ t.rows = tx[s].rows /\ t.credit = tx[s].credit
        /\ Staying(t, tx[s]) /\ t.pc = "debit"
    BY <1>0, <2>1 DEF Staying, Tx
  <2> HIDE DEF t
  <2>3. t.credit - Uncovered(t) = tx[s].credit - Uncovered(tx[s])
    BY <2>1, <2>2 DEF Uncovered
  <2> QED  BY <1>1, <2>1, <2>2, <2>3, SumOn
<1>3. CASE WriteDebit(s)
  <2> DEFINE q == NewRow(DebitKey(s), tx[s].user, -Cost)
             t == [tx[s] EXCEPT !.rows = @ \union {q}, !.pc = "take"]
  <2>1. Become(s, t) /\ tx[s].pc = "debit" /\ ~Has(ledger, DebitKey(s))
    BY <1>3 DEF WriteDebit, At
  <2> HIDE DEF q
  <2>2. /\ t.rows = tx[s].rows \union {q} /\ t.credit = tx[s].credit
        /\ Staying(t, tx[s]) /\ t.pc = "take" /\ tx[s].credit \in Int
        /\ t.order = tx[s].order /\ t.gen = tx[s].gen
    BY <1>0, <2>1 DEF Staying, Tx
  <2> HIDE DEF t
  <2>3. t.credit - Uncovered(t) = tx[s].credit - Uncovered(tx[s]) + (-Cost) /\ -Cost \in Int
    BY <2>1, <2>2 DEF Uncovered, CreditAssumption
  <2>4. /\ ~Fits(DebitKey(s), "debit") /\ Fits(DebitKey(s), "take")
        /\ DebitKey(s)[1] # "unenforced" /\ DebitKey(s) = <<"debit", t.order, t.gen>>
    BY <2>2 DEF Fits, DebitKey
  <2> QED  BY <1>1, <2>1, <2>2, <2>3, <2>4, SumRow DEF q
<1>4. CASE LoseDebit(s)
  BY <1>4, SumAnswer DEF LoseDebit, At
<1> QED  BY <1>2, <1>3, <1>4

LEMMA SumTake ==
    ASSUME CreditAssumption, IInv, SumInv, NEW s \in Sessions,
           TakePayment(s) \/ RefuseInsufficient(s) \/ CoverShortfall(s)
    PROVE  SumInv'
<1>0. tx[s] \in Tx /\ Cost \in Int
  BY DEF IInv, TypeOK, CreditAssumption
<1>1. \A k : Fits(k, "take") => Fits(k, "commit")
  BY DEF Fits
<1>2. CASE TakePayment(s)
  <2> DEFINE c == tx[s].credit - Cost
             t == [tx[s] EXCEPT !.credit = c, !.touched = TRUE,
                         !.pc = "commit", !.answer = "charged"]
  <2>1. Become(s, t) /\ tx[s].pc = "take" /\ c = tx[s].credit - Cost
    BY <1>2 DEF TakePayment, At
  <2> HIDE DEF c
  <2>2. /\ t.rows = tx[s].rows /\ t.credit = c /\ Staying(t, tx[s]) /\ t.pc = "commit"
        /\ tx[s].credit \in Int
    BY <1>0, <2>1 DEF Staying, Tx
  <2> HIDE DEF t
  <2>3. t.credit - Uncovered(t) = tx[s].credit - Uncovered(tx[s])
    BY <1>0, <2>1, <2>2 DEF Uncovered
  <2> QED  BY <1>1, <2>1, <2>2, <2>3, SumOn
<1>3. CASE RefuseInsufficient(s)
  BY <1>3, SumRollback DEF RefuseInsufficient
<1>4. CASE CoverShortfall(s)
  <2> DEFINE q == NewRow(CoverKey(s), tx[s].user, Cost)
             t == [tx[s] EXCEPT !.rows = @ \union {q}, !.touched = TRUE,
                         !.pc = "commit", !.answer = "charged"]
  <2>1. Become(s, t) /\ tx[s].pc = "take"
    BY <1>4 DEF CoverShortfall, At
  <2> HIDE DEF q
  <2>2. /\ t.rows = tx[s].rows \union {q} /\ t.credit = tx[s].credit
        /\ Staying(t, tx[s]) /\ t.pc = "commit" /\ tx[s].credit \in Int
    BY <1>0, <2>1 DEF Staying, Tx
  <2> HIDE DEF t
  <2>3. t.credit - Uncovered(t) = tx[s].credit - Uncovered(tx[s]) + Cost
    BY <1>0, <2>1, <2>2 DEF Uncovered
  <2>4. ~Fits(CoverKey(s), "take") /\ Fits(CoverKey(s), "commit")
    BY DEF Fits, CoverKey
  <2>5. /\ Has(tx[s].rows, <<"debit", tx[s].order, tx[s].gen>>)
        /\ ~Has(ledger, <<"debit", tx[s].order, tx[s].gen>>)
    <3>1. PICK j : j = <<"debit", tx[s].order, tx[s].gen>>
      OBVIOUS
    <3>2. Has(tx[s].rows, j)
      BY <2>1, <3>1 DEF SumInv, Booked
    <3>3. ~Has(ledger, j)
      BY <3>2 DEF SumInv, Booked, Has
    <3> QED  BY <3>1, <3>2, <3>3
  <2>6. /\ CoverKey(s)[1] = "unenforced" /\ CoverKey(s)[2] = tx[s].order
        /\ CoverKey(s)[3] = tx[s].gen
    BY DEF CoverKey
  <2>7. ~Has(ledger, CoverKey(s))
    BY <2>5, <2>6 DEF SumInv, Covered, Has
  <2> QED  BY <1>0, <1>1, <2>1, <2>2, <2>3, <2>4, <2>5, <2>6, <2>7, SumRow DEF q
<1> QED  BY <1>2, <1>3, <1>4

LEMMA SumSettle ==
    ASSUME CreditAssumption, IInv, SumInv, NEW s \in Sessions, SettleStep(s)
    PROVE  SumInv'
<1>0. tx[s] \in Tx
  BY DEF IInv, TypeOK
<1>1. CASE HoldsCredit(s)
  <2> DEFINE net == NetPosition(ledger, tx[s].order)
             t == [tx[s] EXCEPT !.net = net,
                     !.pc = IF tx[s].close = "refund" THEN "settle_account"
                                                      ELSE "settle_generation"]
  <2>1. Become(s, t) /\ tx[s].pc = "settle_net"
    BY <1>1 DEF HoldsCredit, At
  <2> HIDE DEF net
  <2>2. /\ t.rows = tx[s].rows /\ t.credit = tx[s].credit
        /\ Staying(t, tx[s]) /\ t.pc \in {"settle_account", "settle_generation"}
    BY <1>0, <2>1 DEF Staying, Tx
  <2> HIDE DEF t
  <2>3. t.credit - Uncovered(t) = tx[s].credit - Uncovered(tx[s])
    BY <2>1, <2>2 DEF Uncovered
  <2>4. \A k : ~Fits(k, "settle_net")
    BY DEF Fits
  <2> QED  BY <2>1, <2>2, <2>3, <2>4, SumOn
<1>2. CASE HoldsNothing(s) \/ AccountErased(s) \/ LoseSettlement(s)
  BY <1>2, SumAnswer DEF HoldsNothing, AccountErased, LoseSettlement, At
<1>3. \A k : ~Fits(k, "settle_account") /\ ~Fits(k, "settle_generation")
  BY DEF Fits
<1>4. CASE AccountThere(s)
  BY <1>3, <1>4, SumGoto DEF AccountThere, At
<1>5. CASE SettleGeneration(s)
  <2> DEFINE gen == Generation(ledger, tx[s].order)
             t == [tx[s] EXCEPT !.gen = gen, !.pc = "settle_write"]
  <2>1. Become(s, t) /\ tx[s].pc = "settle_generation"
    BY <1>5 DEF SettleGeneration, At
  <2> HIDE DEF gen
  <2>2. /\ t.rows = tx[s].rows /\ t.credit = tx[s].credit
        /\ Staying(t, tx[s]) /\ t.pc = "settle_write"
    BY <1>0, <2>1 DEF Staying, Tx
  <2> HIDE DEF t
  <2>3. t.credit - Uncovered(t) = tx[s].credit - Uncovered(tx[s])
    BY <2>1, <2>2 DEF Uncovered
  <2> QED  BY <1>3, <2>1, <2>2, <2>3, SumOn
<1>6. /\ SettleKey(s)[1] # "unenforced" /\ Fits(SettleKey(s), "commit")
      /\ \A k : ~Fits(k, "settle_write")
  BY <1>0 DEF SettleKey, Tx, Fits
<1>7. CASE WriteRefund(s)
  <2>1. -tx[s].net \in Int
    BY <1>0 DEF Tx
  <2>2. ASSUME NEW t, t = [Credited(s, SettleKey(s), -tx[s].net, "commit")
                             EXCEPT !.answer = "settled"], Become(s, t)
        PROVE  SumInv'
    <3>1. tx[s].pc = "settle_write" /\ ~Has(ledger, SettleKey(s))
      BY <1>7 DEF WriteRefund, At
    <3>2. t \in {Credited(s, SettleKey(s), -tx[s].net, "commit"),
                 [Credited(s, SettleKey(s), -tx[s].net, "commit")
                    EXCEPT !.answer = "settled"]}
      BY <2>2
    <3> QED  BY <1>6, <2>1, <2>2, <3>1, <3>2, SumCredited
  <2> QED  BY <1>7, <2>2, SumRollback DEF WriteRefund
<1>8. CASE WriteConsume(s)
  <2> DEFINE q == NewRow(SettleKey(s), tx[s].user, 0)
             t == [tx[s] EXCEPT !.rows = @ \union {q},
                         !.pc = "commit", !.answer = "settled"]
  <2>1. Become(s, t) /\ tx[s].pc = "settle_write" /\ ~Has(ledger, SettleKey(s))
    BY <1>8 DEF WriteConsume, At
  <2> HIDE DEF q
  <2>2. /\ t.rows = tx[s].rows \union {q} /\ t.credit = tx[s].credit
        /\ Staying(t, tx[s]) /\ t.pc = "commit" /\ tx[s].credit \in Int
    BY <1>0, <2>1 DEF Staying, Tx
  <2> HIDE DEF t
  <2>3. t.credit - Uncovered(t) = tx[s].credit - Uncovered(tx[s]) + 0 /\ 0 \in Int
    BY <2>1, <2>2 DEF Uncovered
  <2>4. /\ ~Fits(SettleKey(s), tx[s].pc) /\ Fits(SettleKey(s), t.pc)
        /\ \A k : Fits(k, tx[s].pc) => Fits(k, t.pc)
    BY <1>6, <2>1, <2>2
  <2>5. PICK k : k = SettleKey(s)
    OBVIOUS
  <2>6. t.rows = tx[s].rows \union {NewRow(k, tx[s].user, 0)} /\ k[1] # "unenforced"
    BY <1>6, <2>2, <2>5 DEF q
  <2> QED  BY <2>1, <2>2, <2>3, <2>4, <2>5, <2>6, SumRow
<1> QED  BY <1>1, <1>2, <1>4, <1>5, <1>7, <1>8 DEF SettleStep

LEMMA SumGrant ==
    ASSUME CreditAssumption, IInv, SumInv, NEW s \in Sessions,
           WriteGrant(s) \/ GrantAgain(s)
    PROVE  SumInv'
<1>1. CASE WriteGrant(s)
  <2>1. ~Has(ledger, GrantKey(s)) /\ tx[s].pc = "write_grant" /\ 1 \in Int
    BY <1>1 DEF WriteGrant, At
  <2>2. /\ GrantKey(s)[1] # "unenforced" /\ Fits(GrantKey(s), "commit")
        /\ \A k : ~Fits(k, "write_grant")
    BY DEF Fits, GrantKey
  <2>3. CASE Become(s, Credited(s, GrantKey(s), 1, "commit"))
    BY <2>1, <2>2, <2>3, SumCredited
  <2> QED  BY <1>1, <2>3, SumRollback DEF WriteGrant
<1>2. CASE GrantAgain(s)
  BY <1>2, SumAnswer DEF GrantAgain, At
<1> QED  BY <1>1, <1>2

\* An erasure moves nothing and writes nothing.
LEMMA SumForget ==
    ASSUME CreditAssumption, IInv, SumInv, NEW s \in Sessions,
           AnonymiseRows(s) \/ DeleteAccount(s)
    PROVE  SumInv'
<1>0. tx[s] \in Tx /\ Booked(tx[s]) /\ Leaving(tx[s])
  BY DEF IInv, TypeOK, SumInv
<1>1. ASSUME NEW t, Become(s, t), t.op = "forget", t.user = tx[s].user,
             tx[s].op = "forget", t.rows = tx[s].rows, t.credit = tx[s].credit,
             tx[s].pc \in {"forget_rows", "forget_account"},
             t.pc \in {"forget_account", "commit"}, Leaving(t)
      PROVE  SumInv'
  <2>1. t.rows = {} /\ Uncovered(t) = Uncovered(tx[s])
    BY <1>0, <1>1 DEF Leaving, Uncovered
  <2>2. Booked(t)
    BY <1>0, <1>1, <2>1 DEF Booked, Covered
  <2> QED  BY <1>1, <2>2, SumBecome
<1>2. CASE AnonymiseRows(s)
  <2> DEFINE gone == {r.key : r \in {x \in ledger : x.user = tx[s].user}}
             songs == IF plan[tx[s].user].owned THEN plan[tx[s].user].used ELSE NotSeen
             t == [tx[s] EXCEPT !.erased = gone, !.seen = songs,
                         !.pc = "forget_account"]
  <2>1. /\ Become(s, t) /\ tx[s].pc = "forget_rows"
        /\ gone = {r.key : r \in RowsOf(tx[s].user)}
    BY <1>2 DEF AnonymiseRows, At, RowsOf
  <2> HIDE DEF gone, songs
  <2>2. /\ t.op = tx[s].op /\ t.user = tx[s].user /\ t.credit = tx[s].credit
        /\ t.rows = tx[s].rows /\ t.erased = gone /\ t.pc = "forget_account"
    BY <1>0 DEF Tx
  <2> HIDE DEF t
  <2>3. /\ \A k \in gone : Has(ledger, k)
        /\ \A r \in RowsOf(tx[s].user) : r.key \in gone
        /\ \A r \in ledger : r.key \in gone => r.user = tx[s].user
    BY <2>1 DEF RowsOf, Has, SumInv
  <2>4. tx[s].op = "forget" /\ Complete(t)
    BY <1>0, <2>1, <2>2, <2>3 DEF Leaving, Complete
  <2>5. Leaving(t)
    BY <1>0, <2>1, <2>2, <2>3, <2>4 DEF Leaving
  <2> QED  BY <1>1, <2>1, <2>2, <2>4, <2>5
<1>3. CASE DeleteAccount(s)
  <2> DEFINE open == account[tx[s].user].open
             t == [tx[s] EXCEPT !.deleted = open, !.pc = "commit"]
  <2>1. Become(s, t) /\ tx[s].pc = "forget_account"
    BY <1>3 DEF DeleteAccount, At
  <2> HIDE DEF open
  <2>2. /\ t.op = tx[s].op /\ t.user = tx[s].user /\ t.credit = tx[s].credit
        /\ t.rows = tx[s].rows /\ t.erased = tx[s].erased /\ t.pc = "commit"
        /\ t.deleted = open
    BY <1>0 DEF Tx
  <2> HIDE DEF t
  <2>3. tx[s].op = "forget" /\ tx[s].user \in Users
    BY <1>0, <2>1 DEF Leaving, CreditAssumption
  <2>4. tx[s].user \notin torn => Complete(t)
    <3>1. tx[s].user \notin torn => open \/ account[tx[s].user].balance = 0
      BY <2>3 DEF SumInv, Balanced, open
    <3> QED  BY <1>0, <2>1, <2>2, <2>3, <3>1 DEF Leaving, Complete
  <2>5. Leaving(t)
    BY <1>0, <2>1, <2>2, <2>3, <2>4 DEF Leaving
  <2> QED  BY <1>1, <2>1, <2>2, <2>3, <2>5
<1> QED  BY <1>2, <1>3

LEMMA SumBegin ==
    ASSUME CreditAssumption, IInv, SumInv, NEW s \in Sessions, BeginSome(s)
    PROVE  SumInv'
<1>1. ASSUME NEW t, Become(s, t),
             t.rows = {}, t.credit = 0, t.erased = {}, ~t.deleted,
             \/ t.op # "forget" /\ t.pc \in {"open", "settle_net", "open_grant"}
             \/ t.op = "forget" /\ t.pc = "forget_rows" /\ t.user \in Leavers
      PROVE  SumInv'
  <2>1. Booked(t)
    BY <1>1, SumNone, FS_EmptySet DEF Booked, Uncovered, Covered
  <2>2. Leaving(t)
    BY <1>1 DEF Leaving, Complete
  <2> QED  BY <1>1, <2>1, <2>2, SumBecome
<1>2. CASE \E o \in Orders : BeginCharge(s, o)
  <2>1. PICK o \in Orders : BeginCharge(s, o)
    BY <1>2
  <2> DEFINE t == Begin(s, "charge", Owner[o], o, window, "open")
  <2>2. /\ t.op = "charge" /\ t.pc = "open" /\ t.user = Owner[o]
        /\ t.rows = {} /\ t.credit = 0 /\ t.erased = {} /\ ~t.deleted
    BY DEF Begin, Idle
  <2>3. Become(s, t)
    BY <2>1 DEF BeginCharge
  <2> HIDE DEF t
  <2> QED  BY <1>1, <2>2, <2>3
<1>3. CASE \E o \in Orders, close \in {"refund", "consume"} : BeginSettle(s, o, close)
  <2>1. PICK o \in Orders, close \in {"refund", "consume"} : BeginSettle(s, o, close)
    BY <1>3
  <2> DEFINE t == [Begin(s, "settle", Owner[o], o, 0, "settle_net") EXCEPT !.close = close]
  <2>2. /\ t.op = "settle" /\ t.pc = "settle_net" /\ t.user = Owner[o]
        /\ t.rows = {} /\ t.credit = 0 /\ t.erased = {} /\ ~t.deleted
    BY DEF Begin, Idle
  <2>3. Become(s, t)
    BY <2>1 DEF BeginSettle
  <2> HIDE DEF t
  <2> QED  BY <1>1, <2>2, <2>3
<1>4. CASE \E u \in Users, k \in 1..LastGrant : BeginGrant(s, u, k)
  <2>1. PICK u \in Users, k \in 1..LastGrant : BeginGrant(s, u, k)
    BY <1>4
  <2> DEFINE t == Begin(s, "grant", u, Nobody, k, "open_grant")
  <2>2. /\ t.op = "grant" /\ t.pc = "open_grant" /\ t.user = u
        /\ t.rows = {} /\ t.credit = 0 /\ t.erased = {} /\ ~t.deleted
    BY DEF Begin, Idle
  <2>3. Become(s, t)
    BY <2>1 DEF BeginGrant
  <2> HIDE DEF t
  <2> QED  BY <1>1, <2>2, <2>3
<1>5. CASE \E u \in Leavers : BeginForget(s, u)
  <2>1. PICK u \in Leavers : BeginForget(s, u)
    BY <1>5
  <2> DEFINE t == Begin(s, "forget", u, Nobody, 0, "forget_rows")
  <2>2. /\ t.op = "forget" /\ t.pc = "forget_rows" /\ t.user = u
        /\ t.rows = {} /\ t.credit = 0 /\ t.erased = {} /\ ~t.deleted
    BY DEF Begin, Idle
  <2>3. Become(s, t)
    BY <2>1 DEF BeginForget
  <2> HIDE DEF t
  <2> QED  BY <1>1, <2>2, <2>3
<1> QED  BY <1>2, <1>3, <1>4, <1>5 DEF BeginSome

-----------------------------------------------------------------------------
LEMMA RowsSummable ==
    ASSUME IInv, SumInv
    PROVE  /\ \A u : Summable(RowsOf(u))
           /\ \A s \in Sessions : Summable(tx[s].rows)
<1>1. \A u : IsFiniteSet(RowsOf(u))
  BY FS_Subset DEF RowsOf, SumInv
<1>2. \A r \in ledger : r.delta \in Int
  BY DEF IInv, TypeOK, Row
<1>3. ASSUME NEW s \in Sessions
      PROVE  IsFiniteSet(tx[s].rows) /\ \A r \in tx[s].rows : r.delta \in Int
  <2>1. tx[s].rows \subseteq Row
    BY DEF IInv, TypeOK, Tx
  <2> QED  BY <2>1 DEF Row, SumInv, Booked
<1> QED  BY <1>1, <1>2, <1>3 DEF Summable, RowsOf

\* What a commit means to the accounts and sessions other than its own.
LEMMA CommitElsewhere ==
    ASSUME CreditAssumption, IInv, SumInv, NEW s \in Sessions, Commit(s)
    PROVE  /\ tx[s].user \in Users /\ tx[s].pc = "commit" /\ tx[s] \in Tx
           /\ account'[tx[s].user] = AccountAfter(s, account[tx[s].user])
           /\ account[tx[s].user] \in Account
           /\ \A v \in Users \ {tx[s].user} : account'[v] = account[v]
           /\ tx'[s] = Idle /\ \A x \in Sessions \ {s} : tx'[x] = tx[x]
           /\ \A k : Has(ledger', k) => Has(ledger, k) \/ Has(tx[s].rows, k)
           /\ \A k : Has(ledger, k) => Has(ledger', k)
           /\ \A r \in ledger' \ tx[s].rows :
                 \E a \in ledger : a.key = r.key /\ r.user \in {a.user, Nobody}
<1>1. tx[s].user \in Users /\ tx[s].pc = "commit" /\ tx[s] \in Tx
      /\ account \in [Users -> Account]
  BY DEF IInv, TypeOK, TxInv, Commit, At
<1>2. \A k : Has(ledger', k) => Has(ledger, k) \/ Has(tx[s].rows, k)
  BY MergedRows DEF IInv, Commit, Has
<1>3. /\ account'[tx[s].user] = AccountAfter(s, account[tx[s].user])
      /\ \A v \in Users \ {tx[s].user} : account'[v] = account[v]
      /\ tx'[s] = Idle /\ \A x \in Sessions \ {s} : tx'[x] = tx[x]
  BY <1>1 DEF Commit, IInv, TypeOK
<1> DEFINE named(r) == [r EXCEPT !.user = IF r.key \in tx[s].erased THEN Nobody ELSE @]
<1>4. \A r \in ledger : named(r).key = r.key /\ named(r).user \in {r.user, Nobody}
  BY DEF IInv, TypeOK, Row
<1>5. ledger' = {named(r) : r \in ledger} \union tx[s].rows
  BY DEF Commit, Merged
<1> HIDE DEF named
<1>6. /\ \A k : Has(ledger, k) => Has(ledger', k)
      /\ \A r \in ledger' \ tx[s].rows :
            \E a \in ledger : a.key = r.key /\ r.user \in {a.user, Nobody}
  BY <1>4, <1>5 DEF Has
<1> QED  BY <1>1, <1>2, <1>3, <1>6

\* The account and its rows are asked about only for an erasure that is under way.
LEMMA CommitApart ==
    ASSUME CreditAssumption, IInv, SumInv, NEW s \in Sessions, Commit(s),
           \A v \in Users \ {tx[s].user} : RowsOf(v)' = RowsOf(v),
           NEW u, u = tx[s].user,
           ASSUME u \notin torn', NEW x \in Others(s, u), tx[x].op = "forget",
                  ~At(x, "forget_rows")
           PROVE  /\ RowsOf(u)' \subseteq RowsOf(u)
                  /\ account'[u].balance \in {account[u].balance, 0}
    PROVE  /\ \A v \in Users \ (torn' \union {u}) : Balanced(v)'
           /\ \A x \in Sessions : Booked(tx[x])' /\ Leaving(tx[x])'
<1>1. /\ tx[s].user \in Users
      /\ \A v \in Users \ {tx[s].user} : account'[v] = account[v]
      /\ tx'[s] = Idle /\ \A x \in Sessions \ {s} : tx'[x] = tx[x]
      /\ \A k : Has(ledger', k) => Has(ledger, k) \/ Has(tx[s].rows, k)
      /\ \A k : Has(ledger, k) => Has(ledger', k)
      /\ \A r \in ledger' \ tx[s].rows :
            \E a \in ledger : a.key = r.key /\ r.user \in {a.user, Nobody}
  BY CommitElsewhere
<1>2. torn \subseteq torn' /\ \A v \in Users \ (torn' \union {u}) : Balanced(v)'
  BY <1>1 DEF SumInv, Balanced, Commit
<1>4. ASSUME NEW x \in Sessions \ {s}
      PROVE  Booked(tx[x])' /\ Leaving(tx[x])'
  <2>1. Booked(tx[x]) /\ Leaving(tx[x]) /\ tx'[x] = tx[x]
    BY <1>1 DEF SumInv
  <2>2. \A r \in tx[x].rows : ~Has(ledger', r.key)
    BY <1>1, <2>1 DEF Booked, Has, IInv, KeysApart
  <2>3. Booked(tx[x])'
    BY <2>1, <2>2 DEF Booked, Uncovered, Covered
  <2>4. /\ \A k \in tx[x].erased : Has(ledger', k)
        /\ \A r \in ledger' : r.key \in tx[x].erased => r.user \in {tx[x].user, Nobody}
    <3>1. \A r \in tx[s].rows : ~Has(ledger, r.key)
      BY DEF SumInv, Booked
    <3>2. \A k \in tx[x].erased : Has(ledger, k)
      BY <2>1 DEF Leaving
    <3>3. \A a \in ledger : a.key \in tx[x].erased => a.user \in {tx[x].user, Nobody}
      BY <2>1 DEF Leaving
    <3> QED  BY <1>1, <3>1, <3>2, <3>3
  <2>5. ASSUME tx[x].op = "forget", tx[x].user \notin torn'
        PROVE  Complete(tx[x])'
    <3>1. Complete(tx[x]) /\ tx[x].user \in Users
      BY <1>2, <2>1, <2>5 DEF Leaving, CreditAssumption
    <3>2. CASE tx[x].user # u
      <4>1. RowsOf(tx[x].user)' = RowsOf(tx[x].user)
            /\ account'[tx[x].user] = account[tx[x].user]
        BY <1>1, <3>1, <3>2
      <4> QED  BY <2>1, <3>1, <4>1 DEF Complete, RowsOf
    <3>3. CASE tx[x].user = u /\ ~At(x, "forget_rows")
      <4>1. x \in Others(s, u)
        BY <3>3 DEF Others
      <4>2. RowsOf(u)' \subseteq RowsOf(u)
            /\ account'[u].balance \in {account[u].balance, 0}
        BY <2>5, <3>3, <4>1
      <4> QED  BY <2>1, <3>1, <3>3, <4>2 DEF Complete, RowsOf
    <3>4. CASE At(x, "forget_rows")
      BY <2>1, <3>4 DEF Complete, At
    <3> QED  BY <3>2, <3>3, <3>4
  <2>6. Leaving(tx[x])'
    BY <2>1, <2>4, <2>5 DEF Leaving
  <2> QED  BY <2>3, <2>6
<1>5. Booked(tx[s])' /\ Leaving(tx[s])'
  <2>1. Idle.rows = {} /\ Idle.credit = 0 /\ Idle.pc = "idle" /\ Idle.op = "none"
        /\ Idle.erased = {} /\ ~Idle.deleted
    BY DEF Idle
  <2> QED  BY <1>1, <2>1, SumNone, FS_EmptySet DEF Booked, Leaving, Uncovered, Covered
<1> QED  BY <1>2, <1>4, <1>5

\* A commit that is not an erasure adds its rows and moves its account by their
\* sum.
LEMMA CommitWrites ==
    ASSUME CreditAssumption, LockInv, SumInv, NEW s \in Sessions, Commit(s),
           tx[s].op # "forget"
    PROVE  SumInv'
<1>0. IInv /\ Booked(tx[s]) /\ Leaving(tx[s]) /\ TxLocks(tx[s]) /\ ledger \subseteq Row
  BY DEF LockInv, IInv, TypeOK, SumInv
<1>1. PICK u \in Users : u = tx[s].user
  BY <1>0, CommitElsewhere
<1>2. /\ tx[s].pc = "commit" /\ tx[s] \in Tx /\ account[u] \in Account
      /\ account'[u] = AccountAfter(s, account[u])
  BY <1>0, <1>1, CommitElsewhere
<1>3. ledger' = ledger \union tx[s].rows
  <2>1. tx[s].erased = {}
    BY <1>0 DEF Leaving
  <2>2. ASSUME NEW r \in ledger
        PROVE  [r EXCEPT !.user = IF r.key \in tx[s].erased THEN Nobody ELSE @] = r
    BY <1>0, <2>1 DEF Row
  <2>3. {[r EXCEPT !.user = IF r.key \in tx[s].erased THEN Nobody ELSE @] : r \in ledger}
          = ledger
    BY <2>2
  <2> QED  BY <2>3 DEF Commit, Merged
<1>4. \A r \in tx[s].rows : r.user = u /\ ~Has(ledger, r.key)
  BY <1>0, <1>1 DEF Booked
<1>5. \A v \in Users \ {u} : RowsOf(v)' = RowsOf(v)
  BY <1>3, <1>4 DEF RowsOf
<1>6. RowsOf(u)' = RowsOf(u) \union tx[s].rows /\ RowsOf(u) \cap tx[s].rows = {}
  BY <1>3, <1>4 DEF RowsOf, Has
<1>7. SumDelta(RowsOf(u) \union tx[s].rows) = SumDelta(RowsOf(u)) + SumDelta(tx[s].rows)
  BY <1>0, <1>6, RowsSummable, SumBoth
<1>8. SumDelta(tx[s].rows) = tx[s].credit
  BY <1>0, <1>2 DEF Booked, Uncovered, Tx
<1>9. ASSUME u \notin torn'
      PROVE  Balanced(u)'
  <2>0. Balanced(u)
    BY <1>1, <1>9 DEF SumInv, Commit
  <2>1. ~tx[s].deleted
    BY <1>0 DEF Leaving
  <2>2. /\ account'[u].balance = account[u].balance + tx[s].credit
        /\ account'[u].open = (account[u].open \/ tx[s].opened)
    BY <1>2, <2>1 DEF AccountAfter
  <2>3. account'[u].balance = SumDelta(RowsOf(u)')
    BY <1>6, <1>7, <1>8, <2>0, <2>2 DEF Balanced
  <2>4. account'[u].open \/ account'[u].balance = 0
    <3> SUFFICES ASSUME ~account[u].open, ~tx[s].opened
                 PROVE  account'[u].balance = 0
      BY <2>2
    <3>1. tx[s].credit = 0
      BY <1>0, <1>1 DEF TxLocks
    <3>2. account[u].balance = 0
      BY <2>0 DEF Balanced
    <3> QED  BY <2>2, <3>1, <3>2
  <2> QED  BY <2>3, <2>4 DEF Balanced
<1>10. IsFiniteSet(ledger)' /\ Covered(ledger)'
  BY <1>0, <1>3, FS_Union DEF SumInv, Booked, Covered, Has
<1>11. (\A r, q \in ledger : r.key = q.key => r = q)'
  BY <1>0, <1>3, <1>4 DEF SumInv, Booked, Has
<1>12. ASSUME u \notin torn', NEW x \in Others(s, u), tx[x].op = "forget",
              ~At(x, "forget_rows")
       PROVE  /\ RowsOf(u)' \subseteq RowsOf(u)
              /\ account'[u].balance \in {account[u].balance, 0}
  <2>1. tx[s].rows = {}
    BY <1>1, <1>12 DEF Commit, Tears
  <2>2. tx[s].credit = 0
    BY <1>2, <1>8, <2>1, SumNone
  <2>3. account'[u].balance = account[u].balance + tx[s].credit
    BY <1>0, <1>2 DEF Leaving, AccountAfter
  <2> QED  BY <1>2, <1>6, <2>1, <2>2, <2>3 DEF Account
<1>13. /\ \A v \in Users \ (torn' \union {u}) : Balanced(v)'
       /\ \A x \in Sessions : Booked(tx[x])' /\ Leaving(tx[x])'
  BY <1>0, <1>1, <1>5, <1>12, CommitApart
<1> QED  BY <1>9, <1>10, <1>11, <1>13 DEF SumInv

\* An erasure leaves its account without a row and without a balance.
LEMMA CommitErases ==
    ASSUME CreditAssumption, LockInv, SumInv, NEW s \in Sessions, Commit(s),
           tx[s].op = "forget"
    PROVE  SumInv'
<1>0. IInv /\ Booked(tx[s]) /\ Leaving(tx[s]) /\ ledger \subseteq Row
  BY DEF LockInv, IInv, TypeOK, SumInv
<1>1. PICK u \in Users : u = tx[s].user
  BY <1>0, CommitElsewhere
<1>2. /\ tx[s].pc = "commit" /\ tx[s] \in Tx /\ account[u] \in Account
      /\ account'[u] = AccountAfter(s, account[u])
  BY <1>0, <1>1, CommitElsewhere
<1>3. /\ tx[s].rows = {}
      /\ \A r \in ledger : r.key \in tx[s].erased => r.user \in {u, Nobody}
      /\ u \notin torn => /\ ~tx[s].deleted => account[u].balance = 0
                          /\ \A r \in RowsOf(u) : r.key \in tx[s].erased
  BY <1>0, <1>1, <1>2 DEF Leaving, Complete
<1> DEFINE named(r) == [r EXCEPT !.user = IF r.key \in tx[s].erased THEN Nobody ELSE @]
<1>4. ledger' = {named(r) : r \in ledger} /\ torn' = torn
  BY <1>3 DEF Commit, Merged, Tears
<1>a. Nobody \notin Users
  BY DEF CreditAssumption
<1>5. ASSUME NEW r \in ledger
      PROVE  /\ named(r).key = r.key /\ named(r).user \in {r.user, Nobody}
             /\ u \notin torn /\ r.user = u => named(r).user = Nobody
             /\ r.user \in Users \ {u} => named(r) = r
  <2>1. u \notin torn /\ r.user = u => r.key \in tx[s].erased
    BY <1>3 DEF RowsOf
  <2>2. r.user \in Users \ {u} => r.key \notin tx[s].erased
    BY <1>3, <1>a
  <2> QED  BY <1>0, <2>1, <2>2 DEF Row
<1>6. IsFiniteSet(ledger')
  <2> DEFINE f == [r \in ledger |-> named(r)]
  <2>1. f \in Surjection(ledger, ledger')
    <3> HIDE DEF named
    <3> QED  BY <1>4 DEF Surjection
  <2>2. IsFiniteSet(ledger)
    BY DEF SumInv
  <2> HIDE DEF f
  <2> QED  BY <2>1, <2>2, FS_Surjection
<1> HIDE DEF named
<1>8. /\ u \notin torn => RowsOf(u)' = {}
      /\ \A v \in Users \ {u} : RowsOf(v)' = RowsOf(v)
  <2>1. ASSUME NEW r \in ledger'
        PROVE  /\ u \notin torn => r.user # u
               /\ r.user \in Users \ {u} => r \in ledger
    BY <1>1, <1>4, <1>5, <1>a, <2>1
  <2>2. ASSUME NEW r \in ledger, r.user \in Users \ {u}
        PROVE  r \in ledger'
    BY <1>4, <1>5, <2>2
  <2> QED  BY <2>1, <2>2 DEF RowsOf
<1>9. ASSUME u \notin torn
      PROVE  account'[u].balance = 0 /\ Balanced(u)'
  <2>1. tx[s].credit = 0
    BY <1>0, <1>2, <1>3, SumNone DEF Booked, Uncovered, Tx
  <2>2. account'[u].balance = 0
    BY <1>2, <1>3, <1>9, <2>1 DEF AccountAfter, NoAccount
  <2> QED  BY <1>8, <1>9, <2>2, SumNone DEF Balanced
<1>10. (\A r, q \in ledger : r.key = q.key => r = q)'
  <2> SUFFICES ASSUME NEW r \in ledger', NEW q \in ledger', r.key = q.key
               PROVE  r = q
    OBVIOUS
  <2>1. PICK a \in ledger, b \in ledger : r = named(a) /\ q = named(b)
    BY <1>4
  <2>2. a = b
    BY <1>5, <2>1 DEF SumInv
  <2> QED  BY <2>1, <2>2
<1>11. Covered(ledger)'
  <2>1. \A k : Has(ledger, k) => Has(ledger', k)
    BY <1>4, <1>5 DEF Has
  <2> SUFFICES ASSUME NEW r \in ledger', r.key[1] = "unenforced"
               PROVE  Has(ledger', <<"debit", r.key[2], r.key[3]>>)
    BY DEF Covered
  <2>2. PICK a \in ledger : r.key = a.key
    BY <1>4, <1>5
  <2>3. Has(ledger, <<"debit", r.key[2], r.key[3]>>)
    BY <2>2 DEF SumInv, Covered
  <2> QED  BY <2>1, <2>3
<1>12. u \notin torn' => /\ RowsOf(u)' \subseteq RowsOf(u)
                         /\ account'[u].balance \in {account[u].balance, 0}
  BY <1>4, <1>8, <1>9
<1>13. /\ \A v \in Users \ (torn' \union {u}) : Balanced(v)'
       /\ \A x \in Sessions : Booked(tx[x])' /\ Leaving(tx[x])'
  BY <1>0, <1>1, <1>8, <1>12, CommitApart
<1> QED  BY <1>4, <1>6, <1>9, <1>10, <1>11, <1>13 DEF SumInv

LEMMA SumNext ==
    ASSUME CreditAssumption, LockInv, PlanInv, SumInv, [Next]_vars
    PROVE  SumInv'
<1>0. IInv
  BY DEF LockInv
<1>1. ASSUME NEW s \in Sessions, BeginSome(s) \/ SettleStep(s) \/ Abort(s)
      PROVE  SumInv'
  BY <1>0, <1>1, SumBegin, SumSettle, SumRollback DEF Abort
<1>2. ASSUME NEW s \in Sessions, ChargeStep(s)
      PROVE  SumInv'
  BY <1>0, <1>2, SumMint, SumDecide, SumPlanSong, SumDebit, SumTake DEF ChargeStep
<1>3. ASSUME NEW s \in Sessions,
             \/ WriteGrant(s) \/ GrantAgain(s) \/ AnonymiseRows(s) \/ DeleteAccount(s)
             \/ Commit(s)
      PROVE  SumInv'
  BY <1>0, <1>3, SumGrant, SumForget, CommitWrites, CommitErases
<1>4. CASE (\E u \in Users : PlanSale(u)) \/ NextWindow \/ UNCHANGED vars
  <2>1. UNCHANGED <<account, ledger, tx, torn>>
    BY <1>4 DEF PlanSale, NextWindow, vars, history
  <2>2. \A u : RowsOf(u)' = RowsOf(u)
    BY <2>1 DEF RowsOf
  <2>3. \A x \in Sessions : Booked(tx[x])' /\ Leaving(tx[x])'
    BY <2>1, <2>2 DEF SumInv, Booked, Leaving, Complete, Covered, Uncovered
  <2>4. \A u \in Users \ torn' : Balanced(u)'
    BY <2>1, <2>2 DEF SumInv, Balanced
  <2> QED  BY <2>1, <2>3, <2>4 DEF SumInv, Covered
<1> QED  BY <1>1, <1>2, <1>3, <1>4 DEF Next

LEMMA SumInit == CreditAssumption /\ Init => SumInv
<1> SUFFICES ASSUME CreditAssumption, Init
             PROVE  SumInv
  OBVIOUS
<1>1. ledger = {} /\ \A u : RowsOf(u) = {}
  BY DEF Init, RowsOf
<1>2. \A u \in Users : Balanced(u)
  BY <1>1, SumNone DEF Init, Balanced, NoAccount
<1> QED
  BY <1>1, <1>2, IdleBooked, FS_EmptySet DEF Init, SumInv, Covered

\* Every balance is the sum of its account's rows, whatever overlaps, for every
\* account nobody wrote to while its erasure was between its statements: the row a
\* transaction writes and the move it makes are committed together or not at all.
THEOREM BalancesAreSums == Spec => []BalanceIsTheSum
<1>1. CreditAssumption
  BY CreditAssumption
<1>2. SumInv => BalanceIsTheSum
  BY DEF SumInv, Balanced, BalanceIsTheSum, RowsOf
<1>3. Init => SumInv
  BY <1>1, SumInit
<1>4. LockInv /\ PlanInv /\ SumInv /\ [Next]_vars => SumInv'
  BY <1>1, SumNext
<1> QED  BY <1>2, <1>3, <1>4, Locks, Songs, PTL DEF Spec
=============================================================================
