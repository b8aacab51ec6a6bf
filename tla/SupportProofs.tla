------------------------------ MODULE SupportProofs ------------------------------
(***************************************************************************)
(* A support ticket, for any number of answers, card syncs, staff and      *)
(* tries and any failures: the state is well typed, the ticket has one     *)
(* card, an answer is told again only after a delivery nobody could know   *)
(* of, and the timeline tells the moves that were made.                    *)
(***************************************************************************)
EXTENDS Support, FiniteSetTheorems, TLAPS

-----------------------------------------------------------------------------
(* The inductive invariant. *)

\* The steps of a post that may still end with a card in the group.
Posting == {"send", "claim", "undo"}
Holding == {"claim", "undo"}

\* A post holds the card it sent, until it has claimed or withdrawn it: a card that
\* stands in the group and that the ticket does not name.
Hands == \A p \in Posters :
    /\ poster[p].pc \in Holding => poster[p].card \in cards \ {None, ticket.card}
    /\ poster[p].pc \notin Holding => poster[p].card = None
OwnCards == \A p, q \in Posters : p # q /\ poster[p].card = poster[q].card => poster[p].card = None
\* The card the ticket names stands, and the post that claimed it is over: posts that
\* begin find it.
Named == ticket.card # None =>
    /\ ticket.card \in cards
    /\ \E p \in Posters : poster[p].pc \notin Posting
\* Every card that nobody answers for cost a failure.
Stray == cards \ ({ticket.card} \union {poster[p].card : p \in Posters})
Few == Cardinality(Stray) <= MaxFaults - luck
CardInv == Hands /\ OwnCards /\ Named /\ Few

\* An answer that was not stamped and may be told again was told no more often than
\* Telegram's answer was lost or an execution was killed before its stamp.
Answered(a) ==
    /\ a.told <= 1 + a.spared
    /\ a.pc \in {"none", "queued", "send"} /\ ~a.relayed => a.told <= a.spared
    /\ a.pc \in {"none", "send", "stamp"} => ~a.relayed
Answers == \A r \in Replies : Answered(reply[r]) /\ reply[r].spared <= MaxFaults - luck

IInv == TypeOK /\ CardInv /\ Answers

-----------------------------------------------------------------------------
LEMMA Numbers ==
    /\ MaxTries \in Nat \ {0} /\ MaxFaults \in Nat /\ None \notin Nat
    /\ IsFiniteSet(Posters) /\ Cardinality(Posters) \in Nat
    /\ Bot \in Posters /\ Bot \notin Syncs /\ Syncs \subseteq Posters
    /\ Customer \in Movers /\ Staff \subseteq Movers
    /\ Cards \subseteq Nat /\ IsFiniteSet(Cards)
    /\ Cardinality(Cards) = Cardinality(Posters) + MaxFaults
<1>1. /\ MaxTries \in Nat \ {0} /\ MaxFaults \in Nat /\ None \notin Nat
      /\ IsFiniteSet(Syncs) /\ Bot \notin Syncs
  BY SupportAssumption DEF SupportAssumption
<1>2. IsFiniteSet(Posters)
  <2>1. Posters = Syncs \union {Bot}
    BY DEF Posters
  <2> QED
    BY <1>1, <2>1, FS_AddElement
<1>3. Cardinality(Posters) \in Nat
  BY <1>2, FS_CardinalityType
<1>4. Cards \subseteq Nat /\ IsFiniteSet(Cards)
      /\ Cardinality(Cards) = Cardinality(Posters) + MaxFaults
  <2> DEFINE n == Cardinality(Posters) + MaxFaults
  <2>1. 1 \in Int /\ n \in Int /\ n \in Nat
    BY <1>1, <1>3
  <2>2. IsFiniteSet(1..n) /\ Cardinality(1..n) = IF 1 > n THEN 0 ELSE n - 1 + 1
    BY <2>1, FS_Interval
  <2> HIDE DEF n
  <2>3. Cardinality(1..n) = n
    BY <2>1, <2>2
  <2> QED
    BY <2>1, <2>2, <2>3 DEF Cards, n
<1> QED
  BY <1>1, <1>2, <1>3, <1>4 DEF Posters, Movers

\* A move that was made starts where the ticket was, and is legal.
LEMMA MovedType ==
    ASSUME ticket \in Ticket, NEW sees \in Status, NEW to \in Status
    PROVE  Moved(sees, to) \in Ticket /\ Moved(sees, to).card = ticket.card
  BY DEF Moved, Ticket

-----------------------------------------------------------------------------
(***************************************************************************)
(* Types.                                                                  *)
(***************************************************************************)
LEMMA Luck ==
    ASSUME TypeOK
    PROVE  /\ \A f : Goes(f) \subseteq BOOLEAN
           /\ \A f : \A ok \in Goes(f) : Spend(ok) =>
                luck' \in 0..MaxFaults /\ luck' <= luck /\ (~ok => luck' = luck - 1)
           /\ \A f : FALSE \in Goes(f) /\ Spend(FALSE) =>
                luck' \in 0..MaxFaults /\ luck' = luck - 1
<1>1. luck \in 0..MaxFaults /\ MaxFaults \in Nat
  BY Numbers DEF TypeOK
<1>2. ASSUME NEW f PROVE Goes(f) \subseteq BOOLEAN /\ (FALSE \in Goes(f) => luck > 0)
  BY DEF Goes
<1>3. ASSUME NEW f, NEW ok \in Goes(f), Spend(ok)
      PROVE  luck' \in 0..MaxFaults /\ luck' <= luck /\ (~ok => luck' = luck - 1)
  <2>1. CASE ok
    BY <1>1, <1>3, <2>1 DEF Spend
  <2>2. CASE ~ok
    <3>1. FALSE \in Goes(f)
      BY <1>2, <2>2
    <3>2. luck > 0 /\ luck' = luck - 1
      BY <1>2, <1>3, <2>2, <3>1 DEF Spend
    <3> QED
      BY <1>1, <3>2
  <2> QED
    BY <2>1, <2>2
<1>4. ASSUME NEW f, FALSE \in Goes(f), Spend(FALSE)
      PROVE  luck' \in 0..MaxFaults /\ luck' = luck - 1
  <2>1. luck > 0 /\ luck' = luck - 1
    BY <1>2, <1>4 DEF Spend
  <2> QED
    BY <1>1, <2>1
<1> QED
  BY <1>2, <1>3, <1>4

LEMMA CustomerTypes ==
    ASSUME TypeOK, Prompt \/ Describe \/ FollowUp
    PROVE  TypeOK'
<1>1. ticket \in Ticket /\ poster \in [Posters -> Poster] /\ mover \in [Movers -> Mover]
  BY DEF TypeOK
<1>2. CASE Prompt
  <2>1. PICK sent \in Goes("telegram") :
          Spend(sent) /\ ticket' = [ticket EXCEPT !.hears = @ \/ sent]
    BY <1>2 DEF Prompt
  <2>2. luck' \in 0..MaxFaults
    BY <2>1, Luck
  <2>3. (ticket.hears \/ sent) \in BOOLEAN
    OBVIOUS
  <2>4. PICK h \in BOOLEAN : h = (ticket.hears \/ sent)
    BY <2>3
  <2>5. ticket' = [ticket EXCEPT !.hears = h]
    BY <2>1, <2>4
  <2>6. ticket' \in Ticket
    BY <1>1, <2>5 DEF Ticket
  <2> QED
    BY <1>2, <2>2, <2>6 DEF Prompt, TypeOK
<1>3. CASE Describe
  <2>1. PICK ok \in Goes("write") :
          /\ Spend(ok) /\ ticket' = [ticket EXCEPT !.described = ok]
          /\ poster' = IF ok /\ ticket.card = None /\ inbox
                       THEN [poster EXCEPT ![Bot].pc = "send"] ELSE poster
    BY <1>3 DEF Describe
  <2>2. luck' \in 0..MaxFaults /\ ok \in BOOLEAN
    BY <2>1, Luck
  <2>3. ticket' \in Ticket
    BY <1>1, <2>1, <2>2 DEF Ticket
  <2>4. poster' \in [Posters -> Poster]
    BY <1>1, <2>1, Numbers DEF Poster
  <2> QED
    BY <1>3, <2>2, <2>3, <2>4 DEF Describe, TypeOK
<1>4. CASE FollowUp
  <2>1. [pc |-> "move", sees |-> ticket.status, to |-> "in_progress"] \in Mover
    BY <1>1 DEF Ticket, Mover, Status
  <2>2. mover' \in [Movers -> Mover]
    BY <1>1, <1>4, <2>1 DEF FollowUp
  <2> QED
    BY <1>4, <2>2 DEF FollowUp, TypeOK
<1> QED
  BY <1>2, <1>3, <1>4

LEMMA StaffTypes ==
    ASSUME TypeOK, NEW m \in Movers, Press(m) \/ Move(m)
    PROVE  TypeOK'
<1>1. ticket \in Ticket /\ mover \in [Movers -> Mover] /\ mover[m] \in Mover
  BY DEF TypeOK
<1>2. CASE Press(m)
  <2>1. PICK to \in {"in_progress", "resolved"} :
          mover' = [mover EXCEPT ![m] = [pc |-> "move", sees |-> ticket.status, to |-> to]]
    BY <1>2 DEF Press
  <2>2. [pc |-> "move", sees |-> ticket.status, to |-> to] \in Mover
    BY <1>1 DEF Ticket, Mover, Status
  <2>3. mover' \in [Movers -> Mover]
    BY <1>1, <2>1, <2>2
  <2> QED
    BY <1>2, <2>3 DEF Press, TypeOK
<1>3. CASE Move(m)
  <2>1. PICK ok \in Goes("write") :
          Spend(ok) /\ ticket' = IF ok THEN Moved(mover[m].sees, mover[m].to) ELSE ticket
    BY <1>3 DEF Move
  <2>2. luck' \in 0..MaxFaults
    BY <2>1, Luck
  <2>3. ticket' \in Ticket
    BY <1>1, <2>1, MovedType DEF Mover
  <2>4. mover' \in [Movers -> Mover]
    <3>1. IdleMover \in Mover
      BY DEF IdleMover, Mover, Status
    <3> QED
      BY <1>1, <1>3, <3>1 DEF Move
  <2> QED
    BY <1>3, <2>2, <2>3, <2>4 DEF Move, TypeOK
<1> QED
  BY <1>2, <1>3

LEMMA PanelTypes ==
    ASSUME TypeOK, Board \/ Repoint \/ \E r \in Replies : Compose(r) \/ Answer(r)
    PROVE  TypeOK'
<1>1. /\ ticket \in Ticket /\ poster \in [Posters -> Poster] /\ reply \in [Replies -> Reply]
      /\ inbox \in BOOLEAN
  BY DEF TypeOK
<1>2. CASE Board
  <2>1. PICK to \in Status : ticket' = Moved(ticket.status, to)
    BY <1>2 DEF Board
  <2>2. ticket' \in Ticket
    BY <1>1, <2>1, MovedType DEF Ticket
  <2>3. PICK s \in Syncs, ok \in Goes("enqueue") :
          /\ Spend(ok)
          /\ poster' = IF ok THEN [poster EXCEPT ![s].pc = "queued"] ELSE poster
    BY <1>2 DEF Board
  <2>4. luck' \in 0..MaxFaults
    BY <2>3, Luck
  <2>5. poster' \in [Posters -> Poster]
    BY <1>1, <2>3, Numbers DEF Poster
  <2> QED
    BY <1>2, <2>2, <2>4, <2>5 DEF Board, TypeOK
<1>3. CASE Repoint
  BY <1>3 DEF Repoint, TypeOK
<1>4. ASSUME NEW r \in Replies, Compose(r) PROVE TypeOK'
  <2>1. PICK ok \in Goes("enqueue") :
          /\ Spend(ok)
          /\ reply' = [reply EXCEPT ![r].door = "panel",
                                    ![r].pc = IF ok THEN "queued" ELSE "unsent"]
    BY <1>4 DEF Compose
  <2> DEFINE step == IF ok THEN "queued" ELSE "unsent"
  <2>2. step \in {"queued", "unsent"} /\ luck' \in 0..MaxFaults
    BY <2>1, Luck
  <2>3. reply' = [reply EXCEPT ![r].door = "panel", ![r].pc = step]
    BY <2>1
  <2> HIDE DEF step
  <2>4. reply' \in [Replies -> Reply]
    <3> DEFINE mine == [reply[r] EXCEPT !.door = "panel", !.pc = step]
    <3>1. mine \in Reply
      <4>1. reply[r] \in Reply
        BY <1>1
      <4> QED
        BY <2>2, <4>1 DEF Reply
    <3>2. reply' = [q \in Replies |-> IF q = r THEN mine ELSE reply[q]]
      BY <1>1, <2>3
    <3> HIDE DEF mine
    <3> QED
      BY <1>1, <3>1, <3>2
  <2> QED
    BY <1>4, <2>2, <2>4 DEF Compose, TypeOK
<1>5. ASSUME NEW r \in Replies, Answer(r) PROVE TypeOK'
  <2>1. PICK ok \in Goes("write") :
          /\ Spend(ok)
          /\ reply' = [reply EXCEPT ![r].door = "group",
                                    ![r].pc = IF ok THEN "send" ELSE "unsent",
                                    ![r].new = (ticket.status = "new")]
    BY <1>5 DEF Answer
  <2> DEFINE step == IF ok THEN "send" ELSE "unsent"
             new == ticket.status = "new"
  <2>2. step \in {"send", "unsent"} /\ new \in BOOLEAN /\ luck' \in 0..MaxFaults
    BY <2>1, Luck
  <2>3. reply' = [reply EXCEPT ![r].door = "group", ![r].pc = step, ![r].new = new]
    BY <2>1
  <2> HIDE DEF step, new
  <2>4. reply' \in [Replies -> Reply]
    <3> DEFINE mine == [reply[r] EXCEPT !.door = "group", !.pc = step, !.new = new]
    <3>1. mine \in Reply
      <4>1. reply[r] \in Reply
        BY <1>1
      <4> QED
        BY <2>2, <4>1 DEF Reply
    <3>2. reply' = [q \in Replies |-> IF q = r THEN mine ELSE reply[q]]
      BY <1>1, <2>3
    <3> HIDE DEF mine
    <3> QED
      BY <1>1, <3>1, <3>2
  <2> QED
    BY <1>5, <2>2, <2>4 DEF Answer, TypeOK
<1> QED
  BY <1>2, <1>3, <1>4, <1>5

-----------------------------------------------------------------------------
(***************************************************************************)
(* Cards.                                                                  *)
(***************************************************************************)

\* What is left behind costs a failure.
LEMMA Strays ==
    ASSUME TypeOK, TypeOK', Few,
           \/ Stray' \subseteq Stray /\ luck' <= luck
           \/ luck' = luck - 1 /\ \E c : Stray' \subseteq Stray \union {c}
    PROVE  Few'
<1>1. /\ luck \in 0..MaxFaults /\ luck' \in 0..MaxFaults /\ MaxFaults \in Nat
      /\ Stray \in SUBSET Cards
  BY Numbers DEF TypeOK, Stray
<1>2. IsFiniteSet(Stray) /\ Cardinality(Stray) \in Nat
  <2>1. IsFiniteSet(Stray)
    BY <1>1, Numbers, FS_Subset
  <2> QED
    BY <2>1, FS_CardinalityType
<1>3. CASE Stray' \subseteq Stray /\ luck' <= luck
  <2>1. IsFiniteSet(Stray') /\ Cardinality(Stray') <= Cardinality(Stray)
    BY <1>2, <1>3, FS_Subset
  <2>2. Cardinality(Stray') \in Nat
    BY <2>1, FS_CardinalityType
  <2> QED
    BY <1>1, <1>2, <1>3, <2>1, <2>2 DEF Few
<1>4. ASSUME NEW c, Stray' \subseteq Stray \union {c}, luck' = luck - 1 PROVE Few'
  <2>1. /\ IsFiniteSet(Stray \union {c})
        /\ Cardinality(Stray \union {c}) \in {Cardinality(Stray), Cardinality(Stray) + 1}
    BY <1>2, FS_AddElement
  <2>2. IsFiniteSet(Stray') /\ Cardinality(Stray') <= Cardinality(Stray \union {c})
    BY <1>4, <2>1, FS_Subset
  <2>3. Cardinality(Stray') \in Nat
    BY <2>2, FS_CardinalityType
  <2> QED
    BY <1>1, <1>2, <1>4, <2>1, <2>2, <2>3 DEF Few
<1> QED
  BY <1>3, <1>4

\* Steps that touch neither the cards nor who holds them; no post begins when the ticket
\* has its card.
LEMMA SameHands ==
    ASSUME TypeOK, TypeOK', CardInv, cards' = cards, ticket'.card = ticket.card, luck' <= luck,
           \A p \in Posters :
              /\ poster'[p].card = poster[p].card
              /\ poster'[p].pc \in Holding <=> poster[p].pc \in Holding
              /\ poster'[p].pc \in Posting => poster[p].pc \in Posting \/ ticket.card = None
    PROVE  CardInv'
<1>1. Hands' /\ OwnCards'
  BY DEF CardInv, Hands, OwnCards
<1>2. Named'
  BY DEF CardInv, Named
<1>3. Few'
  <2>1. {poster'[p].card : p \in Posters} = {poster[p].card : p \in Posters}
    OBVIOUS
  <2>2. Stray' = Stray
    BY <2>1 DEF Stray
  <2> QED
    BY <2>2, Strays DEF CardInv
<1> QED
  BY <1>1, <1>2, <1>3 DEF CardInv

LEMMA OnePoster ==
    ASSUME TypeOK, NEW p \in Posters, NEW job \in Poster, poster' = [poster EXCEPT ![p] = job],
           cards' \subseteq Cards, ticket' \in Ticket, luck' \in 0..MaxFaults,
           UNCHANGED <<inbox, mover, reply>>
    PROVE  /\ TypeOK' /\ poster'[p] = job
           /\ \A q \in Posters : q # p => poster'[q] = poster[q]
  BY DEF TypeOK

\* An execution that holds no card goes on, and holds none.
LEMMA EmptyHands ==
    ASSUME IInv, NEW p \in Posters, NEW job \in Poster, poster' = [poster EXCEPT ![p] = job],
           poster[p].pc \notin Holding, job.pc \notin Holding, job.card = None,
           job.pc \in Posting => poster[p].pc \in Posting \/ ticket.card = None,
           luck' \in 0..MaxFaults, luck' <= luck, ticket' \in Ticket,
           ticket'.card = ticket.card, UNCHANGED <<cards, inbox, mover, reply>>
    PROVE  TypeOK' /\ CardInv'
<1>1. /\ TypeOK' /\ poster'[p] = job /\ cards' = cards
      /\ \A q \in Posters : q # p => poster'[q] = poster[q]
  BY OnePoster DEF IInv, TypeOK
<1>2. poster[p].card = None
  BY DEF IInv, CardInv, Hands
<1> QED
  BY <1>1, <1>2, SameHands DEF IInv

\* One that fails to deal with the card it holds, or is killed, leaves it behind.
LEMMA DropsCard ==
    ASSUME IInv, NEW p \in Posters, NEW job \in Poster, poster' = [poster EXCEPT ![p] = job],
           job.pc \notin Posting, job.card = None, luck' \in 0..MaxFaults, luck' = luck - 1,
           UNCHANGED <<ticket, cards, inbox, mover>>, reply' \in [Replies -> Reply],
           TypeOK'
    PROVE  CardInv'
<1>1. /\ poster'[p] = job
      /\ \A q \in Posters : q # p => poster'[q] = poster[q]
  BY DEF IInv, TypeOK
<1>2. Hands' /\ OwnCards' /\ Named'
  BY <1>1 DEF IInv, CardInv, Hands, OwnCards, Named, Posting, Holding
<1>3. Stray' \subseteq Stray \union {poster[p].card}
  BY <1>1 DEF Stray
<1>4. Few'
  BY <1>3, Strays DEF IInv, CardInv
<1> QED
  BY <1>2, <1>4 DEF CardInv

\* A card that a post sends is a new one: there is a number for it.
LEMMA FreshCard ==
    ASSUME IInv, NEW p \in Posters, poster[p].pc = "send"
    PROVE  Cards \ cards # {}
<1> SUFFICES ASSUME Cards \subseteq cards PROVE FALSE
  OBVIOUS
<1> DEFINE Q == {q \in Posters : poster[q].pc \in Holding}
           f == [q \in Q |-> poster[q].card]
           held == {f[q] : q \in Q}
           named == {ticket.card} \ {None}
<1>1. /\ cards = Cards /\ Stray \in SUBSET Cards /\ luck \in 0..MaxFaults
      /\ MaxFaults \in Nat /\ Cardinality(Posters) \in Nat
  BY Numbers DEF IInv, TypeOK, Stray
<1>2. IsFiniteSet(Stray) /\ Cardinality(Stray) \in Nat /\ Cardinality(Stray) <= MaxFaults - luck
  <2>1. IsFiniteSet(Stray)
    BY <1>1, Numbers, FS_Subset
  <2> QED
    BY <2>1, FS_CardinalityType DEF IInv, CardInv, Few
<1>3. Q \subseteq Posters \ {p}
  BY DEF Holding
<1>4. ASSUME NEW S, S \subseteq Posters, Q \subseteq S
      PROVE  /\ IsFiniteSet(held) /\ Cardinality(held) \in Nat
             /\ Cardinality(held) <= Cardinality(S)
  <2>1. IsFiniteSet(S)
    BY <1>4, Numbers, FS_Subset
  <2>2. IsFiniteSet(Q) /\ Cardinality(Q) <= Cardinality(S)
    BY <1>4, <2>1, FS_Subset
  <2>3. f \in Surjection(Q, held)
    BY DEF Surjection
  <2> HIDE DEF Q, f, held
  <2>4. IsFiniteSet(held) /\ Cardinality(held) <= Cardinality(Q)
    BY <2>2, <2>3, FS_Surjection
  <2>5. Cardinality(held) \in Nat /\ Cardinality(Q) \in Nat /\ Cardinality(S) \in Nat
    BY <2>1, <2>2, <2>4, FS_CardinalityType
  <2> QED
    BY <2>2, <2>4, <2>5
<1>5. Cards \subseteq (Stray \union held) \union named
  <2> SUFFICES ASSUME NEW c \in Cards, c \notin Stray, c # ticket.card PROVE c \in held
    BY Numbers
  <2>1. PICK q \in Posters : poster[q].card = c
    BY <1>1 DEF Stray
  <2>2. c # None
    BY Numbers
  <2>3. q \in Q
    BY <2>1, <2>2 DEF IInv, CardInv, Hands
  <2>4. f[q] = c
    BY <2>1, <2>3
  <2> QED
    BY <2>3, <2>4
<1>6. IsFiniteSet(held) /\ Cardinality(held) \in Nat
  BY <1>3, <1>4
<1>7. /\ IsFiniteSet(Stray \union held) /\ Cardinality(Stray \union held) \in Nat
      /\ Cardinality(Stray \union held) <= Cardinality(Stray) + Cardinality(held)
  <2> HIDE DEF held
  <2>1. /\ IsFiniteSet(Stray \union held)
        /\ Cardinality(Stray \union held) =
              Cardinality(Stray) + Cardinality(held) - Cardinality(Stray \intersect held)
    BY <1>2, <1>6, FS_Union
  <2>2. IsFiniteSet(Stray \intersect held)
    BY <1>2, FS_Subset
  <2>3. Cardinality(Stray \intersect held) \in Nat /\ Cardinality(Stray \union held) \in Nat
    BY <2>1, <2>2, FS_CardinalityType
  <2> QED
    BY <1>2, <1>6, <2>1, <2>3
<1> HIDE DEF held, Q
<1>8. CASE ticket.card = None
  <2>1. Cards \subseteq Stray \union held
    BY <1>5, <1>8
  <2>2. Cardinality(Cards) <= Cardinality(Stray \union held)
    BY <1>7, <2>1, FS_Subset
  <2>3. Cardinality(Posters \ {p}) = Cardinality(Posters) - 1
    BY Numbers, FS_RemoveElement
  <2>4. Cardinality(held) <= Cardinality(Posters \ {p})
    BY <1>3, <1>4
  <2> QED
    BY <1>1, <1>2, <1>6, <1>7, <2>2, <2>3, <2>4, Numbers
<1>9. CASE ticket.card # None
  <2>1. PICK z \in Posters : poster[z].pc \notin Posting
    BY <1>9 DEF IInv, CardInv, Named
  <2>2. z # p /\ z \notin Q
    BY <2>1 DEF Q, Posting, Holding
  <2>3. Cardinality((Posters \ {p}) \ {z}) = Cardinality(Posters) - 2
    <3>1. IsFiniteSet(Posters \ {p}) /\ Cardinality(Posters \ {p}) = Cardinality(Posters) - 1
      BY Numbers, FS_RemoveElement
    <3>2. z \in Posters \ {p}
      BY <2>2
    <3>3. Cardinality((Posters \ {p}) \ {z}) = Cardinality(Posters \ {p}) - 1
      BY <3>1, <3>2, FS_RemoveElement
    <3> QED
      BY <1>1, <3>1, <3>3
  <2>4. Cardinality(held) <= Cardinality((Posters \ {p}) \ {z})
    BY <1>3, <1>4, <2>2
  <2>5. Cards \subseteq (Stray \union held) \union {ticket.card}
    BY <1>5
  <2>6. /\ IsFiniteSet((Stray \union held) \union {ticket.card})
        /\ Cardinality((Stray \union held) \union {ticket.card}) <= Cardinality(Stray \union held) + 1
    <3> DEFINE U == Stray \union held
    <3>1. /\ IsFiniteSet(U \union {ticket.card})
          /\ Cardinality(U \union {ticket.card}) =
                IF ticket.card \in U THEN Cardinality(U) ELSE Cardinality(U) + 1
      BY <1>7, FS_AddElement
    <3> HIDE DEF U
    <3>2. Cardinality(U) \in Nat
      BY <1>7 DEF U
    <3>3. Cardinality(U \union {ticket.card}) <= Cardinality(U) + 1
      BY <3>1, <3>2
    <3> QED
      BY <3>1, <3>3 DEF U
  <2>7. Cardinality(Cards) <= Cardinality((Stray \union held) \union {ticket.card})
    BY <2>5, <2>6, FS_Subset
  <2>8. Cardinality((Stray \union held) \union {ticket.card}) \in Nat
    BY <2>6, FS_CardinalityType
  <2> QED
    BY <1>1, <1>2, <1>6, <1>7, <2>3, <2>4, <2>6, <2>7, <2>8, Numbers
<1> QED
  BY <1>8, <1>9

LEMMA Places ==
    ASSUME TypeOK
    PROVE  /\ IdlePoster \in Poster /\ IdlePoster.pc = "idle" /\ IdlePoster.card = None
           /\ \A p \in Posters : /\ Posted(p) \in Poster /\ Posted(p).card = None
                                 /\ Posted(p).pc \in {"idle", "check"}
           /\ \A s \in Syncs : /\ Again(s) \in Poster /\ Again(s).pc \in {"idle", "queued"}
                               /\ Again(s).card \in {None, poster[s].card}
<1>1. poster \in [Posters -> Poster] /\ 0 \in 0..MaxTries
  BY Numbers DEF TypeOK
<1>2. IdlePoster \in Poster /\ IdlePoster.pc = "idle" /\ IdlePoster.card = None
  BY <1>1 DEF IdlePoster, Poster
<1>3. ASSUME NEW p \in Posters
      PROVE  /\ Posted(p) \in Poster /\ Posted(p).card = None
             /\ Posted(p).pc \in {"idle", "check"}
  BY <1>1, <1>2 DEF Posted, Poster
<1>4. ASSUME NEW s \in Syncs
      PROVE  /\ Again(s) \in Poster /\ Again(s).pc \in {"idle", "queued"}
             /\ Again(s).card \in {None, poster[s].card}
  <2>1. poster[s] \in Poster
    BY <1>1, Numbers
  <2> QED
    BY <1>2, <2>1 DEF Again, Poster
<1> QED
  BY <1>2, <1>3, <1>4

LEMMA SyncReadKeeps ==
    ASSUME IInv, NEW s \in Syncs, SyncRead(s)
    PROVE  TypeOK' /\ CardInv'
<1> DEFINE try == [poster[s] EXCEPT !.tries = @ + 1]
<1>1. /\ s \in Posters /\ poster[s] \in Poster /\ poster[s].pc = "queued" /\ poster[s].card = None
      /\ ticket \in Ticket /\ UNCHANGED <<ticket, cards, inbox, mover, reply>>
      /\ luck \in 0..MaxFaults
  BY Numbers DEF SyncRead, IInv, TypeOK, CardInv, Hands, Holding
<1>2. luck' \in 0..MaxFaults /\ luck' <= luck
  <2>1. CASE UNCHANGED luck
    BY <1>1, <2>1
  <2>2. CASE FALSE \in Goes("read") /\ Spend(FALSE)
    BY <1>1, <2>2, Luck, Numbers DEF IInv
  <2> QED
    BY <2>1, <2>2 DEF SyncRead
<1>3. CASE poster' = [poster EXCEPT ![s] = IdlePoster]
  BY <1>1, <1>2, <1>3, Places, EmptyHands DEF IInv, Posting, Holding
<1>4. ASSUME ~ Exhausted(poster[s]) PROVE try \in Poster /\ try.card = None
  BY <1>1, <1>4, Numbers DEF Exhausted, Poster
<1>5. CASE /\ ~ Exhausted(poster[s])
           /\ poster' = [poster EXCEPT ![s] =
                              IF ticket.card # None THEN [try EXCEPT !.pc = "edit"]
                              ELSE IF inbox THEN [try EXCEPT !.pc = "send"]
                              ELSE IdlePoster]
  <2> DEFINE job == IF ticket.card # None THEN [try EXCEPT !.pc = "edit"]
                    ELSE IF inbox THEN [try EXCEPT !.pc = "send"] ELSE IdlePoster
  <2>1. /\ job \in Poster /\ job.card = None /\ job.pc \in {"edit", "send", "idle"}
        /\ job.pc = "send" => ticket.card = None
    BY <1>1, <1>4, <1>5, Places DEF IInv, Poster, IdlePoster
  <2>2. poster' = [poster EXCEPT ![s] = job]
    BY <1>5
  <2> HIDE DEF job
  <2> QED
    BY <1>1, <1>2, <2>1, <2>2, EmptyHands DEF Posting, Holding
<1>6. CASE /\ ~ Exhausted(poster[s])
           /\ poster' = [poster EXCEPT ![s] =
                              IF try.tries < MaxTries THEN [@ EXCEPT !.tries = try.tries]
                              ELSE IdlePoster]
  <2> DEFINE job == IF try.tries < MaxTries THEN [poster[s] EXCEPT !.tries = try.tries]
                    ELSE IdlePoster
  <2>1. job \in Poster /\ job.card = None /\ job.pc \in {"queued", "idle"}
    BY <1>1, <1>4, <1>6, Places DEF IInv, Poster, IdlePoster
  <2>2. poster' = [poster EXCEPT ![s] = job]
    BY <1>6
  <2> HIDE DEF job
  <2> QED
    BY <1>1, <1>2, <2>1, <2>2, EmptyHands DEF Posting, Holding
<1> QED
  BY <1>3, <1>5, <1>6 DEF SyncRead

LEMMA SyncEndKeeps ==
    ASSUME IInv, NEW s \in Syncs, SyncCheck(s) \/ SyncEdit(s)
    PROVE  TypeOK' /\ CardInv'
<1>1. /\ s \in Posters /\ poster[s].pc \in {"check", "edit"} /\ poster[s].card = None
      /\ ticket \in Ticket /\ UNCHANGED <<ticket, cards, inbox, mover, reply>>
      /\ luck \in 0..MaxFaults
  BY Numbers DEF SyncCheck, SyncEdit, IInv, TypeOK, CardInv, Hands, Holding
<1>2. luck' \in 0..MaxFaults /\ luck' <= luck
  <2>1. CASE SyncCheck(s)
    BY <2>1, Luck DEF SyncCheck, IInv
  <2>2. CASE UNCHANGED luck
    BY <1>1, <2>2
  <2>3. CASE FALSE \in Goes("telegram") /\ Spend(FALSE)
    BY <1>1, <2>3, Luck, Numbers DEF IInv
  <2> QED
    BY <2>1, <2>2, <2>3 DEF SyncEdit
<1>3. \E job \in {Again(s), IdlePoster} : poster' = [poster EXCEPT ![s] = job]
  BY DEF SyncCheck, SyncEdit
<1>4. PICK job \in {Again(s), IdlePoster} : poster' = [poster EXCEPT ![s] = job]
  BY <1>3
<1>5. job \in Poster /\ job.card = None /\ job.pc \in {"idle", "queued"}
  BY <1>1, Places DEF IInv
<1> QED
  BY <1>1, <1>2, <1>4, <1>5, EmptyHands DEF Posting, Holding

LEMMA SendKeeps ==
    ASSUME IInv, NEW p \in Posters, SendCard(p)
    PROVE  TypeOK' /\ CardInv'
<1> DEFINE new == CHOOSE c \in Cards \ cards : TRUE
<1>1. /\ poster[p] \in Poster /\ poster[p].pc = "send" /\ poster[p].card = None
      /\ ticket \in Ticket /\ cards \subseteq Cards /\ UNCHANGED <<ticket, inbox, mover, reply>>
  BY DEF SendCard, IInv, TypeOK, CardInv, Hands, Holding
<1>2. new \in Cards \ cards
  BY <1>1, FreshCard
<1>3. \/ /\ cards' = cards \union {new} /\ UNCHANGED luck
         /\ poster' = [poster EXCEPT ![p].pc = "claim", ![p].card = new]
      \/ /\ FALSE \in Goes("telegram") /\ Spend(FALSE) /\ cards' \in {cards, cards \union {new}}
         /\ poster' = [poster EXCEPT ![p] = Posted(p)]
  BY DEF SendCard
<1> HIDE DEF new
<1>4. luck' \in 0..MaxFaults /\ luck' <= luck
  <2>1. luck \in 0..MaxFaults /\ MaxFaults \in Nat
    BY Numbers DEF IInv, TypeOK
  <2>2. CASE UNCHANGED luck
    BY <2>1, <2>2
  <2>3. CASE FALSE \in Goes("telegram") /\ Spend(FALSE)
    BY <2>1, <2>3, Luck DEF IInv
  <2> QED
    BY <1>3, <2>2, <2>3
<1>5. CASE /\ FALSE \in Goes("telegram") /\ Spend(FALSE) /\ cards' \in {cards, cards \union {new}}
           /\ poster' = [poster EXCEPT ![p] = Posted(p)]
  <2>1. luck' = luck - 1
    BY <1>5, Luck DEF IInv
  <2>2. /\ Posted(p) \in Poster /\ Posted(p).card = None /\ Posted(p).pc \notin Posting
        /\ Posted(p).pc \notin Holding
    BY Places DEF IInv, Posting, Holding
  <2>3. cards \subseteq cards' /\ cards' \subseteq cards \union {new} /\ cards' \subseteq Cards
    BY <1>1, <1>2, <1>5
  <2>4. /\ TypeOK' /\ poster'[p] = Posted(p)
        /\ \A q \in Posters : q # p => poster'[q] = poster[q]
    BY <1>1, <1>4, <1>5, <2>2, <2>3, OnePoster DEF IInv
  <2>5. \A q \in Posters : poster'[q].card = poster[q].card
    BY <1>1, <2>2, <2>4
  <2>6. Hands' /\ OwnCards' /\ Named'
    BY <1>1, <2>2, <2>3, <2>4, <2>5 DEF IInv, CardInv, Hands, OwnCards, Named
  <2>7. Stray' \subseteq Stray \union {new}
    <3>1. {poster'[q].card : q \in Posters} = {poster[q].card : q \in Posters}
      BY <2>5
    <3> QED
      BY <1>1, <2>3, <3>1 DEF Stray
  <2>8. Few'
    BY <2>1, <2>4, <2>7, Strays DEF IInv, CardInv
  <2> QED
    BY <2>4, <2>6, <2>8 DEF CardInv
<1>6. CASE /\ cards' = cards \union {new} /\ UNCHANGED luck
           /\ poster' = [poster EXCEPT ![p].pc = "claim", ![p].card = new]
  <2> DEFINE job == [poster[p] EXCEPT !.pc = "claim", !.card = new]
  <2>1. poster' = [poster EXCEPT ![p] = job] /\ cards' = cards \union {new}
    BY <1>1, <1>6 DEF IInv, TypeOK, Poster
  <2>2. job \in Poster /\ job.pc = "claim" /\ job.card = new
    BY <1>1, <1>2 DEF Poster
  <2> HIDE DEF job
  <2>3. /\ TypeOK' /\ poster'[p] = job
        /\ \A q \in Posters : q # p => poster'[q] = poster[q]
    BY <1>1, <1>2, <1>4, <2>1, <2>2, OnePoster DEF IInv
  <2>4. new # None /\ None \notin cards
    BY <1>1, <1>2, Numbers
  <2>5. ticket.card # new
    BY <1>2, <2>4 DEF IInv, CardInv, Named
  <2>6. \A q \in Posters : poster[q].card \in cards \union {None}
    BY DEF IInv, CardInv, Hands
  <2>7. Hands'
    BY <1>1, <2>1, <2>2, <2>3, <2>4, <2>5 DEF IInv, CardInv, Hands, Holding
  <2>8. OwnCards'
    BY <1>2, <2>2, <2>3, <2>4, <2>6 DEF IInv, CardInv, OwnCards
  <2>9. Named'
    BY <1>1, <2>1, <2>2, <2>3 DEF IInv, CardInv, Named, Posting
  <2>10. Stray' \subseteq Stray
    <3>1. \A c \in Stray' : c \in cards /\ c # new /\ c # ticket.card
      BY <1>1, <2>1, <2>2, <2>3 DEF Stray
    <3>2. ASSUME NEW c \in Stray', NEW q \in Posters PROVE poster[q].card # c
      <4>1. CASE q = p
        BY <1>1, <2>4, <3>1, <4>1
      <4>2. CASE q # p
        BY <2>3, <4>2 DEF Stray
      <4> QED
        BY <4>1, <4>2
    <3> QED
      BY <3>1, <3>2 DEF Stray
  <2>11. Few'
    BY <1>4, <2>3, <2>10, Strays DEF IInv, CardInv
  <2> QED
    BY <2>3, <2>7, <2>8, <2>9, <2>11 DEF CardInv
<1> QED
  BY <1>3, <1>5, <1>6

LEMMA ClaimCardKeeps ==
    ASSUME IInv, NEW p \in Posters, ClaimCard(p)
    PROVE  TypeOK' /\ CardInv'
<1> DEFINE mine == poster[p].card
<1>1. /\ poster[p] \in Poster /\ poster[p].pc = "claim" /\ mine \in cards \ {None, ticket.card}
      /\ ticket \in Ticket /\ cards \subseteq Cards /\ UNCHANGED <<cards, inbox, mover, reply>>
  BY DEF ClaimCard, IInv, TypeOK, CardInv, Hands, Holding
<1>2. PICK ok \in Goes("write") :
        /\ Spend(ok)
        /\ ticket' = IF ok /\ Unclaimed THEN [ticket EXCEPT !.card = mine] ELSE ticket
        /\ poster' = [poster EXCEPT ![p] =
                        IF ok /\ ~(ok /\ Unclaimed) THEN [@ EXCEPT !.pc = "undo"] ELSE Posted(p)]
  BY DEF ClaimCard
<1>3. luck' \in 0..MaxFaults /\ luck' <= luck /\ ok \in BOOLEAN /\ (~ok => luck' = luck - 1)
  BY <1>2, Luck DEF IInv
<1>4. /\ Posted(p) \in Poster /\ Posted(p).card = None /\ Posted(p).pc \notin Posting
      /\ Posted(p).pc \notin Holding
  BY Places DEF IInv, Posting, Holding
<1>5. CASE ~ok
  <2>1. poster' = [poster EXCEPT ![p] = Posted(p)] /\ ticket' = ticket
    BY <1>2, <1>5
  <2>2. TypeOK'
    BY <1>1, <1>3, <1>4, <2>1, OnePoster DEF IInv
  <2> QED
    BY <1>1, <1>3, <1>4, <1>5, <2>1, <2>2, DropsCard DEF IInv, TypeOK
<1>6. CASE ok /\ ~ Unclaimed
  <2> DEFINE job == [poster[p] EXCEPT !.pc = "undo"]
  <2>1. poster' = [poster EXCEPT ![p] = job] /\ ticket' = ticket
    BY <1>2, <1>6
  <2>2. job \in Poster /\ job.pc = "undo" /\ job.card = mine
    BY <1>1 DEF Poster
  <2> HIDE DEF job
  <2>3. /\ TypeOK' /\ poster'[p] = job
        /\ \A q \in Posters : q # p => poster'[q] = poster[q]
    BY <1>1, <1>3, <2>1, <2>2, OnePoster DEF IInv
  <2> QED
    BY <1>1, <1>3, <2>1, <2>2, <2>3, SameHands DEF IInv, Holding, Posting
<1>7. CASE ok /\ Unclaimed
  <2>1. /\ poster' = [poster EXCEPT ![p] = Posted(p)]
        /\ ticket' = [ticket EXCEPT !.card = mine] /\ ticket.card = None
    BY <1>2, <1>7 DEF Unclaimed
  <2> HIDE DEF mine
  <2>2. ticket' \in Ticket /\ ticket'.card = mine
    BY <1>1, <2>1 DEF Ticket
  <2>3. /\ TypeOK' /\ poster'[p] = Posted(p)
        /\ \A q \in Posters : q # p => poster'[q] = poster[q]
    BY <1>1, <1>3, <1>4, <2>1, <2>2, OnePoster DEF IInv
  <2>4. \A q \in Posters : q # p => poster[q].card # mine
    BY <1>1 DEF IInv, CardInv, OwnCards, mine
  <2>5. Hands'
    BY <1>1, <1>4, <2>2, <2>3, <2>4 DEF IInv, CardInv, Hands
  <2>6. OwnCards'
    BY <1>4, <2>3 DEF IInv, CardInv, OwnCards
  <2>7. Named'
    BY <1>1, <1>4, <2>2, <2>3 DEF Named
  <2>8. Stray' \subseteq Stray
    <3>1. \A c \in Stray' : c \in cards /\ c # mine
      BY <1>1, <2>2 DEF Stray
    <3>2. None \notin cards
      BY <1>1, Numbers
    <3>3. ASSUME NEW c \in Stray', NEW q \in Posters PROVE poster[q].card # c
      <4>1. CASE q = p
        BY <3>1, <4>1 DEF mine
      <4>2. CASE q # p
        BY <2>3, <4>2 DEF Stray
      <4> QED
        BY <4>1, <4>2
    <3> QED
      BY <2>1, <3>1, <3>2, <3>3 DEF Stray
  <2>9. Few'
    BY <1>3, <2>3, <2>8, Strays DEF IInv, CardInv
  <2> QED
    BY <2>3, <2>5, <2>6, <2>7, <2>9 DEF CardInv
<1> QED
  BY <1>3, <1>5, <1>6, <1>7

LEMMA UndoKeeps ==
    ASSUME IInv, NEW p \in Posters, Undo(p)
    PROVE  TypeOK' /\ CardInv'
<1> DEFINE mine == poster[p].card
<1>1. /\ poster[p].pc = "undo" /\ mine \in cards \ {None, ticket.card}
      /\ ticket \in Ticket /\ cards \subseteq Cards /\ UNCHANGED <<ticket, inbox, mover, reply>>
      /\ poster' = [poster EXCEPT ![p] = Posted(p)]
  BY DEF Undo, IInv, TypeOK, CardInv, Hands, Holding
<1>2. PICK ok \in Goes("telegram") :
        Spend(ok) /\ cards' \in {cards \ {mine}} \union (IF ok THEN {} ELSE {cards})
  BY DEF Undo
<1>3. luck' \in 0..MaxFaults /\ luck' <= luck /\ (~ok => luck' = luck - 1)
  BY <1>2, Luck DEF IInv
<1>4. /\ Posted(p) \in Poster /\ Posted(p).card = None /\ Posted(p).pc \notin Posting
      /\ Posted(p).pc \notin Holding
  BY Places DEF IInv, Posting, Holding
<1>5. /\ TypeOK' /\ poster'[p] = Posted(p)
      /\ \A q \in Posters : q # p => poster'[q] = poster[q]
  <2>1. cards' \subseteq Cards
    BY <1>1, <1>2
  <2> QED
    BY <1>1, <1>3, <1>4, <2>1, OnePoster DEF IInv
<1>6. CASE ~ok /\ cards' = cards
  BY <1>1, <1>3, <1>4, <1>5, <1>6, DropsCard DEF IInv, TypeOK
<1>7. CASE cards' = cards \ {mine}
  <2>1. cards' = cards \ {mine}
    BY <1>7
  <2>2. \A q \in Posters : q # p => poster[q].card # mine
    BY <1>1 DEF IInv, CardInv, OwnCards
  <2>3. Hands'
    BY <1>1, <1>4, <1>5, <2>1, <2>2 DEF IInv, CardInv, Hands
  <2>4. OwnCards'
    BY <1>4, <1>5 DEF IInv, CardInv, OwnCards
  <2>5. Named'
    BY <1>1, <1>4, <1>5, <2>1 DEF IInv, CardInv, Named
  <2>6. Stray' \subseteq Stray
    <3>1. ASSUME NEW c \in Stray', NEW q \in Posters PROVE poster[q].card # c
      <4>1. CASE q = p
        BY <2>1, <4>1 DEF Stray
      <4>2. CASE q # p
        BY <1>5, <4>2 DEF Stray
      <4> QED
        BY <4>1, <4>2
    <3> QED
      BY <1>1, <2>1, <3>1 DEF Stray
  <2>7. Few'
    BY <1>3, <1>5, <2>6, Strays DEF IInv, CardInv
  <2> QED
    BY <1>5, <2>3, <2>4, <2>5, <2>7 DEF CardInv
<1> QED
  BY <1>2, <1>6, <1>7

-----------------------------------------------------------------------------
(***************************************************************************)
(* Answers.                                                                *)
(***************************************************************************)
LEMMA OneReply ==
    ASSUME IInv, NEW r \in Replies, NEW mine \in Reply, reply' = [reply EXCEPT ![r] = mine],
           Answered(mine), luck' \in 0..MaxFaults,
           \/ mine.spared = reply[r].spared /\ luck' <= luck
           \/ mine.spared <= reply[r].spared + 1 /\ luck' = luck - 1,
           ticket' \in Ticket, ticket'.card = ticket.card,
           UNCHANGED <<cards, inbox, poster, mover>>
    PROVE  IInv'
<1>1. TypeOK'
  BY DEF IInv, TypeOK
<1>2. CardInv'
  <2>1. luck' <= luck
    BY Numbers DEF IInv, TypeOK
  <2> QED
    BY <1>1, <2>1, SameHands DEF IInv
<1>3. Answers'
  <2>1. \A q \in Replies : reply'[q] = IF q = r THEN mine ELSE reply[q]
    BY DEF IInv, TypeOK
  <2>2. mine.spared \in Nat /\ \A q \in Replies : reply[q].spared \in Nat
    BY DEF IInv, TypeOK, Reply
  <2>3. luck \in Nat /\ luck' \in Nat /\ MaxFaults \in Nat
    BY Numbers DEF IInv, TypeOK
  <2>4. \A q \in Replies : reply'[q].spared <= MaxFaults - luck'
    BY <2>1, <2>2, <2>3 DEF IInv, Answers
  <2> QED
    BY <2>1, <2>4 DEF IInv, Answers
<1> QED
  BY <1>1, <1>2, <1>3 DEF IInv

\* Neither cards nor answers.
LEMMA NoReplies ==
    ASSUME IInv, TypeOK', CardInv', luck' <= luck, reply' = reply
    PROVE  IInv'
<1>1. \A q \in Replies : reply[q].spared \in Nat
  BY DEF IInv, TypeOK, Reply
<1>2. luck \in Nat /\ luck' \in Nat /\ MaxFaults \in Nat
  BY Numbers DEF IInv, TypeOK
<1>3. Answers'
  BY <1>1, <1>2 DEF IInv, Answers
<1> QED
  BY <1>3 DEF IInv

LEMMA ComposeKeeps ==
    ASSUME IInv, NEW r \in Replies, Compose(r)
    PROVE  IInv'
<1>1. PICK ok \in Goes("enqueue") :
        /\ Spend(ok)
        /\ reply' = [reply EXCEPT ![r].door = "panel",
                                  ![r].pc = IF ok THEN "queued" ELSE "unsent"]
  BY DEF Compose
<1> DEFINE step == IF ok THEN "queued" ELSE "unsent"
           mine == [reply[r] EXCEPT !.door = "panel", !.pc = step]
<1>2. step \in {"queued", "unsent"} /\ luck' \in 0..MaxFaults /\ luck' <= luck
  BY <1>1, Luck DEF IInv
<1>3. reply[r] = NoReply /\ reply[r] \in Reply
  BY DEF Compose, IInv, TypeOK
<1>4. reply' = [reply EXCEPT ![r].door = "panel", ![r].pc = step]
  BY <1>1
<1> HIDE DEF step
<1>5. reply' = [reply EXCEPT ![r] = mine]
  BY <1>3, <1>4 DEF IInv, TypeOK, Reply
<1>6. mine \in Reply /\ mine.told = 0 /\ mine.spared = 0 /\ ~mine.relayed /\ mine.pc = step
  <2>1. reply[r].told = 0 /\ reply[r].spared = 0 /\ ~reply[r].relayed
    BY <1>3 DEF NoReply
  <2> QED
    BY <1>2, <1>3, <2>1 DEF Reply
<1>7. Answered(mine) /\ mine.spared = reply[r].spared
  BY <1>3, <1>6 DEF Answered, NoReply
<1> HIDE DEF mine
<1> QED
  BY <1>2, <1>5, <1>6, <1>7, OneReply DEF Compose, IInv, TypeOK

LEMMA AnswerKeeps ==
    ASSUME IInv, NEW r \in Replies, Answer(r)
    PROVE  IInv'
<1>1. PICK ok \in Goes("write") :
        /\ Spend(ok)
        /\ reply' = [reply EXCEPT ![r].door = "group",
                                  ![r].pc = IF ok THEN "send" ELSE "unsent",
                                  ![r].new = (ticket.status = "new")]
  BY DEF Answer
<1> DEFINE step == IF ok THEN "send" ELSE "unsent"
           new == ticket.status = "new"
           mine == [reply[r] EXCEPT !.door = "group", !.pc = step, !.new = new]
<1>2. /\ step \in {"send", "unsent"} /\ new \in BOOLEAN
      /\ luck' \in 0..MaxFaults /\ luck' <= luck
  BY <1>1, Luck DEF IInv
<1>3. reply[r] = NoReply /\ reply[r] \in Reply
  BY DEF Answer, IInv, TypeOK
<1>4. reply' = [reply EXCEPT ![r].door = "group", ![r].pc = step, ![r].new = new]
  BY <1>1
<1> HIDE DEF step, new
<1>5. reply' = [reply EXCEPT ![r] = mine]
  BY <1>3, <1>4 DEF IInv, TypeOK, Reply
<1>6. mine \in Reply /\ mine.told = 0 /\ mine.spared = 0 /\ ~mine.relayed
  <2>1. reply[r].told = 0 /\ reply[r].spared = 0 /\ ~reply[r].relayed
    BY <1>3 DEF NoReply
  <2> QED
    BY <1>2, <1>3, <2>1 DEF Reply
<1>7. Answered(mine) /\ mine.spared = reply[r].spared
  BY <1>3, <1>6 DEF Answered, NoReply
<1> HIDE DEF mine
<1> QED
  BY <1>2, <1>5, <1>6, <1>7, OneReply DEF Answer, IInv, TypeOK

\* A retry keeps all but the place.
LEMMA RetriedFact ==
    ASSUME NEW mine \in Reply, NEW over \in {"gone", "gaveup"}
    PROVE  /\ Retried(mine, over) \in Reply /\ Retried(mine, over).pc \in {"queued", over}
           /\ Retried(mine, over).told = mine.told /\ Retried(mine, over).spared = mine.spared
           /\ Retried(mine, over).relayed = mine.relayed
  BY DEF Retried, Reply

LEMMA RelayReadKeeps ==
    ASSUME IInv, NEW r \in Replies, RelayRead(r)
    PROVE  IInv'
<1> DEFINE mine == [reply[r] EXCEPT !.tries = @ + 1]
<1>1. /\ reply[r] \in Reply /\ reply[r].pc = "queued" /\ Answered(reply[r])
      /\ UNCHANGED <<ticket, cards, inbox, poster, mover>> /\ ticket \in Ticket
      /\ luck \in 0..MaxFaults
  BY DEF RelayRead, IInv, TypeOK, Answers
<1>2. luck' \in 0..MaxFaults /\ luck' <= luck
  <2>1. CASE UNCHANGED luck
    BY <1>1, <2>1
  <2>2. CASE \E f : FALSE \in Goes(f) /\ Spend(FALSE)
    BY <1>1, <2>2, Luck, Numbers DEF IInv
  <2> QED
    BY <2>1, <2>2 DEF RelayRead
<1>3. ~ Exhausted(reply[r]) =>
        /\ mine \in Reply /\ mine.told = reply[r].told /\ mine.spared = reply[r].spared
        /\ mine.relayed = reply[r].relayed /\ mine.pc = "queued"
  BY <1>1, Numbers DEF Exhausted, Reply
<1> DEFINE sent == [mine EXCEPT !.pc = IF Sendable(mine) THEN "send" ELSE "done"]
           gaveup == [reply[r] EXCEPT !.pc = "gaveup"]
<1>4. \/ reply' = [reply EXCEPT ![r] = gaveup]
      \/ /\ ~ Exhausted(reply[r])
         /\ \/ reply' = [reply EXCEPT ![r] = sent]
            \/ reply' = [reply EXCEPT ![r] = Retried(mine, "gaveup")]
            \/ reply' = [reply EXCEPT ![r] = Retried(mine, "gone")]
  <2>1. reply' = [reply EXCEPT ![r].pc = "gaveup"] => reply' = [reply EXCEPT ![r] = gaveup]
    BY <1>1 DEF IInv, TypeOK, Reply
  <2> QED
    BY <2>1 DEF RelayRead, Missing
<1>5. CASE reply' = [reply EXCEPT ![r] = gaveup]
  <2>1. /\ gaveup \in Reply /\ gaveup.told = reply[r].told /\ gaveup.spared = reply[r].spared
        /\ gaveup.pc = "gaveup"
    BY <1>1 DEF Reply
  <2>2. Answered(gaveup)
    BY <1>1, <2>1 DEF Answered
  <2> QED
    BY <1>1, <1>2, <1>5, <2>1, <2>2, OneReply
<1>6. CASE ~ Exhausted(reply[r]) /\ reply' = [reply EXCEPT ![r] = sent]
  <2>1. /\ sent \in Reply /\ sent.told = reply[r].told /\ sent.spared = reply[r].spared
        /\ sent.relayed = reply[r].relayed
        /\ \/ sent.pc = "send" /\ ~reply[r].relayed
           \/ sent.pc = "done"
    BY <1>3, <1>6 DEF Reply, Sendable
  <2>2. Answered(sent)
    BY <1>1, <2>1 DEF Answered
  <2> HIDE DEF sent
  <2> QED
    BY <1>1, <1>2, <1>6, <2>1, <2>2, OneReply
<1>7. ASSUME NEW over \in {"gone", "gaveup"}, ~ Exhausted(reply[r]),
             reply' = [reply EXCEPT ![r] = Retried(mine, over)]
      PROVE  IInv'
  <2> DEFINE next == Retried(mine, over)
  <2>1. /\ next \in Reply /\ next.told = reply[r].told /\ next.spared = reply[r].spared
        /\ next.relayed = reply[r].relayed /\ next.pc \in {"queued", over}
    BY <1>3, <1>7, RetriedFact
  <2>2. reply' = [reply EXCEPT ![r] = next]
    BY <1>7
  <2> HIDE DEF next
  <2>3. Answered(next)
    BY <1>1, <2>1 DEF Answered
  <2> QED
    BY <1>1, <1>2, <2>1, <2>2, <2>3, OneReply
<1> QED
  BY <1>4, <1>5, <1>6, <1>7

\* One more copy, and nothing else.
LEMMA ToldFact ==
    ASSUME NEW mine \in Reply
    PROVE  /\ Told(mine) \in Reply /\ Told(mine).told <= mine.told + 1
           /\ Told(mine).door = mine.door /\ Told(mine).pc = mine.pc
           /\ Told(mine).spared = mine.spared /\ Told(mine).relayed = mine.relayed
<1>1. mine.told \in 0..2
  BY DEF Reply
<1> QED
  BY <1>1 DEF Told, Reply

LEMMA DeliverKeeps ==
    ASSUME IInv, NEW r \in Replies, Deliver(r)
    PROVE  IInv'
<1>1. /\ reply[r] \in Reply /\ reply[r].pc = "send" /\ Answered(reply[r])
      /\ UNCHANGED <<ticket, cards, inbox, poster, mover>> /\ ticket \in Ticket
      /\ luck \in 0..MaxFaults /\ MaxFaults \in Nat /\ reply \in [Replies -> Reply]
      /\ reply[r].spared \in Nat /\ reply[r].told \in Nat
      /\ reply[r].spared <= MaxFaults - luck
  BY Numbers DEF Deliver, IInv, TypeOK, Answers, Reply
<1>2. ~reply[r].relayed /\ reply[r].told <= reply[r].spared
  BY <1>1 DEF Answered
<1>3. CASE reply' = [reply EXCEPT ![r] = [Told(@) EXCEPT !.pc = "stamp"]] /\ UNCHANGED luck
  <2> DEFINE mine == [Told(reply[r]) EXCEPT !.pc = "stamp"]
  <2>1. reply' = [reply EXCEPT ![r] = mine]
    BY <1>3
  <2>2. /\ mine \in Reply /\ mine.told <= reply[r].told + 1 /\ mine.spared = reply[r].spared
        /\ mine.relayed = reply[r].relayed /\ mine.pc = "stamp" /\ mine.told \in Nat
    BY <1>1, ToldFact DEF Reply
  <2> HIDE DEF mine
  <2>3. Answered(mine)
    BY <1>1, <1>2, <2>2 DEF Answered
  <2>4. luck' \in 0..MaxFaults /\ luck' <= luck
    BY <1>1, <1>3
  <2> QED
    BY <1>1, <2>1, <2>2, <2>3, <2>4, OneReply
<1>4. ASSUME NEW step \in {"report", "refused"}, reply' = [reply EXCEPT ![r].pc = step],
             FALSE \in Goes("blocked"), Spend(FALSE)
      PROVE  IInv'
  <2> DEFINE mine == [reply[r] EXCEPT !.pc = step]
  <2>1. reply' = [reply EXCEPT ![r] = mine]
    BY <1>1, <1>4 DEF Reply
  <2>2. /\ mine \in Reply /\ mine.told = reply[r].told /\ mine.spared = reply[r].spared
        /\ mine.relayed = reply[r].relayed /\ mine.pc = step
    BY <1>1 DEF Reply
  <2> HIDE DEF mine
  <2>3. Answered(mine)
    BY <1>1, <2>2 DEF Answered
  <2>4. luck' \in 0..MaxFaults /\ luck' <= luck
    BY <1>1, <1>4, Luck DEF IInv
  <2> QED
    BY <1>1, <2>1, <2>2, <2>3, <2>4, OneReply
<1>5. ASSUME FALSE \in Goes("telegram"), Spend(FALSE),
             NEW mine \in {reply[r], [Told(reply[r]) EXCEPT !.spared = @ + 1]},
             reply' = [reply EXCEPT ![r] = IF mine.door = "group" THEN [mine EXCEPT !.pc = "report"]
                                           ELSE Retried(mine, "gaveup")]
      PROVE  IInv'
  <2>1. luck' \in 0..MaxFaults /\ luck' = luck - 1
    BY <1>5, Luck DEF IInv
  <2>2. /\ mine \in Reply /\ mine.told <= mine.spared /\ ~mine.relayed
        /\ mine.spared <= reply[r].spared + 1
        /\ mine.told \in Nat /\ mine.spared \in Nat
    <3>1. CASE mine = reply[r]
      BY <1>1, <1>2, <3>1
    <3>2. CASE mine = [Told(reply[r]) EXCEPT !.spared = @ + 1]
      <4> DEFINE told == Told(reply[r])
      <4>1. /\ told \in Reply /\ told.told <= reply[r].told + 1 /\ told.told \in Nat
            /\ told.spared = reply[r].spared /\ told.relayed = reply[r].relayed
        BY <1>1, ToldFact DEF Reply
      <4>2. told.spared + 1 \in 0..MaxFaults
        BY <1>1, <2>1, <4>1
      <4>3. mine = [told EXCEPT !.spared = told.spared + 1]
        BY <3>2
      <4> HIDE DEF told
      <4>4. /\ mine \in Reply /\ mine.told = told.told /\ mine.spared = told.spared + 1
            /\ mine.relayed = told.relayed
        BY <4>1, <4>2, <4>3 DEF Reply
      <4> QED
        BY <1>1, <1>2, <4>1, <4>4
    <3> QED
      BY <1>5, <3>1, <3>2
  <2> DEFINE next == IF mine.door = "group" THEN [mine EXCEPT !.pc = "report"]
                     ELSE Retried(mine, "gaveup")
  <2>3. /\ next \in Reply /\ next.told = mine.told /\ next.spared = mine.spared
        /\ next.relayed = mine.relayed /\ next.pc \in {"report", "queued", "gaveup"}
    <3>1. [mine EXCEPT !.pc = "report"] \in Reply
      BY <2>2 DEF Reply
    <3>2. CASE mine.door = "group"
      BY <2>2, <3>1, <3>2 DEF Reply
    <3>3. CASE mine.door # "group"
      BY <2>2, <3>3, RetriedFact
    <3> QED
      BY <3>2, <3>3
  <2>4. reply' = [reply EXCEPT ![r] = next]
    BY <1>5
  <2> HIDE DEF next
  <2>5. Answered(next)
    BY <2>2, <2>3 DEF Answered
  <2> QED
    BY <1>1, <2>1, <2>2, <2>3, <2>4, <2>5, OneReply
<1> QED
  BY <1>3, <1>4, <1>5 DEF Deliver

LEMMA StampKeeps ==
    ASSUME IInv, NEW r \in Replies, Stamp(r)
    PROVE  IInv'
<1>1. /\ reply[r] \in Reply /\ reply[r].pc = "stamp" /\ Answered(reply[r])
      /\ UNCHANGED <<ticket, cards, inbox, poster, mover>> /\ ticket \in Ticket
      /\ reply \in [Replies -> Reply]
  BY DEF Stamp, IInv, TypeOK, Answers
<1>2. PICK ok \in Goes("write") :
        Spend(ok) /\ reply' = [reply EXCEPT ![r].pc = "listen", ![r].relayed = @ \/ ok]
  BY DEF Stamp
<1>3. luck' \in 0..MaxFaults /\ luck' <= luck
  BY <1>2, Luck DEF IInv
<1>4. (reply[r].relayed \/ ok) \in BOOLEAN
  OBVIOUS
<1>5. PICK relayed \in BOOLEAN : relayed = (reply[r].relayed \/ ok)
  BY <1>4
<1> DEFINE mine == [reply[r] EXCEPT !.pc = "listen", !.relayed = relayed]
<1>6. reply' = [reply EXCEPT ![r] = mine]
  BY <1>1, <1>2, <1>5 DEF Reply
<1>7. /\ mine \in Reply /\ mine.told = reply[r].told /\ mine.spared = reply[r].spared
      /\ mine.pc = "listen"
  BY <1>1 DEF Reply
<1> HIDE DEF mine
<1>8. Answered(mine)
  BY <1>1, <1>7 DEF Answered
<1> QED
  BY <1>1, <1>3, <1>6, <1>7, <1>8, OneReply

LEMMA ListenKeeps ==
    ASSUME IInv, NEW r \in Replies, Listen(r)
    PROVE  IInv'
<1>1. /\ reply[r] \in Reply /\ reply[r].pc = "listen" /\ Answered(reply[r])
      /\ UNCHANGED <<cards, inbox, poster, mover>> /\ ticket \in Ticket
      /\ reply \in [Replies -> Reply]
  BY DEF Listen, IInv, TypeOK, Answers
<1>2. PICK ok \in Goes("write") : Spend(ok) /\ ticket' = [ticket EXCEPT !.hears = @ \/ ok]
  BY DEF Listen
<1>3. luck' \in 0..MaxFaults /\ luck' <= luck
  BY <1>2, Luck DEF IInv
<1>4. (ticket.hears \/ ok) \in BOOLEAN
  OBVIOUS
<1>5. PICK h \in BOOLEAN : h = (ticket.hears \/ ok)
  BY <1>4
<1>6. ticket' = [ticket EXCEPT !.hears = h]
  BY <1>2, <1>5
<1>7. ticket' \in Ticket /\ ticket'.card = ticket.card
  BY <1>1, <1>6 DEF Ticket
<1> DEFINE step == IF reply[r].door = "group" THEN "claim" ELSE "done"
           mine == [reply[r] EXCEPT !.pc = step]
<1>8. step \in {"claim", "done"}
  OBVIOUS
<1>9. reply' = [reply EXCEPT ![r] = mine]
  BY <1>1 DEF Listen, Reply
<1> HIDE DEF step
<1>10. /\ mine \in Reply /\ mine.told = reply[r].told /\ mine.spared = reply[r].spared
       /\ mine.pc = step
  BY <1>1, <1>8 DEF Reply
<1> HIDE DEF mine
<1>11. Answered(mine)
  BY <1>1, <1>8, <1>10 DEF Answered
<1> QED
  BY <1>1, <1>3, <1>7, <1>9, <1>10, <1>11, OneReply

LEMMA ClaimByAnsweringKeeps ==
    ASSUME IInv, NEW r \in Replies, ClaimByAnswering(r)
    PROVE  IInv'
<1>1. /\ reply[r] \in Reply /\ reply[r].pc \in {"claim", "report"} /\ Answered(reply[r])
      /\ UNCHANGED <<cards, inbox, poster, mover>> /\ ticket \in Ticket
      /\ reply \in [Replies -> Reply]
  BY DEF ClaimByAnswering, IInv, TypeOK, Answers
<1>2. PICK ok \in Goes("write") :
        /\ Spend(ok)
        /\ ticket' = IF ok /\ reply[r].new THEN Moved("new", "in_progress") ELSE ticket
  BY DEF ClaimByAnswering
<1>3. luck' \in 0..MaxFaults /\ luck' <= luck
  BY <1>2, Luck DEF IInv
<1>4. ticket' \in Ticket /\ ticket'.card = ticket.card
  <2>1. {"new", "in_progress"} \subseteq Status
    BY DEF Status
  <2> QED
    BY <1>1, <1>2, <2>1, MovedType
<1> DEFINE step == IF reply[r].pc = "report" THEN "refused" ELSE "done"
           mine == [reply[r] EXCEPT !.pc = step, !.new = FALSE]
<1>5. step \in {"refused", "done"}
  OBVIOUS
<1>6. reply' = [reply EXCEPT ![r].pc = step, ![r].new = FALSE]
  BY DEF ClaimByAnswering
<1> HIDE DEF step
<1>7. reply' = [reply EXCEPT ![r] = mine]
  BY <1>1, <1>6 DEF Reply
<1>8. /\ mine \in Reply /\ mine.told = reply[r].told /\ mine.spared = reply[r].spared
      /\ mine.pc = step
  BY <1>1, <1>5 DEF Reply
<1> HIDE DEF mine
<1>9. Answered(mine)
  BY <1>1, <1>5, <1>8 DEF Answered
<1> QED
  BY <1>1, <1>3, <1>4, <1>7, <1>8, <1>9, OneReply

-----------------------------------------------------------------------------
(***************************************************************************)
(* Crashes, and the whole.                                                 *)
(***************************************************************************)

\* A sync that is killed is queued again, without the card it held.
LEMMA SyncCrashKeeps ==
    ASSUME IInv, NEW s \in Syncs, luck > 0, luck' = luck - 1,
           poster' = [poster EXCEPT ![s].pc = "queued", ![s].card = None],
           UNCHANGED <<ticket, cards, inbox, mover, reply>>
    PROVE  IInv'
<1> DEFINE job == [poster[s] EXCEPT !.pc = "queued", !.card = None]
<1>1. /\ s \in Posters /\ poster[s] \in Poster /\ poster \in [Posters -> Poster]
      /\ luck \in 0..MaxFaults /\ MaxFaults \in Nat
  BY Numbers DEF IInv, TypeOK
<1>2. luck' \in 0..MaxFaults /\ luck' <= luck
  BY <1>1
<1>3. poster' = [poster EXCEPT ![s] = job] /\ job \in Poster /\ job.pc = "queued" /\ job.card = None
  BY <1>1 DEF Poster
<1> HIDE DEF job
<1>4. TypeOK'
  BY <1>1, <1>2, <1>3, OnePoster DEF IInv, TypeOK
<1>5. CardInv'
  BY <1>1, <1>2, <1>3, <1>4, DropsCard DEF Posting, IInv, TypeOK
<1> QED
  BY <1>2, <1>4, <1>5, NoReplies

\* A relay that is killed is run again; what it told unstamped is told again.
LEMMA RelayCrashKeeps ==
    ASSUME IInv, NEW r \in Replies, luck > 0, luck' = luck - 1,
           reply[r].pc \in {"send", "stamp", "listen"},
           reply' = [reply EXCEPT ![r].pc = "queued",
                       ![r].spared = IF reply[r].pc # "send" /\ ~reply[r].relayed
                                     THEN @ + 1 ELSE @],
           UNCHANGED <<ticket, cards, inbox, poster, mover>>
    PROVE  IInv'
<1> DEFINE spared == IF reply[r].pc # "send" /\ ~reply[r].relayed
                     THEN reply[r].spared + 1 ELSE reply[r].spared
           mine == [reply[r] EXCEPT !.pc = "queued", !.spared = spared]
<1>1. /\ reply[r] \in Reply /\ reply \in [Replies -> Reply] /\ Answered(reply[r])
      /\ reply[r].spared <= MaxFaults - luck
      /\ luck \in 0..MaxFaults /\ MaxFaults \in Nat
      /\ reply[r].spared \in Nat /\ reply[r].told \in Nat
  BY Numbers DEF IInv, TypeOK, Answers, Reply
<1>2. luck' \in 0..MaxFaults /\ luck' <= luck
  BY <1>1
<1>3. /\ spared \in Nat /\ spared <= reply[r].spared + 1 /\ spared <= MaxFaults - luck' /\ spared >= reply[r].spared
      /\ reply[r].pc # "send" /\ ~reply[r].relayed => spared = reply[r].spared + 1
  BY <1>1
<1>4. reply' = [reply EXCEPT ![r] = mine]
  BY <1>1 DEF Reply
<1> HIDE DEF spared
<1>5. spared \in 0..MaxFaults
  BY <1>1, <1>2, <1>3
<1>6. /\ mine \in Reply /\ mine.told = reply[r].told /\ mine.spared = spared
      /\ mine.relayed = reply[r].relayed /\ mine.pc = "queued"
  BY <1>1, <1>5 DEF Reply
<1> HIDE DEF mine
<1>7. Answered(mine)
  BY <1>1, <1>3, <1>6 DEF Answered
<1> QED
  BY <1>1, <1>2, <1>3, <1>4, <1>6, <1>7, OneReply DEF IInv, TypeOK

\* The bot is killed: what it was handling is gone.
LEMMA BotCrashKeeps ==
    ASSUME IInv, luck > 0, luck' = luck - 1,
           poster' = [poster EXCEPT ![Bot] = IdlePoster],
           mover' = [m \in Movers |-> IdleMover],
           reply' = [r \in Replies |->
                       IF reply[r].door = "group"
                          /\ reply[r].pc \in {"send", "stamp", "listen", "claim", "report"}
                       THEN [reply[r] EXCEPT !.pc = "dropped"] ELSE reply[r]],
           UNCHANGED <<ticket, cards, inbox>>
    PROVE  IInv'
<1>1. /\ luck \in 0..MaxFaults /\ MaxFaults \in Nat /\ Bot \in Posters
      /\ reply \in [Replies -> Reply]
      /\ IdlePoster \in Poster /\ IdlePoster.pc = "idle" /\ IdlePoster.card = None
  BY Numbers, Places DEF IInv, TypeOK
<1>2. luck' \in 0..MaxFaults /\ luck' <= luck
  BY <1>1
<1>3. \A r \in Replies :
        /\ reply'[r] \in Reply /\ reply'[r].told = reply[r].told
        /\ reply'[r].spared = reply[r].spared /\ reply'[r].relayed = reply[r].relayed
        /\ reply'[r].pc \in {reply[r].pc, "dropped"}
        /\ reply[r].spared \in Nat
  BY <1>1 DEF Reply
<1>4. reply' \in [Replies -> Reply]
  BY <1>3
<1>5. mover' \in [Movers -> Mover]
  BY DEF IdleMover, Mover, Status
<1>6. TypeOK'
  BY <1>1, <1>2, <1>4, <1>5 DEF IInv, TypeOK
<1>7. CardInv'
  <2>1. \A q \in Posters : poster'[q] = IF q = Bot THEN IdlePoster ELSE poster[q]
    BY DEF IInv, TypeOK
  <2>2. Hands' /\ OwnCards' /\ Named'
    BY <1>1, <2>1 DEF IInv, CardInv, Hands, OwnCards, Named, Posting, Holding
  <2>3. Stray' \subseteq Stray \union {poster[Bot].card}
    BY <2>1 DEF Stray
  <2>4. Few'
    BY <1>6, <2>3, Strays DEF IInv, CardInv
  <2> QED
    BY <2>2, <2>4 DEF CardInv
<1>8. Answers'
  <2>1. ASSUME NEW r \in Replies PROVE Answered(reply'[r]) /\ reply'[r].spared <= MaxFaults - luck'
    <3>1. Answered(reply[r]) /\ reply[r].spared <= MaxFaults - luck
      BY DEF IInv, Answers
    <3>2. Answered(reply'[r])
      BY <1>3, <3>1 DEF Answered
    <3> QED
      BY <1>1, <1>2, <1>3, <3>1, <3>2
  <2> QED
    BY <2>1 DEF Answers
<1> QED
  BY <1>6, <1>7, <1>8 DEF IInv

LEMMA CrashKeeps ==
    ASSUME IInv, Crash
    PROVE  IInv'
  BY SyncCrashKeeps, RelayCrashKeeps, BotCrashKeeps DEF Crash

\* A description that is stored begins the bot's own post, if there is no card.
LEMMA DescribeKeeps ==
    ASSUME IInv, Describe
    PROVE  IInv'
<1>1. TypeOK'
  BY CustomerTypes DEF IInv
<1>2. PICK ok \in Goes("write") :
        /\ Spend(ok) /\ ticket' = [ticket EXCEPT !.described = ok]
        /\ poster' = IF ok /\ ticket.card = None /\ inbox
                     THEN [poster EXCEPT ![Bot].pc = "send"] ELSE poster
  BY DEF Describe
<1>3. luck' <= luck /\ ticket'.card = ticket.card /\ cards' = cards /\ reply' = reply
  BY <1>2, Luck DEF Describe, IInv, TypeOK, Ticket
<1>4. poster[Bot] = IdlePoster /\ IdlePoster.pc = "idle" /\ Bot \in Posters
  BY Numbers DEF Describe, CustomerIsIdle, IdlePoster
<1>5. \A p \in Posters :
        /\ poster'[p].card = poster[p].card
        /\ poster'[p].pc \in Holding <=> poster[p].pc \in Holding
        /\ poster'[p].pc \in Posting => poster[p].pc \in Posting \/ ticket.card = None
  <2>1. CASE poster' = poster
    BY <2>1
  <2>2. CASE ticket.card = None /\ poster' = [poster EXCEPT ![Bot].pc = "send"]
    BY <1>4, <2>2 DEF IInv, TypeOK, Poster, Holding
  <2> QED
    BY <1>2, <2>1, <2>2
<1>6. CardInv'
  BY <1>1, <1>3, <1>5, SameHands DEF IInv
<1> QED
  BY <1>1, <1>3, <1>6, NoReplies

\* The customer's prompts, moves at any door, and the panel's selection of a group.
LEMMA MovesKeep ==
    ASSUME IInv, Prompt \/ FollowUp \/ Repoint \/ \E m \in Movers : Press(m) \/ Move(m)
    PROVE  IInv'
<1>1. TypeOK'
  BY CustomerTypes, StaffTypes, PanelTypes DEF IInv
<1>2. UNCHANGED <<cards, poster, reply>>
  BY DEF Prompt, FollowUp, Repoint, Press, Move
<1>3. luck' <= luck
  <2>1. luck' = luck \/ \E f : \E ok \in Goes(f) : Spend(ok)
    BY DEF Prompt, FollowUp, Repoint, Press, Move
  <2> QED
    <3>1. luck \in 0..MaxFaults /\ MaxFaults \in Nat
      BY Numbers DEF IInv, TypeOK
    <3>2. CASE luck' = luck
      BY <3>1, <3>2
    <3>3. CASE \E f : \E ok \in Goes(f) : Spend(ok)
      BY <3>3, Luck DEF IInv
    <3> QED
      BY <2>1, <3>2, <3>3
<1>4. ticket'.card = ticket.card
  <2>1. CASE Prompt
    <3>1. PICK sent : ticket' = [ticket EXCEPT !.hears = @ \/ sent]
      BY <2>1 DEF Prompt
    <3> QED
      BY <3>1 DEF IInv, TypeOK, Ticket
  <2>2. CASE ticket' = ticket
    BY <2>2
  <2>3. ASSUME NEW m \in Movers, Move(m) PROVE ticket'.card = ticket.card
    <3>1. mover[m] \in Mover
      BY DEF IInv, TypeOK
    <3>2. ticket' \in {ticket, Moved(mover[m].sees, mover[m].to)}
      BY <2>3 DEF Move
    <3> QED
      BY <3>1, <3>2, MovedType DEF IInv, TypeOK, Mover
  <2> QED
    BY <2>1, <2>2, <2>3 DEF FollowUp, Repoint, Press
<1>5. CardInv'
  BY <1>1, <1>2, <1>3, <1>4, SameHands DEF IInv
<1> QED
  BY <1>1, <1>2, <1>3, <1>5, NoReplies

LEMMA BoardKeeps ==
    ASSUME IInv, Board
    PROVE  IInv'
<1>1. TypeOK'
  BY PanelTypes DEF IInv
<1>2. PICK to \in Status : ticket' = Moved(ticket.status, to)
  BY DEF Board
<1>3. ticket'.card = ticket.card
  BY <1>2, MovedType DEF IInv, TypeOK, Ticket
<1>4. PICK s \in Syncs, ok \in Goes("enqueue") :
        /\ poster[s] = IdlePoster /\ Spend(ok)
        /\ poster' = IF ok THEN [poster EXCEPT ![s].pc = "queued"] ELSE poster
  BY DEF Board
<1>5. luck' <= luck /\ UNCHANGED <<cards, reply>>
  BY <1>4, Luck DEF IInv, Board
<1>6. \A p \in Posters :
        /\ poster'[p].card = poster[p].card
        /\ poster'[p].pc \in Holding <=> poster[p].pc \in Holding
        /\ poster'[p].pc \in Posting => poster[p].pc \in Posting \/ ticket.card = None
  <2>1. CASE poster' = poster
    BY <2>1
  <2>2. CASE poster' = [poster EXCEPT ![s].pc = "queued"]
    BY <1>4, <2>2, Numbers DEF IInv, TypeOK, Poster, Holding, Posting, IdlePoster
  <2> QED
    BY <1>4, <2>1, <2>2
<1>7. CardInv'
  BY <1>1, <1>3, <1>5, <1>6, SameHands DEF IInv
<1> QED
  BY <1>1, <1>5, <1>7, NoReplies

LEMMA PostKeeps ==
    ASSUME IInv, \/ \E p \in Posters : Post(p)
                 \/ \E s \in Syncs : SyncRead(s) \/ SyncCheck(s) \/ SyncEdit(s)
    PROVE  IInv'
<1>1. TypeOK' /\ CardInv'
  BY SyncReadKeeps, SyncEndKeeps, SendKeeps, ClaimCardKeeps, UndoKeeps DEF Post
<1>2. reply' = reply
  BY DEF Post, SendCard, ClaimCard, Undo, SyncRead, SyncCheck, SyncEdit
<1>3. luck' <= luck
  <2>1. \/ luck' = luck
        \/ \E f : \E ok \in Goes(f) : Spend(ok)
    BY DEF Post, SendCard, ClaimCard, Undo, SyncRead, SyncCheck, SyncEdit
  <2> QED
    <3>1. luck \in 0..MaxFaults /\ MaxFaults \in Nat
      BY Numbers DEF IInv, TypeOK
    <3>2. CASE luck' = luck
      BY <3>1, <3>2
    <3>3. CASE \E f : \E ok \in Goes(f) : Spend(ok)
      BY <3>3, Luck DEF IInv
    <3> QED
      BY <2>1, <3>2, <3>3
<1> QED
  BY <1>1, <1>2, <1>3, NoReplies

LEMMA InitHolds == Init => IInv
<1> SUFFICES ASSUME Init PROVE IInv
  OBVIOUS
<1>1. MaxFaults \in Nat /\ MaxTries \in Nat /\ {} \subseteq Cards
  BY Numbers
<1>2. /\ IdlePoster \in Poster /\ IdlePoster.pc = "idle" /\ IdlePoster.card = None
      /\ IdleMover \in Mover
  BY <1>1 DEF IdlePoster, Poster, IdleMover, Mover, Status
<1>3. NoReply \in Reply /\ NoReply.told = 0 /\ NoReply.spared = 0 /\ ~NoReply.relayed
  BY <1>1 DEF NoReply, Reply
<1>4. ticket \in Ticket /\ ticket.card = None
  BY DEF Init, Ticket, Status
<1>5. TypeOK
  BY <1>1, <1>2, <1>3, <1>4 DEF Init, TypeOK
<1>6. Stray = {}
  BY DEF Init, Stray
<1>7. CardInv
  <2>1. Few
    BY <1>1, <1>6, FS_EmptySet DEF Init, Few
  <2> QED
    BY <1>2, <1>4, <2>1 DEF Init, CardInv, Hands, OwnCards, Named, Holding
<1>8. Answers
  BY <1>1, <1>3 DEF Init, Answers, Answered
<1> QED
  BY <1>5, <1>7, <1>8 DEF IInv

LEMMA StepKeeps == IInv /\ [Next]_vars => IInv'
<1> SUFFICES ASSUME IInv, [Next]_vars PROVE IInv'
  OBVIOUS
<1>1. CASE Prompt \/ FollowUp \/ Repoint \/ \E m \in Movers : Press(m) \/ Move(m)
  BY <1>1, MovesKeep
<1>2. CASE Describe \/ Board \/ Crash
  BY <1>2, DescribeKeeps, BoardKeeps, CrashKeeps
<1>3. CASE Post(Bot) \/ \E s \in Syncs : SyncStep(s)
  BY <1>3, PostKeeps, Numbers DEF SyncStep
<1>4. CASE \E r \in Replies : Compose(r) \/ Answer(r) \/ Relay(r)
  BY <1>4, ComposeKeeps, AnswerKeeps, RelayReadKeeps, DeliverKeeps, StampKeeps, ListenKeeps,
     ClaimByAnsweringKeeps DEF Relay
<1>5. CASE UNCHANGED vars
  <2>1. TypeOK'
    BY <1>5 DEF vars, IInv, TypeOK
  <2>2. luck' <= luck
    BY <1>5, Numbers DEF vars, IInv, TypeOK
  <2>3. CardInv'
    BY <1>5, <2>1, <2>2, SameHands DEF vars, IInv
  <2> QED
    BY <1>5, <2>1, <2>2, <2>3, NoReplies DEF vars
<1> QED
  BY <1>1, <1>2, <1>3, <1>4, <1>5 DEF Next

LEMMA Holds == Spec => []IInv
  BY InitHolds, StepKeeps, PTL DEF Spec

\* db.support_tickets, bot.handlers.support and runtime.support_jobs: whatever the
\* customer, staff, operators and the environment do, every variable has its type.
THEOREM TypeCorrect == Spec => []TypeOK
  BY Holds, PTL DEF IInv

\* claim_group_post and _undo_duplicate_card: two posts that send at once leave one card,
\* which the ticket names; one that stays besides was left by a failure.
THEOREM OneCardStands == Spec => []OneCard
<1>1. IInv => OneCard
  BY DEF IInv, CardInv, Named, Few, Stray, OneCard
<1> QED
  BY Holds, <1>1, PTL

\* relay_support_reply: a relay that is retried, redelivered or killed tells an answer
\* again only if it was killed between the message and its stamp, or if the message went out
\* and Telegram's answer to it was lost.
THEOREM ToldOnce == Spec => []AnsweredOnce
<1>1. IInv => AnsweredOnce
  BY DEF IInv, Answers, Answered, AnsweredOnce
<1> QED
  BY Holds, <1>1, PTL

\* move_status, from every door: the timeline has the moves that were made, each from
\* where the last one ended.
THEOREM TimelineIsTrue == Spec => TimelineTrue
<1> DEFINE Recorded == ticket'.status # ticket.status \/ ticket'.was # ticket.was
                      => /\ ticket'.was = ticket.status
                         /\ ticket'.status \in Legal[ticket.status]
<1>1. ASSUME IInv, [Next]_vars PROVE Recorded \/ UNCHANGED vars
  <2>0. ticket \in Ticket
    BY <1>1 DEF IInv, TypeOK
  <2>1. ASSUME NEW sees, NEW to, ticket' = Moved(sees, to) PROVE Recorded
    BY <2>0, <2>1 DEF Moved, Ticket
  <2>2. ASSUME ticket'.status = ticket.status, ticket'.was = ticket.was PROVE Recorded
    BY <2>2
  <2>3. CASE Prompt \/ Describe \/ FollowUp
    <3>1. \/ ticket' = ticket
          \/ \E h : ticket' = [ticket EXCEPT !.hears = h]
          \/ \E d : ticket' = [ticket EXCEPT !.described = d]
      BY <2>3 DEF Prompt, Describe, FollowUp
    <3> QED
      BY <2>0, <2>2, <3>1 DEF Ticket
  <2>4. CASE Board \/ \E m \in Movers : Press(m) \/ Move(m)
    <3>1. ticket' = ticket \/ \E sees, to : ticket' = Moved(sees, to)
      BY <2>4 DEF Board, Press, Move
    <3> QED
      BY <2>1, <2>2, <3>1
  <2>5. CASE Repoint \/ Crash
    BY <2>2, <2>5 DEF Repoint, Crash
  <2>6. CASE Post(Bot) \/ \E s \in Syncs : SyncStep(s)
    <3>1. \/ ticket' = ticket
          \/ \E c : ticket' = [ticket EXCEPT !.card = c]
      BY <2>6 DEF Post, SyncStep, SendCard, ClaimCard, Undo, SyncRead, SyncCheck, SyncEdit
    <3> QED
      BY <2>0, <2>2, <3>1 DEF Ticket
  <2>7. CASE \E r \in Replies : Compose(r) \/ Answer(r) \/ Relay(r)
    <3>1. \/ ticket' = ticket
          \/ \E h : ticket' = [ticket EXCEPT !.hears = h]
          \/ \E sees, to : ticket' = Moved(sees, to)
      BY <2>7 DEF Compose, Answer, Relay, RelayRead, Deliver, Stamp, Listen, ClaimByAnswering
    <3> QED
      BY <2>0, <2>1, <2>2, <3>1 DEF Ticket
  <2> HIDE DEF Recorded
  <2> QED
    BY <1>1, <2>3, <2>4, <2>5, <2>6, <2>7 DEF Next
<1>2. IInv /\ [Next]_vars => [Recorded]_vars
  BY <1>1
<1> QED
  BY Holds, <1>2, PTL DEF Spec, TimelineTrue

=============================================================================
