-------------------------------- MODULE Support --------------------------------
(***************************************************************************)
(* One support ticket (db.support_tickets, bot.handlers.support,           *)
(* runtime.support_jobs and the panel's routes). The customer describes a  *)
(* problem and writes again, staff press the buttons of the ticket's card  *)
(* in their group or reply to it, and operators move and answer it on the  *)
(* panel. The panel holds no bot token: what it changes reaches the card   *)
(* by a card sync and the customer by a relay, two jobs of the worker.     *)
(***************************************************************************)
EXTENDS Naturals, FiniteSets

CONSTANTS
    Replies,        \* answers that staff and operators write
    Syncs,          \* card syncs that may be queued or running at once
    Staff,          \* button presses that may be under way at once
    MaxTries,       \* SUPPORT_RELAY_MAX_TRIES, SUPPORT_CARD_MAX_TRIES
    Bot, Customer, None,
    MaxFaults,      \* bound: failures of the environment in a behaviour
    Faults          \* bound: which ones

\* crash: a worker or the bot is killed. read, write: a transaction of the store fails.
\* lag: a read does not show an event that is committed. telegram: a request is refused, or
\* served and its answer lost, which the caller cannot tell apart.
\* blocked: the customer's chat is closed. enqueue: the queue is out of reach.
AllFaults == {"crash", "read", "write", "lag", "telegram", "blocked", "enqueue"}

ASSUME SupportAssumption ==
    /\ MaxTries \in Nat \ {0} /\ MaxFaults \in Nat
    /\ IsFiniteSet(Syncs) /\ Bot \notin Syncs /\ Customer \notin Staff
    /\ None \notin Nat
    /\ Faults \subseteq AllFaults

VARIABLES
    ticket,     \* the support_tickets row
    cards,      \* the cards of the ticket that stand in the group
    inbox,      \* the group is the selected support group
    poster,     \* poster[p]: a card sync, or the bot's own first post
    mover,      \* mover[m]: a handler that read the status and is about to move it
    reply,      \* reply[r]: an answer's timeline row and the execution that delivers it
    luck        \* failures the environment still has in it

vars == <<ticket, cards, inbox, poster, mover, reply, luck>>

-----------------------------------------------------------------------------
Status == {"new", "in_progress", "waiting", "resolved"}
\* LEGAL_STATUS_MOVES.
Legal == [new |-> {"in_progress", "waiting", "resolved"},
          in_progress |-> {"waiting", "resolved"},
          waiting |-> {"in_progress", "resolved"},
          resolved |-> {"in_progress"}]

Posters == {Bot} \union Syncs
Movers == {Customer} \union Staff
Cards == 1..(Cardinality(Posters) + MaxFaults)

\* hears: some message in the customer's chat is the one the ticket listens on. card:
\* group_message_id (group_posted_at, which settle_group_post stamps, is left out). was:
\* from_status of its last status_change event, whose to_status is the status.
Ticket == [status : Status, was : Status, described : BOOLEAN, hears : BOOLEAN,
           card : Cards \union {None}]
\* card: the one it sent and has not claimed yet.
Poster == [pc : {"idle", "queued", "send", "claim", "undo", "check", "edit"},
           tries : 0..MaxTries, card : Cards \union {None}]
\* sees: the status it read.
Mover == [pc : {"idle", "move"}, sees : Status, to : Status]
\* new: the ticket was new when staff answered. told: deliveries (two stands for more).
\* spared: deliveries whose answer from Telegram was lost, or that a crash parted from their stamp.
Reply == [door : {"panel", "group", None},
          pc : {"none", "queued", "send", "stamp", "listen", "claim", "report", "done",
                "unsent", "refused", "dropped", "gone", "gaveup"},
          tries : 0..MaxTries, new : BOOLEAN, relayed : BOOLEAN,
          told : 0..2, spared : 0..MaxFaults]

IdlePoster == [pc |-> "idle", tries |-> 0, card |-> None]
IdleMover == [pc |-> "idle", sees |-> "new", to |-> "new"]
NoReply == [door |-> None, pc |-> "none", tries |-> 0, new |-> FALSE,
            relayed |-> FALSE, told |-> 0, spared |-> 0]

\* open_ticket: a row without words, and the customer is about to be asked for them.
Init ==
    /\ ticket = [status |-> "new", was |-> "new", described |-> FALSE, hears |-> FALSE, card |-> None]
    /\ cards = {} /\ inbox \in BOOLEAN
    /\ poster = [p \in Posters |-> IdlePoster]
    /\ mover = [m \in Movers |-> IdleMover]
    /\ reply = [r \in Replies |-> NoReply]
    /\ luck = MaxFaults

Goes(fault) == IF fault \in Faults /\ luck > 0 THEN BOOLEAN ELSE {TRUE}
Spend(ok) == luck' = IF ok THEN luck ELSE luck - 1
\* The customer's updates are handled one at a time.
CustomerIsIdle == poster[Bot] = IdlePoster /\ mover[Customer] = IdleMover

\* Fault: whatever the status has become.
MovedAnyway(sees, to) ==
    IF to \in Legal[sees] THEN [ticket EXCEPT !.status = to, !.was = sees] ELSE ticket
\* move_status: the ticket after a move from the status that was read; a move that is not
\* legal, or that was overtaken, changes nothing and leaves no event.
Moved(sees, to) ==
    IF to \in Legal[sees] /\ ticket.status = sees
    THEN [ticket EXCEPT !.status = to, !.was = sees] ELSE ticket

-----------------------------------------------------------------------------
\* The customer.

\* _ask_for_the_words, _reprompt_the_open_ticket: the prompt, and attach_prompt or
\* listen_on.
Prompt ==
    /\ CustomerIsIdle /\ ~ticket.described /\ ticket.status # "resolved"
    /\ \E sent \in Goes("telegram") :
          /\ Spend(sent)
          /\ ticket' = [ticket EXCEPT !.hears = @ \/ sent]
    /\ UNCHANGED <<cards, inbox, poster, mover, reply>>

\* _handle_description: the first reply is the complaint, and the card is posted from
\* the row it filled, unless there is one or no group is selected.
Describe ==
    /\ CustomerIsIdle /\ ticket.hears /\ ~ticket.described
    /\ \E ok \in Goes("write") :
          /\ Spend(ok)
          /\ ticket' = [ticket EXCEPT !.described = ok]
          /\ poster' = IF ok /\ ticket.card = None /\ inbox
                       THEN [poster EXCEPT ![Bot].pc = "send"]
                       ELSE poster
    /\ UNCHANGED <<cards, inbox, mover, reply>>

\* _handle_follow_up: a later reply reopens a ticket that waits or is resolved, as it was
\* when the reply was looked up. Its event and its copy in the group are left out.
FollowUp ==
    /\ CustomerIsIdle /\ ticket.hears /\ ticket.described
    /\ ticket.status \in {"waiting", "resolved"}
    /\ mover' = [mover EXCEPT ![Customer] =
                   [pc |-> "move", sees |-> ticket.status, to |-> "in_progress"]]
    /\ UNCHANGED <<ticket, cards, inbox, poster, reply, luck>>

-----------------------------------------------------------------------------
\* The buttons of the card: _staff_move.

Press(m) ==
    /\ m \in Staff /\ mover[m] = IdleMover /\ ticket.card # None
    /\ \E to \in {"in_progress", "resolved"} :
          mover' = [mover EXCEPT ![m] = [pc |-> "move", sees |-> ticket.status, to |-> to]]
    /\ UNCHANGED <<ticket, cards, inbox, poster, reply, luck>>

\* The move of a button or of the customer, from the status it read.
Move(m) ==
    /\ mover[m].pc = "move"
    /\ \E ok \in Goes("write") :
          /\ Spend(ok)
          /\ ticket' = IF ok THEN Moved(mover[m].sees, mover[m].to) ELSE ticket
    /\ mover' = [mover EXCEPT ![m] = IdleMover]
    /\ UNCHANGED <<cards, inbox, poster, reply>>

-----------------------------------------------------------------------------
\* The panel. Each request commits, and only then enqueues.

\* move_ticket, and assign_ticket, which moves nothing: a card sync of its own is queued.
Board ==
    /\ \E to \in Status : ticket' = Moved(ticket.status, to)
    /\ \E s \in Syncs, ok \in Goes("enqueue") :
          /\ poster[s] = IdlePoster
          /\ Spend(ok)
          /\ poster' = IF ok THEN [poster EXCEPT ![s].pc = "queued"] ELSE poster
    /\ UNCHANGED <<cards, inbox, mover, reply>>

\* reply_to_ticket.
Compose(r) ==
    /\ reply[r] = NoReply
    /\ \E ok \in Goes("enqueue") :
          /\ Spend(ok)
          /\ reply' = [reply EXCEPT ![r].door = "panel",
                                    ![r].pc = IF ok THEN "queued" ELSE "unsent"]
    /\ UNCHANGED <<ticket, cards, inbox, poster, mover>>

\* An operator selects another support group, or this one again.
Repoint ==
    /\ inbox' = ~inbox
    /\ UNCHANGED <<ticket, cards, poster, mover, reply, luck>>

-----------------------------------------------------------------------------
\* The card: sync_support_card, and post_card, which the bot calls as well.

\* The attempt past the last one is not run.
Exhausted(job) == job.tries = MaxTries

\* _retry_or_give_up.
Again(s) == IF poster[s].tries < MaxTries THEN [poster[s] EXCEPT !.pc = "queued"]
            ELSE IdlePoster

\* Which arm it is depends on the row.
SyncRead(s) ==
    LET try == [poster[s] EXCEPT !.tries = @ + 1]
    IN  /\ poster[s].pc = "queued"
        /\ \/ /\ Exhausted(poster[s])
              /\ poster' = [poster EXCEPT ![s] = IdlePoster] /\ UNCHANGED luck
           \/ /\ ~Exhausted(poster[s])
              /\ poster' = [poster EXCEPT ![s] =
                              IF ticket.card # None THEN [try EXCEPT !.pc = "edit"]
                              ELSE IF inbox THEN [try EXCEPT !.pc = "send"]
                              ELSE IdlePoster]
              /\ UNCHANGED luck
           \/ /\ ~Exhausted(poster[s])
              /\ FALSE \in Goes("read") /\ Spend(FALSE)
              /\ poster' = [poster EXCEPT ![s] =
                              IF try.tries < MaxTries THEN [@ EXCEPT !.tries = try.tries]
                              ELSE IdlePoster]
        /\ UNCHANGED <<ticket, cards, inbox, mover, reply>>

\* post_card returns: the bot is done, a sync looks whether the ticket has its card.
Posted(p) == IF p = Bot THEN IdlePoster ELSE [poster[p] EXCEPT !.pc = "check", !.card = None]

\* _send_card: a card whose answer was lost stands, and nobody knows its number.
SendCard(p) ==
    LET new == CHOOSE c \in Cards \ cards : TRUE
    IN  /\ poster[p].pc = "send"
        /\ \/ /\ cards' = cards \union {new}
              /\ poster' = [poster EXCEPT ![p].pc = "claim", ![p].card = new]
              /\ UNCHANGED luck
           \/ /\ FALSE \in Goes("telegram") /\ Spend(FALSE)
              /\ cards' \in {cards, cards \union {new}}
              /\ poster' = [poster EXCEPT ![p] = Posted(p)]
        /\ UNCHANGED <<ticket, inbox, mover, reply>>

\* Fault: the last one to claim has the ticket.
Overwrite == TRUE
\* claim_group_post: WHERE group_message_id IS NULL.
Unclaimed == ticket.card = None

ClaimCard(p) ==
    /\ poster[p].pc = "claim"
    /\ \E ok \in Goes("write") :
          LET won == ok /\ Unclaimed
          IN  /\ Spend(ok)
              /\ ticket' = IF won THEN [ticket EXCEPT !.card = poster[p].card] ELSE ticket
              /\ poster' = [poster EXCEPT ![p] =
                              IF ok /\ ~won THEN [@ EXCEPT !.pc = "undo"] ELSE Posted(p)]
    /\ UNCHANGED <<cards, inbox, mover, reply>>

\* _undo_duplicate_card.
Undo(p) ==
    /\ poster[p].pc = "undo"
    /\ \E ok \in Goes("telegram") :
          /\ Spend(ok)
          /\ cards' \in {cards \ {poster[p].card}} \union (IF ok THEN {} ELSE {cards})
    /\ poster' = [poster EXCEPT ![p] = Posted(p)]
    /\ UNCHANGED <<ticket, inbox, mover, reply>>

\* _post_first_card: a ticket that still has no card is tried again; a look that fails is
\* left at that.
SyncCheck(s) ==
    /\ poster[s].pc = "check"
    /\ \E ok \in Goes("read") :
          /\ Spend(ok)
          /\ poster' = [poster EXCEPT ![s] = IF ok /\ ticket.card = None THEN Again(s)
                                             ELSE IdlePoster]
    /\ UNCHANGED <<ticket, cards, inbox, mover, reply>>

\* _edit_card: a flood wait is waited out and tried again, any other refusal is not.
SyncEdit(s) ==
    /\ poster[s].pc = "edit"
    /\ \/ poster' = [poster EXCEPT ![s] = IdlePoster] /\ UNCHANGED luck
       \/ /\ FALSE \in Goes("telegram") /\ Spend(FALSE)
          /\ poster' \in {[poster EXCEPT ![s] = Again(s)], [poster EXCEPT ![s] = IdlePoster]}
    /\ UNCHANGED <<ticket, cards, inbox, mover, reply>>

-----------------------------------------------------------------------------
\* An answer: relay_support_reply, and handle_group_reply for the staff's door.

\* Staff reply to the card: recorded first, with the ticket as it was looked up. In a
\* room that is not the inbox any more nothing is recorded; then, and when the record
\* fails, they are told and nothing is sent.
Answer(r) ==
    /\ reply[r] = NoReply /\ inbox /\ ticket.card # None
    /\ \E ok \in Goes("write") :
          /\ Spend(ok)
          /\ reply' = [reply EXCEPT ![r].door = "group",
                                    ![r].pc = IF ok THEN "send" ELSE "unsent",
                                    ![r].new = (ticket.status = "new")]
    /\ UNCHANGED <<ticket, cards, inbox, poster, mover>>

\* _retry_or_give_up, on an attempt that was just made.
Retried(mine, end) == [mine EXCEPT !.pc = IF mine.tries < MaxTries THEN "queued" ELSE end]

\* Fault: an event that is not there is one that is gone.
MissingIsGone(mine) == [mine EXCEPT !.pc = "gone"]
\* An event that is not there may not be visible yet.
Missing(mine) == Retried(mine, "gone")

\* Fault: the clock is not asked.
AlwaysSendable(mine) == TRUE
\* _is_sendable.
Sendable(mine) == ~mine.relayed

RelayRead(r) ==
    LET mine == [reply[r] EXCEPT !.tries = @ + 1]
    IN  /\ reply[r].pc = "queued"
        /\ \/ /\ Exhausted(reply[r])
              /\ reply' = [reply EXCEPT ![r].pc = "gaveup"] /\ UNCHANGED luck
           \/ /\ ~Exhausted(reply[r])
              /\ reply' = [reply EXCEPT ![r] =
                             [mine EXCEPT !.pc = IF Sendable(mine) THEN "send" ELSE "done"]]
              /\ UNCHANGED luck
           \/ /\ ~Exhausted(reply[r])
              /\ FALSE \in Goes("read") /\ Spend(FALSE)
              /\ reply' = [reply EXCEPT ![r] = Retried(mine, "gaveup")]
           \/ /\ ~Exhausted(reply[r])
              /\ FALSE \in Goes("lag") /\ Spend(FALSE)
              /\ reply' = [reply EXCEPT ![r] = Missing(mine)]
        /\ UNCHANGED <<ticket, cards, inbox, poster, mover>>

\* The customer has one more copy of it.
Told(mine) == [mine EXCEPT !.told = IF @ < 2 THEN @ + 1 ELSE @]

\* Sent to the customer. A block ends it, anything else is tried again, whether the message
\* arrived or not; at the staff's door a refusal is reported in the group at once.
Deliver(r) ==
    /\ reply[r].pc = "send"
    /\ \/ reply' = [reply EXCEPT ![r] = [Told(@) EXCEPT !.pc = "stamp"]] /\ UNCHANGED luck
       \/ /\ FALSE \in Goes("blocked") /\ Spend(FALSE)
          /\ reply' = [reply EXCEPT ![r].pc = IF reply[r].door = "group" THEN "report" ELSE "refused"]
       \/ /\ FALSE \in Goes("telegram") /\ Spend(FALSE)
          /\ \E mine \in {reply[r], [Told(reply[r]) EXCEPT !.spared = @ + 1]} :
                reply' = [reply EXCEPT ![r] = IF mine.door = "group" THEN [mine EXCEPT !.pc = "report"]
                                              ELSE Retried(mine, "gaveup")]
    /\ UNCHANGED <<ticket, cards, inbox, poster, mover>>

\* mark_relayed; a stamp that fails is not retried.
Stamp(r) ==
    /\ reply[r].pc = "stamp"
    /\ \E ok \in Goes("write") :
          /\ Spend(ok)
          /\ reply' = [reply EXCEPT ![r].pc = "listen", ![r].relayed = @ \/ ok]
    /\ UNCHANGED <<ticket, cards, inbox, poster, mover>>

\* listen_on: the ticket is pointed at the relay.
Listen(r) ==
    /\ reply[r].pc = "listen"
    /\ \E ok \in Goes("write") :
          /\ Spend(ok)
          /\ ticket' = [ticket EXCEPT !.hears = @ \/ ok]
    /\ reply' = [reply EXCEPT ![r].pc = IF reply[r].door = "group" THEN "claim" ELSE "done"]
    /\ UNCHANGED <<cards, inbox, poster, mover>>

\* _claim_by_answering: the answer takes a ticket that was new, sent or refused.
ClaimByAnswering(r) ==
    /\ reply[r].pc \in {"claim", "report"}
    /\ \E ok \in Goes("write") :
          /\ Spend(ok)
          /\ ticket' = IF ok /\ reply[r].new THEN Moved("new", "in_progress") ELSE ticket
    /\ reply' = [reply EXCEPT ![r].pc = IF @ = "report" THEN "refused" ELSE "done",
                              ![r].new = FALSE]
    /\ UNCHANGED <<cards, inbox, poster, mover>>

-----------------------------------------------------------------------------
\* A worker that is killed leaves its job to be run again. An update that the bot was
\* handling is not: the bot starts with drop_pending_updates.
Crash ==
    /\ "crash" \in Faults /\ luck > 0
    /\ luck' = luck - 1
    /\ \/ /\ \E s \in Syncs :
                /\ poster[s].pc \notin {"idle", "queued"}
                /\ poster' = [poster EXCEPT ![s].pc = "queued", ![s].card = None]
          /\ UNCHANGED <<mover, reply>>
       \/ /\ \E r \in Replies :
                /\ reply[r].door = "panel" /\ reply[r].pc \in {"send", "stamp", "listen"}
                /\ reply' = [reply EXCEPT ![r].pc = "queued",
                               ![r].spared = IF reply[r].pc # "send" /\ ~reply[r].relayed
                                             THEN @ + 1 ELSE @]
          /\ UNCHANGED <<poster, mover>>
       \/ /\ poster' = [poster EXCEPT ![Bot] = IdlePoster]
          /\ mover' = [m \in Movers |-> IdleMover]
          /\ reply' = [r \in Replies |->
                         IF reply[r].door = "group" /\ reply[r].pc \in {"send", "stamp", "listen", "claim", "report"}
                         THEN [reply[r] EXCEPT !.pc = "dropped"] ELSE reply[r]]
    /\ UNCHANGED <<ticket, cards, inbox>>

-----------------------------------------------------------------------------
Post(p) == SendCard(p) \/ ClaimCard(p) \/ Undo(p)
SyncStep(s) == SyncRead(s) \/ SyncCheck(s) \/ SyncEdit(s) \/ Post(s)
Relay(r) == RelayRead(r) \/ Deliver(r) \/ Stamp(r) \/ Listen(r) \/ ClaimByAnswering(r)

Next ==
    \/ Prompt \/ Describe \/ FollowUp
    \/ \E m \in Movers : Press(m) \/ Move(m)
    \/ Board \/ Repoint
    \/ \E s \in Syncs : SyncStep(s)
    \/ Post(Bot)
    \/ \E r \in Replies : Compose(r) \/ Answer(r) \/ Relay(r)
    \/ Crash

Spec == Init /\ [][Next]_vars

\* Jobs that are queued are run and handlers that were begun go on. Nobody has to write,
\* press or answer, and a chat need not be open.
FairSpec == Spec /\ \A r \in Replies : WF_vars(Relay(r))

-----------------------------------------------------------------------------
\* Every variable has its type.
TypeOK ==
    /\ ticket \in Ticket
    /\ cards \subseteq Cards
    /\ inbox \in BOOLEAN
    /\ poster \in [Posters -> Poster]
    /\ mover \in [Movers -> Mover]
    /\ reply \in [Replies -> Reply]
    /\ luck \in 0..MaxFaults

\* A ticket has one card: the one it names stands in the group, and any other that stands
\* there is about to be claimed or withdrawn, or was left behind by a failure.
OneCard ==
    /\ ticket.card # None => ticket.card \in cards
    /\ Cardinality(cards \ ({ticket.card} \union {poster[p].card : p \in Posters}))
          <= MaxFaults - luck

\* An answer is told once, and again only if Telegram's answer to it was lost or the
\* execution that told it was killed before it had stamped it.
AnsweredOnce == \A r \in Replies : reply[r].told <= 1 + reply[r].spared

\* An answer that was queued or recorded reaches the customer as long as fewer attempts
\* can still fail than it has left, unless the chat is closed or, at the staff's door, the
\* bot is killed or the refusal is reported.
AnswerArrives ==
    \A r \in Replies : (reply[r].pc \in {"queued", "send"} /\ reply[r].tries + luck < MaxTries)
                          ~> (reply[r].told > 0 \/ reply[r].pc \in {"refused", "dropped"})

\* Two doors that move the ticket at once make one move and one event: each move starts
\* where the last one ended, its event says so, and it is one of LEGAL_STATUS_MOVES.
TimelineTrue ==
    [][ticket'.status # ticket.status \/ ticket'.was # ticket.was
         => /\ ticket'.was = ticket.status
            /\ ticket'.status \in Legal[ticket.status]]_vars
=============================================================================
