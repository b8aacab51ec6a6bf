-------------------------------- MODULE Wizard --------------------------------
(***************************************************************************)
(* The intake wizard of the bot: two orders of screens behind one set of   *)
(* handlers (bot.states, bot.draft, bot.handlers), the lyric that is       *)
(* written on the customer's screen before anything is paid                *)
(* (handlers.lyrics) and the daily budget that bounds it (lyric_budget).   *)
(*                                                                         *)
(* A step is one update of the chat: a button or a message, handled from   *)
(* its read of the session to its last write. Updates of one chat are kept *)
(* apart by a lock (app.build_event_isolation); the lyric write is the one *)
(* handler that awaits a vendor, and the lock expires under a long one.    *)
(* Inline buttons stay in the chat: one is handled wherever its router     *)
(* accepts it, whatever the latest screen shows.                           *)
(***************************************************************************)
EXTENDS Naturals, Sequences, FiniteSets, SequencesExt

CONSTANTS
    Names,        \* recipients a customer may name
    Tongues,      \* output languages
    Spoken,       \* the interface language
    Writers,      \* bound: lyric writes in flight
    MaxWrites,    \* MAX_LYRIC_WRITES, of one draft
    DailyWrites,  \* lyric_writes_per_day, of one account
    LastDay,      \* bound: days
    None,
    Faults        \* bound: what may go wrong besides the writer and the gates

\* lock: a write outlasts the chat's lock. crash: the bot restarts. store: the
\* budget cannot be counted.
AllFaults == {"lock", "crash", "store"}

ASSUME WizardAssumption ==
    /\ Spoken \in Tongues
    /\ None \notin Names \union Tongues
    /\ None \notin Writers
    /\ MaxWrites \in Nat \ {0} /\ DailyWrites \in Nat \ {0}
    /\ LastDay \in Nat
    /\ Faults \subseteq AllFaults

VARIABLES
    fsm,      \* the FSM state: a step, submitting, or none
    draft,    \* the draft in FSM data
    parked,   \* is an order's id in FSM data
    write,    \* write[w]: the draft a lyric is being written for
    lock,     \* the write that holds the chat's lock
    day,      \* today
    budget,   \* the account's row of lyric_budget
    agreed,   \* has the customer said yes to the draft's present words: yes, no, or
              \* skipped by a retype of the name, which the own-words path never asks for
    wiping,   \* a worker has read that its order is parked, and will wipe the session
    hurry     \* from now on the customer only presses on

session == <<fsm, draft, parked>>
meter == <<day, budget>>
vars == <<session, write, lock, meter, agreed, wiping, hurry>>

-----------------------------------------------------------------------------
WIZARD_ORDER == <<"occasion", "genre", "vocal_gender", "note", "name", "name_confirm",
                  "output_language", "lyrics", "confirm">>
OWN_LYRICS_ORDER == <<"occasion", "lyrics", "genre", "vocal_gender", "output_language",
                      "confirm">>
Steps == Range(WIZARD_ORDER)

Asked == {"occasion", "genre", "vocal_gender"}
\* lyric: the language it is tagged with; its words are left out.
Draft == [own : BOOLEAN, answers : SUBSET Asked,
          name : Names \union {None}, tongue : Tongues \union {None},
          lyric : Tongues \union {None}, writes : 0..MaxWrites]

Blank == [own |-> FALSE, answers |-> {}, name |-> None, tongue |-> None, lyric |-> None,
          writes |-> 0]

Init ==
    /\ fsm = "none" /\ draft = None /\ parked = FALSE
    /\ write = [w \in Writers |-> None] /\ lock = None
    /\ day = 0 /\ budget = [day |-> 0, writes |-> 0]
    /\ agreed = "no" /\ wiping = FALSE /\ hurry = FALSE

\* order_for, previous_step, next_step: a step that is not in the draft's order has
\* neither a predecessor nor a successor, and a handler then stays where it is.
Path(d) == IF d.own THEN OWN_LYRICS_ORDER ELSE WIZARD_ORDER
Place(step, d) == SelectInSeq(Path(d), LAMBDA s : s = step)
Previous(step, d) ==
    IF Place(step, d) > 1 THEN Path(d)[Place(step, d) - 1] ELSE step
After(step, d) ==
    IF Place(step, d) \in 1..(Len(Path(d)) - 1) THEN Path(d)[Place(step, d) + 1] ELSE step

\* missing_answers: the recipient is asked for on the writer's path only.
Answered(d) ==
    /\ d.answers = Asked /\ d.tongue # None
    /\ d.own \/ d.name # None
Complete(d) == Answered(d) /\ d.lyric # None

\* Fault: a lyric-less preview is sent back on either path.
DowngradeEither(step, d) ==
    CASE step = "name_confirm" /\ d.name = None -> "name"
      [] step = "lyrics" /\ d.lyric = None -> "output_language"
      [] step = "confirm" /\ ~Complete(d) ->
            IF d.lyric = None THEN "lyrics" ELSE "output_language"
      [] OTHER -> step

\* resolve_step: a screen this draft can draw. show_step asks until it settles.
Downgrade(step, d) ==
    CASE d.own /\ step = "confirm" /\ ~Complete(d) ->
            IF d.lyric = None THEN "lyrics" ELSE "output_language"
      [] ~d.own /\ step = "name_confirm" /\ d.name = None -> "name"
      [] ~d.own /\ step = "lyrics" /\ d.lyric = None -> "output_language"
      [] ~d.own /\ step = "confirm" /\ ~Complete(d) ->
            IF d.name = None THEN "name"
            ELSE IF ~Answered(d) THEN "output_language" ELSE "lyrics"
      [] OTHER -> step
Resolve(step, d) == Downgrade(Downgrade(step, d), d)

ShowStep(d, step) == draft' = d /\ fsm' = Resolve(step, d) /\ UNCHANGED parked
\* clear_keeping_identity: the draft, the state and a parked order's id all go.
Clear == draft' = None /\ fsm' = "none" /\ parked' = FALSE

\* An update is handled when the chat's lock is free.
Handled == lock = None
At(step) == Handled /\ fsm = step /\ draft # None
\* order_in_flight: a lyric write parks in the same state, with no order.
OrderInFlight == fsm = "submitting" /\ parked

Keeps == UNCHANGED <<write, lock, meter, wiping, hurry>>
SameWords == UNCHANGED agreed
NewWords == agreed' = "no"
\* Which path it is has been chosen again: a yes that was skipped is owed again.
SamePath == agreed' = IF agreed = "skipped" THEN "no" ELSE agreed

-----------------------------------------------------------------------------
(***************************************************************************)
(* What the customer may do in any state. A restart does not ask whether   *)
(* an order is in flight; Cancel, Back and Retype do.                      *)
(***************************************************************************)
\* reset_to_welcome, from the menu (which stands down while the session is parked)
\* or from a Start-over button (which does not).
Generate ==
    /\ Handled
    /\ draft' = Blank /\ fsm' = "occasion" /\ parked' = FALSE
    /\ NewWords /\ Keeps

\* /start, or a Cancel that is not too late.
Leave == Handled /\ Clear /\ NewWords /\ Keeps
Cancel == ~OrderInFlight /\ Leave

\* /forget: the draft goes, a running order stays parked.
Forget ==
    /\ Handled /\ draft' = None
    /\ fsm' = (IF OrderInFlight THEN "submitting" ELSE "none")
    /\ parked' = OrderInFlight
    /\ NewWords /\ Keeps

Back ==
    /\ Handled /\ ~OrderInFlight /\ Keeps
    /\ \/ draft # None /\ fsm \in Steps /\ ShowStep(draft, Previous(fsm, draft)) /\ SameWords
       \/ (draft = None \/ fsm \notin Steps) /\ Clear /\ NewWords

\* The button of any name screen that is still in the chat, in any state and on either
\* path: the router asks for neither.
Retype ==
    /\ Handled /\ ~OrderInFlight /\ Keeps
    /\ \/ /\ draft # None /\ ShowStep([draft EXCEPT !.name = None], "name")
          /\ agreed' = IF draft.own /\ agreed = "no" THEN "skipped" ELSE agreed
       \/ draft = None /\ Clear /\ NewWords

-----------------------------------------------------------------------------
(***************************************************************************)
(* The questions.                                                          *)
(***************************************************************************)
Answer(step, d, target) == At(step) /\ ShowStep(d, target) /\ SameWords /\ Keeps

Chosen(own, target) ==
    /\ At("occasion") /\ SamePath /\ Keeps
    /\ ShowStep([draft EXCEPT !.own = own, !.answers = @ \union {"occasion"}], target)
PickOccasion == Chosen(FALSE, "genre")
OwnLyrics == Chosen(TRUE, "lyrics")
\* handle_genre, handle_vocal_gender
Pick(step) ==
    Answer(step, [draft EXCEPT !.answers = @ \union {step}], After(step, draft))
Note == Answer("note", draft, "name")
NameTyped(n) == Answer("name", [draft EXCEPT !.name = n], "name_confirm")
NameOk ==
    Answer("name_confirm", draft, IF draft.name = None THEN "name" ELSE "output_language")

\* retagged: the customer's words, under the language that was chosen.
Retagged(d) ==
    IF d.lyric = None \/ d.tongue = None THEN d ELSE [d EXCEPT !.lyric = d.tongue]

-----------------------------------------------------------------------------
(***************************************************************************)
(* The lyric. The draft that is stored while a write runs is the one from  *)
(* before the write; the writer's answer brings the other.                 *)
(***************************************************************************)
\* claim_write: one upsert, in which another day starts over. The count of refused
\* claims stops at the first.
Charged ==
    [day |-> day,
     writes |-> IF budget.day = day THEN Min({budget.writes, DailyWrites}) + 1 ELSE 1]
Allowed(claim) == claim.writes <= DailyWrites

Unwritten(d, step) == ShowStep(d, step) /\ SameWords /\ UNCHANGED <<write, lock, meter>>

BeginWrite(d) ==
    /\ fsm' = "submitting" /\ UNCHANGED <<draft, parked>> /\ SameWords
    /\ \E w \in Writers :
          /\ write[w] = None
          /\ write' = [write EXCEPT ![w] = [d EXCEPT !.writes = @ + 1]]
          /\ lock' = w

Claim(d) ==
    \/ /\ budget' = Charged /\ UNCHANGED day
       /\ \/ Allowed(Charged) /\ BeginWrite(d)
          \/ /\ ~Allowed(Charged) /\ UNCHANGED <<write, lock>>
             /\ \/ d.lyric # None /\ ShowStep(d, "lyrics") /\ SameWords
                \/ d.lyric = None /\ Clear /\ NewWords
    \* The count cannot be kept: the write is let through.
    \/ "store" \in Faults /\ BeginWrite(d) /\ UNCHANGED meter

MayWrite(d) == d.writes < MaxWrites

EnterLyricsStep(d) ==
    /\ UNCHANGED <<wiping, hurry>>
    /\ \/ d.own /\ Unwritten(Retagged(d), "lyrics")
       \/ ~d.own /\ ~MayWrite(d) /\ Unwritten(d, "lyrics")
       \/ ~d.own /\ MayWrite(d) /\ ~Answered(d) /\ Unwritten(d, "output_language")
       \/ ~d.own /\ MayWrite(d) /\ Answered(d) /\ Claim(d)

PickTongue(l) ==
    LET answered == [draft EXCEPT !.tongue = l]
    IN  /\ At("output_language")
        /\ \/ draft.own /\ ShowStep(Retagged(answered), "confirm") /\ SameWords /\ Keeps
           \/ ~draft.own /\ l = draft.tongue /\ draft.lyric # None
              /\ ShowStep(draft, "lyrics") /\ SameWords /\ Keeps
           \/ ~draft.own /\ (l # draft.tongue \/ draft.lyric = None) /\ EnterLyricsStep(answered)

TryAgain == At("output_language") /\ EnterLyricsStep(draft)
Regenerate == At("lyrics") /\ EnterLyricsStep(draft)

\* On the customer's own path the words come second and the rest is still to be asked.
LyricsOk ==
    /\ At("lyrics") /\ ShowStep(draft, After("lyrics", draft))
    /\ agreed' = (IF draft.lyric # None THEN "yes" ELSE "no") /\ Keeps

\* Fault: a pasted lyric counts as approved.
PassesPasted(d) == ShowStep(d, After("lyrics", d))
ShowsPasted(d) == ShowStep(d, "lyrics")

TypeLyrics ==
    /\ At("lyrics") /\ Keeps
    /\ \/ ~draft.own /\ draft.name = None /\ ShowStep(draft, "name") /\ SameWords
       \/ /\ draft.own \/ draft.name # None
          /\ ShowsPasted([draft EXCEPT !.lyric =
                IF draft.tongue = None THEN Spoken ELSE draft.tongue])
          /\ NewWords

\* Only the state is looked at: whatever run is parked takes the answer.
WriterAnswers(w) ==
    LET spent == write[w]
    IN  /\ spent # None
        /\ write' = [write EXCEPT ![w] = None]
        /\ lock' = (IF lock = w THEN None ELSE lock)
        /\ UNCHANGED <<meter, wiping, hurry>>
        /\ \/ fsm # "submitting" /\ UNCHANGED session /\ SameWords
           \/ /\ fsm = "submitting"
              /\ ShowStep([spent EXCEPT !.lyric = spent.tongue], "lyrics")
              /\ NewWords
           \* The writer failed: its attempt counts, its screen offers to try again.
           \/ /\ fsm = "submitting" /\ draft' = spent /\ fsm' = "output_language"
              /\ UNCHANGED parked /\ NewWords

-----------------------------------------------------------------------------
(***************************************************************************)
(* The order, and the worker's release of the session that waits for it.   *)
(***************************************************************************)
Confirm ==
    /\ At("confirm")
    /\ \/ ~Answered(draft) /\ ShowStep(draft, "confirm") /\ SameWords /\ Keeps
       \/ Answered(draft) /\ draft.lyric = None /\ EnterLyricsStep(draft)
       \* A gate, the queue or Telegram refuses: back to the screen, or for an account
       \* that cannot buy, out.
       \/ Complete(draft) /\ ShowStep(draft, "confirm") /\ SameWords /\ Keeps
       \/ Complete(draft) /\ Clear /\ NewWords /\ Keeps
       \/ /\ Complete(draft)
          /\ fsm' = "submitting" /\ parked' = TRUE /\ UNCHANGED draft /\ SameWords /\ Keeps

\* _release_session holds no lock: it compares the parked id with its order's, and
\* then wipes. A release that finds another id does nothing.
ReleaseReads ==
    /\ parked /\ ~wiping /\ wiping' = TRUE
    /\ UNCHANGED <<session, write, lock, meter, agreed, hurry>>
ReleaseWipes ==
    /\ wiping /\ wiping' = FALSE
    /\ Clear /\ NewWords /\ UNCHANGED <<write, lock, meter, hurry>>

-----------------------------------------------------------------------------
(***************************************************************************)
(* Time, and what goes wrong.                                              *)
(***************************************************************************)
NextDay ==
    /\ day < LastDay /\ day' = day + 1
    /\ UNCHANGED <<session, write, lock, budget, agreed, wiping, hurry>>

LockExpires ==
    /\ "lock" \in Faults /\ lock # None /\ lock' = None
    /\ UNCHANGED <<session, write, meter, agreed, wiping, hurry>>

\* The bot restarts: what was being written is gone, the session is where it was.
Crash ==
    /\ "crash" \in Faults /\ \E w \in Writers : write[w] # None
    /\ write' = [w \in Writers |-> None] /\ lock' = None
    /\ UNCHANGED <<session, meter, agreed, wiping, hurry>>

-----------------------------------------------------------------------------
(***************************************************************************)
(* A customer who is in a hurry answers the screen in front of them, and   *)
(* nothing else, until the summary or a dead end.                          *)
(***************************************************************************)
Forward ==
    \/ PickOccasion \/ OwnLyrics \/ Pick("genre") \/ Pick("vocal_gender") \/ Note
    \/ \E n \in Names : NameTyped(n)
    \/ NameOk
    \/ \E l \in Tongues : PickTongue(l)
    \/ draft # None /\ draft.lyric # None /\ LyricsOk
    \/ draft # None /\ draft.lyric = None /\ TypeLyrics

Roam ==
    \/ Generate \/ Leave \/ Cancel \/ Forget \/ Back \/ Retype
    \/ TryAgain \/ Regenerate \/ LyricsOk \/ TypeLyrics \/ Confirm

\* A retype jumped over a question that this draft has not answered: the language screen
\* leads back to itself, and only Back leads out.
Astray ==
    /\ draft # None /\ draft.answers # Asked /\ (draft.own => draft.lyric # None)
    /\ fsm \in {"name", "name_confirm", "output_language"}
\* No lyric and every write of this draft used: each press on the screen leads back to
\* it. Or a restart left the session waiting for a write that is gone.
DeadEnd ==
    \/ Astray
    \/ draft # None /\ ~draft.own /\ draft.lyric = None /\ draft.writes >= MaxWrites
    \/ fsm = "submitting" /\ \A w \in Writers : write[w] = None
Arrived == fsm \in {"none", "confirm"} \/ OrderInFlight \/ DeadEnd

Hurry == ~hurry /\ ~Arrived /\ hurry' = TRUE /\ UNCHANGED <<session, write, lock, meter, agreed, wiping>>
Rest == hurry /\ Arrived /\ hurry' = FALSE /\ UNCHANGED <<session, write, lock, meter, agreed, wiping>>

Next ==
    \/ Forward
    \/ ~hurry /\ Roam
    \/ \E w \in Writers : WriterAnswers(w)
    \/ ReleaseReads \/ ReleaseWipes \/ NextDay \/ LockExpires \/ Crash \/ Hurry \/ Rest

Spec == Init /\ [][Next]_vars
FairSpec ==
    /\ Spec
    /\ WF_vars(hurry /\ Forward)
    /\ \A w \in Writers : WF_vars(WriterAnswers(w))

-----------------------------------------------------------------------------
\* Every variable has its type.
TypeOK ==
    /\ fsm \in Steps \union {"submitting", "none"}
    /\ draft \in Draft \union {None}
    /\ parked \in BOOLEAN /\ wiping \in BOOLEAN
    /\ \A w \in Writers : write[w] # None => write[w] \in Draft /\ Answered(write[w])
    /\ lock \in Writers \union {None}
    /\ day \in 0..LastDay /\ budget \in [day : 0..LastDay, writes : 0..(DailyWrites + 1)]
    /\ agreed \in {"yes", "no", "skipped"} /\ hurry \in BOOLEAN

Ordered == fsm = "confirm" /\ fsm' = "submitting" /\ parked'

\* An order is queued with words its customer approved on the preview: after the last
\* lyric that was written or pasted there was a yes, on either order of the screens and
\* however the customer went back and forth. The one way around it is a retype of the name
\* on the path of one's own words, which leads past their preview.
AgreedWords == [][Ordered => agreed = "yes" \/ (draft.own /\ agreed = "skipped")]_vars

\* A customer who only ever answers the screen in front of them reaches the summary
\* or is told no: the two orders, the downgrades and the budget make no loop.
PressingOnArrives == hurry ~> Arrived
=============================================================================
