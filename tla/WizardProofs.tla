---------------------------- MODULE WizardProofs ----------------------------
(***************************************************************************)
(* Theorems about Wizard for any names, languages, writers, days and       *)
(* limits of the budget: that its states are well typed, and that nobody   *)
(* orders words they have not said yes to, except past a retyped name.     *)
(***************************************************************************)
EXTENDS Wizard, TLAPS

OwnSteps == {"occasion", "lyrics", "genre", "vocal_gender", "output_language", "confirm"}

\* On the customer's own path the words come second: these screens come after.
AfterWords == {"genre", "vocal_gender", "output_language"}

\* The screens of the recipient, where only a retype leads on that path.
NameScreens == {"name", "name_confirm"}

Said == {"yes", "no", "skipped"}

\* What holds of a draft d in state f, a being what was agreed.
Words(f, d, a) ==
    /\ f = "confirm" => Complete(d)
    /\ d.own => f \in OwnSteps \union NameScreens \union {"submitting"}
    /\ d.own /\ f \in NameScreens => a # "no"
    /\ d.lyric # None /\ (f = "confirm" \/ (d.own /\ f \in AfterWords)) => a # "no"

SessionInv ==
    /\ fsm \in Steps \union {"submitting", "none"}
    /\ draft \in Draft \union {None}
    /\ parked \in BOOLEAN /\ agreed \in Said
    /\ draft # None => Words(fsm, draft, agreed)
    /\ fsm = "confirm" => agreed # "no"
    /\ agreed = "skipped" => draft.own

WriteInv ==
    /\ write \in [Writers -> Draft \union {None}]
    /\ \A w \in Writers : write[w] # None => Answered(write[w]) /\ ~write[w].own
    /\ lock \in Writers \union {None}

MeterInv ==
    /\ day \in 0..LastDay
    /\ budget \in [day : 0..LastDay, writes : 0..(DailyWrites + 1)]

IInv ==
    /\ SessionInv /\ WriteInv /\ MeterInv
    /\ wiping \in BOOLEAN /\ hurry \in BOOLEAN

-----------------------------------------------------------------------------
LEMMA StepsAre ==
    Steps = {"occasion", "genre", "vocal_gender", "note", "name", "name_confirm",
             "output_language", "lyrics", "confirm"}
<1>1. DOMAIN WIZARD_ORDER = 1..9
  BY DEF WIZARD_ORDER
<1>2. \A x : x \in Steps <=> \E i \in 1..9 : x = WIZARD_ORDER[i]
  BY <1>1 DEF Steps, Range
<1>3. \A i \in 1..9 : i = 1 \/ i = 2 \/ i = 3 \/ i = 4 \/ i = 5 \/ i = 6 \/ i = 7
                        \/ i = 8 \/ i = 9
  OBVIOUS
<1>4. /\ WIZARD_ORDER[1] = "occasion" /\ WIZARD_ORDER[2] = "genre"
      /\ WIZARD_ORDER[3] = "vocal_gender" /\ WIZARD_ORDER[4] = "note"
      /\ WIZARD_ORDER[5] = "name" /\ WIZARD_ORDER[6] = "name_confirm"
      /\ WIZARD_ORDER[7] = "output_language" /\ WIZARD_ORDER[8] = "lyrics"
      /\ WIZARD_ORDER[9] = "confirm"
  BY DEF WIZARD_ORDER
<1>5. \A x : x \in Steps <=> x \in {"occasion", "genre", "vocal_gender", "note", "name",
                     "name_confirm", "output_language", "lyrics", "confirm"}
  BY <1>2, <1>3, <1>4
<1> QED  BY <1>5

\* Where the screens of an order are all different, each is found at its place.
LEMMA PlaceIs ==
    ASSUME NEW d, Len(Path(d)) \in Nat,
           \A i, j \in 1..Len(Path(d)) : Path(d)[i] = Path(d)[j] => i = j
    PROVE  \A n \in 1..Len(Path(d)) : Place(Path(d)[n], d) = n
<1> SUFFICES ASSUME NEW n \in 1..Len(Path(d))
             PROVE  Place(Path(d)[n], d) = n
  OBVIOUS
<1> DEFINE step == Path(d)[n]
<1> DEFINE I == {i \in 1..Len(Path(d)) : Path(d)[i] = step}
<1>1. I = {n}
  OBVIOUS
<1>2. Min({n}) = n
  BY DEF Min
<1>3. Place(step, d) = IF I # {} THEN Min(I) ELSE 0
  BY DEF Place, SelectInSeq
<1> QED  BY <1>1, <1>2, <1>3

LEMMA OwnPath ==
    ASSUME NEW d \in Draft, d.own
    PROVE  /\ After("lyrics", d) = "genre" /\ After("genre", d) = "vocal_gender"
           /\ After("vocal_gender", d) = "output_language"
           /\ Previous("occasion", d) = "occasion" /\ Previous("lyrics", d) = "occasion"
           /\ Previous("genre", d) = "lyrics" /\ Previous("vocal_gender", d) = "genre"
           /\ Previous("output_language", d) = "vocal_gender"
           /\ Previous("confirm", d) = "output_language"
           /\ \A step \in NameScreens : Previous(step, d) = step
<1>1. Path(d) = OWN_LYRICS_ORDER
  BY DEF Path
<1>2. /\ Len(Path(d)) = 6
      /\ Path(d)[1] = "occasion" /\ Path(d)[2] = "lyrics" /\ Path(d)[3] = "genre"
      /\ Path(d)[4] = "vocal_gender" /\ Path(d)[5] = "output_language"
      /\ Path(d)[6] = "confirm"
  BY <1>1 DEF OWN_LYRICS_ORDER
<1>3. \A i \in 1..6 : i = 1 \/ i = 2 \/ i = 3 \/ i = 4 \/ i = 5 \/ i = 6
  OBVIOUS
<1>4. /\ Place("occasion", d) = 1 /\ Place("lyrics", d) = 2 /\ Place("genre", d) = 3
      /\ Place("vocal_gender", d) = 4 /\ Place("output_language", d) = 5
      /\ Place("confirm", d) = 6
  <2>0. Len(Path(d)) \in Nat
    BY <1>2
  <2>1. \A i, j \in 1..Len(Path(d)) : Path(d)[i] = Path(d)[j] => i = j
    BY <1>2, <1>3
  <2>2. \A n \in 1..Len(Path(d)) : Place(Path(d)[n], d) = n
    BY <2>0, <2>1, PlaceIs, Zenon
  <2>3. \A n \in 1..6 : Place(Path(d)[n], d) = n
    BY <1>2, <2>2
  <2> QED  BY <1>2, <2>3
<1>5. ASSUME NEW step \in NameScreens PROVE Previous(step, d) = step
  <2> DEFINE I == {i \in 1..Len(Path(d)) : Path(d)[i] = step}
  <2>1. I = {}
    BY <1>2, <1>3 DEF NameScreens
  <2>2. Place(step, d) = IF I # {} THEN Min(I) ELSE 0
    BY DEF Place, SelectInSeq
  <2>3. Place(step, d) = 0
    BY <2>1, <2>2
  <2> QED  BY <2>3 DEF Previous
<1>6. /\ After("lyrics", d) = "genre" /\ After("genre", d) = "vocal_gender"
      /\ After("vocal_gender", d) = "output_language"
  BY <1>2, <1>4 DEF After
<1>7. /\ Previous("occasion", d) = "occasion" /\ Previous("lyrics", d) = "occasion"
      /\ Previous("genre", d) = "lyrics" /\ Previous("vocal_gender", d) = "genre"
      /\ Previous("output_language", d) = "vocal_gender"
      /\ Previous("confirm", d) = "output_language"
  BY <1>2, <1>4 DEF Previous
<1> QED  BY <1>5, <1>6, <1>7

\* On the writer's path the words come last but one, and no screen leads back to
\* the summary.
LEMMA WriterPath ==
    ASSUME NEW d \in Draft, ~d.own
    PROVE  /\ After("lyrics", d) = "confirm" /\ After("genre", d) = "vocal_gender"
           /\ After("vocal_gender", d) = "note"
           /\ \A step \in Steps : Previous(step, d) \in Steps \ {"confirm"}
<1>1. Path(d) = WIZARD_ORDER
  BY DEF Path
<1>2. /\ Len(Path(d)) = 9
      /\ Path(d)[1] = "occasion" /\ Path(d)[2] = "genre" /\ Path(d)[3] = "vocal_gender"
      /\ Path(d)[4] = "note" /\ Path(d)[5] = "name" /\ Path(d)[6] = "name_confirm"
      /\ Path(d)[7] = "output_language" /\ Path(d)[8] = "lyrics"
      /\ Path(d)[9] = "confirm"
  BY <1>1 DEF WIZARD_ORDER
<1>3. \A i \in 1..9 : i = 1 \/ i = 2 \/ i = 3 \/ i = 4 \/ i = 5 \/ i = 6 \/ i = 7
                        \/ i = 8 \/ i = 9
  OBVIOUS
<1>4. /\ Place("occasion", d) = 1 /\ Place("genre", d) = 2 /\ Place("vocal_gender", d) = 3
      /\ Place("note", d) = 4 /\ Place("name", d) = 5 /\ Place("name_confirm", d) = 6
      /\ Place("output_language", d) = 7 /\ Place("lyrics", d) = 8
      /\ Place("confirm", d) = 9
  <2>0. Len(Path(d)) \in Nat
    BY <1>2
  <2>1. \A i, j \in 1..Len(Path(d)) : Path(d)[i] = Path(d)[j] => i = j
    BY <1>2, <1>3
  <2>2. \A n \in 1..Len(Path(d)) : Place(Path(d)[n], d) = n
    BY <2>0, <2>1, PlaceIs, Zenon
  <2>3. \A n \in 1..9 : Place(Path(d)[n], d) = n
    BY <1>2, <2>2
  <2> QED  BY <1>2, <2>3
<1>5. After("lyrics", d) = "confirm" /\ After("genre", d) = "vocal_gender"
      /\ After("vocal_gender", d) = "note"
  BY <1>2, <1>4 DEF After
<1>6. \A step \in Steps : Previous(step, d) \in Steps \ {"confirm"}
  <2>1. /\ Previous("occasion", d) = "occasion" /\ Previous("genre", d) = "occasion"
        /\ Previous("vocal_gender", d) = "genre" /\ Previous("note", d) = "vocal_gender"
        /\ Previous("name", d) = "note" /\ Previous("name_confirm", d) = "name"
        /\ Previous("output_language", d) = "name_confirm"
        /\ Previous("lyrics", d) = "output_language" /\ Previous("confirm", d) = "lyrics"
    BY <1>2, <1>4 DEF Previous
  <2> QED  BY <2>1, StepsAre
<1> QED  BY <1>5, <1>6

\* The screen a draft is shown at: the summary only when it is complete, and
\* never further along its own path than it was asked for.
LEMMA ResolveIs ==
    ASSUME NEW d \in Draft, NEW step \in Steps
    PROVE  /\ Resolve(step, d) \in Steps
           /\ Resolve(step, d) = "confirm" => step = "confirm" /\ Complete(d)
           /\ d.own /\ step \in OwnSteps => Resolve(step, d) \in OwnSteps
           /\ d.own /\ step \in NameScreens => Resolve(step, d) = step
           /\ d.own /\ Resolve(step, d) \in AfterWords => step \in AfterWords \union {"confirm"}
<1>1. Complete(d) <=> Answered(d) /\ d.lyric # None
  BY DEF Complete
<1>2. Answered(d) => d.own \/ d.name # None
  BY DEF Answered
<1>3. CASE d.own
  BY <1>1, <1>3, StepsAre DEF Resolve, Downgrade, OwnSteps, AfterWords, NameScreens
<1>4. CASE ~d.own
  <2>1. Downgrade(step, d) \in Steps
        /\ (Downgrade(step, d) = "confirm" => step = "confirm" /\ Complete(d))
    BY <1>1, <1>4, StepsAre DEF Downgrade
  <2>2. \A x \in Steps : Downgrade(x, d) \in Steps
        /\ (Downgrade(x, d) = "confirm" => x = "confirm" /\ Complete(d))
    BY <1>1, <1>4, StepsAre DEF Downgrade
  <2> QED  BY <1>4, <2>1, <2>2 DEF Resolve
<1> QED  BY <1>3, <1>4

-----------------------------------------------------------------------------
\* What a screen may be asked to show: past the words only what was agreed.
MayShow(d, step, a) ==
    /\ d.own => step \in OwnSteps \union NameScreens
    /\ d.own /\ step \in NameScreens => a # "no"
    /\ d.lyric # None /\ (step = "confirm" \/ (d.own /\ step \in AfterWords)) => a # "no"
    /\ a = "skipped" => d.own

LEMMA Shows ==
    ASSUME SessionInv, NEW d \in Draft, NEW step \in Steps, ShowStep(d, step),
           agreed' \in Said, MayShow(d, step, agreed')
    PROVE  SessionInv'
<1>1. /\ draft' = d /\ fsm' = Resolve(step, d) /\ parked' = parked
  BY DEF ShowStep
<1>2. /\ fsm' \in Steps
      /\ fsm' = "confirm" => step = "confirm" /\ Complete(d)
      /\ d.own => fsm' \in OwnSteps \union NameScreens
      /\ d.own /\ fsm' \in NameScreens => step \in NameScreens
      /\ d.own /\ fsm' \in AfterWords => step \in AfterWords \union {"confirm"}
  <2>1. OwnSteps \intersect NameScreens = {}
    BY DEF OwnSteps, NameScreens
  <2> QED  BY <1>1, <2>1, ResolveIs DEF MayShow
<1>3. Complete(d) => d.lyric # None
  BY DEF Complete
<1>4. Words(fsm', d, agreed')
  BY <1>2, <1>3 DEF Words, MayShow
<1>5. fsm' = "confirm" => agreed' # "no"
  BY <1>2, <1>3 DEF MayShow
<1>6. agreed' = "skipped" => draft'.own
  BY <1>1 DEF MayShow
<1> QED  BY <1>1, <1>2, <1>4, <1>5, <1>6 DEF SessionInv

LEMMA SessionKeeps ==
    ASSUME SessionInv, UNCHANGED session, UNCHANGED agreed
    PROVE  SessionInv'
BY DEF SessionInv, session

LEMMA Clears ==
    ASSUME Clear, agreed' = "no"
    PROVE  SessionInv'
BY DEF Clear, SessionInv, Said

LEMMA MeterKeeps ==
    ASSUME MeterInv, UNCHANGED meter
    PROVE  MeterInv'
BY DEF MeterInv, meter

LEMMA WriteKeeps ==
    ASSUME WriteInv, UNCHANGED <<write, lock>>
    PROVE  WriteInv'
BY DEF WriteInv

\* A handler that leaves the lyric writes, the budget and the clocks alone.
LEMMA KeepsRest ==
    ASSUME IInv, Keeps, SessionInv'
    PROVE  IInv'
BY WriteKeeps, MeterKeeps DEF IInv, Keeps

LEMMA DraftAt ==
    ASSUME IInv, NEW step, At(step)
    PROVE  /\ draft \in Draft /\ fsm = step /\ Words(fsm, draft, agreed)
           /\ agreed \in Said /\ (agreed = "skipped" => draft.own)
BY DEF IInv, SessionInv, At

-----------------------------------------------------------------------------
LEMMA GenerateKeeps ==
    ASSUME IInv, Generate
    PROVE  IInv'
<1>1. Blank \in Draft /\ Blank.own = FALSE /\ Blank.lyric = None
  BY WizardAssumption DEF Blank, Draft
<1>2. SessionInv'
  BY <1>1, StepsAre DEF Generate, NewWords, SessionInv, Words, Said
<1> QED  BY <1>2, KeepsRest DEF Generate

LEMMA LeaveKeeps ==
    ASSUME IInv, Leave \/ Cancel
    PROVE  IInv'
<1>1. Clear /\ agreed' = "no" /\ Keeps
  BY DEF Leave, Cancel, NewWords
<1> QED  BY <1>1, Clears, KeepsRest

LEMMA ForgetKeeps ==
    ASSUME IInv, Forget
    PROVE  IInv'
<1>1. OrderInFlight \in BOOLEAN
  BY DEF OrderInFlight
<1>2. /\ draft' = None /\ fsm' \in {"submitting", "none"} /\ parked' \in BOOLEAN
      /\ agreed' = "no"
  BY <1>1 DEF Forget, NewWords
<1>3. SessionInv'
  BY <1>2 DEF SessionInv, Said
<1> QED  BY <1>3, KeepsRest DEF Forget

\* No step back leads to the summary, nor, past the words, to a screen that was not
\* reached by a yes.
LEMMA BackKeeps ==
    ASSUME IInv, Back
    PROVE  IInv'
<1>1. CASE draft # None /\ fsm \in Steps /\ ShowStep(draft, Previous(fsm, draft)) /\ SameWords
  <2>1. /\ draft \in Draft /\ Words(fsm, draft, agreed) /\ agreed \in Said
        /\ agreed' = agreed /\ (agreed = "skipped" => draft.own)
    BY <1>1 DEF IInv, SessionInv, SameWords
  <2>2. Previous(fsm, draft) \in Steps /\ MayShow(draft, Previous(fsm, draft), agreed)
    <3>1. CASE draft.own
      <4>1. fsm \in OwnSteps \union NameScreens
        BY <1>1, <2>1, <3>1, StepsAre DEF Words
      <4>2. \/ fsm \in {"occasion", "lyrics"} /\ Previous(fsm, draft) = "occasion"
            \/ fsm = "genre" /\ Previous(fsm, draft) = "lyrics"
            \/ /\ fsm \in AfterWords \union {"confirm"}
               /\ Previous(fsm, draft) \in AfterWords
            \/ fsm \in NameScreens /\ Previous(fsm, draft) = fsm
        BY <2>1, <3>1, <4>1, OwnPath DEF OwnSteps, AfterWords
      <4>3. /\ draft.lyric # None /\ fsm \in AfterWords \union {"confirm"} => agreed # "no"
            /\ fsm \in NameScreens => agreed # "no"
        BY <2>1, <3>1 DEF Words
      <4> QED  BY <1>1, <2>1, <4>2, <4>3, StepsAre DEF MayShow, OwnSteps, AfterWords, NameScreens
    <3>2. CASE ~draft.own
      <4>1. Previous(fsm, draft) \in Steps \ {"confirm"}
        BY <1>1, <2>1, <3>2, WriterPath
      <4> QED  BY <2>1, <3>2, <4>1 DEF MayShow
    <3> QED  BY <3>1, <3>2
  <2>3. SessionInv'
    BY <1>1, <2>1, <2>2, Shows DEF IInv
  <2> QED  BY <2>3, KeepsRest DEF Back
<1>2. CASE Clear /\ NewWords
  BY <1>2, Clears, KeepsRest DEF Back, NewWords
<1> QED  BY <1>1, <1>2 DEF Back

\* An old name screen leads the customer's own words past the yes.
LEMMA RetypeKeeps ==
    ASSUME IInv, Retype
    PROVE  IInv'
<1> DEFINE d == [draft EXCEPT !.name = None]
<1>1. CASE /\ draft # None /\ ShowStep(d, "name")
           /\ agreed' = IF draft.own /\ agreed = "no" THEN "skipped" ELSE agreed
  <2>1. /\ draft \in Draft /\ agreed \in Said /\ (agreed = "skipped" => draft.own)
    BY <1>1 DEF IInv, SessionInv
  <2>2. d \in Draft /\ d.own = draft.own
    BY <2>1 DEF Draft
  <2>3. /\ agreed' \in Said /\ (agreed' = "skipped" => draft.own)
        /\ draft.own => agreed' # "no"
    BY <1>1, <2>1 DEF Said
  <2>4. MayShow(d, "name", agreed')
    BY <2>2, <2>3 DEF MayShow, AfterWords, NameScreens
  <2> HIDE DEF d
  <2>5. SessionInv'
    BY <1>1, <2>2, <2>3, <2>4, Shows, StepsAre DEF IInv
  <2> QED  BY <2>5, KeepsRest DEF Retype
<1>2. CASE Clear /\ NewWords
  BY <1>2, Clears, KeepsRest DEF Retype, NewWords
<1> QED  BY <1>1, <1>2 DEF Retype

-----------------------------------------------------------------------------
LEMMA AnswerKeeps ==
    ASSUME IInv, NEW step, NEW d \in Draft, NEW target \in Steps,
           Answer(step, d, target), MayShow(d, target, agreed)
    PROVE  IInv'
<1>1. ShowStep(d, target) /\ agreed' = agreed /\ Keeps
  BY DEF Answer, SameWords
<1>2. SessionInv /\ agreed \in Said
  BY DEF IInv, SessionInv
<1>3. SessionInv'
  BY <1>1, <1>2, Shows
<1> QED  BY <1>1, <1>3, KeepsRest

\* Which path it is is chosen again, and a yes that was skipped is owed.
LEMMA OccasionKeeps ==
    ASSUME IInv, PickOccasion \/ OwnLyrics
    PROVE  IInv'
<1>1. PICK own \in BOOLEAN, target \in {"genre", "lyrics"} :
        Chosen(own, target) /\ (own => target = "lyrics")
  BY DEF PickOccasion, OwnLyrics
<1> DEFINE d == [draft EXCEPT !.own = own, !.answers = @ \union {"occasion"}]
<1>2. draft \in Draft /\ agreed \in Said
  BY <1>1, DraftAt DEF Chosen
<1>3. d \in Draft /\ d.own = own
  BY <1>2 DEF Draft, Asked
<1>4. ShowStep(d, target) /\ Keeps /\ agreed' \in Said \ {"skipped"}
  BY <1>1, <1>2 DEF Chosen, SamePath, Said
<1>5. MayShow(d, target, agreed')
  BY <1>1, <1>3, <1>4 DEF MayShow, OwnSteps, AfterWords, NameScreens
<1> HIDE DEF d
<1>6. SessionInv'
  BY <1>3, <1>4, <1>5, Shows, StepsAre DEF IInv
<1> QED  BY <1>4, <1>6, KeepsRest

LEMMA PickKeeps ==
    ASSUME IInv, NEW step \in {"genre", "vocal_gender"}, Pick(step)
    PROVE  IInv'
<1>1. /\ draft \in Draft /\ fsm = step /\ Words(fsm, draft, agreed)
      /\ agreed = "skipped" => draft.own
  BY DraftAt DEF Pick, Answer
<1> DEFINE d == [draft EXCEPT !.answers = @ \union {step}]
<1>2. d \in Draft /\ d.own = draft.own /\ d.lyric = draft.lyric
  BY <1>1 DEF Draft, Asked
<1>3. Answer(step, d, After(step, draft))
  BY DEF Pick
<1>4. After(step, draft) \in Steps /\ MayShow(d, After(step, draft), agreed)
  <2>1. CASE draft.own
    <3>1. After(step, draft) \in {"vocal_gender", "output_language"}
      BY <1>1, <2>1, OwnPath
    <3>2. draft.lyric # None => agreed # "no"
      BY <1>1, <2>1 DEF Words, AfterWords
    <3> QED  BY <1>2, <2>1, <3>1, <3>2, StepsAre DEF MayShow, OwnSteps, NameScreens
  <2>2. CASE ~draft.own
    <3>1. After(step, draft) \in {"vocal_gender", "note"}
      BY <1>1, <2>2, WriterPath
    <3> QED  BY <1>1, <1>2, <2>2, <3>1, StepsAre DEF MayShow
  <2> QED  BY <2>1, <2>2
<1> HIDE DEF d
<1> QED  BY <1>2, <1>3, <1>4, AnswerKeeps

\* The screens about the recipient: on one's own path only past a yes that was skipped.
LEMMA NameKeeps ==
    ASSUME IInv, Note \/ NameOk \/ \E n \in Names : NameTyped(n)
    PROVE  IInv'
<1>1. /\ draft \in Draft /\ fsm \in {"note", "name", "name_confirm"}
      /\ Words(fsm, draft, agreed) /\ (agreed = "skipped" => draft.own)
  BY DraftAt DEF Note, NameOk, NameTyped, Answer
<1>2. draft.own => fsm \in NameScreens /\ agreed # "no"
  BY <1>1 DEF Words, OwnSteps, NameScreens
<1>3. ASSUME NEW d, d.own = draft.own, NEW step \in {"name", "name_confirm", "output_language"}
      PROVE  MayShow(d, step, agreed)
  BY <1>1, <1>2, <1>3 DEF MayShow, OwnSteps, NameScreens
<1>4. CASE Note
  <2>1. Answer("note", draft, "name")
    BY <1>4 DEF Note
  <2> QED  BY <1>1, <1>3, <2>1, AnswerKeeps, StepsAre
<1>5. CASE NameOk
  <2>1. PICK target \in {"name", "output_language"} : Answer("name_confirm", draft, target)
    BY <1>5 DEF NameOk
  <2>2. target \in Steps /\ MayShow(draft, target, agreed)
    BY <1>3, <2>1, StepsAre
  <2> QED  BY <1>1, <2>1, <2>2, AnswerKeeps
<1>6. CASE \E n \in Names : NameTyped(n)
  <2>1. PICK n \in Names : NameTyped(n)
    BY <1>6
  <2> DEFINE d == [draft EXCEPT !.name = n]
  <2>2. d \in Draft /\ d.own = draft.own
    BY <1>1, <2>1 DEF Draft
  <2>3. Answer("name", d, "name_confirm")
    BY <2>1 DEF NameTyped
  <2> HIDE DEF d
  <2> QED  BY <1>3, <2>2, <2>3, AnswerKeeps, StepsAre
<1> QED  BY <1>4, <1>5, <1>6

-----------------------------------------------------------------------------
LEMMA RetaggedIs ==
    ASSUME NEW d \in Draft
    PROVE  /\ Retagged(d) \in Draft /\ Retagged(d).own = d.own
           /\ Retagged(d).lyric # None => d.lyric # None
<1>1. CASE d.lyric = None \/ d.tongue = None
  BY <1>1 DEF Retagged
<1>2. CASE d.lyric # None /\ d.tongue # None
  <2>1. Retagged(d) = [d EXCEPT !.lyric = d.tongue] /\ d.tongue \in Tongues
    BY <1>2 DEF Retagged, Draft
  <2> QED  BY <1>2, <2>1 DEF Draft
<1> QED  BY <1>1, <1>2

LEMMA ChargedIs ==
    ASSUME MeterInv
    PROVE  Charged \in [day : 0..LastDay, writes : 0..(DailyWrites + 1)]
<1>1. budget.writes \in Nat /\ DailyWrites \in Nat \ {0} /\ day \in 0..LastDay
  BY WizardAssumption DEF MeterInv
<1>2. Min({budget.writes, DailyWrites}) \in 0..DailyWrites
  <2> DEFINE S == {budget.writes, DailyWrites}
  <2>1. \E x \in S : \A y \in S : x <= y
    BY <1>1
  <2>2. PICK x \in S : (\A y \in S : x <= y) /\ Min(S) = x
    BY <2>1 DEF Min
  <2> QED  BY <1>1, <2>2
<1> QED  BY <1>1, <1>2 DEF Charged

\* A write is begun with a draft of the writer's path that has every answer, and
\* leaves the stored one as it was.
LEMMA BeginKeeps ==
    ASSUME IInv, NEW d \in Draft, ~d.own, Answered(d), MayWrite(d), draft \in Draft,
           BeginWrite(d)
    PROVE  SessionInv' /\ WriteInv'
<1>1. SessionInv'
  BY DEF IInv, BeginWrite, SameWords, SessionInv, Words, AfterWords, NameScreens
<1>2. WriteInv'
  <2>1. PICK w \in Writers : /\ write' = [write EXCEPT ![w] = [d EXCEPT !.writes = @ + 1]]
                             /\ lock' = w
    BY DEF BeginWrite
  <2> DEFINE e == [d EXCEPT !.writes = @ + 1]
  <2>2. e \in Draft /\ ~e.own
    BY WizardAssumption DEF Draft, MayWrite
  <2>3. Answered(e)
    BY DEF Answered, Draft
  <2>5. write' = [write EXCEPT ![w] = e]
    BY <2>1
  <2> HIDE DEF e
  <2>4. /\ write \in [Writers -> Draft \union {None}]
        /\ \A u \in Writers : write[u] # None => Answered(write[u]) /\ ~write[u].own
    BY DEF IInv, WriteInv
  <2>6. write' \in [Writers -> Draft \union {None}]
    BY <2>2, <2>4, <2>5
  <2>7. \A u \in Writers : write'[u] = (IF u = w THEN e ELSE write[u])
    BY <2>4, <2>5
  <2>8. \A u \in Writers : write'[u] # None => Answered(write'[u]) /\ ~write'[u].own
    BY <2>2, <2>3, <2>4, <2>7
  <2> QED  BY <2>1, <2>6, <2>8 DEF WriteInv
<1> QED  BY <1>1, <1>2

LEMMA ClaimKeeps ==
    ASSUME IInv, NEW d \in Draft, ~d.own, Answered(d), MayWrite(d), draft \in Draft,
           d.own = draft.own, Claim(d)
    PROVE  SessionInv' /\ WriteInv' /\ MeterInv'
<1>1. ASSUME budget' = Charged, UNCHANGED day
      PROVE  MeterInv'
  BY <1>1, ChargedIs DEF IInv, MeterInv
<1>2. CASE budget' = Charged /\ UNCHANGED day /\ BeginWrite(d)
  BY <1>1, <1>2, BeginKeeps
<1>3. CASE /\ budget' = Charged /\ UNCHANGED day /\ UNCHANGED <<write, lock>>
           /\ ShowStep(d, "lyrics") /\ SameWords
  <2>1. MayShow(d, "lyrics", agreed') /\ agreed' \in Said
    BY <1>3 DEF MayShow, SameWords, IInv, SessionInv
  <2>2. SessionInv'
    BY <1>3, <2>1, Shows, StepsAre DEF IInv
  <2> QED  BY <1>1, <1>3, <2>2, WriteKeeps DEF IInv
<1>4. CASE /\ budget' = Charged /\ UNCHANGED day /\ UNCHANGED <<write, lock>>
           /\ Clear /\ NewWords
  <2>1. SessionInv'
    BY <1>4, Clears DEF NewWords
  <2> QED  BY <1>1, <1>4, <2>1, WriteKeeps DEF IInv
<1>5. CASE BeginWrite(d) /\ UNCHANGED meter
  BY <1>5, BeginKeeps, MeterKeeps DEF IInv
<1> QED  BY <1>2, <1>3, <1>4, <1>5 DEF Claim

LEMMA EnterKeeps ==
    ASSUME IInv, NEW d \in Draft, draft \in Draft, d.own = draft.own, EnterLyricsStep(d)
    PROVE  IInv'
<1>1. agreed \in Said /\ (agreed = "skipped" => draft.own)
  BY DEF IInv, SessionInv
<1>2. ASSUME NEW e \in Draft, e.own = draft.own, NEW step \in {"lyrics", "output_language"},
             e.own => step = "lyrics", Unwritten(e, step)
      PROVE  SessionInv' /\ WriteInv' /\ MeterInv'
  <2>1. ShowStep(e, step) /\ agreed' = agreed /\ UNCHANGED <<write, lock>> /\ UNCHANGED meter
    BY <1>2 DEF Unwritten, SameWords
  <2>2. MayShow(e, step, agreed') /\ step \in Steps
    BY <1>1, <1>2, <2>1, StepsAre DEF MayShow, OwnSteps, AfterWords, NameScreens
  <2>3. SessionInv'
    BY <1>1, <1>2, <2>1, <2>2, Shows DEF IInv
  <2> QED  BY <2>1, <2>3, WriteKeeps, MeterKeeps DEF IInv
<1>3. SessionInv' /\ WriteInv' /\ MeterInv'
  <2>1. CASE d.own /\ Unwritten(Retagged(d), "lyrics")
    BY <1>2, <2>1, RetaggedIs
  <2>2. CASE ~d.own /\ Unwritten(d, "lyrics")
    BY <1>2, <2>2
  <2>3. CASE ~d.own /\ Unwritten(d, "output_language")
    BY <1>2, <2>3
  <2>4. CASE ~d.own /\ MayWrite(d) /\ Answered(d) /\ Claim(d)
    BY <2>4, ClaimKeeps
  <2> QED  BY <2>1, <2>2, <2>3, <2>4 DEF EnterLyricsStep
<1> QED  BY <1>3 DEF EnterLyricsStep, IInv

LEMMA TongueKeeps ==
    ASSUME IInv, NEW l \in Tongues, PickTongue(l)
    PROVE  IInv'
<1> DEFINE d == [draft EXCEPT !.tongue = l]
<1>1. /\ draft \in Draft /\ fsm = "output_language" /\ Words(fsm, draft, agreed)
      /\ agreed \in Said /\ (agreed = "skipped" => draft.own) /\ SessionInv
  BY DraftAt DEF PickTongue, IInv
<1>2. d \in Draft /\ d.own = draft.own /\ d.lyric = draft.lyric
  BY <1>1 DEF Draft
<1>3. \/ draft.own /\ ShowStep(Retagged(d), "confirm") /\ SameWords /\ Keeps
      \/ ~draft.own /\ ShowStep(draft, "lyrics") /\ SameWords /\ Keeps
      \/ EnterLyricsStep(d)
  BY DEF PickTongue
<1> HIDE DEF d
<1>4. CASE draft.own /\ ShowStep(Retagged(d), "confirm") /\ SameWords /\ Keeps
  <2>1. draft.lyric # None => agreed # "no"
    BY <1>1, <1>4 DEF Words, AfterWords
  <2>2. MayShow(Retagged(d), "confirm", agreed)
    BY <1>2, <1>4, <2>1, RetaggedIs DEF MayShow, OwnSteps, NameScreens
  <2>3. SessionInv'
    BY <1>1, <1>2, <1>4, <2>2, RetaggedIs, Shows, StepsAre DEF SameWords
  <2> QED  BY <1>4, <2>3, KeepsRest
<1>5. CASE ~draft.own /\ ShowStep(draft, "lyrics") /\ SameWords /\ Keeps
  <2>1. MayShow(draft, "lyrics", agreed)
    BY <1>1, <1>5 DEF MayShow
  <2>2. SessionInv'
    BY <1>1, <1>5, <2>1, Shows, StepsAre DEF SameWords
  <2> QED  BY <1>5, <2>2, KeepsRest
<1>6. CASE EnterLyricsStep(d)
  BY <1>1, <1>2, <1>6, EnterKeeps
<1> QED  BY <1>3, <1>4, <1>5, <1>6

LEMMA AgainKeeps ==
    ASSUME IInv, TryAgain \/ Regenerate
    PROVE  IInv'
<1>1. draft \in Draft /\ EnterLyricsStep(draft)
  BY DraftAt DEF TryAgain, Regenerate
<1> QED  BY <1>1, EnterKeeps

\* The yes, on either path.
LEMMA LyricsOkKeeps ==
    ASSUME IInv, LyricsOk
    PROVE  IInv'
<1>1. /\ draft \in Draft /\ SessionInv
      /\ ShowStep(draft, After("lyrics", draft)) /\ Keeps
      /\ agreed' = IF draft.lyric # None THEN "yes" ELSE "no"
  BY DraftAt DEF LyricsOk, IInv
<1>2. After("lyrics", draft) \in {"genre", "confirm"}
      /\ (draft.own => After("lyrics", draft) = "genre")
  BY <1>1, OwnPath, WriterPath
<1>3. MayShow(draft, After("lyrics", draft), agreed') /\ agreed' \in Said
  BY <1>1, <1>2 DEF MayShow, OwnSteps, NameScreens, Said
<1>4. SessionInv'
  BY <1>1, <1>2, <1>3, Shows, StepsAre
<1> QED  BY <1>1, <1>4, KeepsRest

LEMMA TypeLyricsKeeps ==
    ASSUME IInv, TypeLyrics
    PROVE  IInv'
<1>1. /\ draft \in Draft /\ SessionInv /\ Keeps /\ agreed \in Said
      /\ agreed = "skipped" => draft.own
  BY DraftAt DEF TypeLyrics, IInv
<1>2. CASE ~draft.own /\ ShowStep(draft, "name") /\ SameWords
  <2>1. MayShow(draft, "name", agreed)
    BY <1>1, <1>2 DEF MayShow
  <2>2. SessionInv'
    BY <1>1, <1>2, <2>1, Shows, StepsAre DEF SameWords
  <2> QED  BY <1>1, <2>2, KeepsRest
<1>3. ASSUME NEW tongue \in Tongues, ShowsPasted([draft EXCEPT !.lyric = tongue]), NewWords
      PROVE  IInv'
  <2> DEFINE d == [draft EXCEPT !.lyric = tongue]
  <2>1. d \in Draft
    BY <1>1 DEF Draft
  <2>2. MayShow(d, "lyrics", agreed') /\ agreed' \in Said
    BY <1>3 DEF MayShow, NewWords, OwnSteps, AfterWords, NameScreens, Said
  <2>3. ShowStep(d, "lyrics")
    BY <1>3 DEF ShowsPasted
  <2> HIDE DEF d
  <2>4. SessionInv'
    BY <1>1, <2>1, <2>2, <2>3, Shows, StepsAre
  <2> QED  BY <1>1, <2>4, KeepsRest
<1>4. (IF draft.tongue = None THEN Spoken ELSE draft.tongue) \in Tongues
  BY <1>1, WizardAssumption DEF Draft
<1> QED  BY <1>2, <1>3, <1>4 DEF TypeLyrics

\* What the writer answers with is a draft of the writer's path, and its preview is
\* shown before anything else.
LEMMA WriterKeeps ==
    ASSUME IInv, NEW w \in Writers, WriterAnswers(w)
    PROVE  IInv'
<1>1. PICK spent : spent = write[w]
  OBVIOUS
<1>2. /\ spent \in Draft /\ Answered(spent) /\ ~spent.own
      /\ SessionInv
  BY <1>1 DEF WriterAnswers, IInv, WriteInv, SessionInv
<1>3. WriteInv'
  <2>1. write' = [write EXCEPT ![w] = None] /\ lock' \in Writers \union {None}
    BY DEF WriterAnswers, IInv, WriteInv
  <2> QED  BY <2>1 DEF IInv, WriteInv
<1>4. \/ UNCHANGED session /\ SameWords
      \/ ShowStep([spent EXCEPT !.lyric = spent.tongue], "lyrics") /\ NewWords
      \/ draft' = spent /\ fsm' = "output_language" /\ UNCHANGED parked /\ NewWords
  BY <1>1 DEF WriterAnswers
<1>5. SessionInv'
  <2>1. CASE UNCHANGED session /\ SameWords
    BY <1>2, <2>1, SessionKeeps DEF SameWords
  <2>2. CASE ShowStep([spent EXCEPT !.lyric = spent.tongue], "lyrics") /\ NewWords
    <3> DEFINE d == [spent EXCEPT !.lyric = spent.tongue]
    <3>1. d \in Draft /\ ~d.own
      BY <1>2 DEF Draft
    <3>2. MayShow(d, "lyrics", agreed') /\ agreed' \in Said
      BY <2>2, <3>1 DEF MayShow, NewWords, Said
    <3> HIDE DEF d
    <3>3. ShowStep(d, "lyrics")
      BY <2>2 DEF d
    <3> QED  BY <1>2, <3>1, <3>2, <3>3, Shows, StepsAre
  <2>3. CASE draft' = spent /\ fsm' = "output_language" /\ UNCHANGED parked /\ NewWords
    <3>1. Words("output_language", spent, "no")
      BY <1>2 DEF Words
    <3>2. parked \in BOOLEAN
      BY <1>2 DEF SessionInv
    <3> QED  BY <1>2, <2>3, <3>1, <3>2, StepsAre DEF SessionInv, NewWords, Said
  <2> QED  BY <1>4, <2>1, <2>2, <2>3
<1>7. MeterInv' /\ wiping' \in BOOLEAN /\ hurry' \in BOOLEAN
  BY MeterKeeps DEF WriterAnswers, IInv
<1> QED  BY <1>3, <1>5, <1>7 DEF IInv

\* At the summary the draft is complete, so its words were agreed.
LEMMA ConfirmKeeps ==
    ASSUME IInv, Confirm
    PROVE  IInv'
<1>1. /\ draft \in Draft /\ fsm = "confirm" /\ Words(fsm, draft, agreed)
      /\ SessionInv /\ agreed \in Said /\ (agreed = "skipped" => draft.own)
  BY DraftAt DEF Confirm, IInv
<1>2. /\ Complete(draft) /\ Answered(draft) /\ draft.lyric # None
      /\ draft.own => "confirm" \in OwnSteps
  BY <1>1 DEF Words, Complete, OwnSteps
<1>3. agreed # "no"
  BY <1>1, <1>2 DEF Words
<1>4. CASE ShowStep(draft, "confirm") /\ SameWords /\ Keeps
  <2>1. MayShow(draft, "confirm", agreed)
    BY <1>1, <1>2, <1>3 DEF MayShow, NameScreens
  <2>2. SessionInv'
    BY <1>1, <1>4, <2>1, Shows, StepsAre DEF SameWords
  <2> QED  BY <1>4, <2>2, KeepsRest
<1>5. CASE Clear /\ NewWords /\ Keeps
  BY <1>5, Clears, KeepsRest DEF NewWords
<1>6. CASE fsm' = "submitting" /\ parked' = TRUE /\ UNCHANGED draft /\ SameWords /\ Keeps
  <2>1. SessionInv'
    BY <1>1, <1>6 DEF SessionInv, Words, AfterWords, NameScreens, SameWords
  <2> QED  BY <1>6, <2>1, KeepsRest
<1> QED  BY <1>2, <1>4, <1>5, <1>6 DEF Confirm

\* The worker's release, time, a restart, and the customer's haste.
LEMMA OthersKeep ==
    ASSUME IInv,
           \/ ReleaseReads \/ ReleaseWipes \/ NextDay \/ LockExpires \/ Crash
           \/ Hurry \/ Rest \/ UNCHANGED vars
    PROVE  IInv'
<1>1. ASSUME UNCHANGED session, UNCHANGED agreed
      PROVE  SessionInv'
  BY <1>1, SessionKeeps DEF IInv
<1>2. CASE ReleaseReads \/ Hurry \/ Rest \/ UNCHANGED vars
  <2>1. UNCHANGED session /\ UNCHANGED agreed /\ UNCHANGED <<write, lock>> /\ UNCHANGED meter
    BY <1>2 DEF ReleaseReads, Hurry, Rest, vars
  <2>2. wiping' \in BOOLEAN /\ hurry' \in BOOLEAN
    BY <1>2 DEF ReleaseReads, Hurry, Rest, vars, IInv
  <2> QED  BY <1>1, <2>1, <2>2, WriteKeeps, MeterKeeps DEF IInv
<1>3. CASE ReleaseWipes
  <2>1. SessionInv'
    BY <1>3, Clears DEF ReleaseWipes, NewWords
  <2>2. WriteInv' /\ MeterInv'
    BY <1>3, WriteKeeps, MeterKeeps DEF ReleaseWipes, IInv
  <2>3. wiping' \in BOOLEAN /\ hurry' \in BOOLEAN
    BY <1>3 DEF ReleaseWipes, IInv
  <2> QED  BY <2>1, <2>2, <2>3 DEF IInv
<1>4. CASE NextDay
  <2>1. MeterInv'
    BY <1>4, WizardAssumption DEF NextDay, IInv, MeterInv
  <2> QED  BY <1>1, <1>4, <2>1, WriteKeeps DEF NextDay, IInv
<1>5. CASE LockExpires \/ Crash
  <2>1. WriteInv'
    BY <1>5 DEF LockExpires, Crash, IInv, WriteInv
  <2>2. UNCHANGED session /\ UNCHANGED agreed /\ UNCHANGED meter
        /\ wiping' = wiping /\ hurry' = hurry
    BY <1>5 DEF LockExpires, Crash
  <2> QED  BY <1>1, <2>1, <2>2, MeterKeeps DEF IInv
<1> QED  BY <1>2, <1>3, <1>4, <1>5

-----------------------------------------------------------------------------
LEMMA InitGivesIt == Init => IInv
<1> SUFFICES ASSUME Init PROVE IInv
  OBVIOUS
<1>1. SessionInv
  BY DEF Init, SessionInv, Said
<1>2. WriteInv
  BY DEF Init, WriteInv
<1>3. MeterInv
  BY WizardAssumption DEF Init, MeterInv
<1> QED  BY <1>1, <1>2, <1>3 DEF Init, IInv

LEMMA NextKeeps ==
    ASSUME IInv, [Next]_vars
    PROVE  IInv'
<1>1. CASE Forward
  BY <1>1, OccasionKeeps, PickKeeps, NameKeeps, TongueKeeps, LyricsOkKeeps,
     TypeLyricsKeeps DEF Forward
<1>2. CASE Roam
  BY <1>2, GenerateKeeps, LeaveKeeps, ForgetKeeps, BackKeeps, RetypeKeeps, AgainKeeps,
     LyricsOkKeeps, TypeLyricsKeeps, ConfirmKeeps DEF Roam
<1>3. CASE \E w \in Writers : WriterAnswers(w)
  BY <1>3, WriterKeeps
<1>4. CASE \/ ReleaseReads \/ ReleaseWipes \/ NextDay \/ LockExpires \/ Crash
           \/ Hurry \/ Rest \/ UNCHANGED vars
  BY <1>4, OthersKeep
<1> QED  BY <1>1, <1>2, <1>3, <1>4 DEF Next

\* Every variable has its type, and a lyric is being written only for a draft with
\* every answer: however updates, old buttons, the writer, the worker and restarts
\* interleave.
THEOREM TypeCorrect == Spec => []TypeOK
<1>1. IInv => TypeOK
  BY DEF IInv, SessionInv, WriteInv, MeterInv, TypeOK, Said
<1> QED  BY <1>1, InitGivesIt, NextKeeps, PTL DEF Spec

\* Nobody orders words they have not said yes to (lyrics.py, "said yes to those exact
\* words"), except by a retype of the name among words of their own: whoever stands at the
\* summary has agreed to the words that stand there, on either order of the screens,
\* through every way back, a lost lock, a restart and a budget that cannot be counted.
THEOREM AgreesFirst == Spec => AgreedWords
<1>1. IInv => (Ordered => agreed = "yes" \/ (draft.own /\ agreed = "skipped"))
  BY DEF IInv, SessionInv, Ordered, Said
<1> QED  BY <1>1, InitGivesIt, NextKeeps, PTL DEF Spec, AgreedWords
=============================================================================
