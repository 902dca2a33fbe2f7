-------------------------- MODULE HpButtonsProofs --------------------------
(***************************************************************************)
(* Proofs about HpButtons: its types, that a press has one effect, that    *)
(* shutters and lamps follow the hand, and that check_running_rules counts *)
(* every press for itself and in time, for any number of buttons.          *)
(***************************************************************************)
EXTENDS HpButtons, HpSenderProofs, FiniteSetTheorems

(* The lamps: the part of the types that presses and time do not touch.    *)
LampInv ==
  /\ repeats \in Seq(RepeatType)
  /\ lamp \in [Pins -> [level : 0..MAX_LEVEL, dir : {"up", "down"}]]
  /\ queue \in Seq(MessageType) /\ sent \in Seq(Seq(ItemType))

(* The presses: an entry of my_rule_checker has been dealt with in time,   *)
(* but the one at the index, once it is counted.  What the local variable  *)
(* counter says there is its own time, or too short a time for any rule.   *)
Current == pc \in {"double", "long"}
Timely(e) == e.counter <= LONG_PIN_RULE /\ (e.releases = 1 => e.counter <= DOUBLE_PIN_THRESHOLD)
AtPlace ==
  Current =>
    /\ it \in DOMAIN checker
    /\ checker[it].counter <= LONG_PIN_RULE \/ counter = checker[it].counter
    /\ checker[it].releases = 1 =>
         \/ checker[it].counter <= DOUBLE_PIN_THRESHOLD
         \/ pc = "double" /\ counter = checker[it].counter /\ counter = DOUBLE_PIN_THRESHOLD + 1
    /\ SameMode =>
         \/ counter = checker[it].counter
         \/ counter <= IF pc = "double" THEN DOUBLE_PIN_THRESHOLD ELSE LONG_PIN_RULE
Elsewhere == \A i \in DOMAIN checker : (Current /\ i = it) \/ Timely(checker[i])

(* A press that was passed over has come nearer to the front each time;    *)
(* those behind the index still have to be counted in this lap.            *)
Uncounted(i) == (pc = "hold" /\ i >= it) \/ (Current /\ i > it)
LateInv ==
  \A i \in DOMAIN checker :
    /\ Uncounted(i) => checker[i].late >= 1
    /\ checker[i].late + i <= Cardinality(Pins) + (IF Uncounted(i) THEN 1 ELSE 0)

Distinct == \A i, j \in DOMAIN checker : checker[i].pin = checker[j].pin => i = j
PressInv ==
  /\ checker \in Seq(CheckerType) /\ Distinct
  /\ pc \in {"incoming", "hold", "double", "long", "repeats"} /\ it \in Nat \ {0}
  /\ counter \in 0..(LONG_PIN_RULE + 1)
  /\ AtPlace /\ Elsewhere /\ LateInv

(* The hands: what an entry says of its button, and of the rules that its  *)
(* press has caused.                                                       *)
Waits(e) ==
  /\ e.short => e.releases = 0 /\ Has(e.pin, "shutter") /\ e.counter > SHORT_PIN_RULE
  /\ e.releases # 0 => Doubled(e.pin)
  /\ SameMode /\ e.releases = 0 /\ ~Has(e.pin, "shutter") /\ ~Has(e.pin, "long")
       => e.counter <= SHORT_PIN_RULE
  /\ NothingLost =>
       /\ e.releases <= 1 /\ (e.releases = 0 <=> e.pin \in down)
       /\ fired[e.pin] = IF e.short THEN <<"short">> ELSE <<>>
Moved ==
  \A p \in moving :
    /\ Has(p, "shutter")
    /\ NothingLost => \E i \in EntryOf(p) : checker[i].short
HandInv ==
  /\ mode \in Modes /\ down \subseteq Pins /\ moving \subseteq Pins
  /\ fired \in [Pins -> Seq(Holds \cup {"stop"})]
  /\ budget \in [Inputs -> Nat] /\ \A x \in Inputs : budget[x] <= Budget[x]
  /\ \A i \in DOMAIN checker : Waits(checker[i])
  /\ Moved /\ OnePressOneRule /\ DimmingHeld

IInv == LampInv /\ PressInv /\ HandInv

----------------------------------------------------------------------------
(* The lamps.                                                              *)

LEMMA Levels ==
  ASSUME LampInv, NEW p \in Pins
  PROVE  /\ FirstLevel(p) \in 0..MAX_LEVEL \cup {STOP} /\ Against(p) \in {"up", "down"}
         /\ STOP \notin 0..MAX_LEVEL
<1>1. MAX_LEVEL \in Nat \ {0} /\ lamp[p] \in [level : 0..MAX_LEVEL, dir : {"up", "down"}]
  BY ButtonsAssumption DEF LampInv
<1> QED BY <1>1 DEF FirstLevel, Against, STOP

LEMMA MessageTypes ==
  ASSUME NEW p \in Pins, NEW v \in 0..MAX_LEVEL
  PROVE  LampMessage(p, v).items \in Seq(ItemType) /\ NewEntry(LampMessage(p, v), 0, 0, 0) \in MessageType
<1>1. [pin |-> p, val |-> v] \in ItemType
  BY DEF ItemType
<1>2. <<[pin |-> p, val |-> v]>> \in Seq(ItemType)
  BY <1>1
<1> QED BY <1>2, ButtonsAssumption DEF LampMessage, NewEntry, MessageType

LEMMA OrderedType ==
  ASSUME LampInv, NEW p \in Pins, NEW v \in 0..MAX_LEVEL
  PROVE  Ordered(p, v) \in Seq(MessageType)
<1> DEFINE m == LampMessage(p, v)
<1>1. m.items \in Seq(ItemType) /\ NewEntry(m, 0, 0, 0) \in MessageType
  BY MessageTypes
<1> HIDE DEF m
<1>2. \A e \in MessageType : [e EXCEPT !.delay = 0] \in MessageType
  BY DEF MessageType
<1>3. ASSUME NEW e \in MessageType
      PROVE  Merge(e, m) \in MessageType
  <2>1. e.items \o m.items \in Seq(ItemType) /\ e.counter + 1 \in Nat
    BY <1>1, ConcatProperties DEF MessageType
  <2> QED BY <2>1 DEF Merge, MessageType
<1>4. queue \in Seq(MessageType)
  BY DEF LampInv
<1>5. AddMessage(queue, m, 0, 0, 0) \in Seq(MessageType)
  BY <1>1, <1>2, <1>3, <1>4, AddMessageKeeps
<1> QED BY <1>5 DEF Ordered, m

(* What a rule does to a lamp. *)
LEMMA DimmedType ==
  ASSUME LampInv, NEW p \in Pins, NEW hold \in Holds
  PROVE  /\ Dimmed(p, hold) \in Seq(RepeatType)
         /\ DimsNow(p, hold) => Ordered(p, FirstLevel(p)) \in Seq(MessageType)
<1>1. CASE DimsNow(p, hold)
  <2>1. FirstLevel(p) \in 0..MAX_LEVEL /\ Against(p) \in {"up", "down"} /\ 0 \in 0..(PERIOD - 1)
    BY <1>1, Levels, ButtonsAssumption DEF DimsNow
  <2>2. [pin |-> p, count |-> 0, level |-> FirstLevel(p), dir |-> Against(p)] \in RepeatType
    BY <2>1 DEF RepeatType
  <2>3. Dimmed(p, hold) \in Seq(RepeatType)
    BY <1>1, <2>2, AppendProperties DEF Dimmed, LampInv
  <2> QED BY <2>1, <2>3, OrderedType
<1>2. CASE ~DimsNow(p, hold)
  BY <1>2 DEF Dimmed, LampInv
<1> QED BY <1>1, <1>2

LEMMA RuleType ==
  ASSUME LampInv, NEW p \in Pins, NEW hold \in Holds, NEW active, Rule(p, hold, active)
  PROVE  queue' \in Seq(MessageType)
BY DimmedType DEF Rule, LampInv

LEMMA PinOfEntry ==
  ASSUME checker \in Seq(CheckerType), NEW i \in DOMAIN checker
  PROVE  /\ checker[i] \in CheckerType /\ checker[i].pin \in Pins
         /\ i \in 1..Len(checker) /\ Len(checker) \in Nat /\ HeldFor(checker[i]) \in Holds
<1>1. /\ checker[i] \in CheckerType
      /\ i \in 1..Len(checker) /\ Len(checker) \in Nat
  BY LenProperties, ElementOfSeq
<1>2. HeldFor(checker[i]) \in Holds
  BY DEF HeldFor, Holds
<1> QED BY <1>1, <1>2 DEF CheckerType

LEMMA LampPress ==
  ASSUME LampInv, NEW p \in Pins, Press(p)
  PROVE  LampInv'
<1>1. {"multi", "normal"} \subseteq Holds
  BY DEF Holds
<1>2. queue' \in Seq(MessageType) /\ repeats' \in Seq(RepeatType)
  <2>1. ASSUME NEW h \in {"multi", "normal"}, Rule(p, h, TRUE), repeats' = Dimmed(p, h)
        PROVE  queue' \in Seq(MessageType) /\ repeats' \in Seq(RepeatType)
    BY <1>1, <2>1, RuleType, DimmedType
  <2>2. CASE UNCHANGED <<queue, repeats, moving>>
    BY <2>2 DEF LampInv
  <2> QED BY <2>1, <2>2 DEF Press
<1>3. UNCHANGED <<lamp, sent>>
  BY DEF Press
<1> QED BY <1>2, <1>3 DEF LampInv

LEMMA LampRelease ==
  ASSUME LampInv, checker \in Seq(CheckerType), NEW p \in Pins, Release(p)
  PROVE  LampInv'
<1>1. queue' \in Seq(MessageType)
  <2>1. ASSUME NEW i \in EntryOf(p), Answers(p, i)
        PROVE  queue' \in Seq(MessageType)
    BY <2>1, PinOfEntry, RuleType DEF Answers, EntryOf
  <2>2. CASE NoRule
    BY <2>2 DEF NoRule, LampInv
  <2> QED BY <2>1, <2>2 DEF Release, Released, WaitsForSecond
<1>2. repeats' \in Seq(RepeatType)
  <2> DEFINE T == {r \in ToSet(repeats) : r.pin = p}
  <2>1. repeats' = Without(repeats, T)
    BY DEF Release
  <2> HIDE DEF T
  <2>2. Without(repeats, T) \in Seq(RepeatType \ T)
    BY WithoutKeeps DEF LampInv
  <2> QED BY <2>1, <2>2, SeqMonotonic
<1>3. UNCHANGED <<lamp, sent>>
  BY DEF Release
<1> QED BY <1>1, <1>2, <1>3 DEF LampInv

LEMMA LampAnswer ==
  ASSUME LampInv, NEW k, Answer(k) \/ GiveUp(k)
  PROVE  LampInv'
<1>1. k \in DOMAIN sent /\ sent' = RemoveAt(sent, k) /\ UNCHANGED <<repeats, queue>>
  BY DEF Answer, GiveUp
<1>2. k \in 1..Len(sent) /\ sent[k] \in Seq(ItemType)
  BY <1>1, LenProperties, ElementOfSeq DEF LampInv
<1>3. sent' \in Seq(Seq(ItemType))
  BY <1>1, <1>2, RemovedPlaces DEF LampInv
<1>4. ASSUME NEW p \in Pins, LevelIn(sent[k], p) # {}
      PROVE  SetStatus(lamp[p], CHOOSE v \in LevelIn(sent[k], p) : TRUE)
               \in [level : 0..MAX_LEVEL, dir : {"up", "down"}]
  <2>1. LevelIn(sent[k], p) \subseteq 0..MAX_LEVEL
    <3>1. \A j \in DOMAIN sent[k] : sent[k][j] \in ItemType
      BY <1>2, LenProperties, ElementOfSeq
    <3>2. \A j \in DOMAIN sent[k] : sent[k][j].val \in 0..MAX_LEVEL
      BY <3>1 DEF ItemType
    <3> QED BY <3>2 DEF LevelIn
  <2> HIDE DEF LevelIn
  <2>2. (CHOOSE v \in LevelIn(sent[k], p) : TRUE) \in 0..MAX_LEVEL
    BY <1>4, <2>1
  <2> QED BY <2>2 DEF SetStatus
<1>5. CASE Answer(k)
  <2>1. lamp' \in [Pins -> [level : 0..MAX_LEVEL, dir : {"up", "down"}]]
    BY <1>4, <1>5 DEF Answer, LampInv
  <2> QED BY <1>1, <1>3, <2>1 DEF LampInv
<1>6. CASE GiveUp(k)
  BY <1>1, <1>3, <1>6 DEF GiveUp, LampInv
<1> QED BY <1>5, <1>6

LEMMA LampLap ==
  ASSUME LampInv, NEW full, Lap(full)
  PROVE  LampInv'
<1> DEFINE goes == {e \in ToSet(queue) : e.hbx \notin full}
           stays == ToSet(queue) \ goes
           kept == Without(queue, stays)
           items == [i \in DOMAIN kept |-> kept[i].items]
<1>1. sent' = sent \o items /\ queue' = Without(queue, goes) /\ UNCHANGED <<repeats, lamp>>
  BY DEF Lap
<1> HIDE DEF goes
<1>2. queue' \in Seq(MessageType)
  <2>1. Without(queue, goes) \in Seq(MessageType \ goes)
    BY WithoutKeeps DEF LampInv
  <2> QED BY <2>1, <1>1, SeqMonotonic
<1>3. items \in Seq(Seq(ItemType))
  <2> HIDE DEF stays
  <2>1. kept \in Seq(MessageType \ stays)
    BY WithoutKeeps DEF LampInv
  <2> HIDE DEF kept
  <2>2. Len(kept) \in Nat /\ DOMAIN kept = 1..Len(kept) /\ \A i \in DOMAIN kept : kept[i] \in MessageType
    BY <2>1, LenProperties, ElementOfSeq
  <2>3. items \in [1..Len(kept) -> Seq(ItemType)]
    BY <2>2 DEF MessageType
  <2> QED BY <2>2, <2>3, FunctionIsSeq
<1> HIDE DEF items
<1>4. sent' \in Seq(Seq(ItemType))
  BY <1>1, <1>3, ConcatProperties DEF LampInv
<1> QED BY <1>1, <1>2, <1>4 DEF LampInv

LEMMA LevelAfter ==
  ASSUME MAX_LEVEL \in Nat \ {0}, NEW r \in RepeatType
  PROVE  NextLevel(r) \in 0..MAX_LEVEL \cup {STOP}
<1>1. r.level \in 0..MAX_LEVEL
  BY DEF RepeatType
<1> QED BY <1>1 DEF NextLevel, STOP

LEMMA LampRepeat ==
  ASSUME LampInv, it \in Nat, Repeat
  PROVE  LampInv'
<1> DEFINE r == repeats[it]
           n == NextLevel(r)
<1>1. /\ it \in DOMAIN repeats /\ it \in 1..Len(repeats) /\ r \in RepeatType
      /\ repeats \in Seq(RepeatType) /\ queue \in Seq(MessageType) /\ UNCHANGED <<lamp, sent>>
      /\ PERIOD \in Nat \ {0} /\ MAX_LEVEL \in Nat \ {0}
  BY LenProperties, ElementOfSeq, ButtonsAssumption DEF Repeat, LampInv
<1>2. r.pin \in Pins /\ r.count \in 0..(PERIOD - 1) /\ n \in 0..MAX_LEVEL \cup {STOP}
  BY <1>1, LevelAfter DEF RepeatType
<1>3. /\ \/ UNCHANGED <<repeats, queue>>
         \/ /\ r.count + 1 # PERIOD /\ UNCHANGED queue
            /\ repeats' = [repeats EXCEPT ![it] = [r EXCEPT !.count = r.count + 1]]
         \/ /\ n # STOP /\ queue' = Ordered(r.pin, n)
            /\ repeats' = [repeats EXCEPT ![it] = [r EXCEPT !.count = 0, !.level = n]]
         \/ repeats' = RemoveAt(repeats, it) /\ UNCHANGED queue
  BY DEF Repeat
<1> HIDE DEF n
<1>4. \A c \in 0..(PERIOD - 1) : [r EXCEPT !.count = c] \in RepeatType
  <2> HIDE DEF r
  <2> QED BY <1>1 DEF RepeatType
<1>5. \A l \in 0..MAX_LEVEL : [r EXCEPT !.count = 0, !.level = l] \in RepeatType
  <2> HIDE DEF r
  <2>1. 0 \in 0..(PERIOD - 1)
    BY <1>1
  <2> QED BY <1>1, <2>1 DEF RepeatType
<1> HIDE DEF r
<1>6. repeats' \in Seq(RepeatType)
  <2>1. CASE r.count + 1 # PERIOD /\ repeats' = [repeats EXCEPT ![it] = [r EXCEPT !.count = r.count + 1]]
    <3>1. r.count + 1 \in 0..(PERIOD - 1)
      BY <1>1, <1>2, <2>1
    <3>2. [r EXCEPT !.count = r.count + 1] \in RepeatType
      BY <1>4, <3>1
    <3> QED BY <1>1, <2>1, <3>2, ReplaceType
  <2>2. CASE n # STOP /\ repeats' = [repeats EXCEPT ![it] = [r EXCEPT !.count = 0, !.level = n]]
    <3>1. [r EXCEPT !.count = 0, !.level = n] \in RepeatType
      BY <1>2, <1>5, <2>2
    <3> QED BY <1>1, <2>2, <3>1, ReplaceType
  <2>3. CASE repeats' = RemoveAt(repeats, it)
    BY <1>1, <2>3, RemovedPlaces
  <2>4. CASE UNCHANGED repeats
    BY <1>1, <2>4
  <2> QED BY <1>3, <2>1, <2>2, <2>3, <2>4
<1>7. queue' \in Seq(MessageType)
  <2>1. CASE UNCHANGED queue
    BY <1>1, <2>1
  <2>2. CASE n # STOP /\ queue' = Ordered(r.pin, n)
    BY <1>2, <2>2, OrderedType
  <2> QED BY <1>3, <2>1, <2>2
<1> QED BY <1>1, <1>6, <1>7 DEF LampInv

LEMMA LampRules ==
  ASSUME LampInv, checker \in Seq(CheckerType), it \in DOMAIN checker,
         CheckHold \/ CheckDouble \/ CheckLong
  PROVE  LampInv'
<1> DEFINE p == checker[it].pin
<1>1. p \in Pins /\ {"short", "normal", "long"} \subseteq Holds
  BY PinOfEntry DEF Holds
<1>2. UNCHANGED <<lamp, sent>>
  BY DEF CheckHold, CheckDouble, CheckLong
<1>3. \/ UNCHANGED <<queue, repeats>>
      \/ \E h \in {"short", "normal", "long"} : Rule(p, h, TRUE) /\ repeats' = Dimmed(p, h)
  <2>1. CASE CheckHold
    BY <2>1 DEF CheckHold, NoRule
  <2>2. CASE CheckDouble
    BY <2>2 DEF CheckDouble, NoRule
  <2>3. CASE CheckLong
    BY <2>3 DEF CheckLong, NoRule
  <2> QED BY <2>1, <2>2, <2>3
<1> HIDE DEF p
<1>4. queue' \in Seq(MessageType) /\ repeats' \in Seq(RepeatType)
  BY <1>1, <1>3, RuleType, DimmedType DEF LampInv
<1> QED BY <1>2, <1>4 DEF LampInv

----------------------------------------------------------------------------
(* The presses and their time.                                             *)

LEMMA Numbers ==
  /\ SHORT_PIN_RULE \in Nat /\ DOUBLE_PIN_THRESHOLD \in Nat /\ LONG_PIN_RULE \in Nat
  /\ SHORT_PIN_RULE < DOUBLE_PIN_THRESHOLD /\ DOUBLE_PIN_THRESHOLD < LONG_PIN_RULE
  /\ Cardinality(Pins) \in Nat
BY ButtonsAssumption, FS_CardinalityType

LEMMA EntryType ==
  ASSUME NEW e \in CheckerType
  PROVE  /\ e.pin \in Pins /\ e.counter \in 0..(LONG_PIN_RULE + 1) /\ e.short \in BOOLEAN
         /\ e.releases \in Nat /\ e.late \in Nat
BY DEF CheckerType

LEMMA Places ==
  ASSUME checker \in Seq(CheckerType)
  PROVE  /\ Len(checker) \in Nat /\ DOMAIN checker = 1..Len(checker)
         /\ \A i \in 1..Len(checker) : checker[i] \in CheckerType
BY LenProperties, ElementOfSeq

(* A step between the laps' loops that leaves the presses alone. *)
LEMMA PressCalm ==
  ASSUME PressInv, UNCHANGED <<checker, counter>>, ~Current, \A i \in DOMAIN checker : ~Uncounted(i),
         pc' \in {"incoming", "repeats"}, it' \in Nat \ {0}
  PROVE  PressInv'
<1>1. ~Current' /\ \A i : ~Uncounted(i)'
  BY DEF Current, Uncounted
<1>2. Distinct' /\ AtPlace' /\ Elsewhere'
  BY <1>1 DEF PressInv, Distinct, AtPlace, Elsewhere, Timely
<1>3. LateInv'
  BY <1>1 DEF PressInv, LateInv
<1> QED BY <1>2, <1>3 DEF PressInv

(* At the start of a lap every press has one more lap to be counted in. *)
LEMMA PressLap ==
  ASSUME PressInv, NEW full, Lap(full)
  PROVE  PressInv'
<1>1. /\ checker' = [i \in DOMAIN checker |-> [checker[i] EXCEPT !.late = Later(@)]]
      /\ pc = "incoming" /\ pc' = "hold" /\ it' = 1 /\ counter' = counter
  BY DEF Lap, Incoming
<1>2. /\ Len(checker) \in Nat /\ DOMAIN checker = 1..Len(checker)
      /\ \A i \in 1..Len(checker) : checker[i] \in CheckerType
  BY Places DEF PressInv
<1>3. ASSUME NEW i \in 1..Len(checker)
      PROVE  /\ checker'[i] \in CheckerType /\ checker'[i].pin = checker[i].pin
             /\ checker'[i].counter = checker[i].counter /\ checker'[i].releases = checker[i].releases
             /\ checker'[i].late = checker[i].late + 1 /\ checker[i].late + i <= Cardinality(Pins)
  <2>1. checker[i] \in CheckerType /\ checker[i].late \in Nat
    BY <1>2, EntryType
  <2>2. checker[i].late + i <= Cardinality(Pins)
    <3>1. ~Uncounted(i)
      BY <1>1 DEF Uncounted, Current
    <3> QED BY <1>2, <2>1, <3>1, Numbers DEF PressInv, LateInv
  <2>3. Later(checker[i].late) = checker[i].late + 1
    BY <1>2, <2>1, <2>2, Numbers DEF Later
  <2>4. checker'[i] = [checker[i] EXCEPT !.late = checker[i].late + 1]
    BY <1>1, <1>2, <2>3
  <2> QED BY <2>1, <2>2, <2>4 DEF CheckerType
<1>4. DOMAIN checker' = 1..Len(checker)
  BY <1>1, <1>2
<1>5. checker' \in Seq(CheckerType)
  <2>1. checker' \in [1..Len(checker) -> CheckerType]
    BY <1>1, <1>2, <1>3
  <2> QED BY <1>2, <2>1, FunctionIsSeq
<1>6. Distinct' /\ AtPlace' /\ Elsewhere'
  <2>1. ~Current /\ ~Current'
    BY <1>1 DEF Current
  <2>2. Distinct'
    BY <1>2, <1>3, <1>4 DEF PressInv, Distinct
  <2>3. Elsewhere'
    BY <1>2, <1>3, <1>4, <2>1 DEF PressInv, Elsewhere, Timely
  <2> QED BY <2>1, <2>2, <2>3 DEF AtPlace
<1>7. LateInv'
  <2> SUFFICES ASSUME NEW i \in 1..Len(checker)
               PROVE  /\ checker'[i].late >= 1
                      /\ checker'[i].late + i <= Cardinality(Pins) + 1 /\ Uncounted(i)'
    BY <1>4 DEF LateInv
  <2>1. checker[i].late \in Nat
    BY <1>2, EntryType
  <2> QED BY <1>1, <1>2, <1>3, <2>1, Numbers DEF Uncounted
<1> QED BY <1>1, <1>5, <1>6, <1>7 DEF PressInv

(* Between the laps, presses that go away take the others forward. *)
LEMMA PressShrinks ==
  ASSUME PressInv, pc = "incoming", UNCHANGED <<pc, it, counter>>,
         checker' \in Seq(CheckerType), NEW f \in [DOMAIN checker' -> DOMAIN checker],
         \A i, j \in DOMAIN checker' : i < j => f[i] < f[j],
         \A i \in DOMAIN checker' : checker'[i] = checker[f[i]] /\ i <= f[i]
  PROVE  PressInv'
<1>1. /\ Len(checker) \in Nat /\ DOMAIN checker = 1..Len(checker)
      /\ \A i \in 1..Len(checker) : checker[i] \in CheckerType /\ checker[i].late \in Nat
  BY Places, EntryType DEF PressInv
<1>2. DOMAIN checker' = 1..Len(checker')  /\ Len(checker') \in Nat
  BY LenProperties
<1>3. Distinct'
  <2> SUFFICES ASSUME NEW i \in DOMAIN checker', NEW j \in DOMAIN checker',
                      checker'[i].pin = checker'[j].pin
               PROVE  i = j
    BY DEF Distinct
  <2>1. f[i] = f[j]
    BY DEF PressInv, Distinct
  <2>2. f[i] \in Nat /\ f[j] \in Nat /\ ~(i < j) /\ ~(j < i)
    BY <1>1, <2>1
  <2> QED BY <1>2, <2>2
<1>4. AtPlace' /\ Elsewhere'
  BY DEF PressInv, AtPlace, Elsewhere, Timely, Current
<1>5. LateInv'
  <2> SUFFICES ASSUME NEW i \in DOMAIN checker'
               PROVE  checker'[i].late + i <= Cardinality(Pins) /\ ~Uncounted(i)'
    BY Numbers DEF LateInv
  <2>1. checker[f[i]].late + f[i] <= Cardinality(Pins) /\ f[i] \in 1..Len(checker) /\ i <= f[i]
    BY <1>1, Numbers DEF PressInv, LateInv, Uncounted, Current
  <2> QED BY <1>1, <1>2, <2>1, Numbers DEF Uncounted, Current
<1> QED BY <1>3, <1>4, <1>5 DEF PressInv

(* A press is put down behind the others: there are no more than buttons. *)
LEMMA PressAppended ==
  ASSUME PressInv, pc = "incoming", UNCHANGED <<pc, it, counter>>,
         NEW e \in CheckerType, e.counter = 0, e.releases = 0, e.late = 0, ~Pressed(e.pin),
         checker' = Append(checker, e)
  PROVE  PressInv'
<1>1. /\ Len(checker) \in Nat /\ DOMAIN checker = 1..Len(checker)
      /\ \A i \in 1..Len(checker) : checker[i] \in CheckerType /\ checker[i].pin \in Pins
  BY Places, EntryType DEF PressInv
<1>2. /\ checker' \in Seq(CheckerType) /\ DOMAIN checker' = 1..(Len(checker) + 1)
      /\ \A i \in 1..Len(checker) : checker'[i] = checker[i]
      /\ checker'[Len(checker) + 1] = e
  BY Longer DEF PressInv
<1>3. Len(checker) + 1 <= Cardinality(Pins)
  <2> DEFINE pins == [i \in 1..Len(checker) |-> checker[i].pin]
             others == Pins \ {e.pin}
  <2>1. \A i \in 1..Len(checker) : checker[i].pin \in others
    BY <1>1 DEF Pressed, EntryOf
  <2>2. pins \in [1..Len(checker) -> others] /\ IsInjective(pins)
    BY <1>1, <2>1 DEF PressInv, Distinct, IsInjective
  <2>3. pins \in Injection(1..Len(checker), others)
    BY <2>2 DEF Injection
  <2>4. IsFiniteSet(Pins) /\ e.pin \in Pins
    BY ButtonsAssumption, EntryType
  <2>5. /\ IsFiniteSet(others) /\ Cardinality(others) = Cardinality(Pins) - 1
    BY <2>4, FS_RemoveElement
  <2>6. Cardinality(1..Len(checker)) <= Cardinality(others)
    BY <2>3, <2>5, FS_Injection
  <2>7. Cardinality(1..Len(checker)) = Len(checker)
    <3> DEFINE n == Len(checker)
    <3>1. 1 \in Int /\ n \in Int /\ (1 > n => n = 0) /\ n - 1 + 1 = n
      BY <1>1
    <3> HIDE DEF n
    <3> QED BY <3>1, FS_Interval DEF n
  <2> QED BY <1>1, <2>5, <2>6, <2>7, Numbers
<1>4. Distinct'
  BY <1>1, <1>2 DEF PressInv, Distinct, Pressed, EntryOf
<1>5. ~Current /\ ~Current' /\ \A i : ~Uncounted(i) /\ ~Uncounted(i)'
  BY DEF Current, Uncounted
<1>6. Elsewhere' /\ AtPlace'
  <2>1. Timely(e)
    BY Numbers DEF Timely
  <2> QED BY <1>1, <1>2, <1>5, <2>1 DEF PressInv, Elsewhere, AtPlace, Timely
<1>7. LateInv'
  <2> SUFFICES ASSUME NEW i \in 1..(Len(checker) + 1)
               PROVE  checker'[i].late + i <= Cardinality(Pins) + 0
    BY <1>2, <1>5 DEF LateInv
  <2>1. CASE i = Len(checker) + 1
    BY <1>1, <1>2, <1>3, <2>1, Numbers
  <2>2. CASE i # Len(checker) + 1
    <3>1. i \in 1..Len(checker) /\ checker'[i] = checker[i] /\ checker[i].late \in Nat
      BY <1>1, <1>2, <2>2, EntryType
    <3> QED BY <1>1, <1>5, <3>1, Numbers DEF PressInv, LateInv
  <2> QED BY <2>1, <2>2
<1> QED BY <1>2, <1>4, <1>6, <1>7 DEF PressInv

(* The first press of two is over; the second one is awaited. *)
LEMMA PressAwaits ==
  ASSUME PressInv, pc = "incoming", UNCHANGED <<pc, it, counter>>, NEW i \in DOMAIN checker,
         checker[i].counter < DOUBLE_PIN_THRESHOLD,
         checker' = [checker EXCEPT ![i].releases = @ + 1]
  PROVE  PressInv'
<1>1. /\ Len(checker) \in Nat /\ DOMAIN checker = 1..Len(checker)
      /\ \A j \in 1..Len(checker) : checker[j] \in CheckerType
  BY Places DEF PressInv
<1> DEFINE e == [checker[i] EXCEPT !.releases = @ + 1]
<1>2. /\ e \in CheckerType /\ e.pin = checker[i].pin /\ e.counter = checker[i].counter
      /\ e.late = checker[i].late
  BY <1>1 DEF CheckerType
<1>3. checker' = [checker EXCEPT ![i] = e]
  OBVIOUS
<1> HIDE DEF e
<1>4. checker' \in Seq(CheckerType) /\ DOMAIN checker' = DOMAIN checker
  BY <1>2, <1>3, ReplaceType DEF PressInv
<1>5. \A j \in DOMAIN checker :
        /\ checker'[j].pin = checker[j].pin /\ checker'[j].late = checker[j].late
        /\ checker'[j] = checker[j] \/ checker'[j] = e
  BY <1>2, <1>3
<1>6. ~Current /\ ~Current' /\ \A j : Uncounted(j)' = Uncounted(j)
  BY DEF Current, Uncounted
<1>7. Elsewhere' /\ AtPlace'
  <2>1. Timely(e)
    BY <1>1, <1>2, Numbers, EntryType DEF Timely
  <2> QED BY <1>4, <1>5, <1>6, <2>1 DEF PressInv, Elsewhere, AtPlace, Timely
<1>8. Distinct' /\ LateInv'
  BY <1>4, <1>5, <1>6 DEF PressInv, Distinct, LateInv
<1> QED BY <1>4, <1>7, <1>8 DEF PressInv

(* The loop of a lap erases the press at its index: the one behind it is   *)
(* passed over, whether the loop goes on there or one place further.       *)
LEMMA PressErased ==
  ASSUME PressInv, pc \in {"hold", "double", "long"}, it \in DOMAIN checker,
         checker' = RemoveAt(checker, it), counter' \in 0..(LONG_PIN_RULE + 1),
         \/ it = Len(checker) /\ pc' = "repeats" /\ it' = 1
         \/ it # Len(checker) /\ pc' = "hold" /\ it' = it + 1
         \/ /\ it # Len(checker) /\ pc' \in {"double", "long"} /\ it' = it
            /\ SameMode' => counter' <= IF pc' = "double" THEN DOUBLE_PIN_THRESHOLD ELSE LONG_PIN_RULE
  PROVE  PressInv'
<1> DEFINE n == Len(checker)
           At(i) == IF i < it THEN i ELSE i + 1
<1>1. /\ n \in Nat /\ DOMAIN checker = 1..n /\ it \in 1..n
      /\ \A i \in 1..n : checker[i] \in CheckerType /\ checker[i].late \in Nat
  BY Places, EntryType DEF PressInv
<1>2. /\ checker' \in Seq(CheckerType) /\ DOMAIN checker' = 1..(n - 1)
      /\ \A i \in 1..(n - 1) : checker'[i] = checker[At(i)]
  BY <1>1, RemovedPlaces DEF PressInv
<1>3. \A i \in 1..(n - 1) : At(i) \in 1..n /\ At(i) # it
  BY <1>1
<1>4. Distinct'
  <2>1. \A i, j \in 1..(n - 1) : At(i) = At(j) => i = j
    BY <1>1
  <2>2. \A i, j \in 1..n : checker[i].pin = checker[j].pin => i = j
    BY <1>1 DEF PressInv, Distinct
  <2> HIDE DEF At, n
  <2>3. \A i, j \in 1..(n - 1) : checker'[i].pin = checker'[j].pin => i = j
    BY <1>2, <1>3, <2>1, <2>2
  <2> QED BY <1>2, <2>3 DEF Distinct
<1>5. \A i \in 1..(n - 1) : Timely(checker[At(i)])
  BY <1>1, <1>3 DEF PressInv, Elsewhere
<1>6. \A i \in 1..(n - 1) : Timely(checker'[i])
  BY <1>2, <1>5
<1>7. Elsewhere'
  BY <1>2, <1>6 DEF Elsewhere, Timely
<1>8. AtPlace'
  <2> SUFFICES ASSUME Current' PROVE AtPlace'
    BY DEF AtPlace
  <2>1. it # n /\ it' = it /\ pc' \in {"double", "long"}
    BY DEF Current
  <2>2. it' \in 1..(n - 1)
    BY <1>1, <2>1
  <2> QED BY <1>2, <1>6, <2>1, <2>2 DEF AtPlace, Timely
<1>9. LateInv'
  <2> SUFFICES ASSUME NEW i \in 1..(n - 1)
               PROVE  /\ Uncounted(i)' => checker[At(i)].late >= 1
                      /\ checker[At(i)].late + i <= Cardinality(Pins) + (IF Uncounted(i)' THEN 1 ELSE 0)
    BY <1>2 DEF LateInv
  <2>1. /\ Uncounted(At(i)) => checker[At(i)].late >= 1
        /\ checker[At(i)].late + At(i) <= Cardinality(Pins) + (IF Uncounted(At(i)) THEN 1 ELSE 0)
        /\ checker[At(i)].late \in Nat
    BY <1>1, <1>3 DEF PressInv, LateInv
  <2>2. CASE i < it
    <3>1. At(i) = i /\ ~Uncounted(i) /\ ~Uncounted(i)'
      BY <1>1, <2>2 DEF Uncounted, Current
    <3> QED BY <2>1, <3>1
  <2>3. CASE ~(i < it)
    <3>1. At(i) = i + 1 /\ Uncounted(At(i))
      BY <1>1, <2>3 DEF Uncounted, Current
    <3>2. checker[i + 1].late >= 1 /\ checker[i + 1].late + (i + 1) <= Cardinality(Pins) + 1
      BY <2>1, <3>1
    <3>3. checker[i + 1].late + i <= Cardinality(Pins)
      BY <2>1, <3>1, <3>2, Numbers
    <3> QED BY <2>1, <3>1, <3>2, <3>3, Numbers
  <2> QED BY <2>2, <2>3
<1>10. pc' \in {"incoming", "hold", "double", "long", "repeats"} /\ it' \in Nat \ {0}
  BY <1>1
<1> QED BY <1>2, <1>4, <1>7, <1>8, <1>9, <1>10 DEF PressInv

(* Without erases every press of a button, and RemoveAt one of them. *)
LEMMA PressWithout ==
  ASSUME PressInv, pc = "incoming", UNCHANGED <<pc, it, counter>>, NEW T, checker' = Without(checker, T)
  PROVE  PressInv'
<1>1. checker \in Seq(CheckerType)
  BY DEF PressInv
<1>2. checker' \in Seq(CheckerType)
  <2>1. Without(checker, T) \in Seq(CheckerType \ T)
    BY <1>1, WithoutKeeps
  <2> QED BY <2>1, SeqMonotonic
<1>3. PICK f : Embeds(checker', checker, T, Len(checker), f)
  BY <1>1, WithoutPlaces
<1>4. DOMAIN checker = 1..Len(checker) /\ DOMAIN checker' = 1..Len(checker')
  BY <1>1, <1>2, LenProperties
<1>5. /\ f \in [DOMAIN checker' -> DOMAIN checker]
      /\ \A i, j \in DOMAIN checker' : i < j => f[i] < f[j]
      /\ \A i \in DOMAIN checker' : checker'[i] = checker[f[i]] /\ i <= f[i]
  BY <1>3, <1>4 DEF Embeds
<1> QED BY <1>2, <1>5, PressShrinks

LEMMA PressRemoved ==
  ASSUME PressInv, pc = "incoming", UNCHANGED <<pc, it, counter>>, NEW k \in DOMAIN checker,
         checker' = RemoveAt(checker, k)
  PROVE  PressInv'
<1> DEFINE n == Len(checker)
           f == [i \in 1..(n - 1) |-> IF i < k THEN i ELSE i + 1]
<1>1. n \in Nat /\ DOMAIN checker = 1..n /\ k \in 1..n
  BY Places DEF PressInv
<1>2. /\ checker' \in Seq(CheckerType) /\ DOMAIN checker' = 1..(n - 1)
      /\ \A i \in 1..(n - 1) : checker'[i] = checker[f[i]]
  BY <1>1, RemovedPlaces DEF PressInv
<1>3. \A i \in 1..(n - 1) : f[i] \in 1..n /\ i <= f[i] /\ \A j \in 1..(n - 1) : i < j => f[i] < f[j]
  BY <1>1
<1>4. f \in [DOMAIN checker' -> DOMAIN checker]
  BY <1>1, <1>2, <1>3
<1> HIDE DEF f
<1> QED BY <1>2, <1>3, <1>4, PressShrinks

LEMMA PressPress ==
  ASSUME PressInv, NEW p \in Pins, Press(p)
  PROVE  PressInv'
<1>1. pc = "incoming" /\ UNCHANGED <<pc, it, counter>>
  BY DEF Press, Incoming
<1> DEFINE e == [pin |-> p, counter |-> 0, short |-> FALSE, releases |-> 0, late |-> 0]
<1>2. e \in CheckerType
  BY Numbers DEF CheckerType
<1>3. CASE Pressed(p) /\ checker' = Without(checker, {checker[i] : i \in EntryOf(p)})
  BY <1>1, <1>3, PressWithout
<1>4. CASE UNCHANGED checker
  BY <1>1, <1>4, PressCalm DEF Current, Uncounted, PressInv
<1>5. CASE ~Pressed(p) /\ checker' = Append(checker, e)
  <2>1. e.pin = p /\ e.counter = 0 /\ e.releases = 0 /\ e.late = 0
    OBVIOUS
  <2> HIDE DEF e
  <2> QED BY <1>1, <1>2, <1>5, <2>1, PressAppended
<1> QED BY <1>3, <1>4, <1>5 DEF Press

LEMMA PressRelease ==
  ASSUME PressInv, NEW p \in Pins, Release(p)
  PROVE  PressInv'
<1>1. pc = "incoming" /\ UNCHANGED <<pc, it, counter>>
  BY DEF Release, Incoming
<1>2. CASE UNCHANGED checker
  BY <1>1, <1>2, PressCalm DEF Current, Uncounted, PressInv
<1>3. ASSUME NEW i \in EntryOf(p),
             \/ checker' = RemoveAt(checker, i)
             \/ /\ checker[i].counter < DOUBLE_PIN_THRESHOLD
                /\ checker' = [checker EXCEPT ![i].releases = @ + 1]
      PROVE  PressInv'
  <2>1. i \in DOMAIN checker
    BY DEF EntryOf
  <2> QED BY <1>1, <1>3, <2>1, PressRemoved, PressAwaits
<1> QED BY <1>2, <1>3 DEF Release, Released, Answers, WaitsForSecond

----------------------------------------------------------------------------
(* The loop of check_running_rules.                                        *)

LEMMA PressHold ==
  ASSUME PressInv, HandInv, CheckHold
  PROVE  PressInv'
<1> DEFINE e == checker[it]
           p == e.pin
           late == counter' > SHORT_PIN_RULE /\ e.releases = 0
           fires == late /\ IF Has(p, "shutter") THEN counter' = SHORT_PIN_RULE + 1 ELSE ~Has(p, "long")
           n == Len(checker)
<1>1. /\ pc = "hold" /\ it \in DOMAIN checker /\ counter' = e.counter + 1 /\ UNCHANGED <<mode, budget>>
      /\ IF fires /\ ~Has(p, "shutter") THEN Erased("double")
         ELSE /\ checker' = [checker EXCEPT ![it].counter = counter', ![it].short = @ \/ fires,
                                            ![it].late = @ - (counter' - e.counter)]
              /\ pc' = "double" /\ it' = it
  BY DEF CheckHold
<1>2. /\ n \in Nat /\ DOMAIN checker = 1..n /\ it \in 1..n
      /\ \A i \in 1..n : checker[i] \in CheckerType /\ checker[i].late \in Nat
      /\ it \in Nat
  BY <1>1, Places, EntryType DEF PressInv
<1>3. /\ e.counter \in 0..LONG_PIN_RULE /\ (e.releases = 1 => e.counter <= DOUBLE_PIN_THRESHOLD)
      /\ \A i \in 1..n : Timely(checker[i])
  <2>1. \A i \in 1..n : Timely(checker[i])
    BY <1>1, <1>2 DEF PressInv, Elsewhere, Current
  <2>2. e.counter \in 0..(LONG_PIN_RULE + 1)
    BY <1>2, EntryType
  <2> QED BY <1>2, <2>1, <2>2, Numbers DEF Timely
<1>4. counter' \in 0..(LONG_PIN_RULE + 1) /\ counter' \in Nat
  BY <1>1, <1>3, Numbers
<1>5. CASE fires /\ ~Has(p, "shutter")
  <2>1. SameMode => counter' <= DOUBLE_PIN_THRESHOLD
    <3>1. Waits(e)
      BY <1>1 DEF HandInv
    <3>2. SameMode => e.counter <= SHORT_PIN_RULE
      BY <1>5, <3>1 DEF Waits
    <3> QED BY <1>1, <1>3, <3>2, Numbers
  <2>2. SameMode' <=> SameMode
    BY <1>1 DEF SameMode
  <2>3. /\ checker' = RemoveAt(checker, it)
        /\ \/ it = Len(checker) /\ pc' = "repeats" /\ it' = 1
           \/ it # Len(checker) /\ pc' = "double" /\ it' = it
    BY <1>1, <1>5 DEF Erased
  <2> QED BY <1>1, <1>4, <2>1, <2>2, <2>3, PressErased
<1>6. CASE ~(fires /\ ~Has(p, "shutter"))
  <2> DEFINE d == [e EXCEPT !.counter = counter', !.short = @ \/ fires, !.late = @ - 1]
  <2>1. pc' = "double" /\ it' = it /\ counter' - e.counter = 1
    BY <1>1, <1>3, <1>6, Numbers
  <2>2. checker' = [checker EXCEPT ![it] = d]
    BY <1>1, <1>6, <2>1
  <2>3. /\ e.late >= 1 /\ \A i \in 1..n : checker[i].late + i <= Cardinality(Pins) + (IF i >= it THEN 1 ELSE 0)
        /\ \A i \in 1..n : i > it => checker[i].late >= 1
    BY <1>1, <1>2, Numbers DEF PressInv, LateInv, Uncounted, Current
  <2>4. /\ d.pin = e.pin /\ d.counter = counter' /\ d.late = e.late - 1 /\ d.releases = e.releases
        /\ d \in CheckerType
    <3>1. e \in CheckerType /\ e.late - 1 \in Nat
      BY <1>2, <2>3
    <3> HIDE DEF fires
    <3> QED BY <1>4, <3>1 DEF CheckerType
  <2> HIDE DEF d
  <2>5. checker' \in Seq(CheckerType) /\ DOMAIN checker' = 1..n
    BY <1>1, <1>2, <2>2, <2>4, ReplaceType DEF PressInv
  <2>6. /\ checker'[it] = d /\ \A i \in 1..n : i # it => checker'[i] = checker[i]
    BY <1>2, <2>2
  <2>7. Distinct'
    <3>1. \A i \in 1..n : checker'[i].pin = checker[i].pin
      BY <2>4, <2>6
    <3> QED BY <1>2, <2>5, <3>1 DEF PressInv, Distinct
  <2>8. Elsewhere'
    BY <1>3, <2>1, <2>5, <2>6 DEF Elsewhere, Current, Timely
  <2>9. AtPlace'
    <3>1. d.releases = 1 => counter' <= DOUBLE_PIN_THRESHOLD \/ counter' = DOUBLE_PIN_THRESHOLD + 1
      BY <1>1, <1>3, <2>4, Numbers
    <3> QED BY <1>2, <2>1, <2>4, <2>5, <2>6, <3>1 DEF AtPlace
  <2>10. LateInv'
    <3> SUFFICES ASSUME NEW i \in 1..n
                 PROVE  /\ i > it => checker'[i].late >= 1
                        /\ checker'[i].late + i <= Cardinality(Pins) + (IF i > it THEN 1 ELSE 0)
      BY <2>1, <2>5 DEF LateInv, Uncounted, Current
    <3>1. CASE i = it
      BY <1>2, <2>3, <2>4, <2>6, <3>1, Numbers
    <3>2. CASE i # it
      BY <1>2, <2>3, <2>6, <3>2, Numbers
    <3> QED BY <3>1, <3>2
  <2> QED BY <1>2, <1>4, <2>1, <2>5, <2>7, <2>8, <2>9, <2>10 DEF PressInv
<1> QED BY <1>5, <1>6

(* What the two later checks of the loop rely on: the time in the variable *)
(* counter is too short for a rule, or that of the press at the index.     *)
LEMMA TimeAtPlace ==
  ASSUME PressInv, Current
  PROVE  /\ it \in DOMAIN checker /\ checker[it] \in CheckerType /\ checker[it].releases \in Nat
         /\ checker[it].counter \in Nat /\ counter \in 0..(LONG_PIN_RULE + 1) /\ counter \in Nat
         /\ it \in 1..Len(checker) /\ Len(checker) \in Nat
         /\ pc = "long" /\ counter <= LONG_PIN_RULE => Timely(checker[it])
         /\ SameMode /\ pc = "long" /\ counter > LONG_PIN_RULE =>
              counter = checker[it].counter /\ checker[it].releases # 1
         /\ SameMode /\ pc = "double" /\ counter > DOUBLE_PIN_THRESHOLD => counter = checker[it].counter
<1>1. it \in DOMAIN checker
  BY DEF PressInv, AtPlace
<1>2. /\ checker[it] \in CheckerType /\ checker[it].releases \in Nat
      /\ checker[it].counter \in Nat /\ counter \in 0..(LONG_PIN_RULE + 1) /\ counter \in Nat
      /\ it \in 1..Len(checker) /\ Len(checker) \in Nat
  BY <1>1, Places, EntryType, Numbers DEF PressInv
<1>3. pc = "long" /\ counter <= LONG_PIN_RULE => Timely(checker[it])
  BY <1>2, Numbers DEF PressInv, AtPlace, Timely
<1>4. SameMode /\ pc = "long" /\ counter > LONG_PIN_RULE =>
        counter = checker[it].counter /\ checker[it].releases # 1
  BY <1>2, Numbers DEF PressInv, AtPlace
<1>5. SameMode /\ pc = "double" /\ counter > DOUBLE_PIN_THRESHOLD => counter = checker[it].counter
  BY <1>2, Numbers DEF PressInv, AtPlace
<1> QED BY <1>1, <1>2, <1>3, <1>4, <1>5

LEMMA PressDouble ==
  ASSUME PressInv, CheckDouble
  PROVE  PressInv'
<1>1. pc = "double" /\ UNCHANGED <<counter, budget>> /\ Current
  BY DEF CheckDouble, Current
<1>2. CASE counter > DOUBLE_PIN_THRESHOLD /\ checker[it].releases = 1
  <2>1. /\ checker' = RemoveAt(checker, it)
        /\ \/ it = Len(checker) /\ pc' = "repeats" /\ it' = 1
           \/ it # Len(checker) /\ pc' = "long" /\ it' = it
    BY <1>2 DEF CheckDouble, Erased
  <2>2. SameMode => counter <= LONG_PIN_RULE
    BY <1>1, <1>2, Numbers, TimeAtPlace DEF PressInv, AtPlace
  <2>3. SameMode' <=> SameMode
    BY <1>1 DEF SameMode
  <2> QED BY <1>1, <2>1, <2>2, <2>3, TimeAtPlace, PressErased
<1>3. CASE ~(counter > DOUBLE_PIN_THRESHOLD /\ checker[it].releases = 1)
  <2>1. pc' = "long" /\ UNCHANGED <<checker, it, counter, budget>>
    BY <1>1, <1>3 DEF CheckDouble
  <2>2. Current' /\ \A i : Uncounted(i)' = Uncounted(i)
    BY <1>1, <2>1 DEF Current, Uncounted
  <2>3. Distinct' /\ Elsewhere' /\ LateInv'
    BY <1>1, <2>1, <2>2 DEF PressInv, Distinct, Elsewhere, LateInv, Timely
  <2>4. AtPlace'
    <3>1. checker[it].releases = 1 => checker[it].counter <= DOUBLE_PIN_THRESHOLD
      BY <1>1, <1>3, TimeAtPlace, Numbers DEF PressInv, AtPlace
    <3>2. SameMode => counter = checker[it].counter \/ counter <= LONG_PIN_RULE
      BY <1>1, TimeAtPlace, Numbers DEF PressInv, AtPlace
    <3> QED BY <1>1, <2>1, <3>1, <3>2 DEF PressInv, AtPlace, SameMode
  <2> QED BY <2>1, <2>3, <2>4 DEF PressInv
<1> QED BY <1>2, <1>3

LEMMA PressLong ==
  ASSUME PressInv, CheckLong
  PROVE  PressInv'
<1>1. pc = "long" /\ UNCHANGED <<counter, budget>> /\ Current
  BY DEF CheckLong, Current
<1>2. CASE counter > LONG_PIN_RULE
  <2>1. /\ checker' = RemoveAt(checker, it)
        /\ \/ it = Len(checker) /\ pc' = "repeats" /\ it' = 1
           \/ it # Len(checker) /\ pc' = "hold" /\ it' = it + 1
    BY <1>2 DEF CheckLong
  <2> QED BY <1>1, <2>1, TimeAtPlace, PressErased
<1>3. CASE ~(counter > LONG_PIN_RULE)
  <2>1. pc' = "hold" /\ it' = it + 1 /\ UNCHANGED <<checker, counter, budget>> /\ it \in Nat
    BY <1>1, <1>3, TimeAtPlace DEF CheckLong
  <2>2. ~Current' /\ \A i \in Nat : Uncounted(i)' = Uncounted(i)
    BY <1>1, <2>1 DEF Current, Uncounted
  <2>3. \A i \in DOMAIN checker : i \in Nat /\ Timely(checker[i])
    <3>1. Timely(checker[it])
      BY <1>1, <1>3, TimeAtPlace, Numbers
    <3> QED BY <3>1, Places DEF PressInv, Elsewhere
  <2>4. Distinct' /\ Elsewhere' /\ LateInv' /\ AtPlace'
    BY <2>1, <2>2, <2>3 DEF PressInv, Distinct, Elsewhere, LateInv, Timely, AtPlace
  <2> QED BY <2>1, <2>4 DEF PressInv
<1> QED BY <1>2, <1>3

(* Every step keeps what is known of the presses and their time. *)
LEMMA PressNext ==
  ASSUME PressInv, HandInv, [Next]_vars
  PROVE  PressInv'
<1>1. CASE Fingers
  <2>1. ASSUME NEW p \in Pins, Unheard(p) PROVE PressInv'
    BY <2>1, PressCalm DEF Unheard, Incoming, Current, Uncounted, PressInv
  <2> QED BY <1>1, <2>1, PressPress, PressRelease DEF Fingers
<1>2. CASE Modeswitch
  <2>1. ASSUME NEW m, DayNight(m) PROVE PressInv'
    BY <2>1, PressCalm DEF DayNight, Incoming, Current, Uncounted, PressInv
  <2> QED BY <1>2, <2>1 DEF Modeswitch
<1>3. CASE Mesh
  <2>1. ASSUME NEW k, Answer(k) \/ GiveUp(k) PROVE PressInv'
    BY <2>1, PressCalm DEF Answer, GiveUp, Incoming, Current, Uncounted, PressInv
  <2> QED BY <1>3, <2>1 DEF Mesh
<1>4. CASE Laps
  BY <1>4, PressLap DEF Laps
<1>5. CASE Rules
  <2>1. ASSUME RulesDone PROVE PressInv'
    <3>1. /\ pc = "hold" /\ it \notin DOMAIN checker /\ pc' = "repeats" /\ it' = 1
          /\ UNCHANGED <<checker, counter>>
      BY <2>1 DEF RulesDone
    <3>2. \A i \in DOMAIN checker : ~Uncounted(i)
      BY <3>1, Places DEF PressInv, Uncounted, Current
    <3> QED BY <3>1, <3>2, PressCalm DEF Current
  <2> QED BY <1>5, <2>1, PressHold, PressDouble, PressLong DEF Rules
<1>6. CASE Repeats
  <2>1. /\ pc = "repeats" /\ pc' \in {"repeats", "incoming"} /\ it' \in {1, it + 1}
        /\ UNCHANGED <<checker, counter>>
    BY <1>6 DEF Repeats, RepeatsDone, Repeat
  <2>2. it' \in Nat \ {0}
    BY <2>1 DEF PressInv
  <2> QED BY <2>1, <2>2, PressCalm DEF Current, Uncounted
<1>7. CASE UNCHANGED vars
  BY <1>7 DEF vars, PressInv, Distinct, AtPlace, Elsewhere, LateInv, Timely, Current, Uncounted, SameMode
<1> QED BY <1>1, <1>2, <1>3, <1>4, <1>5, <1>6, <1>7 DEF Next

(* ... and what is known of the lamps. *)
LEMMA LampNext ==
  ASSUME LampInv, PressInv, [Next]_vars
  PROVE  LampInv'
<1>1. checker \in Seq(CheckerType) /\ it \in Nat
  BY DEF PressInv
<1>2. CASE Fingers
  <2>1. ASSUME NEW p \in Pins, Unheard(p) PROVE LampInv'
    BY <2>1 DEF Unheard, LampInv, dimmers
  <2> QED BY <1>1, <1>2, <2>1, LampPress, LampRelease DEF Fingers
<1>3. CASE Modeswitch
  BY <1>3 DEF Modeswitch, DayNight, LampInv, dimmers
<1>4. CASE Mesh
  BY <1>4, LampAnswer DEF Mesh
<1>5. CASE Laps
  BY <1>5, LampLap DEF Laps
<1>6. CASE Rules
  <2>1. ASSUME RulesDone PROVE LampInv'
    BY <2>1 DEF RulesDone, LampInv, dimmers
  <2>2. ASSUME CheckHold \/ CheckDouble \/ CheckLong PROVE LampInv'
    <3>1. it \in DOMAIN checker
      BY <2>2 DEF CheckHold, CheckDouble, CheckLong, PressInv, AtPlace, Current
    <3> QED BY <1>1, <2>2, <3>1, LampRules
  <2> QED BY <1>6, <2>1, <2>2 DEF Rules
<1>7. CASE Repeats
  <2>1. ASSUME RepeatsDone PROVE LampInv'
    BY <2>1 DEF RepeatsDone, LampInv, dimmers
  <2> QED BY <1>1, <1>7, <2>1, LampRepeat DEF Repeats
<1>8. CASE UNCHANGED vars
  BY <1>8 DEF vars, dimmers, LampInv
<1> QED BY <1>2, <1>3, <1>4, <1>5, <1>6, <1>7, <1>8 DEF Next

----------------------------------------------------------------------------
(* The hands.                                                              *)

(* What is left of the presses when those of a button, or one, are erased. *)
LEMMA EntriesWithout ==
  ASSUME checker \in Seq(CheckerType), NEW p,
         checker' = Without(checker, {checker[i] : i \in EntryOf(p)})
  PROVE  /\ \A i \in DOMAIN checker' : checker'[i].pin # p /\ \E j \in DOMAIN checker : checker'[i] = checker[j]
         /\ \A j \in DOMAIN checker : checker[j].pin # p => \E i \in DOMAIN checker' : checker'[i] = checker[j]
<1> DEFINE T == {checker[i] : i \in EntryOf(p)}
<1>1. /\ DOMAIN checker = 1..Len(checker)
      /\ \A j \in DOMAIN checker : checker[j] \in T <=> checker[j].pin = p
  BY LenProperties DEF EntryOf
<1>2. checker' = Without(checker, T)
  OBVIOUS
<1> HIDE DEF T
<1>3. checker' \in Seq(CheckerType \ T)
  BY <1>2, WithoutKeeps
<1>4. DOMAIN checker' = 1..Len(checker') /\ \A i \in DOMAIN checker' : checker'[i] \notin T
  <2>1. DOMAIN checker' = 1..Len(checker')
    BY <1>3, LenProperties
  <2>2. \A i \in 1..Len(checker') : checker'[i] \in CheckerType \ T
    BY <1>3, ElementOfSeq
  <2> QED BY <2>1, <2>2
<1>5. PICK f : Embeds(checker', checker, T, Len(checker), f)
  BY <1>2, WithoutPlaces
<1>6. \A i \in DOMAIN checker' : f[i] \in DOMAIN checker /\ checker'[i] = checker[f[i]]
  BY <1>1, <1>4, <1>5 DEF Embeds
<1>7. \A j \in DOMAIN checker : checker[j] \notin T => \E i \in DOMAIN checker' : f[i] = j
  BY <1>1, <1>4, <1>5 DEF Embeds
<1>8. \A i \in DOMAIN checker' : checker'[i].pin # p
  BY <1>1, <1>4, <1>6
<1>9. \A j \in DOMAIN checker : checker[j].pin # p => \E i \in DOMAIN checker' : checker'[i] = checker[j]
  <2> SUFFICES ASSUME NEW j \in DOMAIN checker, checker[j].pin # p
               PROVE  \E i \in DOMAIN checker' : checker'[i] = checker[j]
    OBVIOUS
  <2>1. PICK i \in DOMAIN checker' : f[i] = j
    BY <1>1, <1>7
  <2> QED BY <1>6, <2>1
<1> QED BY <1>6, <1>8, <1>9

LEMMA EntriesRemoved ==
  ASSUME checker \in Seq(CheckerType), Distinct, NEW k \in DOMAIN checker, NEW p, checker[k].pin = p,
         checker' = RemoveAt(checker, k)
  PROVE  /\ \A i \in DOMAIN checker' : checker'[i].pin # p /\ \E j \in DOMAIN checker : checker'[i] = checker[j]
         /\ \A j \in DOMAIN checker : checker[j].pin # p => \E i \in DOMAIN checker' : checker'[i] = checker[j]
<1>1. k \in 1..Len(checker) /\ DOMAIN checker = 1..Len(checker) /\ Len(checker) \in Nat
  BY LenProperties
<1>2. ASSUME NEW i \in DOMAIN checker'
      PROVE  \E j \in DOMAIN checker : j # k /\ checker'[i] = checker[j]
  <2>1. i \in 1..(Len(checker) - 1) /\ checker'[i] = checker[IF i < k THEN i ELSE i + 1]
    BY <1>1, <1>2, RemovedPlaces
  <2>2. (IF i < k THEN i ELSE i + 1) \in 1..Len(checker) /\ (IF i < k THEN i ELSE i + 1) # k
    BY <1>1, <2>1
  <2> QED BY <1>1, <2>1, <2>2
<1>3. \A i \in DOMAIN checker' : checker'[i].pin # p
  BY <1>2 DEF Distinct
<1>4. \A j \in DOMAIN checker : j # k => \E i \in DOMAIN checker' : checker'[i] = checker[j]
  BY <1>1, Removed
<1> QED BY <1>2, <1>3, <1>4

(* Nothing new is said of a press when its button is left alone. *)
LEMMA WaitsStill ==
  ASSUME NEW e, Waits(e), mode' = mode, SameMode' => SameMode, NothingLost' => NothingLost,
         e.pin \in down' <=> e.pin \in down, fired'[e.pin] = fired[e.pin]
  PROVE  Waits(e)'
BY DEF Waits, Has, Doubled

(* A step that is about one button needs to be looked at for that one.     *)
LEMMA HandOthers ==
  ASSUME HandInv, checker \in Seq(CheckerType), NEW p \in Pins, mode' = mode,
         budget' \in [Inputs -> Nat], \A x \in Inputs : budget'[x] <= Budget[x],
         SameMode' => SameMode, NothingLost' => NothingLost,
         down' \subseteq Pins, moving' \subseteq Pins, fired' \in [Pins -> Seq(Holds \cup {"stop"})],
         \A q \in Pins \ {p} : /\ q \in down' <=> q \in down
                               /\ q \in moving' <=> q \in moving
                               /\ fired'[q] = fired[q],
         checker' \in Seq(CheckerType),
         \A i \in DOMAIN checker' : checker'[i].pin # p => \E j \in DOMAIN checker : checker'[i] = checker[j],
         \A j \in DOMAIN checker : checker[j].pin # p => \E i \in DOMAIN checker' : checker'[i] = checker[j],
         \A i \in DOMAIN checker' : checker'[i].pin = p => Waits(checker[i])',
         p \in moving' => /\ Has(p, "shutter")
                          /\ NothingLost' => \E i \in EntryOf(p)' : checker'[i].short,
         NothingLost' => Len(fired'[p]) <= 1 \/ fired'[p] \in {<<"short", "stop">>, <<"short", "long">>},
         DimmingHeld'
  PROVE  HandInv'
<1>1. ASSUME NEW i \in DOMAIN checker'
      PROVE  Waits(checker[i])'
  <2>1. CASE checker'[i].pin # p
    <3>1. PICK j \in DOMAIN checker : checker'[i] = checker[j]
      BY <2>1
    <3>2. PICK e : e = checker[j]
      OBVIOUS
    <3>3. Waits(e) /\ e.pin \in Pins /\ e.pin # p
      BY <2>1, <3>1, <3>2, Places, EntryType DEF HandInv
    <3>4. Waits(e)'
      BY <3>3, WaitsStill
    <3>5. e = checker'[i]
      BY <3>1, <3>2
    <3> QED BY <3>4, <3>5 DEF Waits
  <2> QED BY <1>1, <2>1
<1>2. Moved'
  <2> SUFFICES ASSUME NEW q \in moving'
               PROVE  Has(q, "shutter")' /\ (NothingLost' => \E i \in EntryOf(q)' : checker'[i].short)
    BY DEF Moved
  <2>1. Has(q, "shutter")' <=> Has(q, "shutter")
    BY DEF Has
  <2>2. CASE q # p
    <3>1. q \in moving /\ Has(q, "shutter")
      BY <2>2 DEF HandInv, Moved
    <3>2. ASSUME NothingLost' PROVE \E i \in EntryOf(q)' : checker'[i].short
      <4>1. PICK j \in EntryOf(q) : checker[j].short
        BY <3>1, <3>2 DEF HandInv, Moved
      <4>2. j \in DOMAIN checker /\ checker[j].pin = q
        BY DEF EntryOf
      <4>3. PICK i \in DOMAIN checker' : checker'[i] = checker[j]
        BY <2>2, <4>2
      <4> QED BY <4>1, <4>2, <4>3 DEF EntryOf
    <3> QED BY <2>1, <3>1, <3>2
  <2> QED BY <2>1, <2>2
<1>3. OnePressOneRule'
  BY DEF HandInv, OnePressOneRule
<1> QED BY <1>1, <1>2, <1>3 DEF HandInv

(* Sequences of one and of two elements. *)
LEMMA TwoOf ==
  ASSUME NEW S, NEW a \in S, NEW b \in S, NEW s \in Seq(S), Len(s) = 1, s[1] = a
  PROVE  Append(s, b) = <<a, b>>
<1>1. Append(s, b) \in Seq(S)
  BY AppendProperties
<1>2. Len(Append(s, b)) = Len(s) + 1 /\ Append(s, b)[Len(s) + 1] = b
  BY AppendProperties, Zenon
<1>3. \A i \in 1..Len(s) : Append(s, b)[i] = s[i]
  BY AppendProperties, Zenon
<1>4. <<a, b>> \in Seq(S) /\ Len(<<a, b>>) = 2 /\ <<a, b>>[1] = a /\ <<a, b>>[2] = b
  OBVIOUS
<1>5. Len(Append(s, b)) = 2 /\ Append(s, b)[1] = a /\ Append(s, b)[2] = b
  BY <1>2, <1>3
<1>6. \A i \in 1..2 : Append(s, b)[i] = <<a, b>>[i]
  BY <1>4, <1>5
<1> QED BY <1>1, <1>4, <1>5, <1>6, SeqEqual

(* The rules of a press, as fired records them. *)
LEMMA FiredRules ==
  ASSUME fired \in [Pins -> Seq(Holds \cup {"stop"})], NEW p \in Pins, NEW h \in Holds \cup {"stop"}
  PROVE  /\ Fired(p, h) \in [Pins -> Seq(Holds \cup {"stop"})]
         /\ \A q \in Pins \ {p} : Fired(p, h)[q] = fired[q]
         /\ fired[p] = <<>> => Len(Fired(p, h)[p]) <= 1
         /\ fired[p] = <<"short">> => Fired(p, h)[p] = <<"short", h>>
<1>1. fired[p] \in Seq(Holds \cup {"stop"})
  OBVIOUS
<1>2. Append(fired[p], h) \in Seq(Holds \cup {"stop"})
  BY <1>1, AppendProperties
<1>3. Len(Append(<<>>, h)) <= 1
  <2>1. Len(Append(<<>>, h)) = 1
    BY EmptySeq, AppendProperties
  <2> QED BY <2>1
<1>4. Append(<<"short">>, h) = <<"short", h>>
  <2>1. "short" \in Holds \cup {"stop"} /\ <<"short">> \in Seq(Holds \cup {"stop"})
    BY DEF Holds
  <2>2. Len(<<"short">>) = 1 /\ <<"short">>[1] = "short"
    OBVIOUS
  <2> QED BY <2>1, <2>2, TwoOf, Zenon
<1> QED BY <1>2, <1>3, <1>4 DEF Fired

(* The repeated messages of a lamp after a rule of its button. *)
LEMMA DimmedPins ==
  ASSUME repeats \in Seq(RepeatType), LampInv, NEW p \in Pins, NEW h \in Holds, repeats' = Dimmed(p, h)
  PROVE  \A i \in DOMAIN repeats' : \/ \E k \in DOMAIN repeats : repeats'[i].pin = repeats[k].pin
                                    \/ repeats'[i].pin = p /\ <<p, h>> \in Dims
<1>1. CASE DimsNow(p, h)
  <2> DEFINE r == [pin |-> p, count |-> 0, level |-> FirstLevel(p), dir |-> Against(p)]
  <2>1. repeats' = Append(repeats, r) /\ r.pin = p /\ <<p, h>> \in Dims
    BY <1>1 DEF Dimmed, DimsNow
  <2> HIDE DEF r
  <2>2. repeats \in Seq(RepeatType \cup {r}) /\ r \in RepeatType \cup {r}
    BY SeqMonotonic
  <2>3. /\ Len(repeats) \in Nat /\ DOMAIN repeats = 1..Len(repeats)
        /\ DOMAIN repeats' = 1..(Len(repeats) + 1)
        /\ \A i \in 1..Len(repeats) : repeats'[i] = repeats[i]
        /\ repeats'[Len(repeats) + 1] = r
    BY <2>1, <2>2, Longer
  <2>4. \A i \in 1..(Len(repeats) + 1) : i \in 1..Len(repeats) \/ i = Len(repeats) + 1
    BY <2>3
  <2> QED BY <2>1, <2>3, <2>4
<1>2. CASE ~DimsNow(p, h)
  BY <1>2 DEF Dimmed
<1> QED BY <1>1, <1>2

(* Lamps that were dimmed with good reason still are. *)
LEMMA DimmingStill ==
  ASSUME DimmingHeld, SameMode' => SameMode, NothingLost' => NothingLost,
         NothingLost' => \A i \in DOMAIN repeats' :
           \/ \E k \in DOMAIN repeats : /\ repeats'[i].pin = repeats[k].pin
                                        /\ repeats[k].pin \in down => repeats[k].pin \in down'
           \/ repeats'[i].pin \in down'
           \/ /\ Doubled(repeats'[i].pin)
              /\ \/ <<repeats'[i].pin, "normal">> \in Dims
                 \/ ~SameMode /\ <<repeats'[i].pin, "long">> \in Dims
  PROVE  DimmingHeld'
BY DEF DimmingHeld, Doubled

(* Each kind of outside event is counted by itself. *)
LEMMA Spent ==
  ASSUME HandInv, NEW x \in Inputs, Spend(x)
  PROVE  /\ budget' \in [Inputs -> Nat] /\ \A y \in Inputs : budget'[y] <= Budget[y]
         /\ budget'[x] # Budget[x] /\ \A y \in Inputs \ {x} : budget'[y] = budget[y]
<1>1. /\ budget \in [Inputs -> Nat] /\ Budget \in [Inputs -> Nat] /\ budget[x] > 0
      /\ \A y \in Inputs : budget[y] <= Budget[y]
      /\ budget' = [budget EXCEPT ![x] = budget[x] - 1]
  BY ButtonsAssumption DEF HandInv, Spend
<1>2. budget[x] \in Nat /\ budget[x] - 1 \in Nat /\ Budget[x] \in Nat /\ budget[x] <= Budget[x]
  BY <1>1
<1>3. budget' \in [Inputs -> Nat] /\ budget'[x] = budget[x] - 1 /\ \A y \in Inputs \ {x} : budget'[y] = budget[y]
  BY <1>1, <1>2
<1>4. budget'[x] # Budget[x] /\ budget'[x] <= Budget[x]
  BY <1>2, <1>3
<1> QED BY <1>1, <1>3, <1>4

(* The rest is as it was, but for the laps that count a press late. *)
LEMMA HandCalm ==
  ASSUME HandInv, UNCHANGED <<mode, down, fired, moving>>,
         budget' \in [Inputs -> Nat], \A x \in Inputs : budget'[x] <= Budget[x],
         SameMode' <=> SameMode, NothingLost' => NothingLost, DOMAIN checker' = DOMAIN checker,
         \A i \in DOMAIN checker : /\ checker'[i].pin = checker[i].pin
                                   /\ checker'[i].counter = checker[i].counter
                                   /\ checker'[i].short = checker[i].short
                                   /\ checker'[i].releases = checker[i].releases,
         \A i \in DOMAIN repeats' : \E k \in DOMAIN repeats : repeats'[i].pin = repeats[k].pin
  PROVE  HandInv'
<1>1. \A i \in DOMAIN checker' : Waits(checker[i])'
  BY DEF HandInv, Waits, Has, Doubled
<1>2. Moved'
  BY DEF HandInv, Moved, Has, EntryOf
<1>3. OnePressOneRule'
  BY DEF HandInv, OnePressOneRule
<1>4. DimmingHeld'
  BY DimmingStill DEF HandInv
<1> QED BY <1>1, <1>2, <1>3, <1>4 DEF HandInv

(* Once something was lost, nothing is promised of the hands but their     *)
(* marks and times.                                                        *)
LEMMA HandLost ==
  ASSUME HandInv, UNCHANGED <<mode, checker, fired, moving>>, down' \subseteq Pins, Spend("lost")
  PROVE  HandInv'
<1>1. "lost" \in Inputs /\ "mode" \in Inputs \ {"lost"}
  BY DEF Inputs
<1>2. /\ budget' \in [Inputs -> Nat] /\ \A y \in Inputs : budget'[y] <= Budget[y]
      /\ ~NothingLost' /\ (SameMode' <=> SameMode)
  BY <1>1, Spent DEF NothingLost, SameMode
<1>3. \A i \in DOMAIN checker' : Waits(checker[i])'
  BY <1>2 DEF HandInv, Waits, Has, Doubled
<1>4. Moved' /\ OnePressOneRule' /\ DimmingHeld'
  BY <1>2 DEF HandInv, Moved, OnePressOneRule, DimmingHeld, Has
<1> QED BY <1>2, <1>3, <1>4 DEF HandInv

LEMMA HandDayNight ==
  ASSUME HandInv, PressInv, NEW m \in Modes, DayNight(m)
  PROVE  HandInv'
<1>1. /\ mode' = m /\ Spend("mode") /\ mode \in Modes
      /\ UNCHANGED <<checker, repeats, down, fired, moving>>
  BY DEF DayNight, dimmers, ghosts, HandInv
<1>2. "mode" \in Inputs /\ "lost" \in Inputs \ {"mode"}
  BY DEF Inputs
<1>3. /\ budget' \in [Inputs -> Nat] /\ \A y \in Inputs : budget'[y] <= Budget[y]
      /\ ~SameMode' /\ (NothingLost' <=> NothingLost)
  BY <1>1, <1>2, Spent DEF NothingLost, SameMode
<1>4. \A p \in Pins : Has(p, "shutter") => Has(p, "shutter")'
  BY <1>1, ShutterAssumption DEF Has
<1>5. \A i \in DOMAIN checker : checker[i].pin \in Pins
  BY Places, EntryType DEF PressInv
<1>6. \A i \in DOMAIN checker' : Waits(checker[i])'
  <2> SUFFICES ASSUME NEW i \in DOMAIN checker PROVE Waits(checker[i])'
    BY <1>1
  <2>1. Waits(checker[i]) /\ (Has(checker[i].pin, "shutter") => Has(checker[i].pin, "shutter")')
    BY <1>1, <1>4, <1>5 DEF HandInv, Has
  <2> QED BY <1>1, <1>3, <2>1 DEF Waits, Doubled
<1>7. Moved'
  BY <1>1, <1>3, <1>4 DEF HandInv, Moved, EntryOf
<1>8. OnePressOneRule' /\ DimmingHeld'
  BY <1>1, <1>3 DEF HandInv, OnePressOneRule, DimmingHeld, Doubled
<1> QED BY <1>1, <1>3, <1>6, <1>7, <1>8 DEF HandInv

LEMMA HandPress ==
  ASSUME LampInv, PressInv, HandInv, NEW p \in Pins, Press(p)
  PROVE  HandInv'
<1>1. /\ p \notin down /\ down' = down \cup {p} /\ mode' = mode /\ Spend("press")
      /\ checker \in Seq(CheckerType) /\ fired \in [Pins -> Seq(Holds \cup {"stop"})]
      /\ moving \subseteq Pins /\ down \subseteq Pins /\ repeats \in Seq(RepeatType)
  BY DEF Press, PressInv, HandInv, LampInv
<1>2. "press" \in Inputs /\ {"mode", "lost"} \subseteq Inputs \ {"press"}
  BY DEF Inputs
<1>3. /\ budget' \in [Inputs -> Nat] /\ \A y \in Inputs : budget'[y] <= Budget[y]
      /\ (SameMode' <=> SameMode) /\ (NothingLost' <=> NothingLost)
  BY <1>1, <1>2, Spent DEF NothingLost, SameMode
<1>4. checker' \in Seq(CheckerType)
  BY PressPress DEF PressInv
<1>5. \A i \in EntryOf(p) : checker[i] \in CheckerType /\ checker[i].pin = p /\ Waits(checker[i])
  BY <1>1, Places DEF EntryOf, HandInv
<1>6. p \in moving => Has(p, "shutter") /\ ~NothingLost
  <2>1. NothingLost => \A i \in EntryOf(p) : ~checker[i].short
    BY <1>1, <1>5 DEF Waits
  <2> QED BY <2>1 DEF HandInv, Moved
<1>7. \A i \in DOMAIN repeats : repeats[i].pin \in down => repeats[i].pin \in down'
  BY <1>1
<1>8. {"multi", "normal"} \subseteq Holds /\ {"multi", "normal"} \subseteq Holds \cup {"stop"}
  BY DEF Holds
<1>9. ASSUME NEW h \in {"multi", "normal"}, Rule(p, h, TRUE), repeats' = Dimmed(p, h)
      PROVE  moving' = moving /\ DimmingHeld'
  <2>1. moving' = moving
    BY <1>9 DEF Rule, Shuttered
  <2>2. \A i \in DOMAIN repeats' : \/ \E k \in DOMAIN repeats : repeats'[i].pin = repeats[k].pin
                                   \/ repeats'[i].pin = p
    BY <1>1, <1>8, <1>9, DimmedPins
  <2>3. p \in down'
    BY <1>1
  <2>4. \A i \in DOMAIN repeats' :
           \/ \E k \in DOMAIN repeats : /\ repeats'[i].pin = repeats[k].pin
                                        /\ repeats[k].pin \in down => repeats[k].pin \in down'
           \/ repeats'[i].pin \in down'
    BY <1>7, <2>2, <2>3
  <2> QED BY <1>3, <2>1, <2>4, DimmingStill DEF HandInv
<1>10. CASE /\ Pressed(p) /\ checker' = Without(checker, {checker[i] : i \in EntryOf(p)})
            /\ fired' = Fired(p, "multi") /\ Rule(p, "multi", TRUE) /\ repeats' = Dimmed(p, "multi")
  <2>1. NothingLost => fired[p] = <<>>
    <3>1. PICK i \in EntryOf(p) : TRUE
      BY <1>10 DEF Pressed
    <3> QED BY <1>1, <1>5, <3>1 DEF Waits
  <2>2. /\ fired' \in [Pins -> Seq(Holds \cup {"stop"})] /\ \A q \in Pins \ {p} : fired'[q] = fired[q]
        /\ NothingLost => Len(fired'[p]) <= 1
    BY <1>1, <1>8, <1>10, <2>1, FiredRules
  <2>3. NothingLost' => Len(fired'[p]) <= 1
    BY <1>3, <2>2
  <2>4. moving' = moving /\ DimmingHeld'
    BY <1>9, <1>10
  <2>5. /\ \A i \in DOMAIN checker' : checker'[i].pin # p /\ \E j \in DOMAIN checker : checker'[i] = checker[j]
        /\ \A j \in DOMAIN checker : checker[j].pin # p => \E i \in DOMAIN checker' : checker'[i] = checker[j]
    BY <1>1, <1>10, EntriesWithout
  <2> QED BY <1>1, <1>3, <1>4, <1>6, <2>2, <2>3, <2>4, <2>5, HandOthers
<1>11. CASE /\ ~Pressed(p) /\ fired' = [fired EXCEPT ![p] = <<"normal">>]
            /\ Rule(p, "normal", TRUE) /\ repeats' = Dimmed(p, "normal") /\ UNCHANGED checker
  <2>1. /\ fired' \in [Pins -> Seq(Holds \cup {"stop"})] /\ \A q \in Pins \ {p} : fired'[q] = fired[q]
        /\ Len(fired'[p]) <= 1
    <3>1. <<"normal">> \in Seq(Holds \cup {"stop"}) /\ Len(<<"normal">>) = 1
      BY DEF Holds
    <3> QED BY <1>1, <1>11, <3>1
  <2>2. moving' = moving /\ DimmingHeld'
    BY <1>9, <1>11
  <2>3. \A i \in DOMAIN checker : checker[i].pin # p
    BY <1>11 DEF Pressed, EntryOf
  <2> QED BY <1>1, <1>3, <1>4, <1>6, <1>11, <2>1, <2>2, <2>3, HandOthers
<1>12. CASE /\ ~Pressed(p) /\ fired' = [fired EXCEPT ![p] = <<>>] /\ UNCHANGED <<repeats, moving>>
            /\ checker' = Append(checker, [pin |-> p, counter |-> 0, short |-> FALSE, releases |-> 0, late |-> 0])
  <2> DEFINE e == [pin |-> p, counter |-> 0, short |-> FALSE, releases |-> 0, late |-> 0]
  <2>1. /\ fired' \in [Pins -> Seq(Holds \cup {"stop"})] /\ \A q \in Pins \ {p} : fired'[q] = fired[q]
        /\ fired'[p] = <<>> /\ Len(fired'[p]) <= 1
    <3>1. <<>> \in Seq(Holds \cup {"stop"}) /\ Len(<<>>) = 0
      BY EmptySeq
    <3> QED BY <1>1, <1>12, <3>1
  <2>2. e \in CheckerType
    BY Numbers DEF CheckerType
  <2>3. e.pin = p /\ e.counter = 0 /\ e.short = FALSE /\ e.releases = 0
    OBVIOUS
  <2>4. checker' = Append(checker, e)
    BY <1>12
  <2> HIDE DEF e
  <2>5. /\ Len(checker) \in Nat /\ DOMAIN checker = 1..Len(checker)
        /\ DOMAIN checker' = 1..(Len(checker) + 1)
        /\ \A i \in 1..Len(checker) : checker'[i] = checker[i]
        /\ checker'[Len(checker) + 1] = e
    BY <1>1, <2>2, <2>4, Longer
  <2>6. \A i \in DOMAIN checker' : i \in DOMAIN checker \/ i = Len(checker) + 1
    BY <2>5
  <2>7. \A j \in DOMAIN checker : j \in DOMAIN checker' /\ checker'[j] = checker[j]
    BY <2>5
  <2>8. \A i \in DOMAIN checker : checker[i].pin # p
    BY <1>12 DEF Pressed, EntryOf
  <2>9. \A i \in DOMAIN checker' : checker'[i].pin = p => checker'[i] = e
    BY <2>5, <2>6, <2>8
  <2>10. Waits(e)'
    BY <1>1, <2>1, <2>3, Numbers DEF Waits
  <2>11. \A i \in DOMAIN checker' : checker'[i].pin = p => Waits(checker[i])'
    BY <2>9, <2>10 DEF Waits
  <2>12. \A i \in DOMAIN checker' : checker'[i].pin # p => \E j \in DOMAIN checker : checker'[i] = checker[j]
    BY <2>3, <2>5, <2>6
  <2>13. DimmingHeld'
    BY <1>1, <1>3, <1>7, <1>12, DimmingStill DEF HandInv
  <2>14. \A q \in Pins \ {p} : (q \in down' <=> q \in down) /\ (q \in moving' <=> q \in moving)
    BY <1>1, <1>12
  <2>15. /\ p \in moving' => Has(p, "shutter") /\ ~NothingLost'
         /\ down' \subseteq Pins /\ moving' \subseteq Pins
    BY <1>1, <1>3, <1>6, <1>12
  <2>16. \A j \in DOMAIN checker : checker[j].pin # p => \E i \in DOMAIN checker' : checker'[i] = checker[j]
    BY <2>7
  <2> QED BY <1>1, <1>3, <1>4, <2>1, <2>11, <2>12, <2>13, <2>14, <2>15, <2>16, HandOthers
<1> QED BY <1>10, <1>11, <1>12 DEF Press

(* What a rule does to the shutters of its button. *)
LEMMA ShuttersOf ==
  ASSUME moving \subseteq Pins, NEW p \in Pins, NEW h \in Holds, NEW active \in BOOLEAN,
         moving' = Shuttered(p, h, active)
  PROVE  /\ moving' \subseteq Pins /\ \A q \in Pins \ {p} : q \in moving' <=> q \in moving
         /\ p \in moving' => p \in moving \/ (h = "short" /\ active /\ Has(p, "shutter"))
         /\ p \in moving' /\ Has(p, "shutter") => h \notin {"short", "long"} \/ (h = "short" /\ active)
BY DEF Shuttered

LEMMA HandRelease ==
  ASSUME LampInv, PressInv, HandInv, NEW p \in Pins, Release(p)
  PROVE  HandInv'
<1>1. /\ p \in down /\ down' = down \ {p} /\ UNCHANGED <<mode, budget>>
      /\ checker \in Seq(CheckerType) /\ fired \in [Pins -> Seq(Holds \cup {"stop"})]
      /\ moving \subseteq Pins /\ down \subseteq Pins /\ repeats \in Seq(RepeatType) /\ Distinct
      /\ mode \in Modes
  BY DEF Release, PressInv, HandInv, LampInv
<1>2. /\ budget' \in [Inputs -> Nat] /\ \A y \in Inputs : budget'[y] <= Budget[y]
      /\ (SameMode' <=> SameMode) /\ (NothingLost' <=> NothingLost)
  BY <1>1 DEF NothingLost, SameMode, HandInv
<1>3. checker' \in Seq(CheckerType)
  BY PressRelease DEF PressInv
<1>4. \A q \in Pins \ {p} : q \in down' <=> q \in down
  BY <1>1
<1>5. DimmingHeld'
  <2> DEFINE T == {r \in ToSet(repeats) : r.pin = p}
  <2>1. repeats' = Without(repeats, T)
    BY DEF Release
  <2>2. \A k \in DOMAIN repeats : repeats[k] \in T <=> repeats[k].pin = p
    BY DEF ToSet
  <2> HIDE DEF T
  <2>3. Without(repeats, T) \in Seq(RepeatType \ T)
    BY <1>1, WithoutKeeps
  <2>4. DOMAIN repeats' = 1..Len(repeats')
    BY <2>1, <2>3, LenProperties
  <2>5. \A i \in 1..Len(repeats') : repeats'[i] \in RepeatType \ T
    BY <2>1, <2>3, ElementOfSeq
  <2>6. PICK f : Embeds(repeats', repeats, T, Len(repeats), f)
    BY <1>1, <2>1, WithoutPlaces
  <2>7. DOMAIN repeats = 1..Len(repeats)
    BY <1>1, LenProperties
  <2>8. \A i \in DOMAIN repeats' : f[i] \in DOMAIN repeats /\ repeats'[i] = repeats[f[i]]
    BY <2>4, <2>6, <2>7 DEF Embeds
  <2>9. ASSUME NEW i \in DOMAIN repeats'
        PROVE  \E k \in DOMAIN repeats : /\ repeats'[i].pin = repeats[k].pin
                                         /\ repeats[k].pin \in down => repeats[k].pin \in down'
    <3>1. f[i] \in DOMAIN repeats /\ repeats'[i] = repeats[f[i]] /\ repeats'[i] \notin T
      BY <2>4, <2>5, <2>8
    <3>2. repeats[f[i]].pin # p
      BY <2>2, <3>1
    <3>3. repeats[f[i]].pin \in down => repeats[f[i]].pin \in down'
      BY <1>1, <3>2
    <3> QED BY <3>1, <3>3
  <2> QED BY <1>2, <2>9, DimmingStill DEF HandInv
<1>6. CASE ~Pressed(p) /\ NoRule /\ UNCHANGED checker
  <2>1. UNCHANGED <<fired, moving>>
    BY <1>6 DEF NoRule, ghosts
  <2>2. \A i \in DOMAIN checker : checker[i].pin # p
    BY <1>6 DEF Pressed, EntryOf
  <2>3. p \in moving => Has(p, "shutter") /\ ~NothingLost
    BY <1>6 DEF HandInv, Moved, Pressed
  <2>4. NothingLost => Len(fired[p]) <= 1 \/ fired[p] \in {<<"short", "stop">>, <<"short", "long">>}
    BY DEF HandInv, OnePressOneRule
  <2> QED BY <1>1, <1>2, <1>3, <1>4, <1>5, <1>6, <2>1, <2>2, <2>3, <2>4, HandOthers
<1>7. ASSUME NEW i \in EntryOf(p)
      PROVE  /\ i \in DOMAIN checker /\ checker[i] \in CheckerType /\ checker[i].pin = p
             /\ Waits(checker[i]) /\ HeldFor(checker[i]) \in Holds
             /\ \A j \in EntryOf(p) : j = i
  BY <1>1, PinOfEntry DEF EntryOf, HandInv, Distinct
<1>8. ASSUME NEW i \in EntryOf(p), Answers(p, i)
      PROVE  HandInv'
  <2> DEFINE h == HeldFor(checker[i])
             rule == IF h = "short" THEN "stop" ELSE h
  <2>1. /\ checker' = RemoveAt(checker, i) /\ fired' = Fired(p, rule) /\ Rule(p, h, h # "short")
    BY <1>8 DEF Answers
  <2>2. checker[i].short => h \in {"short", "long"} /\ Has(p, "shutter")
    <3>1. checker[i].counter \in Nat
      BY <1>7, EntryType, Numbers
    <3> QED BY <1>7, <3>1, Numbers DEF Waits, HeldFor
  <2>3. h \in Holds /\ rule \in Holds \cup {"stop"} /\ (h \in {"short", "long"} => rule \in {"stop", "long"})
    BY <1>7 DEF Holds
  <2> HIDE DEF h, rule
  <2>4. /\ fired' \in [Pins -> Seq(Holds \cup {"stop"})] /\ \A q \in Pins \ {p} : fired'[q] = fired[q]
        /\ fired[p] = <<>> => Len(fired'[p]) <= 1
        /\ fired[p] = <<"short">> => fired'[p] = <<"short", rule>>
    BY <1>1, <2>1, <2>3, FiredRules
  <2>5. NothingLost' => Len(fired'[p]) <= 1 \/ fired'[p] \in {<<"short", "stop">>, <<"short", "long">>}
    <3>1. NothingLost => fired[p] = IF checker[i].short THEN <<"short">> ELSE <<>>
      BY <1>7 DEF Waits
    <3> QED BY <1>2, <2>2, <2>3, <2>4, <3>1
  <2>6. (h # "short") \in BOOLEAN /\ moving' = Shuttered(p, h, h # "short")
    BY <2>1 DEF Rule
  <2>7. /\ moving' \subseteq Pins /\ \A q \in Pins \ {p} : q \in moving' <=> q \in moving
        /\ p \in moving' => p \in moving
        /\ p \in moving' /\ Has(p, "shutter") => h \notin {"short", "long"}
    BY <1>1, <2>3, <2>6, ShuttersOf
  <2>8. p \in moving' => Has(p, "shutter") /\ ~NothingLost'
    <3>1. p \in moving => Has(p, "shutter") /\ (NothingLost => checker[i].short)
      BY <1>7 DEF HandInv, Moved
    <3> QED BY <1>2, <2>2, <2>7, <3>1
  <2>9. /\ \A k \in DOMAIN checker' : checker'[k].pin # p /\ \E j \in DOMAIN checker : checker'[k] = checker[j]
        /\ \A j \in DOMAIN checker : checker[j].pin # p => \E k \in DOMAIN checker' : checker'[k] = checker[j]
    BY <1>1, <1>7, <2>1, EntriesRemoved
  <2> QED BY <1>1, <1>2, <1>3, <1>4, <1>5, <2>4, <2>5, <2>7, <2>8, <2>9, HandOthers
<1>9. ASSUME NEW i \in EntryOf(p), WaitsForSecond(i), Has(p, "double"), ~checker[i].short
      PROVE  HandInv'
  <2>1. UNCHANGED <<fired, moving>>
    BY <1>9 DEF WaitsForSecond, NoRule, ghosts
  <2>2. p \in moving => Has(p, "shutter") /\ ~NothingLost'
    BY <1>2, <1>7, <1>9 DEF HandInv, Moved
  <2>3. NothingLost => Len(fired[p]) <= 1 \/ fired[p] \in {<<"short", "stop">>, <<"short", "long">>}
    BY DEF HandInv, OnePressOneRule
  <2>4. CASE checker' = RemoveAt(checker, i)
    <3>1. /\ \A k \in DOMAIN checker' : checker'[k].pin # p /\ \E j \in DOMAIN checker : checker'[k] = checker[j]
          /\ \A j \in DOMAIN checker : checker[j].pin # p => \E k \in DOMAIN checker' : checker'[k] = checker[j]
      BY <1>1, <1>7, <2>4, EntriesRemoved
    <3> QED BY <1>1, <1>2, <1>3, <1>4, <1>5, <2>1, <2>2, <2>3, <3>1, HandOthers
  <2>5. CASE checker' = [checker EXCEPT ![i].releases = @ + 1]
    <3>0. PICK e : e = [checker[i] EXCEPT !.releases = @ + 1]
      OBVIOUS
    <3>1. /\ e.pin = p /\ e.releases = checker[i].releases + 1 /\ e.short = FALSE
          /\ checker[i].releases \in Nat
      BY <1>7, <1>9, <3>0 DEF CheckerType
    <3>2. checker' = [checker EXCEPT ![i] = e]
      BY <2>5, <3>0
    <3>3. /\ DOMAIN checker' = DOMAIN checker /\ checker'[i] = e
          /\ \A j \in DOMAIN checker : j # i => checker'[j] = checker[j] /\ checker[j].pin # p
      BY <1>1, <1>7, <3>2 DEF EntryOf
    <3>4. Waits(e)'
      <4>1. e.releases # 0 /\ Doubled(p)
        BY <1>1, <1>9, <3>1 DEF Has, Doubled
      <4>2. NothingLost => e.releases = 1 /\ fired[p] = <<>>
        BY <1>1, <1>7, <1>9, <3>1 DEF Waits
      <4>3. e.pin \notin down'
        BY <1>1, <3>1
      <4> QED BY <1>2, <2>1, <3>1, <4>1, <4>2, <4>3 DEF Waits, Doubled
    <3>5. \A k \in DOMAIN checker' : checker'[k].pin = p => checker'[k] = e
      BY <3>3
    <3>6. \A k \in DOMAIN checker' : checker'[k].pin = p => Waits(checker[k])'
      BY <3>4, <3>5 DEF Waits
    <3>7. \A k \in DOMAIN checker' : checker'[k].pin # p => \E j \in DOMAIN checker : checker'[k] = checker[j]
      BY <3>1, <3>3
    <3>8. \A j \in DOMAIN checker : checker[j].pin # p => \E k \in DOMAIN checker' : checker'[k] = checker[j]
      BY <1>7, <3>3
    <3> QED BY <1>1, <1>2, <1>3, <1>4, <1>5, <2>1, <2>2, <2>3, <3>6, <3>7, <3>8, HandOthers
  <2> QED BY <1>9, <2>4, <2>5 DEF WaitsForSecond
<1> QED BY <1>6, <1>8, <1>9 DEF Release, Released

(* The press at the index of the loop. *)
LEMMA HandAtPlace ==
  ASSUME LampInv, PressInv, HandInv, pc \in {"hold", "double", "long"}, it \in DOMAIN checker
  PROVE  /\ checker[it] \in CheckerType /\ checker[it].pin \in Pins /\ Waits(checker[it])
         /\ checker[it].releases \in Nat /\ it \in EntryOf(checker[it].pin)
         /\ \A j \in EntryOf(checker[it].pin) : j = it
         /\ checker[it].pin \in moving =>
              Has(checker[it].pin, "shutter") /\ (NothingLost => checker[it].short)
         /\ NothingLost => fired[checker[it].pin] = IF checker[it].short THEN <<"short">> ELSE <<>>
<1>1. /\ checker[it] \in CheckerType /\ checker[it].pin \in Pins /\ checker[it].releases \in Nat
      /\ Waits(checker[it])
  BY Places, EntryType DEF PressInv, HandInv
<1>2. it \in EntryOf(checker[it].pin) /\ \A j \in EntryOf(checker[it].pin) : j = it
  BY DEF EntryOf, PressInv, Distinct
<1>3. checker[it].pin \in moving => Has(checker[it].pin, "shutter") /\ (NothingLost => checker[it].short)
  BY <1>2 DEF HandInv, Moved
<1> QED BY <1>1, <1>2, <1>3 DEF Waits

(* A rule that answers the press at the index of the loop for good. *)
LEMMA HandAnswered ==
  ASSUME LampInv, PressInv, PressInv', HandInv, pc \in {"hold", "double", "long"}, it \in DOMAIN checker,
         UNCHANGED <<mode, budget, down>>, NEW h \in {"normal", "short", "long"},
         checker' = RemoveAt(checker, it),
         Rule(checker[it].pin, h, TRUE), repeats' = Dimmed(checker[it].pin, h),
         fired' = Fired(checker[it].pin, h),
         h = "short" => ~Has(checker[it].pin, "shutter"),
         h = "normal" => checker[it].releases # 0,
         checker[it].short => h = "long",
         NothingLost => \/ checker[it].releases = 0 \/ h = "normal"
                        \/ h = "long" /\ ~SameMode
  PROVE  HandInv'
<1> DEFINE p == checker[it].pin
<1>1. /\ checker \in Seq(CheckerType) /\ checker' \in Seq(CheckerType) /\ Distinct /\ repeats \in Seq(RepeatType)
      /\ fired \in [Pins -> Seq(Holds \cup {"stop"})] /\ moving \subseteq Pins /\ down' \subseteq Pins
      /\ budget' \in [Inputs -> Nat] /\ \A y \in Inputs : budget'[y] <= Budget[y]
      /\ (SameMode' <=> SameMode) /\ (NothingLost' <=> NothingLost)
  BY DEF PressInv, HandInv, LampInv, SameMode, NothingLost
<1>2. /\ p \in Pins /\ h \in Holds /\ h \in Holds \cup {"stop"} /\ TRUE \in BOOLEAN
      /\ checker[it].releases \in Nat
  BY HandAtPlace DEF Holds
<1>3. NothingLost => fired[p] = IF checker[it].short THEN <<"short">> ELSE <<>>
  BY HandAtPlace
<1>4. p \in moving => Has(p, "shutter") /\ (NothingLost => checker[it].short)
  BY HandAtPlace
<1>5. checker[it].releases # 0 => Doubled(p)
  BY HandAtPlace DEF Waits
<1>6. NothingLost => (checker[it].releases = 0 <=> p \in down)
  BY HandAtPlace DEF Waits
<1> HIDE DEF p
<1>7. PICK q : q = p
  OBVIOUS
<1>8. /\ fired' \in [Pins -> Seq(Holds \cup {"stop"})] /\ \A r \in Pins \ {q} : fired'[r] = fired[r]
      /\ NothingLost' => Len(fired'[q]) <= 1 \/ fired'[q] \in {<<"short", "stop">>, <<"short", "long">>}
  <2>1. fired' = Fired(p, h)
    BY DEF p
  <2>2. /\ fired' \in [Pins -> Seq(Holds \cup {"stop"})] /\ \A r \in Pins \ {p} : fired'[r] = fired[r]
        /\ fired[p] = <<>> => Len(fired'[p]) <= 1
        /\ fired[p] = <<"short">> => fired'[p] = <<"short", h>>
    BY <1>1, <1>2, <2>1, FiredRules
  <2> QED BY <1>1, <1>3, <1>7, <2>2
<1>9. /\ moving' \subseteq Pins /\ \A r \in Pins \ {q} : r \in moving' <=> r \in moving
      /\ q \in moving' => Has(q, "shutter") /\ ~NothingLost'
  <2>1. moving' = Shuttered(p, h, TRUE)
    BY DEF Rule, p
  <2>2. /\ moving' \subseteq Pins /\ \A r \in Pins \ {p} : r \in moving' <=> r \in moving
        /\ p \in moving' => p \in moving \/ (h = "short" /\ Has(p, "shutter"))
        /\ p \in moving' /\ Has(p, "shutter") => h \notin {"short", "long"} \/ h = "short"
    BY <1>1, <1>2, <2>1, ShuttersOf
  <2>3. h = "short" => ~Has(p, "shutter")
    BY DEF p
  <2> QED BY <1>1, <1>4, <1>7, <2>2, <2>3
<1>10. /\ \A i \in DOMAIN checker' : checker'[i].pin # q /\ \E j \in DOMAIN checker : checker'[i] = checker[j]
       /\ \A j \in DOMAIN checker : checker[j].pin # q => \E i \in DOMAIN checker' : checker'[i] = checker[j]
  <2>1. checker[it].pin = q
    BY <1>7 DEF p
  <2> QED BY <1>1, <2>1, EntriesRemoved
<1>11. DimmingHeld'
  <2>1. repeats' = Dimmed(p, h)
    BY DEF p
  <2>2. \A i \in DOMAIN repeats' : \/ \E k \in DOMAIN repeats : repeats'[i].pin = repeats[k].pin
                                   \/ repeats'[i].pin = p /\ <<p, h>> \in Dims
    BY <1>1, <1>2, <2>1, DimmedPins
  <2>3. NothingLost /\ <<p, h>> \in Dims =>
          \/ p \in down'
          \/ /\ Doubled(p)
             /\ <<p, "normal">> \in Dims \/ (~SameMode /\ <<p, "long">> \in Dims)
    BY <1>2, <1>5, <1>6
  <2> QED BY <1>1, <2>2, <2>3, DimmingStill DEF HandInv
<1> QED BY <1>1, <1>2, <1>7, <1>8, <1>9, <1>10, <1>11, HandOthers

LEMMA HandLong ==
  ASSUME LampInv, PressInv, PressInv', HandInv, CheckLong
  PROVE  HandInv'
<1>1. pc = "long" /\ UNCHANGED <<mode, budget, down>> /\ Current
  BY DEF CheckLong, Current
<1>2. CASE counter > LONG_PIN_RULE
  <2>1. /\ checker' = RemoveAt(checker, it) /\ Rule(checker[it].pin, "long", TRUE)
        /\ repeats' = Dimmed(checker[it].pin, "long") /\ fired' = Fired(checker[it].pin, "long")
    BY <1>2 DEF CheckLong
  <2>2. it \in DOMAIN checker /\ (SameMode => checker[it].releases # 1) /\ checker[it].releases \in Nat
    BY <1>1, <1>2, TimeAtPlace
  <2>3. NothingLost => checker[it].releases <= 1
    BY <1>1, <2>2, HandAtPlace DEF Waits
  <2>4. NothingLost => checker[it].releases = 0 \/ ~SameMode
    BY <2>2, <2>3
  <2>5. PICK h \in {"normal", "short", "long"} : h = "long"
    OBVIOUS
  <2>6. /\ Rule(checker[it].pin, h, TRUE) /\ repeats' = Dimmed(checker[it].pin, h)
        /\ fired' = Fired(checker[it].pin, h)
    BY <2>1, <2>5
  <2>7. /\ h = "short" => ~Has(checker[it].pin, "shutter")
        /\ h = "normal" => checker[it].releases # 0
        /\ checker[it].short => h = "long"
        /\ NothingLost => checker[it].releases = 0 \/ h = "normal" \/ (h = "long" /\ ~SameMode)
    BY <2>4, <2>5
  <2> QED BY <1>1, <2>1, <2>2, <2>6, <2>7, HandAnswered
<1>3. CASE ~(counter > LONG_PIN_RULE)
  <2>1. UNCHANGED <<checker, repeats, fired, moving>>
    BY <1>3 DEF CheckLong, NoRule, ghosts
  <2> QED BY <1>1, <2>1, HandCalm DEF HandInv, SameMode, NothingLost
<1> QED BY <1>2, <1>3

LEMMA HandDouble ==
  ASSUME LampInv, PressInv, PressInv', HandInv, CheckDouble
  PROVE  HandInv'
<1>1. pc = "double" /\ UNCHANGED <<mode, budget, down>> /\ Current
  BY DEF CheckDouble, Current
<1>2. CASE counter > DOUBLE_PIN_THRESHOLD /\ checker[it].releases = 1
  <2>1. /\ checker' = RemoveAt(checker, it) /\ Rule(checker[it].pin, "normal", TRUE)
        /\ repeats' = Dimmed(checker[it].pin, "normal") /\ fired' = Fired(checker[it].pin, "normal")
    BY <1>2 DEF CheckDouble, Erased
  <2>2. it \in DOMAIN checker
    BY <1>1, TimeAtPlace
  <2>3. ~checker[it].short
    BY <1>1, <1>2, <2>2, HandAtPlace DEF Waits
  <2>4. PICK h \in {"normal", "short", "long"} : h = "normal"
    OBVIOUS
  <2>5. /\ Rule(checker[it].pin, h, TRUE) /\ repeats' = Dimmed(checker[it].pin, h)
        /\ fired' = Fired(checker[it].pin, h)
    BY <2>1, <2>4
  <2>6. /\ h = "short" => ~Has(checker[it].pin, "shutter")
        /\ h = "normal" => checker[it].releases # 0
        /\ checker[it].short => h = "long"
        /\ NothingLost => checker[it].releases = 0 \/ h = "normal" \/ (h = "long" /\ ~SameMode)
    BY <1>2, <2>3, <2>4
  <2> QED BY <1>1, <2>1, <2>2, <2>5, <2>6, HandAnswered
<1>3. CASE ~(counter > DOUBLE_PIN_THRESHOLD /\ checker[it].releases = 1)
  <2>1. UNCHANGED <<checker, repeats, fired, moving>>
    BY <1>3 DEF CheckDouble, NoRule, ghosts
  <2> QED BY <1>1, <2>1, HandCalm DEF HandInv, SameMode, NothingLost
<1> QED BY <1>2, <1>3

LEMMA HandHold ==
  ASSUME LampInv, PressInv, PressInv', HandInv, CheckHold
  PROVE  HandInv'
<1>1. pc = "hold" /\ it \in DOMAIN checker /\ UNCHANGED <<mode, budget, down>>
  BY DEF CheckHold
<1>2. PICK e, p : e = checker[it] /\ p = e.pin
  OBVIOUS
<1>3. /\ e \in CheckerType /\ p \in Pins /\ Waits(e) /\ it \in EntryOf(p) /\ e.releases \in Nat
      /\ e.counter \in Nat
      /\ p \in moving => Has(p, "shutter") /\ (NothingLost => e.short)
      /\ NothingLost => fired[p] = IF e.short THEN <<"short">> ELSE <<>>
      /\ \A j \in EntryOf(p) : j = it
  BY <1>1, <1>2, HandAtPlace, EntryType, Numbers
<1> DEFINE fires == /\ counter' > SHORT_PIN_RULE /\ e.releases = 0
                    /\ IF Has(p, "shutter") THEN counter' = SHORT_PIN_RULE + 1 ELSE ~Has(p, "long")
<1>4. /\ counter' = e.counter + 1
      /\ IF fires THEN /\ Rule(p, "short", TRUE) /\ repeats' = Dimmed(p, "short")
                       /\ fired' = Fired(p, "short")
         ELSE UNCHANGED <<repeats, fired, moving>>
      /\ IF fires /\ ~Has(p, "shutter") THEN checker' = RemoveAt(checker, it)
         ELSE checker' = [checker EXCEPT ![it].counter = counter', ![it].short = @ \/ fires,
                                         ![it].late = @ - (counter' - e.counter)]
  BY <1>2 DEF CheckHold, NoRule, ghosts, Erased
<1>5. /\ checker \in Seq(CheckerType) /\ checker' \in Seq(CheckerType) /\ repeats \in Seq(RepeatType)
      /\ fired \in [Pins -> Seq(Holds \cup {"stop"})] /\ moving \subseteq Pins /\ down' \subseteq Pins
      /\ budget' \in [Inputs -> Nat] /\ \A y \in Inputs : budget'[y] <= Budget[y]
      /\ (SameMode' <=> SameMode) /\ (NothingLost' <=> NothingLost) /\ DimmingHeld
  BY <1>1 DEF PressInv, HandInv, LampInv, SameMode, NothingLost
<1>6. NothingLost => (e.releases = 0 <=> p \in down)
  BY <1>2, <1>3 DEF Waits
<1>7. "short" \in Holds /\ "short" \in Holds \cup {"stop"} /\ TRUE \in BOOLEAN
  BY DEF Holds
<1>8. CASE fires /\ ~Has(p, "shutter")
  <2>1. ~e.short
    BY <1>2, <1>3, <1>8 DEF Waits
  <2>2. PICK h \in {"normal", "short", "long"} : h = "short"
    OBVIOUS
  <2>3. /\ Rule(checker[it].pin, h, TRUE) /\ repeats' = Dimmed(checker[it].pin, h)
        /\ fired' = Fired(checker[it].pin, h) /\ checker' = RemoveAt(checker, it)
    BY <1>2, <1>4, <1>8, <2>2
  <2>4. /\ h = "short" => ~Has(checker[it].pin, "shutter")
        /\ h = "normal" => checker[it].releases # 0
        /\ checker[it].short => h = "long"
        /\ NothingLost => checker[it].releases = 0 \/ h = "normal" \/ (h = "long" /\ ~SameMode)
    BY <1>2, <1>8, <2>1, <2>2
  <2> QED BY <1>1, <2>3, <2>4, HandAnswered
<1>9. CASE ~(fires /\ ~Has(p, "shutter"))
  <2>1. PICK d : d = [e EXCEPT !.counter = counter', !.short = @ \/ fires,
                               !.late = @ - (counter' - e.counter)]
    OBVIOUS
  <2>2. checker' = [checker EXCEPT ![it] = d]
    BY <1>2, <1>4, <1>9, <2>1
  <2>3. d.pin = p /\ d.counter = e.counter + 1 /\ d.short = (e.short \/ fires) /\ d.releases = e.releases
    <3>1. e.short \in BOOLEAN
      BY <1>3, EntryType
    <3> HIDE DEF fires
    <3> QED BY <1>2, <1>3, <1>4, <2>1 DEF CheckerType
  <2>4. /\ DOMAIN checker' = DOMAIN checker /\ checker'[it] = d
        /\ \A j \in DOMAIN checker : j # it => checker'[j] = checker[j] /\ checker[j].pin # p
    BY <1>1, <1>3, <2>2 DEF EntryOf
  <2>5. fires => ~e.short /\ Has(p, "shutter")
    BY <1>2, <1>3, <1>4, <1>9, Numbers DEF Waits
  <2>6. /\ fired' \in [Pins -> Seq(Holds \cup {"stop"})] /\ \A q \in Pins \ {p} : fired'[q] = fired[q]
        /\ NothingLost => fired'[p] = IF d.short THEN <<"short">> ELSE <<>>
    <3>1. CASE fires
      <4>1. fired' = Fired(p, "short")
        BY <1>4, <3>1
      <4>2. Append(<<>>, "short") = <<"short">>
        OBVIOUS
      <4>3. NothingLost => fired'[p] = <<"short">>
        BY <1>3, <1>5, <2>5, <3>1, <4>1, <4>2 DEF Fired
      <4>4. d.short
        BY <2>3, <3>1
      <4> QED BY <1>3, <1>5, <1>7, <4>1, <4>3, <4>4, FiredRules
    <3>2. CASE ~fires
      BY <1>3, <1>4, <1>5, <2>3, <3>2
    <3> QED BY <3>1, <3>2
  <2>7. Waits(d)'
    <3>1. d.short => d.releases = 0 /\ Has(d.pin, "shutter") /\ d.counter > SHORT_PIN_RULE
      <4>1. e.short => e.releases = 0 /\ Has(p, "shutter") /\ e.counter > SHORT_PIN_RULE
        BY <1>2, <1>3 DEF Waits
      <4>2. fires => e.releases = 0 /\ Has(p, "shutter") /\ counter' > SHORT_PIN_RULE
        BY <2>5
      <4> HIDE DEF fires
      <4>3. d.counter = counter' /\ (e.counter > SHORT_PIN_RULE => counter' > SHORT_PIN_RULE)
        BY <1>3, <1>4, <2>3, Numbers
      <4> QED BY <2>3, <4>1, <4>2, <4>3
    <3>2. d.releases # 0 => Doubled(d.pin)
      BY <1>2, <1>3, <2>3 DEF Waits
    <3>3. SameMode /\ d.releases = 0 /\ ~Has(d.pin, "shutter") /\ ~Has(d.pin, "long")
            => d.counter <= SHORT_PIN_RULE
      BY <1>3, <1>4, <1>9, <2>3, Numbers
    <3>4. NothingLost => /\ d.releases <= 1 /\ (d.releases = 0 <=> d.pin \in down)
      BY <1>2, <1>3, <2>3 DEF Waits
    <3> QED BY <1>1, <1>5, <2>3, <2>6, <3>1, <3>2, <3>3, <3>4 DEF Waits, Has, Doubled
  <2>8. \A i \in DOMAIN checker' : checker'[i].pin = p => checker'[i] = d
    BY <2>4
  <2>9. \A i \in DOMAIN checker' : checker'[i].pin = p => Waits(checker[i])'
    BY <2>7, <2>8 DEF Waits
  <2>10. \A i \in DOMAIN checker' : checker'[i].pin # p => \E j \in DOMAIN checker : checker'[i] = checker[j]
    BY <2>3, <2>4
  <2>11. \A j \in DOMAIN checker : checker[j].pin # p => \E i \in DOMAIN checker' : checker'[i] = checker[j]
    BY <1>2, <2>4
  <2>12. it \in EntryOf(p)' /\ (checker'[it].short <=> (e.short \/ fires))
    BY <1>1, <2>3, <2>4 DEF EntryOf
  <2>13. /\ moving' \subseteq Pins /\ \A q \in Pins \ {p} : q \in moving' <=> q \in moving
         /\ p \in moving' => Has(p, "shutter") /\ (NothingLost => e.short \/ fires)
    <3>1. CASE fires
      <4>1. moving' = Shuttered(p, "short", TRUE)
        BY <1>4, <3>1 DEF Rule
      <4> QED BY <1>3, <1>5, <1>7, <2>5, <3>1, <4>1, ShuttersOf
    <3>2. CASE ~fires
      BY <1>3, <1>4, <1>5, <3>2
    <3> QED BY <3>1, <3>2
  <2>14. p \in moving' => /\ Has(p, "shutter")
                          /\ NothingLost' => \E i \in EntryOf(p)' : checker'[i].short
    BY <1>5, <2>12, <2>13
  <2>15. NothingLost' => Len(fired'[p]) <= 1 \/ fired'[p] \in {<<"short", "stop">>, <<"short", "long">>}
    <3>1. Len(<<>>) <= 1 /\ Len(<<"short">>) <= 1
      OBVIOUS
    <3> QED BY <1>5, <2>6, <3>1
  <2>16. DimmingHeld'
    <3>1. CASE fires
      <4>1. NothingLost => p \in down'
        BY <1>1, <1>6, <3>1
      <4>2. \A i \in DOMAIN repeats' : \/ \E k \in DOMAIN repeats : repeats'[i].pin = repeats[k].pin
                                       \/ repeats'[i].pin = p
        BY <1>3, <1>4, <1>5, <1>7, <3>1, DimmedPins
      <4> QED BY <1>1, <1>5, <4>1, <4>2, DimmingStill
    <3>2. CASE ~fires
      BY <1>1, <1>4, <1>5, <3>2, DimmingStill
    <3> QED BY <3>1, <3>2
  <2>17. \A q \in Pins \ {p} : q \in down' <=> q \in down
    BY <1>1
  <2> HIDE DEF fires
  <2> QED BY <1>1, <1>3, <1>5, <2>6, <2>9, <2>10, <2>11, <2>13, <2>14, <2>15, <2>16, <2>17, HandOthers
<1> QED BY <1>8, <1>9

(* Every step keeps what is known of the hands. *)
LEMMA HandNext ==
  ASSUME LampInv, PressInv, PressInv', HandInv, [Next]_vars
  PROVE  HandInv'
<1>1. CASE Fingers
  <2>1. ASSUME NEW p \in Pins, Unheard(p) PROVE HandInv'
    BY <2>1, HandLost DEF Unheard, HandInv, ghosts
  <2> QED BY <1>1, <2>1, HandPress, HandRelease DEF Fingers
<1>2. CASE Modeswitch
  BY <1>2, HandDayNight DEF Modeswitch
<1>3. CASE Mesh
  <2>1. ASSUME NEW k, Answer(k) PROVE HandInv'
    BY <2>1, HandCalm DEF Answer, HandInv, ghosts, SameMode, NothingLost
  <2>2. ASSUME NEW k, GiveUp(k) PROVE HandInv'
    BY <2>2, HandLost DEF GiveUp, HandInv, ghosts
  <2> QED BY <1>3, <2>1, <2>2 DEF Mesh
<1>4. CASE Laps
  <2>1. PICK full : Lap(full)
    BY <1>4 DEF Laps
  <2>2. /\ checker' = [i \in DOMAIN checker |-> [checker[i] EXCEPT !.late = Later(@)]]
        /\ UNCHANGED <<mode, repeats, down, fired, moving>> /\ (UNCHANGED budget \/ Spend("busy"))
    BY <2>1 DEF Lap, ghosts
  <2>3. "busy" \in Inputs /\ {"mode", "lost"} \subseteq Inputs \ {"busy"}
    BY DEF Inputs
  <2>4. /\ budget' \in [Inputs -> Nat] /\ \A y \in Inputs : budget'[y] <= Budget[y]
        /\ (SameMode' <=> SameMode) /\ (NothingLost' <=> NothingLost)
    <3>1. CASE UNCHANGED budget
      BY <3>1 DEF HandInv, SameMode, NothingLost
    <3>2. CASE Spend("busy")
      BY <2>3, <3>2, Spent DEF SameMode, NothingLost
    <3> QED BY <2>2, <3>1, <3>2
  <2>5. \A i \in DOMAIN checker : checker[i] \in CheckerType
    BY Places DEF PressInv
  <2>6. DOMAIN checker' = DOMAIN checker
    BY <2>2
  <2>7. ASSUME NEW i \in DOMAIN checker
        PROVE  /\ checker'[i].pin = checker[i].pin /\ checker'[i].counter = checker[i].counter
               /\ checker'[i].short = checker[i].short /\ checker'[i].releases = checker[i].releases
    <3>1. checker'[i] = [checker[i] EXCEPT !.late = Later(@)]
      BY <2>2
    <3> QED BY <2>5, <3>1 DEF CheckerType
  <2>8. \A i \in DOMAIN repeats' : \E k \in DOMAIN repeats : repeats'[i].pin = repeats[k].pin
    BY <2>2
  <2> QED BY <2>2, <2>4, <2>6, <2>7, <2>8, HandCalm
<1>5. CASE Rules
  <2>1. ASSUME RulesDone PROVE HandInv'
    BY <2>1, HandCalm DEF RulesDone, HandInv, dimmers, ghosts, SameMode, NothingLost
  <2> QED BY <1>5, <2>1, HandHold, HandDouble, HandLong DEF Rules
<1>6. CASE Repeats
  <2>1. ASSUME RepeatsDone PROVE HandInv'
    BY <2>1, HandCalm DEF RepeatsDone, HandInv, dimmers, ghosts, SameMode, NothingLost
  <2>2. ASSUME Repeat PROVE HandInv'
    <3>1. /\ it \in DOMAIN repeats /\ repeats \in Seq(RepeatType)
          /\ UNCHANGED <<mode, checker, down, fired, moving, budget>>
      BY <2>2 DEF Repeat, LampInv, ghosts
    <3>2. DOMAIN repeats = 1..Len(repeats) /\ Len(repeats) \in Nat /\ \A k \in DOMAIN repeats : repeats[k] \in RepeatType
      BY <3>1, LenProperties, ElementOfSeq
    <3>3. \A i \in DOMAIN repeats' : \E k \in DOMAIN repeats : repeats'[i].pin = repeats[k].pin
      <4>1. CASE repeats' = RemoveAt(repeats, it)
        <5>1. /\ DOMAIN repeats' = 1..(Len(repeats) - 1)
              /\ \A i \in 1..(Len(repeats) - 1) : repeats'[i] = repeats[IF i < it THEN i ELSE i + 1]
          BY <3>1, <3>2, <4>1, RemovedPlaces
        <5>2. \A i \in 1..(Len(repeats) - 1) : (IF i < it THEN i ELSE i + 1) \in DOMAIN repeats
          BY <3>1, <3>2
        <5> QED BY <5>1, <5>2
      <4>2. CASE \E e : e.pin = repeats[it].pin /\ repeats' = [repeats EXCEPT ![it] = e]
        BY <3>1, <3>2, <4>2
      <4>3. CASE UNCHANGED repeats
        BY <4>3
      <4> DEFINE r == repeats[it]
                 n == NextLevel(r)
      <4>4. \/ UNCHANGED repeats \/ repeats' = RemoveAt(repeats, it)
            \/ repeats' = [repeats EXCEPT ![it] = [r EXCEPT !.count = r.count + 1]]
            \/ repeats' = [repeats EXCEPT ![it] = [r EXCEPT !.count = 0, !.level = n]]
        BY <2>2 DEF Repeat
      <4> HIDE DEF n
      <4>5. /\ [r EXCEPT !.count = r.count + 1].pin = r.pin
            /\ [r EXCEPT !.count = 0, !.level = n].pin = r.pin
        <5>1. r \in RepeatType
          BY <3>2, <3>1
        <5> HIDE DEF r
        <5> QED BY <5>1 DEF RepeatType
      <4> QED BY <4>1, <4>2, <4>3, <4>4, <4>5
    <3> QED BY <3>1, <3>3, HandCalm DEF HandInv, SameMode, NothingLost
  <2> QED BY <1>6, <2>1, <2>2 DEF Repeats
<1>7. CASE UNCHANGED vars
  BY <1>7, HandCalm DEF vars, HandInv, dimmers, ghosts, SameMode, NothingLost
<1> QED BY <1>1, <1>2, <1>3, <1>4, <1>5, <1>6, <1>7 DEF Next

----------------------------------------------------------------------------
(* The theorems.                                                           *)

LEMMA InitInv ==
  ASSUME Init
  PROVE  IInv
<1>1. <<>> \in Seq(CheckerType) /\ DOMAIN <<>> = {}
  BY EmptySeq
<1>2. LampInv
  <2>1. lamp \in [Pins -> [level : 0..MAX_LEVEL, dir : {"up", "down"}]]
    <3>1. FIRST_LEVEL \in 0..MAX_LEVEL
      BY ButtonsAssumption
    <3> QED BY <3>1 DEF Init
  <2> QED BY <2>1, EmptySeq DEF Init, LampInv
<1>3. PressInv
  BY <1>1, Numbers DEF Init, PressInv, Distinct, AtPlace, Elsewhere, LateInv, Current
<1>4. HandInv
  <2>1. fired \in [Pins -> Seq(Holds \cup {"stop"})] /\ \A p \in Pins : fired[p] = <<>>
    BY EmptySeq DEF Init
  <2>2. budget \in [Inputs -> Nat] /\ \A x \in Inputs : budget[x] <= Budget[x]
    BY ButtonsAssumption DEF Init
  <2>3. OnePressOneRule
    <3>1. Len(<<>>) <= 1
      OBVIOUS
    <3> QED BY <2>1, <3>1 DEF OnePressOneRule
  <2> QED BY <1>1, <2>1, <2>2, <2>3 DEF Init, HandInv, Moved, DimmingHeld
<1> QED BY <1>2, <1>3, <1>4 DEF IInv

(* The inductive invariant. *)
THEOREM Invariance == Spec => []IInv
<1>1. Init => IInv
  BY InitInv
<1>2. IInv /\ [Next]_vars => IInv'
  BY PressNext, LampNext, HandNext DEF IInv
<1> QED BY <1>1, <1>2, PTL DEF Spec

(* Every variable has its type; the counters of hp_go.hpp are never        *)
(* passed, and a button waits once at most in my_rule_checker.             *)
THEOREM TypeCorrect == Spec => []TypeOK
<1>1. IInv => TypeOK
  BY DEF IInv, LampInv, PressInv, HandInv, TypeOK, Distinct
<1> QED BY <1>1, Invariance, PTL

(* However presses, releases and the laps of the main loop are mixed, a    *)
(* press that is heard of causes one rule at most, or begins the movement  *)
(* of a shutter and ends it.                                               *)
THEOREM OneRuleForAPress == Spec => []OnePressOneRule
<1>1. IInv => OnePressOneRule
  BY DEF IInv, HandInv
<1> QED BY <1>1, Invariance, PTL

(* A shutter that moves while its button is held is stopped by the release *)
(* of that button.                                                         *)
THEOREM ShutterFollowsHand == Spec => []HandStopsMove
<1>1. IInv => HandStopsMove
  <2> SUFFICES ASSUME IInv, NothingLost, NEW p \in moving
               PROVE  p \in down /\ \E i \in EntryOf(p) : checker[i].short
    BY DEF HandStopsMove
  <2>1. PICK i \in EntryOf(p) : checker[i].short
    BY DEF IInv, HandInv, Moved
  <2>2. checker[i].pin = p /\ Waits(checker[i])
    BY DEF IInv, HandInv, EntryOf
  <2> QED BY <2>1, <2>2 DEF Waits
<1> QED BY <1>1, Invariance, PTL

(* A lamp is dimmed while its button is held, but for the rules of buttons *)
(* with a rule for two presses that DimmingHeld names.                     *)
THEOREM LampFollowsHand == Spec => []DimmingHeld
<1>1. IInv => DimmingHeld
  BY DEF IInv, HandInv
<1> QED BY <1>1, Invariance, PTL

(* Although an erasure makes check_running_rules pass over a press, it is  *)
(* passed over fewer times than there are buttons.                         *)
THEOREM CountedInTime == Spec => []CountedLate
<1>1. IInv => CountedLate
  <2> SUFFICES ASSUME PressInv, pc = "incoming", NEW i \in DOMAIN checker
               PROVE  checker[i].late < Cardinality(Pins)
    BY DEF IInv, CountedLate
  <2>1. checker[i].late + i <= Cardinality(Pins) + 0
    <3>1. ~Uncounted(i)
      BY DEF Uncounted, Current
    <3> QED BY <3>1 DEF PressInv, LateInv
  <2>2. checker[i].late \in Nat /\ i \in Nat \ {0}
    BY Places, EntryType DEF PressInv
  <2> QED BY <2>1, <2>2, Numbers
<1> QED BY <1>1, Invariance, PTL

(* While the rules stay the same, the two later checks of the loop choose  *)
(* a rule by the time of the press it answers, although the loop goes on   *)
(* with the counter of a press that it has erased.                         *)
THEOREM ChosenByOwnTime == Spec => OwnTime
<1> DEFINE Own == SameMode /\ Current => \A p \in Pins : fired'[p] # fired[p] =>
                    \A i \in EntryOf(p) : checker[i].counter = counter
<1>1. ASSUME IInv, Next, SameMode, Current, NEW p \in Pins, fired'[p] # fired[p], NEW i \in EntryOf(p)
      PROVE  checker[i].counter = counter
  <2>1. CheckDouble \/ CheckLong
    <3>1. pc # "incoming" /\ pc # "hold" /\ pc # "repeats"
      BY <1>1 DEF Current
    <3> QED BY <1>1, <3>1 DEF Next, Fingers, Press, Release, Unheard, Modeswitch, DayNight, Mesh, Answer,
              GiveUp, Laps, Lap, Rules, RulesDone, CheckHold, Repeats, RepeatsDone, Repeat, Incoming
  <2>2. \E h : fired' = Fired(checker[it].pin, h)
    BY <1>1, <2>1 DEF CheckDouble, CheckLong, NoRule, ghosts
  <2>3. checker[it].pin = p
    BY <1>1, <2>2 DEF Fired, IInv, HandInv
  <2>4. it \in DOMAIN checker
    BY <1>1, TimeAtPlace DEF IInv
  <2>5. i = it
    BY <1>1, <2>3, <2>4 DEF EntryOf, IInv, PressInv, Distinct
  <2>6. \/ pc = "double" /\ counter > DOUBLE_PIN_THRESHOLD
        \/ pc = "long" /\ counter > LONG_PIN_RULE
    BY <1>1, <2>1 DEF CheckDouble, CheckLong, NoRule, ghosts
  <2>7. counter = checker[it].counter
    BY <1>1, <2>6, TimeAtPlace DEF IInv
  <2> QED BY <2>5, <2>7
<1>2. IInv /\ [Next]_vars => [Own]_vars
  BY <1>1
<1>3. [Own]_vars => [SameMode /\ pc \in {"double", "long"} => \A p \in Pins : fired'[p] # fired[p] =>
                       \A i \in EntryOf(p) : checker[i].counter = counter]_vars
  BY DEF Current
<1> QED BY <1>2, <1>3, Invariance, PTL DEF Spec, OwnTime
=============================================================================
