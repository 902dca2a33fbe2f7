----------------------------- MODULE HpButtons -----------------------------
(***************************************************************************)
(* Push buttons of hp_go: how a press becomes a rule ("normal", "short",   *)
(* "long" or "multi"), and the repeated messages that dim a lamp while its *)
(* button is held.                                                         *)
(*                                                                         *)
(*   mode      hp_lightning::my_actual_mode, day, night or normal          *)
(*   checker   hp_go::my_rule_checker: presses that no rule answered yet;  *)
(*             late, a ghost, says how many laps were not counted for it   *)
(*   repeats   hp_go::my_repeat_mess, those of the service "lightning"     *)
(*   lamp      hp_pin_pwm::my_status and my_last_direction                 *)
(*   queue     hp_sender::my_messages (HpSender), sent those not answered  *)
(*   down      the buttons that a finger holds down                        *)
(*   pc, it    place in a lap, and the index of the running loop           *)
(*   counter   the local variable of check_running_rules                   *)
(*   fired     ghost: the rules since the last press of a button           *)
(*   moving    ghost: buttons whose shutters were told to move and neither *)
(*             to stop nor to go on the whole way                          *)
(*   budget    how many more external events the environment may cause     *)
(*                                                                         *)
(* A button dims at most one lamp, which has its name.  The level of a     *)
(* lamp is 0 where the message says 255, and 1..MAX_LEVEL (9) otherwise.   *)
(***************************************************************************)
EXTENDS HpSender

CONSTANTS
  Pins,                  \* the buttons, and the lamps they dim
  Modes, Flags,          \* mode -> button -> what setup_input_rules sets
  Dims,                  \* <<button, hold>>: the rules whose output is "fluently"
  Hbx,                   \* lamp -> its HBX
  SHORT_PIN_RULE, DOUBLE_PIN_THRESHOLD, LONG_PIN_RULE, PERIOD, MAX_LEVEL,
  FIRST_LEVEL,           \* the level of a lamp before its first answer (5)
  Budget                 \* bound: how often each external event may happen

Holds == {"normal", "short", "long", "multi"}
Inputs == {"press", "lost", "mode", "busy"}

ASSUME ButtonsAssumption ==
  /\ Flags \in [Modes -> [Pins -> SUBSET {"short", "long", "double", "shutter"}]]
  /\ Dims \subseteq Pins \X Holds /\ Hbx \in [Pins -> Nat]
  /\ SHORT_PIN_RULE \in Nat /\ DOUBLE_PIN_THRESHOLD \in Nat /\ LONG_PIN_RULE \in Nat
  /\ SHORT_PIN_RULE < DOUBLE_PIN_THRESHOLD /\ DOUBLE_PIN_THRESHOLD < LONG_PIN_RULE
  /\ PERIOD \in Nat \ {0} /\ MAX_LEVEL \in Nat \ {0}
  /\ FIRST_LEVEL \in 0..MAX_LEVEL
  /\ Modes # {} /\ IsFiniteSet(Pins) /\ Budget \in [Inputs -> Nat]

(* A button for shutters counts as one with short and long rules, in every *)
(* mode (process_dn_change).                                               *)
ASSUME ShutterAssumption ==
  \A p \in Pins, m, n \in Modes :
    "shutter" \in Flags[m][p] => {"shutter", "short", "long"} \subseteq Flags[n][p]

VARIABLES mode, checker, repeats, lamp, queue, sent, down, pc, it, counter,
          fired, moving, budget

dimmers == <<repeats, lamp, queue, sent>>
ghosts  == <<fired, moving>>
vars    == <<mode, checker, dimmers, down, pc, it, counter, ghosts, budget>>

----------------------------------------------------------------------------
(* hp_input_pin::check_input *)
Has(p, f) == f \in Flags[mode][p]
OnlyNormal(p) == Flags[mode][p] \cap {"short", "long", "double"} = {}

EntryOf(p) == {i \in DOMAIN checker : checker[i].pin = p}
Pressed(p) == EntryOf(p) # {}

(* The value fluently of hp_pin_pwm::create_send_mess: against the last    *)
(* direction, one level; STOP at the top.                                  *)
STOP == -1
Against(p) == IF lamp[p].dir = "down" THEN "up" ELSE "down"
FirstLevel(p) ==
  IF Against(p) = "up"
  THEN IF lamp[p].level < MAX_LEVEL THEN lamp[p].level + 1 ELSE STOP
  ELSE IF lamp[p].level > 1 THEN lamp[p].level - 1 ELSE 0

(* hp_repeat_mess::create_mess: one level on. *)
NextLevel(r) ==
  IF r.dir = "up"
  THEN IF r.level < MAX_LEVEL THEN r.level + 1 ELSE STOP
  ELSE IF r.level > 0 THEN r.level - 1 ELSE STOP

LampMessage(p, level) ==
  [hbx |-> Hbx[p], type |-> "1", items |-> <<[pin |-> p, val |-> level]>>]
Ordered(p, level) == AddMessage(queue, LampMessage(p, level), 0, 0, 0)

(* hp_go::process_rule: the rule of button p for this hold, with its       *)
(* output "fluently", and the shutters; active is its is_active_value.     *)
DimsNow(p, hold) == <<p, hold>> \in Dims /\ FirstLevel(p) # STOP
Dimmed(p, hold) ==
  IF DimsNow(p, hold)
  THEN Append(repeats, [pin |-> p, count |-> 0, level |-> FirstLevel(p), dir |-> Against(p)])
  ELSE repeats
Shuttered(p, hold, active) ==
  IF ~Has(p, "shutter") THEN moving
  ELSE IF hold = "short" /\ active THEN moving \cup {p}
  ELSE IF hold \in {"short", "long"} THEN moving \ {p} ELSE moving
Rule(p, hold, active) ==
  /\ queue' = IF DimsNow(p, hold) THEN Ordered(p, FirstLevel(p)) ELSE queue
  /\ moving' = Shuttered(p, hold, active)
Fired(p, hold) == [fired EXCEPT ![p] = Append(@, hold)]
NoRule == UNCHANGED <<queue, ghosts>>

----------------------------------------------------------------------------
Init ==
  /\ mode \in Modes /\ checker = <<>> /\ repeats = <<>>
  /\ lamp = [p \in Pins |-> [level |-> FIRST_LEVEL, dir |-> "down"]]
  /\ queue = <<>> /\ sent = <<>> /\ down = {}
  /\ pc = "incoming" /\ it = 1 /\ counter = 0
  /\ fired = [p \in Pins |-> <<>>] /\ moving = {}
  /\ budget = Budget

Spend(what) == budget[what] > 0 /\ budget' = [budget EXCEPT ![what] = @ - 1]
Incoming == pc = "incoming"

(* process_act_mess, the pin becomes active: a second press, a press that  *)
(* a rule answers at once, or one that has to wait.                        *)
Press(p) ==
  /\ Incoming /\ p \notin down /\ Spend("press")
  /\ down' = down \cup {p}
  /\ \/ /\ Pressed(p)
        /\ checker' = Without(checker, {checker[i] : i \in EntryOf(p)})
        /\ fired' = Fired(p, "multi")
        /\ Rule(p, "multi", TRUE) /\ repeats' = Dimmed(p, "multi")
     \/ /\ ~Pressed(p) /\ OnlyNormal(p)
        /\ fired' = [fired EXCEPT ![p] = <<"normal">>]
        /\ Rule(p, "normal", TRUE) /\ repeats' = Dimmed(p, "normal")
        /\ UNCHANGED checker
     \/ /\ ~Pressed(p) /\ ~OnlyNormal(p)
        /\ checker' = Append(checker, [pin |-> p, counter |-> 0, short |-> FALSE,
                                       releases |-> 0, late |-> 0])
        /\ fired' = [fired EXCEPT ![p] = <<>>]
        /\ UNCHANGED <<queue, repeats, moving>>
  /\ UNCHANGED <<mode, lamp, sent, pc, it, counter>>

(* What a release says of the time the button was held. *)
HeldFor(e) ==
  IF e.counter <= SHORT_PIN_RULE THEN "normal"
  ELSE IF e.counter < LONG_PIN_RULE THEN "short" ELSE "long"

(* process_act_mess, the pin becomes inactive: the rule for the time it    *)
(* was held, or, for a button with a double press, the wait for the second *)
(* press; then the end of its repeated messages, those of the rule too.    *)
(* Before their definitions mutated forms: the entry is not erased; the    *)
(* mark of a shutter is not looked at; the messages end before the rule.   *)
AnswersKeepsEntry(p, i) ==
  /\ UNCHANGED checker
  /\ Rule(p, HeldFor(checker[i]), HeldFor(checker[i]) # "short")
  /\ fired' = Fired(p, IF HeldFor(checker[i]) = "short" THEN "stop" ELSE HeldFor(checker[i]))
Answers(p, i) ==
  /\ checker' = RemoveAt(checker, i)
  /\ Rule(p, HeldFor(checker[i]), HeldFor(checker[i]) # "short")
  /\ fired' = Fired(p, IF HeldFor(checker[i]) = "short" THEN "stop" ELSE HeldFor(checker[i]))
WaitsForSecond(i) ==
  /\ checker' = IF checker[i].counter < DOUBLE_PIN_THRESHOLD
                THEN [checker EXCEPT ![i].releases = @ + 1] ELSE RemoveAt(checker, i)
  /\ NoRule
ReleasedUnmarked(p) ==
  \/ /\ ~Pressed(p) /\ NoRule /\ UNCHANGED checker
  \/ \E i \in EntryOf(p) : IF ~Has(p, "double") THEN Answers(p, i) ELSE WaitsForSecond(i)
Released(p) ==
  \/ /\ ~Pressed(p) /\ NoRule /\ UNCHANGED checker
  \/ \E i \in EntryOf(p) :
       IF ~Has(p, "double") \/ checker[i].short THEN Answers(p, i) ELSE WaitsForSecond(i)
ReleaseTooSoon(p) ==
  /\ Incoming /\ p \in down /\ down' = down \ {p}
  /\ Released(p)
  /\ repeats' = IF Pressed(p) /\ ~Has(p, "double")
                THEN Dimmed(p, HeldFor(checker[CHOOSE i \in EntryOf(p) : TRUE]))
                ELSE Without(repeats, {r \in ToSet(repeats) : r.pin = p})
  /\ UNCHANGED <<mode, lamp, sent, pc, it, counter, budget>>
Release(p) ==
  /\ Incoming /\ p \in down /\ down' = down \ {p}
  /\ Released(p)
  /\ repeats' = Without(repeats, {r \in ToSet(repeats) : r.pin = p})
  /\ UNCHANGED <<mode, lamp, sent, pc, it, counter, budget>>

(* A press or a release that is never heard of. *)
Unheard(p) ==
  /\ Incoming /\ Spend("lost")
  /\ down' = IF p \in down THEN down \ {p} ELSE down \cup {p}
  /\ UNCHANGED <<mode, checker, dimmers, pc, it, counter, ghosts>>

(* process_dn_change: the rules of day, night or neither apply. *)
DayNight(m) ==
  /\ Incoming /\ m # mode /\ Spend("mode") /\ mode' = m
  /\ UNCHANGED <<checker, dimmers, down, pc, it, counter, ghosts>>

(* The answer to a message, which sets the status of its lamps; or its     *)
(* last timeout.                                                           *)
LevelIn(m, p) == {m[j].val : j \in {j \in DOMAIN m : m[j].pin = p}}
SetStatus(l, level) ==
  [level |-> level, dir |-> IF level # 0 /\ l.level < level THEN "up" ELSE "down"]
Answer(k) ==
  /\ Incoming /\ k \in DOMAIN sent /\ sent' = RemoveAt(sent, k)
  /\ lamp' = [p \in Pins |-> IF LevelIn(sent[k], p) = {} THEN lamp[p]
                             ELSE SetStatus(lamp[p], CHOOSE v \in LevelIn(sent[k], p) : TRUE)]
  /\ UNCHANGED <<mode, checker, repeats, queue, down, pc, it, counter, ghosts, budget>>
GiveUp(k) ==
  /\ Incoming /\ k \in DOMAIN sent /\ sent' = RemoveAt(sent, k) /\ Spend("lost")
  /\ UNCHANGED <<mode, checker, repeats, lamp, queue, down, pc, it, counter, ghosts>>

----------------------------------------------------------------------------
(* send_messages, then the loop of check_running_rules begins.             *)
Later(late) == IF late > Cardinality(Pins) THEN late ELSE late + 1
Lap(full) ==
  /\ Incoming
  /\ IF full = {} THEN UNCHANGED budget
     ELSE Spend("busy") /\ \A h \in full : \E i \in DOMAIN queue : queue[i].hbx = h
  /\ LET goes == {e \in ToSet(queue) : e.hbx \notin full}
         kept == Without(queue, ToSet(queue) \ goes)
     IN /\ sent' = sent \o [i \in DOMAIN kept |-> kept[i].items]
        /\ queue' = Without(queue, goes)
  /\ checker' = [i \in DOMAIN checker |-> [checker[i] EXCEPT !.late = Later(@)]]
  /\ pc' = "hold" /\ it' = 1
  /\ UNCHANGED <<mode, repeats, lamp, down, counter, ghosts>>

(* What follows the erasure of the element at the index: the loop breaks   *)
(* after the last one, or goes on with the element that takes the place    *)
(* and with the counter of the one that is gone.                           *)
Erased(next) ==
  /\ checker' = RemoveAt(checker, it)
  /\ IF it = Len(checker) THEN pc' = "repeats" /\ it' = 1
     ELSE pc' = next /\ UNCHANGED it

RulesDone ==
  /\ pc = "hold" /\ it \notin DOMAIN checker /\ pc' = "repeats" /\ it' = 1
  /\ UNCHANGED <<mode, checker, dimmers, down, counter, ghosts, budget>>

(* The button is held: a shutter starts to move, a button without a long   *)
(* rule has its answer.  Before it a mutated form: the counter stands      *)
(* still while the second press is awaited.                                *)
CheckHoldStanding ==
  /\ pc = "hold" /\ it \in DOMAIN checker
  /\ LET e == checker[it]
         p == e.pin
         late == counter' > SHORT_PIN_RULE /\ e.releases = 0
         fires == late /\ IF Has(p, "shutter") THEN counter' = SHORT_PIN_RULE + 1
                          ELSE ~Has(p, "long")
     IN /\ counter' = IF e.releases = 0 THEN e.counter + 1 ELSE e.counter
        /\ IF fires THEN /\ Rule(p, "short", TRUE) /\ repeats' = Dimmed(p, "short")
                         /\ fired' = Fired(p, "short")
           ELSE NoRule /\ UNCHANGED repeats
        /\ IF fires /\ ~Has(p, "shutter") THEN Erased("double")
           ELSE /\ checker' = [checker EXCEPT ![it].counter = counter',
                                              ![it].short = @ \/ fires,
                                              ![it].late = @ - (counter' - e.counter)]
                /\ pc' = "double" /\ UNCHANGED it
  /\ UNCHANGED <<mode, lamp, sent, down, budget>>
CheckHold ==
  /\ pc = "hold" /\ it \in DOMAIN checker
  /\ LET e == checker[it]
         p == e.pin
         late == counter' > SHORT_PIN_RULE /\ e.releases = 0
         fires == late /\ IF Has(p, "shutter") THEN counter' = SHORT_PIN_RULE + 1
                          ELSE ~Has(p, "long")
     IN /\ counter' = e.counter + 1
        /\ IF fires THEN /\ Rule(p, "short", TRUE) /\ repeats' = Dimmed(p, "short")
                         /\ fired' = Fired(p, "short")
           ELSE NoRule /\ UNCHANGED repeats
        /\ IF fires /\ ~Has(p, "shutter") THEN Erased("double")
           ELSE /\ checker' = [checker EXCEPT ![it].counter = counter',
                                              ![it].short = @ \/ fires,
                                              ![it].late = @ - (counter' - e.counter)]
                /\ pc' = "double" /\ UNCHANGED it
  /\ UNCHANGED <<mode, lamp, sent, down, budget>>

(* One press and no second one.  Before it a mutated form: the time of the *)
(* short press is taken.                                                   *)
CheckDoubleShort ==
  /\ pc = "double"
  /\ LET p == checker[it].pin
     IN IF counter > SHORT_PIN_RULE /\ checker[it].releases = 1
        THEN /\ Rule(p, "normal", TRUE) /\ repeats' = Dimmed(p, "normal")
             /\ fired' = Fired(p, "normal") /\ Erased("long")
        ELSE NoRule /\ pc' = "long" /\ UNCHANGED <<checker, repeats, it>>
  /\ UNCHANGED <<mode, lamp, sent, down, counter, budget>>
CheckDouble ==
  /\ pc = "double"
  /\ LET p == checker[it].pin
     IN IF counter > DOUBLE_PIN_THRESHOLD /\ checker[it].releases = 1
        THEN /\ Rule(p, "normal", TRUE) /\ repeats' = Dimmed(p, "normal")
             /\ fired' = Fired(p, "normal") /\ Erased("long")
        ELSE NoRule /\ pc' = "long" /\ UNCHANGED <<checker, repeats, it>>
  /\ UNCHANGED <<mode, lamp, sent, down, counter, budget>>

(* Held for long.  Before it a mutated form: the press is not erased.      *)
CheckLongAgain ==
  /\ pc = "long"
  /\ LET p == checker[it].pin
     IN IF counter > LONG_PIN_RULE
        THEN /\ Rule(p, "long", TRUE) /\ repeats' = Dimmed(p, "long")
             /\ fired' = Fired(p, "long") /\ UNCHANGED checker
             /\ IF it = Len(checker) THEN pc' = "repeats" /\ it' = 1
                ELSE pc' = "hold" /\ it' = it + 1
        ELSE NoRule /\ pc' = "hold" /\ it' = it + 1 /\ UNCHANGED <<checker, repeats>>
  /\ UNCHANGED <<mode, lamp, sent, down, counter, budget>>
CheckLong ==
  /\ pc = "long"
  /\ LET p == checker[it].pin
     IN IF counter > LONG_PIN_RULE
        THEN /\ Rule(p, "long", TRUE) /\ repeats' = Dimmed(p, "long")
             /\ fired' = Fired(p, "long") /\ checker' = RemoveAt(checker, it)
             /\ IF it = Len(checker) THEN pc' = "repeats" /\ it' = 1
                ELSE pc' = "hold" /\ it' = it + 1
        ELSE NoRule /\ pc' = "hold" /\ it' = it + 1 /\ UNCHANGED <<checker, repeats>>
  /\ UNCHANGED <<mode, lamp, sent, down, counter, budget>>

----------------------------------------------------------------------------
(* check_repead_mess: a message counts while the one before is not on its  *)
(* way, and every PERIOD laps goes on by one level.                        *)
OnItsWay(r) ==
  \E k \in DOMAIN sent : [pin |-> r.pin, val |-> r.level] \in ToSet(sent[k])
RepeatsDone ==
  /\ pc = "repeats" /\ it \notin DOMAIN repeats /\ pc' = "incoming" /\ it' = 1
  /\ UNCHANGED <<mode, checker, dimmers, down, counter, ghosts, budget>>
Repeat ==
  /\ pc = "repeats" /\ it \in DOMAIN repeats
  /\ LET r == repeats[it]
         n == NextLevel(r)
     IN \/ /\ OnItsWay(r) /\ UNCHANGED <<repeats, queue>>
        \/ /\ ~OnItsWay(r) /\ r.count + 1 # PERIOD
           /\ repeats' = [repeats EXCEPT ![it].count = @ + 1] /\ UNCHANGED queue
        \/ /\ ~OnItsWay(r) /\ r.count + 1 = PERIOD /\ n # STOP
           /\ repeats' = [repeats EXCEPT ![it].count = 0, ![it].level = n]
           /\ queue' = Ordered(r.pin, n)
        \/ /\ ~OnItsWay(r) /\ r.count + 1 = PERIOD /\ n = STOP
           /\ repeats' = RemoveAt(repeats, it) /\ UNCHANGED queue
  /\ it' = it + 1
  /\ UNCHANGED <<mode, checker, lamp, sent, down, pc, counter, ghosts, budget>>

----------------------------------------------------------------------------
Fingers == \E p \in Pins : Press(p) \/ Release(p) \/ Unheard(p)
Modeswitch == \E m \in Modes : DayNight(m)
Mesh == \E k \in DOMAIN sent : Answer(k) \/ GiveUp(k)
Laps == \E full \in SUBSET {Hbx[p] : p \in Pins} : Lap(full)
Rules == RulesDone \/ CheckHold \/ CheckDouble \/ CheckLong
Repeats == RepeatsDone \/ Repeat

Next == Fingers \/ Modeswitch \/ Mesh \/ Laps \/ Rules \/ Repeats
Spec == Init /\ [][Next]_vars

(* The loop goes on for ever and one of its steps is always possible; a    *)
(* message is answered or given up in the end (HpTransport), in one of the *)
(* laps, which is strong fairness.  Fingers and clocks may stay away.      *)
Loop == Lap({}) \/ Rules \/ Repeats
Fairness == []<><<Loop>>_vars /\ SF_vars(\E k \in DOMAIN sent : Answer(k))
FairSpec == Spec /\ Fairness

----------------------------------------------------------------------------
(* Properties *)

CheckerType == [pin : Pins, counter : 0..(LONG_PIN_RULE + 1), short : BOOLEAN, releases : Nat, late : Nat]
RepeatType == [pin : Pins, count : 0..(PERIOD - 1), level : 0..MAX_LEVEL, dir : {"up", "down"}]
ItemType == [pin : Pins, val : 0..MAX_LEVEL]
MessageType == [hbx : Nat, type : {"1"}, items : Seq(ItemType), delay : {0}, priority : {0},
                resend : {0}, counter : Nat, postpone : {0}]

(* Every variable has its type, a press is answered when LONG_PIN_RULE laps *)
(* are over, and a button waits once at most.                              *)
TypeOK ==
  /\ mode \in Modes /\ checker \in Seq(CheckerType) /\ repeats \in Seq(RepeatType)
  /\ lamp \in [Pins -> [level : 0..MAX_LEVEL, dir : {"up", "down"}]]
  /\ queue \in Seq(MessageType) /\ sent \in Seq(Seq(ItemType))
  /\ down \subseteq Pins /\ pc \in {"incoming", "hold", "double", "long", "repeats"}
  /\ it \in Nat \ {0} /\ counter \in 0..(LONG_PIN_RULE + 1)
  /\ fired \in [Pins -> Seq(Holds \cup {"stop"})] /\ moving \subseteq Pins
  /\ budget \in [Inputs -> Nat]
  /\ \A i, j \in DOMAIN checker : checker[i].pin = checker[j].pin => i = j

NothingLost == budget["lost"] = Budget["lost"]
SameMode == budget["mode"] = Budget["mode"]

(* A press causes one rule at most; only the movement of a shutter begins  *)
(* with one and ends with another.                                         *)
OnePressOneRule ==
  NothingLost => \A p \in Pins :
    Len(fired[p]) <= 1 \/ fired[p] \in {<<"short", "stop">>, <<"short", "long">>}

(* A shutter that moves while its button is held stops when it is let go:  *)
(* the press still waits in my_rule_checker, with its mark.                *)
HandStopsMove ==
  NothingLost => \A p \in moving :
    p \in down /\ \E i \in EntryOf(p) : checker[i].short

(* A lamp is dimmed while its button is held.  The exceptions are rules of *)
(* a button with a rule for two presses that come after its release: the   *)
(* one for one press; and, if the rules were changed meanwhile, the long   *)
(* one, which may be chosen by the time another button was held.           *)
Doubled(p) == \E m \in Modes : "double" \in Flags[m][p]
DimmingHeld ==
  NothingLost => \A i \in DOMAIN repeats :
    \/ repeats[i].pin \in down
    \/ /\ Doubled(repeats[i].pin)
       /\ \/ <<repeats[i].pin, "normal">> \in Dims
          \/ ~SameMode /\ <<repeats[i].pin, "long">> \in Dims

(* An erasure makes check_running_rules pass over a press in this lap.  A  *)
(* press is passed over once at most for every other button.               *)
CountedLate ==
  pc = "incoming" => \A i \in DOMAIN checker :
    checker[i].late < Cardinality(Pins)

(* While the rules stay the same, a rule that check_running_rules chooses  *)
(* is chosen by the time its own button was held, although the loop goes   *)
(* on with the counter of a press that it has erased.                      *)
OwnTime ==
  [][SameMode /\ pc \in {"double", "long"} => \A p \in Pins : fired'[p] # fired[p] =>
       \A i \in EntryOf(p) : checker[i].counter = counter]_vars

(* When the fingers rest, every press has been dealt with and every        *)
(* dimming has come to its end, lamps that somebody still holds included.  *)
AllEnds == <>[](checker = <<>> /\ repeats = <<>>)

(* The countdown of a repeated message starts only after the answer to the *)
(* one before has come: when it is over and the lamp goes on by a level,   *)
(* no message to it waits in the queue or for its answer.                  *)
Unanswered(p) ==
  \/ \E i \in DOMAIN queue : LevelIn(queue[i].items, p) # {}
  \/ \E k \in DOMAIN sent : LevelIn(sent[k], p) # {}
GoesOn(i) == i \in DOMAIN repeats /\ Len(repeats') = Len(repeats) /\ repeats'[i].level # repeats[i].level
RepeatWaits == [][\A i \in DOMAIN repeats : GoesOn(i) => ~Unanswered(repeats[i].pin)]_vars
=============================================================================
