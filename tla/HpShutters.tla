----------------------------- MODULE HpShutters -----------------------------
(***************************************************************************)
(* The shutters of hp_go.  A shutter hangs on two pins of one HBX: onoff   *)
(* feeds the motor and dir chooses its direction.  It is moved from the    *)
(* panel, from a button, by the clock and by the report of strong wind,    *)
(* and what stops it comes later: a delayed event, a delayed message in    *)
(* hp_sender, or the hand that lets the button go.                         *)
(*                                                                         *)
(*   enabled   hp_shutters::my_enabled_shutt_move   (hp_shutters.h)        *)
(*   dir       hp_shutter::my_last_move_direction   (hp_shutter.h)         *)
(*   events    hp_go::my_delayed_events             (HpDelayedEvents)      *)
(*   queue     hp_sender::my_messages               (HpSender)             *)
(*   button    how far check_running_rules has come with a pressed button  *)
(*   todo      the shutters a loop of process_rule still goes through      *)
(*   pc, it    place in the main loop; "events" is process_delayed_events  *)
(*   relay     the pins onoff as the controllers drive them                *)
(*   panel     ghost: shutters a finger on the panel keeps moving          *)
(*   lastAll   ghost: the last command for all shutters, the wind's too    *)
(*   loose     ghost: shutters whose stop, or move by steps, was asked for *)
(*             and came to nothing, or was erased with the message of      *)
(*             another one, or whose start was delayed with it; or whose   *)
(*             start was ordered with nothing that would end it            *)
(*   warned    ghost: shutters the wind's report said it would raise and   *)
(*             that neither moved nor got another command since            *)
(*   budget    how many more external events the environment may cause     *)
(*                                                                         *)
(* One hundred laps of the loop are a second; a message that waits at the  *)
(* end of a second waits because the buffer of its HBX is full.  Messages  *)
(* that are sent arrive (HpTransport is about those that do not).  Pins of *)
(* shutters have no known status in create_send_mess: nothing is dropped   *)
(* because it equals the status.  SHUTTER_CONTROL is 1.                    *)
(***************************************************************************)
EXTENDS HpSender, HpDelayedEvents

CONSTANTS
  NumShutters,       \* shutters are numbered 1..NumShutters in XML order
  HbxOf,             \* shutter -> its HBX
  Timer,             \* shutter -> my_timer, the seconds of a whole move
  Buttons, Controls, \* buttons, and the shutters each of them moves
  Commands,          \* the commands the panel and the clock give
  Budget             \* bound: how often each external event may happen

Shutters == 1..NumShutters
Up == "up"
Down == "down"
Sides == {Up, Down}

(* up_ident and down_ident with a number move by steps, with 1 until they  *)
(* come with 0, all_up_ident and all_down_ident the whole way.  A text for *)
(* one shutter is what an event keeps.                                     *)
Command == [kind : {"whole", "steps"}, side : Sides]
Text == [kind : {"whole", "steps", "move"}, side : Sides]

Inputs == {"wind", "request", "busy"}

ASSUME ShuttersAssumption ==
  /\ NumShutters \in Nat \ {0}
  /\ HbxOf \in [Shutters -> Nat] /\ Timer \in [Shutters -> Nat \ {0}]
  /\ Controls \in [Buttons -> SUBSET Shutters]
  /\ Commands \subseteq Command
  /\ Budget \in [Inputs -> Nat]

VARIABLES enabled, dir, events, queue, button, todo, pc, it, relay,
          panel, lastAll, loose, warned, budget

ghosts == <<panel, lastAll, loose, warned>>
vars   == <<enabled, dir, events, queue, button, todo, pc, it, relay, ghosts, budget>>

----------------------------------------------------------------------------
(* Commands and what they do to the queue and to the events.               *)

OnOff(s) == <<s, "onoff">>
DirPin(s) == <<s, "dir">>
Values == {"1", "0", "steps"} \cup Sides
Item(pin, v) == [pin |-> pin, val |-> v]
PinMessage(s, pin, v) == [hbx |-> HbxOf[s], type |-> "1", items |-> <<Item(pin, v)>>]

(* hp_go::add_message for the pins of a shutter, with its arguments delay  *)
(* and delete_timer_mess.                                                  *)
Order(q, s, pin, v, delay) == AddMessage(q, PinMessage(s, pin, v), 0, 0, delay)
OrderNow(q, s, v) == DeleteTimerMess(Order(q, s, OnOff(s), v, 0), HbxOf[s], OnOff(s))
Turn(q, s, d) == Order(q, s, DirPin(s), d, 0)

OffEvent(s, d) == [type |-> "off", var |-> s, left |-> d]
ShutterEvent(s, c, d, by) == [type |-> "shutter", var |-> -s, left |-> d, cmd |-> c, by |-> by]

(* What process_gui_shutt_mess does for one shutter that find_shutter has  *)
(* found: <<queue, events, direction>>.                                    *)
Obey(q, es, s, c) ==
  IF c.kind = "whole"
  THEN <<Turn(Order(q, s, OnOff(s), "1", 0), s, c.side), Push(es, OffEvent(s, Timer[s])), c.side>>
  ELSE <<Turn(OrderNow(q, s, IF c.kind = "steps" THEN "steps" ELSE "1"), s, c.side), es, dir[s]>>

(* The text for one shutter of a command for all: its argument is replaced *)
(* by 1, so that steps, and the 0 of a finger that leaves the panel too,   *)
(* become a move that nothing ends.                                        *)
TextOf(c) == IF c.kind = "whole" THEN c ELSE [c EXCEPT !.kind = "move"]

(* One event per shutter, a second apart: move_all_shutters and the loops  *)
(* over it.  Before it a mutated form: the events of an earlier command    *)
(* stay.                                                                   *)
AllEvents(c) == [s \in Shutters |-> ShutterEvent(s, TextOf(c), s - 1, "all")]
SupersedeKeeping(es, c) == es \o AllEvents(c)
Supersede(es, c) == EraseEvents(es, "shutter") \o AllEvents(c)

----------------------------------------------------------------------------
(* What moves and what will stop it: a move by steps has an end of its own. *)

Starts(q, s) == {i \in DOMAIN q : \E j \in DOMAIN q[i].items : q[i].items[j] = Item(OnOff(s), "1")}
StopsAt(q, s) ==
  {i \in DOMAIN q : \E j \in DOMAIN q[i].items : \E v \in {"0", "steps"} :
     q[i].items[j] = Item(OnOff(s), v)}
Moves(s) == relay[s] = "1" \/ Starts(queue, s) # {}
StopPending(q, es, s) ==
  \/ \E i \in DOMAIN es : es[i].type = "off" /\ es[i].var = s
  \/ \E i \in StopsAt(q, s) : \A k \in Starts(q, s) : k < i
Held(s) == s \in panel \/ \E b \in Buttons : button[b] = "short" /\ s \in Controls[b]

----------------------------------------------------------------------------
Init ==
  /\ enabled = TRUE /\ dir = [s \in Shutters |-> Up]
  /\ events = <<>> /\ queue = <<>>
  /\ button = [b \in Buttons |-> "free"] /\ todo = {}
  /\ pc = "incoming" /\ it = 1
  /\ relay = [s \in Shutters |-> "0"]
  /\ panel = {} /\ lastAll = [kind |-> "whole", side |-> Up] /\ loose = {} /\ warned = {}
  /\ budget = Budget

Spend(what) == budget[what] > 0 /\ budget' = [budget EXCEPT ![what] = @ - 1]
Incoming == pc = "incoming" /\ todo = {}

(* find_shutter and find_multi_rule.  Before it a mutated form: the wind   *)
(* is not looked at.                                                       *)
MayAlwaysMove == TRUE
MayMove == enabled

(* Those of S that move and that nothing will stop after the step.         *)
Unstopped(S) ==
  {s \in S : (relay[s] = "1" \/ Starts(queue', s) # {}) /\ ~StopPending(queue', events', s)}

(* A request to stop a shutter, or to move it by steps, came to nothing    *)
(* when the wind refused it or the sender dropped it in favour of a        *)
(* command that waits already.                                             *)
Waits(s) == \E i \in DOMAIN queue : queue[i].delay = 0 /\
               \E j \in DOMAIN queue[i].items : queue[i].items[j].pin = OnOff(s)
Refused(S) == Unstopped({s \in S : ~enabled \/ Waits(s)})

(* What an order for s does to the others of its HBX: delete_timer_mess    *)
(* takes the stops that were merged into the delayed message of s, and a   *)
(* delay for s delays the starts that are in the same message.             *)
Swept(s) == {t \in Shutters \ {s} : /\ StopPending(queue, events, t)
                                     /\ \E i \in StopsAt(queue, t) : TimerOf(queue[i], HbxOf[s], OnOff(s))}
Delayed(q) == {t \in Shutters : \E i \in Starts(q, t) : q[i].delay # 0}
Others(s) == Unstopped(Swept(s)) \cup Delayed(queue')

NoteStop(s) == loose' = loose \cup Refused({s}) \cup Others(s)

(* The shutter s is started anew.                                          *)
NoteStart(s) == loose' = (loose \ {s}) \cup Others(s) /\ warned' = warned \ {s}

(* The same by the text of a command for all: if nothing that was pending  *)
(* before will end it and no finger is on it, nothing will.                *)
NoteMove(s) ==
  /\ loose' = (loose \ {s}) \cup {t \in Unstopped({s}) : ~Held(t)} \cup Others(s)
  /\ warned' = warned \ {s}
NoteCommand(s, c) ==
  CASE c.kind = "whole" -> NoteStart(s)
    [] c.kind = "steps" -> NoteStop(s) /\ warned' = warned \ {s}
    [] c.kind = "move"  -> NoteMove(s)

----------------------------------------------------------------------------
(* Wind: process_meteo_mess, "windspeed".  The report comes every minute.  *)
WindRises ==
  /\ Incoming /\ Spend("wind")
  /\ IF enabled
     THEN /\ events' = Supersede(events, [kind |-> "whole", side |-> Up])
          /\ lastAll' = [kind |-> "whole", side |-> Up]
          /\ warned' = Shutters
     ELSE UNCHANGED <<events, lastAll, warned>>
  /\ enabled' = FALSE
  /\ UNCHANGED <<todo, dir, queue, button, pc, it, relay, panel, loose>>

WindFalls ==
  /\ Incoming /\ ~enabled
  /\ enabled' = TRUE /\ warned' = {}
  /\ UNCHANGED <<todo, dir, events, queue, button, pc, it, relay, panel, lastAll, loose, budget>>

----------------------------------------------------------------------------
(* The panel: process_gui_shutt_mess                                       *)

(* all_ident: with all_up_ident and all_down_ident, or with up_ident and   *)
(* down_ident, whatever their argument (steps, 1 or 0) is.                 *)
PanelAll(c) ==
  /\ Incoming /\ Spend("request")
  /\ events' = Supersede(events, c) /\ lastAll' = c /\ warned' = {}
  /\ UNCHANGED <<todo, enabled, dir, queue, button, pc, it, relay, panel, loose>>

(* One shutter, the whole way or by steps; find_shutter finds nothing      *)
(* while the wind forbids to move.                                         *)
PanelSingle(s, c) ==
  /\ Incoming /\ Spend("request")
  /\ IF MayMove
     THEN LET r == Obey(queue, events, s, c)
          IN /\ queue' = r[1] /\ events' = r[2]
             /\ dir' = [dir EXCEPT ![s] = r[3]] /\ NoteCommand(s, c)
     ELSE UNCHANGED <<queue, events, dir, loose, warned>>
  /\ UNCHANGED <<todo, enabled, button, pc, it, relay, panel, lastAll>>

(* up_1 or down_1 as long as the finger stays, then up_0 or down_0. *)
PanelMove(s, d) ==
  /\ Incoming /\ s \notin panel /\ Spend("request")
  /\ panel' = panel \cup {s}
  /\ UNCHANGED <<todo, enabled, dir, events, button, pc, it, relay, lastAll>>
  /\ IF MayMove THEN queue' = Turn(OrderNow(queue, s, "1"), s, d) /\ NoteStart(s)
     ELSE UNCHANGED <<queue, loose, warned>>

PanelStop(s) ==
  /\ Incoming /\ s \in panel /\ panel' = panel \ {s}
  /\ queue' = IF MayMove THEN OrderNow(queue, s, "0") ELSE queue
  /\ UNCHANGED <<todo, enabled, dir, events, button, pc, it, relay, lastAll, warned, budget>>
  /\ NoteStop(s)

----------------------------------------------------------------------------
(* Buttons: the part of process_rule for shutters, called by               *)
(* check_running_rules and by the release.  The loop over the shutters of  *)
(* the button is todo; find_multi_rule finds none while the wind forbids   *)
(* to move.                                                                *)

Opposite(d) == IF d = Up THEN Down ELSE Up
Calls(b, what) == {[shutter |-> s, what |-> what] : s \in IF MayMove THEN Controls[b] ELSE {}}

(* Held for more than SHORT_PIN_RULE laps: every shutter turns round. *)
ShortHold(b) ==
  /\ Incoming /\ button[b] = "free" /\ Spend("request")
  /\ button' = [button EXCEPT ![b] = "short"] /\ todo' = Calls(b, "turn")
  /\ UNCHANGED <<enabled, dir, events, queue, pc, it, relay, ghosts>>

(* Released before LONG_PIN_RULE laps: they stop at once.  Held longer:    *)
(* they go on for the whole way.                                           *)
EndHold(b, what) ==
  /\ Incoming /\ button[b] = "short"
  /\ button' = [button EXCEPT ![b] = "free"] /\ todo' = Calls(b, what)
  /\ UNCHANGED <<enabled, dir, events, queue, pc, it, relay, panel, lastAll, warned, budget>>
  /\ IF MayMove THEN UNCHANGED loose ELSE loose' = loose \cup Refused(Controls[b])

(* One turn of the loop.  Before it a mutated form: the delayed stop of a  *)
(* long hold is left out.                                                  *)
ButtonStepNoStop(c) ==
  LET s == c.shutter
  IN /\ c \in todo /\ todo' = todo \ {c} /\ \A d \in todo : s <= d.shutter
     /\ queue' = CASE c.what = "turn" -> Turn(OrderNow(queue, s, "1"), s, Opposite(dir[s]))
                   [] c.what = "stop" -> OrderNow(queue, s, "0")
                   [] c.what = "late" -> queue
     /\ dir' = IF c.what = "turn" THEN [dir EXCEPT ![s] = Opposite(@)] ELSE dir
     /\ UNCHANGED <<enabled, events, button, pc, it, relay, panel, lastAll, warned, loose, budget>>
ButtonStep(c) ==
  LET s == c.shutter
  IN /\ c \in todo /\ todo' = todo \ {c} /\ \A d \in todo : s <= d.shutter
     /\ queue' = CASE c.what = "turn" -> Turn(OrderNow(queue, s, "1"), s, Opposite(dir[s]))
                   [] c.what = "stop" -> OrderNow(queue, s, "0")
                   [] c.what = "late" -> Order(queue, s, OnOff(s), "0", Timer[s])
     /\ dir' = IF c.what = "turn" THEN [dir EXCEPT ![s] = Opposite(@)] ELSE dir
     /\ UNCHANGED <<enabled, events, button, pc, it, relay, panel, lastAll, budget>>
     /\ IF c.what = "turn" THEN NoteStart(s) ELSE NoteStop(s) /\ UNCHANGED warned

----------------------------------------------------------------------------
(* The clock: check_alarm_mess and the scenarios of the panel push events  *)
(* of their own and erase nothing.                                         *)
Clock(s, c) ==
  /\ Incoming /\ Spend("request")
  /\ events' = Append(events, ShutterEvent(s, c, 0, "clock"))
  /\ UNCHANGED <<todo, enabled, dir, queue, button, pc, it, relay, ghosts>>

----------------------------------------------------------------------------
(* The sender: what is due goes to the HBXs that have room, in order.      *)

Goes(e, full) == e.delay = 0 /\ e.hbx \notin full
ForMotor(q, full, s, i, j) == Goes(q[i], full) /\ q[i].items[j].pin = OnOff(s)

(* An HBX carries the items out in order: v is what the last one says. *)
Driven(q, full, s, v) ==
  \/ /\ v = relay[s]
     /\ \A i \in DOMAIN q : \A j \in DOMAIN q[i].items : ~ForMotor(q, full, s, i, j)
  \/ \E i \in DOMAIN q : \E j \in DOMAIN q[i].items :
       /\ ForMotor(q, full, s, i, j) /\ v = q[i].items[j].val
       /\ \A k \in DOMAIN q : \A l \in DOMAIN q[k].items :
            ForMotor(q, full, s, k, l) => k < i \/ (k = i /\ l <= j)

Send(full) ==
  /\ Incoming /\ \E i \in DOMAIN queue : Goes(queue[i], full)
  /\ relay' \in [Shutters -> Values] /\ \A s \in Shutters : Driven(queue, full, s, relay'[s])
  /\ queue' = Without(queue, {e \in ToSet(queue) : Goes(e, full)})
  /\ UNCHANGED <<todo, enabled, dir, events, button, pc, it, ghosts, budget>>

(* A move by steps is ended by the HBX itself. *)
StepsEnd(s) ==
  /\ relay[s] = "steps" /\ relay' = [relay EXCEPT ![s] = "0"]
  /\ UNCHANGED <<todo, enabled, dir, events, queue, button, pc, it, ghosts, budget>>

----------------------------------------------------------------------------
(* hp_mess_data::cout_delay, a second's worth of it.  Before it a mutated  *)
(* form: the test for zero is left out.                                    *)
CountedUnchecked(e) == [e EXCEPT !.delay = @ - 1]
Counted(e) == [e EXCEPT !.delay = IF @ > 0 THEN @ - 1 ELSE 0]

(* The second: delays of one hundred laps have been counted, the events    *)
(* are handled.  What is due waits only for the HBXs in full.              *)
Second(full) ==
  /\ Incoming
  /\ \A i \in DOMAIN queue : queue[i].delay = 0 => queue[i].hbx \in full
  /\ IF full = {} THEN UNCHANGED budget
     ELSE Spend("busy") /\ \A h \in full : \E i \in DOMAIN queue : queue[i].delay = 0 /\ queue[i].hbx = h
  /\ queue' = [i \in DOMAIN queue |-> Counted(queue[i])]
  /\ events' = Aged(events) /\ pc' = "events" /\ it' = 1
  /\ UNCHANGED <<todo, enabled, dir, button, relay, ghosts>>

AtEvent == pc = "events" /\ it \in DOMAIN events
Pass ==
  /\ AtEvent /\ ~Due(events[it]) /\ it' = it + 1
  /\ UNCHANGED <<todo, enabled, dir, events, queue, button, pc, relay, ghosts, budget>>

(* EVENT_SHUTTERS: process_gui_shutt_mess again, with its test of the wind. *)
RunShutter ==
  /\ AtEvent /\ Due(events[it]) /\ events[it].type = "shutter"
  /\ LET s == -events[it].var
         r == Obey(queue, events, s, events[it].cmd)
     IN IF MayMove
        THEN /\ queue' = r[1] /\ events' = RemoveAt(r[2], it)
             /\ dir' = [dir EXCEPT ![s] = r[3]] /\ NoteCommand(s, events[it].cmd)
        ELSE events' = RemoveAt(events, it) /\ UNCHANGED <<queue, dir, loose, warned>>
  /\ it' = it + 1
  /\ UNCHANGED <<todo, enabled, button, pc, relay, panel, lastAll, budget>>

(* EVENT_TIMER_CLOCK_MESS.  Before it a mutated form: it is erased only. *)
RunOffLost ==
  /\ AtEvent /\ Due(events[it]) /\ events[it].type = "off"
  /\ events' = RemoveAt(events, it) /\ it' = it + 1
  /\ UNCHANGED <<todo, enabled, dir, queue, button, pc, relay, ghosts, budget>>
RunOff ==
  /\ AtEvent /\ Due(events[it]) /\ events[it].type = "off"
  /\ LET s == events[it].var
     IN /\ queue' = Order(queue, s, OnOff(s), "0", 0)
        /\ events' = RemoveAt(events, it) /\ it' = it + 1
        /\ UNCHANGED <<todo, enabled, dir, button, pc, relay, panel, lastAll, warned, budget>>
        /\ NoteStop(s)

EndEvents ==
  /\ pc = "events" /\ it \notin DOMAIN events /\ pc' = "incoming"
  /\ UNCHANGED <<todo, enabled, dir, events, queue, button, it, relay, ghosts, budget>>

----------------------------------------------------------------------------
Panel ==
  \/ \E c \in Commands : PanelAll(c)
  \/ \E s \in Shutters, c \in Commands : PanelSingle(s, c) \/ Clock(s, c)
  \/ \E s \in Shutters : PanelStop(s) \/ \E d \in Sides : PanelMove(s, d)
Button ==
  \E b \in Buttons : ShortHold(b) \/ EndHold(b, "stop") \/ EndHold(b, "late")
ButtonSteps == \E c \in todo : ButtonStep(c)
Events == Pass \/ RunShutter \/ RunOff \/ EndEvents
Hbxs == {HbxOf[s] : s \in Shutters}
Sender == \E full \in SUBSET Hbxs : Send(full)
Seconds == \E full \in SUBSET Hbxs : Second(full)

Next == WindRises \/ WindFalls \/ Panel \/ Button \/ ButtonSteps \/ Sender \/ Seconds \/ Events
        \/ \E s \in Shutters : StepsEnd(s)

Spec == Init /\ [][Next]_vars

(* The loop goes on for ever and the timing thread announces seconds: Loop *)
(* can always take a step (a message waits, or the second can pass), so    *)
(* this is its weak fairness.  An HBX ends its steps.  Nothing is assumed  *)
(* of the wind, of hands and of the clock.                                 *)
Loop == ButtonSteps \/ Events \/ Send({}) \/ Second({})
Fairness == []<><<Loop>>_vars /\ WF_vars(\E s \in Shutters : StepsEnd(s))
FairSpec == Spec /\ Fairness

----------------------------------------------------------------------------
(* Properties *)

EventType ==
  [type : {"off"}, var : Shutters, left : Nat \cup {-1}]
    \cup [type : {"shutter"}, var : {-s : s \in Shutters}, left : Nat \cup {-1},
          cmd : Text, by : {"all", "clock"}]
Pins == Shutters \X {"onoff", "dir"}
EntryType == [hbx : Nat, type : {"1"}, items : Seq([pin : Pins, val : Values]), delay : Nat,
              priority : {0}, resend : {0}, counter : Nat, postpone : {0}]

(* Every variable has its type. *)
TypeOK ==
  /\ enabled \in BOOLEAN /\ dir \in [Shutters -> Sides]
  /\ events \in Seq(EventType) /\ queue \in Seq(EntryType)
  /\ button \in [Buttons -> {"free", "short"}]
  /\ todo \subseteq [shutter : Shutters, what : {"turn", "stop", "late"}]
  /\ pc \in {"incoming", "events"} /\ it \in Nat \ {0}
  /\ relay \in [Shutters -> Values]
  /\ panel \subseteq Shutters /\ lastAll \in Command
  /\ loose \subseteq Shutters /\ warned \subseteq Shutters
  /\ budget \in [Inputs -> Nat]

(* While the wind forbids to move, no command that starts a motor gets     *)
(* into the queue, whatever event, button or request was under way when    *)
(* the wind rose.                                                          *)
Motions(q) == {s \in Shutters : \E i \in DOMAIN q : \E j \in DOMAIN q[i].items :
                 q[i].items[j].pin = OnOff(s) /\ q[i].items[j].val # "0"}
NoMoveInWind == [][~enabled /\ ~enabled' => Motions(queue') \subseteq Motions(queue)]_vars

(* Of several commands for all shutters the last one wins: no event of an  *)
(* earlier one is left.                                                    *)
LastAllWins ==
  \A i \in DOMAIN events :
    events[i].type = "shutter" /\ events[i].by = "all" => events[i].cmd = TextOf(lastAll)

(* A shutter that moves will be stopped: a stop is pending, or somebody    *)
(* still holds it, or the stop that was asked for was refused (by the      *)
(* wind) or dropped (by the sender, which kept an older command), or its   *)
(* commands shared a message with those of another shutter, or a command   *)
(* for all by steps, which loses its argument, started it without an end.  *)
MoveHasEnd ==
  \A s \in Shutters : Moves(s) =>
    \/ StopPending(queue, events, s) \/ Held(s) \/ s \in loose
    \/ \E c \in todo : c.shutter = s /\ c.what # "turn"

(* In the end nothing moves but what is held or loose. *)
MovesEnd == <>[](\A s \in Shutters : relay[s] = "0" \/ Held(s) \/ s \in loose)

(* The report of strong wind says that the shutters are raised: until one  *)
(* has been moved or got another command, the event that raises it stays.  *)
WarningRaises ==
  \A s \in warned : \E i \in DOMAIN events :
    events[i].type = "shutter" /\ events[i].var = -s /\ events[i].cmd.side = Up
=============================================================================
