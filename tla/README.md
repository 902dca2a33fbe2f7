# hippo-system in TLA+

`hp_go` is the control program of a smart home: one process that talks over a
ZigBee (XBee) mesh to controllers called HBX, each with a few output pins and
inputs, and carries out rules, shutters, heating, watering and an alarm system.
`driver` is the process that owns the radio. This directory models the parts of
them whose order of events is hard to test, checks the models with TLC on small
instances, and proves the main invariants with TLAPS for all instances.

## The system

Everything of `hp_go` that matters runs in one thread, `hp_go::run`
(`hp2go.cpp:840-1090`), lap after lap:

1. handle every message in `m_incomming` (from the panel, the radio, the cloud),
2. count down the events of 10 ms (repeated messages, running rules),
3. `hp_sender::send_messages`: send what is due and fits in the buffers,
4. `check_sent_messages`: time out what was not answered,
5. once a second (the timing thread says so): delayed events, alarm countdowns,
   timers of the HBXs; once a minute: calendars of watering, heating, rules.

Other threads append to `m_incomming` (listeners) or take from queues that the
main loop fills (database, web socket, Modbus, DALI).

| Part | State | Operations | Interacts with | Hard part | What makes it correct |
|---|---|---|---|---|---|
| Sender (`hp_sender`, `hp_mess_data`) | `my_messages`, pools of letters and frame numbers | `add_message` (merge, drop, retime), `send_messages`, `get_free_*`, `free_*` | rules and panel (in), driver (out) | merging by pin and delay, two pools that must never leak | a number has one owner; all are given back |
| Sent messages (`hp2go`: `process_driver_resp`, `check_sent_messages`) | `my_send_messages` | txstat, drv_ack, answer, U, X, timeout, resend, give up | sender, HBX supervision | late, lost and missing answers against timeouts | an answer completes its own message; attempts are bounded; all ends |
| HBX supervision (`hp_hbx`, `restart_uc`, `sync_hbx`) | buffer counter, timers, restart type | restart by reset line, U message, restore outputs, diagnostics | sender, database | a reset takes two messages that can be lost or overtake | no HBX stays in reset or blocked |
| Security (`hp_security*`) | zones: status, countdown, last motion, repetition; `my_running_zone` | arm, disarm, motion, second, alarm | rules, sender, database | one countdown for two purposes, a vector changed while it is walked | an alarm has its cause; disarming sticks; restarts keep the status |
| Database thread (`hp_db_handler`) | queue of queries, open transaction | push, execute, transaction, log | main loop, `sync_with_db` | failed queries, lost queue | the last update wins |
| Rules and buttons | `my_running_rules`, `my_repeat_mess`, conditions | short, double, long press, repetition, conditions | sender, pins, delayed events | releases against timers | one press, one effect |
| Delayed events | `my_delayed_events` | push (one per variable), process, erase | shutters, watering, pins | vector changed while walked | an event is carried out once |
| Shutters and wind | positions, moves, limit | command, wind warning, timed stop | delayed events, sender | a warning against commands | wind wins |
| Watering | programs, zones | start, next zone, stop, pause | delayed events, database | programs that overlap | one program at a time, all valves close |
| Heating, recuperation | sections, hysteresis, modes | temperature, calendar, mode | sender, Modbus | calendar against manual mode | the heater follows its demand |
| Gates, turnstiles, cards | state of a gate, cards | open, close, limit switch, timeout | rules, sender | two requests for one gate | a gate is not driven both ways |
| Listeners | `m_incomming` | accept, append | main loop | reads without the lock | no message is lost or split |
| Modbus, DALI | request queues | poll, write, reconnect | heating, pins | one bus, two users | a write is not lost by a poll |
| Web sockets, cloud | connection, queues | connect, reconnect, push | main loop | back-off | connected again in the end |
| Driver (`driver/`) | frames, AES key, threads | frame, unframe, change key, reset | radio, `hp_go` | key change over a lossy mesh | every node has the same key |

`PROJECT.json` lists every part with its status, and the hazards of the code line
by line.

## Modules

| Module | Content |
|---|---|
| `HpQueues` | erasing elements of a vector while going through it |
| `HpSender` | `add_message` and `delete_timer_mess` on the queue of the sender; used by `HpTransport`, `HpShutters`, `HpButtons` |
| `HpDelayedEvents` | pushing, ageing and erasing delayed events; used by `HpWatering`, `HpShutters`, `HpHeating` |
| `HpTransport` | sender, sent messages and HBX supervision in one state machine |
| `HpSecurity` | zones, running zones, siren and light, rows in the database, restart |
| `HpAlarmZone` | abstract: what a user may rely on in an alarm zone; `HpSecurity` implements it |
| `HpWatering` | zones, program, calendar and rain; the delayed events that open and close the valves |
| `HpShutters` | moves from panel, button, clock and wind, and what stops them: events, delayed messages, hands |
| `HpButtons` | short, double and long presses, day and night rules, repeated messages that dim a lamp |
| `HpHeating` | sections, zones with hysteresis, five modes, tempering, boiler and main vents |
| `MCHpTransport`, `MCHpSecurity`, `MCHpWatering`, `MCHpShutters`, `MCHpButtons`, `MCHpHeating` | their small instances; the `.cfg` files bear the name of the module and of the run |
| `HpTransportProofs`, `HpSenderProofs`, `HpSecurityProofs`, `HpWateringProofs`, `HpShuttersProofs`, `HpButtonsProofs`, `HpHeatingProofs` | theorems |
| `HpLemmas` | lemmas about sequences and about erasing from them that the proofs use |

Some definitions have a second form just before them, marked as mutated (for
example `DecrementOffByOne`). No action uses them: each is a plausible bug, put
in the place of the right definition to see that a property notices it
(`PROJECT.json`, "mutants").

### HpTransport

`pc` is the place in a lap: `incoming`, `send`, `check`, `second`. The loops of
`send_messages` and `check_sent_messages` are single steps (`it` is the loop
variable), so that answers, which only `incoming` handles, never fall between.
`AddMessage` is `hp_sender::add_message` with all of its three outcomes: merged,
dropped because the first pin is there, or appended; the loop also changes the
delay of earlier entries that contain the same text (`Retime`). `StableSort`
stands for `std::sort`, which up to 16 entries is an insertion sort.
`todo` holds calls of `add_message` that a loop over pins or HBXs still makes.

The world outside `hp_go` is what it can hear: `air` is the set of answers on
their way; `line` is the reset line of an HBX, pulled down by `D0_4` and raised by
`D0_5`. A transmission is heard in full, in part, only by the radio, or not at all
(`Transmit`), and each departure from the first costs one unit of `budget`.
With `Prompt` answers come before the next lap; without it they come at any later
time. Timers are sets of HBXs whose interval runs (`u_send`, `protect`, not
`quiet`); a second may end any of them, so every length of the interval is covered.

Message texts are sequences of items (pin, value); addresses are positions. The
delays of the code (20, 40, 100 laps) are constants, small in the instances.

### HpSecurity

A request of the panel is a loop over zones (`left`, in the order of the
configuration), a second a loop over `my_running_zone` (`it`), in which erasing an
element moves the next one under the loop variable: it is passed over, as in the
code. `recent` is the set of zones whose `my_last_check_time` is at most a minute
ago, `muted` those whose `my_next_repeat` is in the future; a second may take any
zone out of them. An output has its known status (`pin`, from the last answer) and
the values on their way (`way`); `add_message` compares with the known status only.
A restart loses everything but the database and the outputs.

`asked` and `motions` are history variables: what the users asked for last, and how
many motions an active zone saw since. Nothing reads them but the properties.

An alarm repeated by a later motion switches on the actors of the zone at the
place *i* of `my_running_zone`, where *i* is the position of the controller of the
sensor (`hp2go.cpp:2615`). `Repeated` keeps that, and where the vector has no such
place leaves the zone open.

### HpWatering

A zone is a sequence of valves, a program the event `EVENT_WAT_ALL_ZONE` whose text
is the list of the zones still to come; since the list is always a rest of
`1..NumZones`, `ChainEvent` keeps its first zone, as a negative number because a
list of names never reads like the position of a pin. `push_delayed_event` compares
texts without types, so `var` is a number for the two other types alike: the
position of a valve in `EVENT_TIMER_CLOCK_MESS`, a temperature in
`EVENT_HEATING_CHECK`. `left` is the run time minus the time, -1 for all the past.

`process_delayed_events` and `erase_delayed_event` are single steps of their loops
(`it`), with the erasure at the place of the loop variable as in the code; the loops
over valves are `todo`, which `AddMessage` works off in order before anything else.
`pin` is the known status, `valve` the valve itself; between them lie the queue of
the sender (`queued`) and the answer on its way (`unanswered`). Panel requests come
at any point between them. A second waits for the answers (`Settled`): late and lost
answers are `HpTransport`'s matter. `running` is set by the answer of a valve whose
name is the zone's, by the calendar and by rain, as in the code; it may well be wrong.

`programmed` is a history variable: a program was started and not stopped since.

### HpAlarmZone

A zone without lists, loop, sender and database: off, arming, armed, entry or alarm.
`HpSecurity` implements it (`KeepsPromise`), with `phase` read from the status and the
countdown of the zone (`Phase`), `wish` from `asked` and `seen` from `motions`. A turn of
the panel's loop is an `Arm` or `Disarm`, a motion a `Notice`, the end of a countdown an
`Elapse`, a restart a `Restore`; everything else the detailed module does is a stutter.
The two uses of one countdown, which the code tells apart by the status only, are two
phases here, so that neither can end as the other.

### HpShutters

A command for one shutter is obeyed at once, one for all becomes an event per shutter, a
second apart (`AllEvents`), whose text is `TextOf` the command: it has 1 where the command had
an argument (`hp2go.cpp:4243`), so that moves by steps become moves without an end. A whole
move is ended by the event "off" after `Timer` seconds, a move from a button held for long by
a delayed message in the sender, a move by steps by the HBX. `find_shutter` and `find_multi_rule` give nothing while the
wind forbids movement (`MayMove`): a loop of `process_rule` over the shutters of a button
is `todo`, and since requests, reports and laps are handled one after the other, nothing
comes between its turns. A second counts one hundred laps of the delays; an HBX in `full`
has no room, so that what is due for it waits, which is where commands are dropped and
merged. `relay` is the pin that feeds the motor.

`panel`, `lastAll`, `loose` and `warned` are history variables. `loose` are the
shutters whose stop came to nothing, until they are started anew. There are five ways, each of
them something the code does: the wind refused the stop (`Refused`); `add_message` dropped it, since
a command for the pin waits already (`Unstopped`); `delete_timer_mess` erased it together
with the delayed message of another shutter of the same HBX into which it had been merged
(`Swept`); or the start itself was delayed, because `add_message` gave the message it shares
with another shutter a new delay (`Delayed`), so that the stop may come before it; or a
command for all shutters, by steps or the 0 of a finger that leaves the panel, came as a 1
(`NoteMove`), which starts the motor with no timer, no finger and no steps, unless a stop
was pending as an event.

### HpButtons

A press that no rule answers at once is an entry of `my_rule_checker`; each turn of the
loop of `check_running_rules` is three steps ("hold", "double", "long"), because an
erasure goes on with the next element at the same place and with the local `counter` of
the element that is gone. What `Rule` does is the part of `process_rule` for outputs
"fluently" (a level against the last direction, and an entry of `my_repeat_mess`) and for
shutters (`moving`, whether they were told to move or to stop). Levels are 0 to `MAX_LEVEL`.
A message can be unanswered for ever or lost; a release or a press can be unheard.

### HpHeating

A reading processes the zones of its sensor whose section is not tempered, a request of a
section its zones, `check_heating_zones` all of them; `Decided` and `Orders` are
`process_section` and its messages. `CheckHeating` is `hp_go::check_heating` as a whole: the
plan of the thermostat, the start of tempering, the main vents and the boiler. `queued` is
the order for a pin that waits in the sender: an order for the known status is dropped and
so is one for a pin that waits already (`Obey`); `crossed` are the pins to which that
happened, with the opposite value, and that got no order since. Orders go and are answered
before the next reading, request or second. `Aims` rounds the temperature of the mode eco,
because the code takes it as an `int`.

## Runs

| Run | Bounds | Shows |
|---|---|---|
| `transport_prompt` | 2 HBXs, one behind another gateway, 1 pin, 3 letters, 6 frames, buffer of 1, 3 transmissions, 2 commands, 1 refusal, 2 silences, 1 boot | types; `NoIdLeaks`; `AckFindsItsOwn`; `ResetReleased` |
| `transport_late` | 1 HBX, 2 letters, 3 frames, answers at any time, 1 socket failure; both pools run out and wrap | `LettersExclusive`, `AttemptsBounded` |
| `transport_drains` | 2 HBXs, one inactive; one each of command, loss, missing answer, boot, diagnostics, failed query, elapsed interval | liveness: `Drains` |
| `security_crash` | 2 zones with a common sensor, 2 requests, 3 motions, 1 restart, 1 failed query, outputs at any time, zone 1 repeats its alarm | types; `DisarmSticks`; `StoredStatus`; `AlarmNeedsTwoMotions`; the refinement of `HpAlarmZone`: `KeepsPromise` |
| `security_settles` | the same zones, 3 requests, 3 motions, countdown of 2, no crash, prompt outputs, no repeated alarm | `CountdownRuns`, `LightFollows`, `SirenOnlyInAlarm`, liveness: `Settles` |
| `watering_program` | 2 zones with 2 and 1 valves, times of 0 or 1 minute, 2 starts of the program, 1 stop, 1 changed time, 1 heating event | types; `TimersUnique`, `StopSticks`, `OpenIsTimed`, `OneZoneAtATime` |
| `watering_mixed` | the same zones, 1 start of the program, 1 request or calendar start of single zones, rain, 1 heating event whose temperature is also the position of a valve | `OpenIsTimed`, liveness: `WateringEnds` |
| `shutters_mixed` | 2 shutters on one HBX, so that their commands share messages, whole moves of 2 seconds, a button for one and one for both, 2 requests (down the whole way, up by steps, each for one or for all, held), 1 rise of the wind, 1 second with a busy HBX | types; `LastAllWins`, `MoveHasEnd`, `NoMoveInWind`, liveness: `MovesEnd` |
| `shutters_wind` | 2 shutters on HBXs of their own, 1 rise of the wind, 1 request | violated: `WarningRaises`, that the shutters are raised when the report says so |
| `buttons_hold` | 3 buttons with double, long and shutter rules, one of them differing by day, 3 presses, 1 change of mode, 1 unheard press, release or answer; thresholds 1, 2, 3 laps | types; `OnePressOneRule`, `HandStopsMove`, `DimmingHeld`, `CountedLate`, `OwnTime`, liveness: `AllEnds` |
| `buttons_repeat` | 1 button that dims, 2 presses, 1 lap with a busy HBX | violated: `RepeatWaits`, that the next level waits for the answer to the one before |
| `heating` | 2 sections, 3 zones, 2 sensors, one section with tempering, a cooler and a main vent, a boiler and a master cooler; any 4 of 2 readings, 2 requests, 2 changes of mode, 1 change of plan; a period of 2 minutes of 2 seconds | types; `ActorHasReason`, `NoOverheat`, `BoilerHasOutlet`, liveness: `TemperingEnds` |

Two runs expect a violation; both are findings (`PROJECT.json`):

* `shutters_wind`: `process_meteo_mess` says that it raises the shutters (`hp2go.cpp:2070`,
  `2072`), schedules the moves (`2074-2078`) and forbids all movement in the same step
  (`2080`). When the events come due, `find_shutter` returns nothing and they are erased.
* `buttons_repeat`: a comment (`hp2go.cpp:1801`) says that the countdown to the next level starts
  only after the answer to the one before. The code looks at `my_send_messages` only; while
  the message still waits for room in `my_messages` the countdown runs and the next level
  is dropped by `add_message`.

The bounds are chosen so that the cases that matter happen. Two HBXs are needed for
answers that reach the wrong message; a buffer of one and a pool of two or three
for exhaustion; three transmissions for a retry that is itself retried. Two zones
in `my_running_zone` are needed for the erasure that passes one over; two requests
for a zone armed twice; three motions for alarm and repetition. Two starts
of the program put two lists beside each other, which the erasing loop may mistake.
`MINUTE` is 2 and `GAP` 2 in place of 60 and 5 seconds: an event may be passed over
once, so that the pause must exceed one second and the minute be as long as a
second's delay; longer ones add only seconds in which nothing is due. Two shutters
are needed for a second command that comes between the events of the first; three
buttons for the erasures of `check_running_rules`, of which each may pass over another
press; thresholds of 1, 2 and 3 laps keep their order, a lamp that starts at level 1 of 2
(`FIRST_LEVEL`) stands for 5 of 9 and can go both ways, and `PERIOD` 2 lets an answer come
before or after the end of the countdown. In the heating two zones of one section share a
tempering, the third is in a section without, and four events let a change of mode, a request, a
reading and a tempering meet. Nothing in the actions depends on more than two or
three of anything, except how far a counter runs.

**Fairness.** The main loop never blocks for ever (its sockets have timeouts), so
its steps are weakly fair; the timing thread announces seconds for ever, so
`EndCheck("second")` and the ten-second timers of the HBXs are strongly fair (the
loop visits them again and again); the driver and the database thread handle what
they are given. In `HpWatering` the steps of the loop and the mesh as a whole are
weakly fair, which lets every message and every second come. In `HpShutters`,
`HpButtons` and `HpHeating` some step of the loop is possible in every state, so that
`[]<><<Loop>>_vars` is its weak fairness; besides, an HBX ends a move by steps, and a
sent message is answered if the chance comes again and again (`Answer`, strongly fair,
since each lap offers it and the requests of a lap may come first).
In `HpTransport` and `HpSecurity` nothing is assumed of radios, HBXs or users, and nowhere
of fingers, wind, clocks and sensors: all of their events may stay away. `Drains` therefore
holds although every answer may be missing, and `AllEnds` although a finger may never let go.

**Under which conditions a property holds** (each is a condition of the code, not
of the model):

* `NoIdLeaks` needs sockets that open and pools that do not run out: otherwise
  the frame number of the failed attempt stays taken (`hp_sender.cpp:212,230`).
* `AckFindsItsOwn` needs answers before the timeout: a late answer carries a letter
  that may belong to another message by then (`hp2go.cpp:2280`).
* `ResetReleased` needs answered reset commands: if the last `D0_5` is lost,
  nothing repeats it, and a repeated `D0_4` may come after it.
* `HBX_BUFFER` is not respected: a timeout gives the place of a message back a
  second time (`hp2go.cpp:1976`). It is not stated as a property.
* `LightFollows` and `SirenOnlyInAlarm` need outputs that follow before the next
  event, since an order that equals the known status is dropped; no restart, since
  the light is not compared with the zones at the start; and the second one no
  repeated alarm (see `Repeated` above). Actors that switch themselves off
  (internal timers) are on as far as the model knows until they are switched off.
* `OpenIsTimed` and `WateringEnds` leave out valves whose position is also a
  temperature asked for: the closing of such a valve can be taken for the heating's
  event (`hp2go.cpp:1359`). They need answers before the next second, and a program
  that is not restarted: the delayed events are kept in memory only.
* `OneZoneAtATime` speaks of one program and no single zones: nothing in the code
  prevents two programs, or a zone beside a program, from watering together
  (`my_max_running_zones` is read from the configuration and never used).

* `MoveHasEnd` and `MovesEnd` leave out held and `loose` shutters. A release of the
  panel's button, a button let go or a delayed stop is refused while the wind forbids
  movement (`find_shutter` does not ask what the command is), a stop whose pin waits in
  the queue already is dropped (`hp_sender.cpp:128`), and shutters of one HBX share messages, so that
  `delete_timer_mess` (`hp_sender.cpp:104`) takes the stop of one with that of another and a merge
  may delay a start. The text for one shutter of a command for all has lost its argument
  (`hp2go.cpp:4243`): `up_steps` or `up_0` for all shutters starts every motor (`4281`) and deletes the
  delayed stops (`hp_sender.cpp:104`). In all these cases nothing in `hp_go` stops such a motor until the next command.
* `OnePressOneRule`, `HandStopsMove` and `DimmingHeld` need presses and releases that are
  heard (`NothingLost`); an entry without a release stays until its long rule comes.
  `OwnTime` needs rules that stay the same while a button is held. `DimmingHeld` leaves
  out rules of a button with a double press that come after the release, so that nothing ends
  their dimming but the last level: the rule "normal", and, if the mode changed meanwhile, the
  rule "long", which an entry that was released can get from the counter of the entry that was
  erased before it.
* `ActorHasReason` leaves out `crossed` pins: besides dropped orders, the end of a
  tempering at a moment when no section with the heater is without heat is lost (the event is
  erased, `hp2heating.cpp:152`, and nothing closes the heater but the next order of its zone).
  `NoOverheat` leaves out zones whose reading came while their section was tempered, and
  requests not yet handled; `TemperingEnds` sections that were told to heat while tempered.
* `BoilerHasOutlet` needs that no pin is `crossed`. Its theorem assumes besides that every
  zone has a heater that no other zone uses (`OwnHeaters`): a zone that stops closes its
  heater, whether or not another zone still heats with it, and that zone gives no new order until
  its decision changes.
* The heating's `LayoutAssumption` leaves out configurations in which `check_heating` indexes past
  the vents of a section (`ventils[i]` with the index of the section, `hp2heating.cpp:183`),
  sections with tempering and no heater (no event would end it), and pins with
  two uses.

## Proofs

`HpSenderProofs` has one lemma for all the modules that queue messages, `AddMessageKeeps`: a
set of entries that contains the new entry and is closed under merging and retiming is kept
by `add_message`, whichever of its outcomes it takes. `AddMessagePlaces` adds what becomes of
each entry at its place, `AddMessageAppends` when a message gets an entry of its own.

`HpTransportProofs` shows, for all values of the constants that satisfy the
assumptions of the module:

* `TypeCorrect`: `Spec => []TypeOK`. Inductive is `TypeInv`, which adds to it that
  messages are commands with at least one item where the code reads the first, that
  `sent` is finite, and that resend counts stay below `MAX_RESEND_COUNT`; the
  last conjunct is `AttemptsCorrect`.
* `LettersCorrect`: `LettersExclusive` is inductive together with `TypeInv`; it rests
  on `TakenUcFree` (the letter `get_free_uc_mess_id` gives out was not taken).
* `AnswersCorrect`: `AckFindsItsOwn` holds when answers are prompt. `AnswerInv` adds
  that an answer on its way belongs to an entry that still waits, and that no entry
  ages while answers are on their way.
* `NumbersCorrect`: `NoIdLeaks`, with the only ways in which numbers are lost as its
  hypotheses: an answer that comes late (`Prompt`), one pool empty while the other gives or a
  socket that fails (`NoIds`, `SocketFails`), and a remote AT command that shares its frame number
  with another message (`FramesApart`; its answer removes both and keeps the letter).
  `NumbersInv` adds that the answers of remote AT commands belong to numbers that are taken.
* `ResetCorrect`: `ResetReleased`. Hypotheses besides those on the pools: each reset
  command that is handed to the driver is carried out and answered (`ResetObeyed`), none waits
  longer than its HBX is protected from the next restart (`RestartsEnd`), and the constants
  are such that the pause between the two commands is none of length 0. `ResetInv` follows
  the pair through the queue: nothing is merged into one of the two or taken for one, the one that
  raises the line is behind the one that pulls it down and stays there (`OtherMessage`,
  `RestartPair`, `SortedPair`, `RemovedPair`), and where `send_messages` passes over the first it has
  no room for the second either (`Passed`), so that it cannot overtake.

`HpSecurityProofs` shows:

* `TypeCorrect`, `DisarmCorrect` (`DisarmSticks` is inductive with the types: a
  leftover entry has countdown -1, which never reaches zero), `CountdownCorrect`
  (an entry is erased only together with its countdown; it uses the lemmas `Removed`
  and `FirstRemoved` of `HpLemmas`).
* `AlarmCorrect`: `MotionInv` relates the three: an armed zone that counts down has
  seen two motions, a zone that was seen recently at least one, so the countdown that
  ends for an armed zone is never the one that armed it.
* `StatusStored`: `StoredInv`, the last update per zone in the queue, preserved by
  appending, by executing the first one and by losing all of them.
* `LightCorrect` and `SirenCorrect`: `LightFollows` and `SirenOnlyInAlarm`, with their
  conditions as hypotheses: `Prompt`, and for the sirens no zone that repeats its alarm.
  Their invariants say for every place of the loops which order is on its way or still to
  come, until the outputs agree with the zones again.
* `PromiseKept`: `HpSecurity` implements `HpAlarmZone`. The initial states correspond, and
  under `TypeOK` and `MotionInv` each action maps to the abstract step named
  above or a stutter: an entry of `my_running_zone` that is left over has no countdown, so
  that its turn is a stutter; a countdown that ends does so for the phase it was started in.

`HpWateringProofs` shows, for any zones, valves, times and budgets:

* `TypeCorrect`, `TimersCorrect` (`TimersUnique` follows from what `Push` does with
  the first event it finds) and `StopCorrect`: `StopInv`, after a stop every rest of
  a program lies at or behind the index of the running loop of `erase_delayed_event`,
  which stays when the element at its place goes (lemmas `Removed`, `RemovedPlaces`).
* `OpenCorrect`: `OpenIsTimed`. It is not inductive, since a closing leaves the
  events before its message is queued and the message is dropped when the known
  status is 0 already. `OpenInv` adds what makes that harmless: `KnownInv`, a valve
  is what its pin says unless a message or an answer is on its way; `CallInv`, every
  call that opens brings a closing with it; `FreshInv`, a valve that the
  loop of the events has just told to open has a closing that is not due in the same
  second; and `TimedInv`, the property with the closing that the loop is about to order. The last two are stated over the valves that are no temperature.
* `OneZoneCorrect`: `OneZoneAtATime`, for zones with fewer valves than the pause `GAP` has seconds
  (`ShortZones`; four valves with the 5 s of the code). The hypothesis is there for the loop of
  `process_delayed_events`: it passes over the event behind the one it erases, so that the
  valves of a zone do not close in one second. `Timely` is the measure: a closing that is passed over
  has moved to the front, so the one at place `i` is ordered within `i` seconds, and
  `left + i` stays below the time of the next zone. `PlaceBound` bounds the places: a second closing for a valve
  (`TimersUnique`) or a second check of the heating (`CheckInv`) does not exist, and before the closings
  of one zone no others are left (`Opening`). With `OpenInv`, no closing left means that no
  valve is open (`Between`) when the next zone starts. The run `watering_program` goes one valve
  beyond the theorem: two valves and a pause of 2 s.

`HpShuttersProofs` shows, for any shutters, buttons, times and budgets, `TypeCorrect`,
`LastAllCorrect`, `WindCorrect` and `MoveCorrect`. Inductive is first `TypeInv`: the types, that every
event of `move_all_shutters` has the last command, and that a loop over shutters goes on only while
movement is allowed, which is why none of its turns can start a motor in the wind.
`MoveHasEnd` needs `EndInv` besides, since a message that starts a motor may be ahead of
the one that stops it, behind it, or merged with that of another shutter: each shutter ends (`Ends`)
or is `loose` (as is, after a command by steps for all, what has no stop pending), whose start is delayed is `loose`, messages go to the HBX of the shutters
they name (`Wired`), and a loop over shutters is not interrupted and turns only those
that its button holds (`LoopInv`).

`HpButtonsProofs` shows, for any buttons, rules, thresholds and budgets, `TypeCorrect`,
`OneRuleForAPress`, `ShutterFollowsHand`, `LampFollowsHand`, `CountedInTime` and, an action
property, `ChosenByOwnTime`. The difficulty is the loop that goes on, after an erasure, at the same
place with the counter of the entry that is gone. `PressInv` says what that counter may be: the
own time of the entry at the index, or too short a time for any rule; all other entries are
dealt with in time. `CountedLate` follows from counting places: an entry can be passed over
only when one before it goes, and there are fewer of those than buttons (lemma `WithoutPlaces`).
`HandInv` relates a press to the finger, the marks of its entry and the rules it has
caused, `LampInv` is what the messages of the lamps keep.

`HpHeatingProofs` shows, for any sections, zones, shared valves, temperatures and modes,
`HeatingTypes`, `NeverOverheats`, `ValvesHaveReasons` and `BoilerCorrect`. `NoOverheat` and `ActorHasReason`
are not inductive: what a zone does depends on what it last heard, and an order on the way
is not on the pin yet. `IInv` adds `Heard` (a zone that is not `unheard` knows the last
reading of its sensor), `Within` (a zone that heats was below the aim of its section by what it
knows, or its request waits) and `Reasoned` (what a pin is or will be once its order has come,
`Eff`, has a reason: a zone that wants it, or a tempering event). The lemmas go the way of the code:
what `Decided` and `Orders` do for one zone, then `Processed` for a set of zones, then
`CheckHeating`, and last one lemma per action. `BoilerHasOutlet` has `BoilerInv` on top: since a
minute found the boiler on and all valves closed none has been open (`ColdSide`); a zone that
heats has its own heater open or the order for it waiting (`Opened`); and after such a minute the
boiler is off or will be, or a valve is about to open (`DryInv`).

Left to TLC:

* `Drains`, `Settles`, `WateringEnds`, `MovesEnd`, `AllEnds` and `TemperingEnds`: liveness
  under fairness is out of the prover's reach.

## Not modelled

* `HpTransport`: the lights of PWM and shutter pins as separate message types (they take
  the branches of type "1"); the `check_internal_timer` notification; outputs that follow
  others at once (`synchro`), which a resend orders again (`hp2go.cpp:2915-2935`); a broadcast whose text is a letter in use, which would be taken for the
  answer to it (`3243-3247`): `Brc` knows "U" and "W", which no letter is.
* `HpSecurity`: presence simulation, `hp_guard`, notifications, the Jablotron panel, the
  column `ALARM_COUNTDOWN`, the row of all zones.
* `HpWatering`: times and days of the calendar (which zones are due is an input), the rows
  of the database and the restart, valves with a timer of their own, reports.
* `HpShutters`: the build with `SHUTTER_CONTROL` 0, the tilt, sensors of the weather station
  other than the wind, the conditions of a rule, the loss of messages on the mesh.
* `HpButtons`: conditions, scenarios and priorities of rules, outputs other than "fluently"
  and shutters, repeated messages of the service `repeat_mess` (the status light).
* `HpHeating`: the rows of `HEATING_ZONES` and the restart (`sync_with_db`), the default values
  for a wanted temperature of 0 and -1, cooler fans, sections that are heated through Modbus, windows
  (`check_windows` does nothing), recuperation and air conditioning.
* Gates, turnstiles and cards, Modbus, DALI, web sockets and the cloud, the listeners and the
  database thread as components of their own, and the driver beyond what `hp_go` hears of it.
* Configuration, JSON, XML, SQL text, logs and mail: conversions without state of their own.

The share of the repository's lines that the modules stand for stays small for this
reason: about 21 000 of its 52 000 lines are vendored (`pugixml`, two copies of `xmlParser`, a web
socket and an HTTP library), and most of the rest reads the configuration, builds JSON and SQL, or
formats messages. The logic whose order of events matters is in `hp2go.cpp`, the sender and the
classes of the components.

## Plan

1. `HpDbHandler` and `HpListen`: the queues between threads; restoring the outputs
   while updates wait. `HpSecurity`'s queue becomes an instance of it. The rows of the
   watering and of the heating, and their restarts, follow.
2. `HpGates`: a gate as a state machine with its timers; directions that exclude each other.
3. The remaining rules: conditions, scenarios and priorities, composed with `HpButtons`.
4. `HpModbus`, `HpCloud`, and of the driver `DrvFrames`, `DrvKey`: bus queues,
   reconnection, framing with checksums, change of the AES key.
5. `CommandDelivery`, an abstract specification of a command that is delivered,
   refused or given up, refined by `HpTransport`; compositions of rules and delayed
   events with it.

Theorems planned: the refinement of `CommandDelivery`.
