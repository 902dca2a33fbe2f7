---------------------------- MODULE HpTransport ----------------------------
(***************************************************************************)
(* The command transport of hp_go: how an output command travels from      *)
(* hp_sender's queue over the XBee mesh to a controller (HBX) and how the  *)
(* answers, or their absence, come back.                                   *)
(*                                                                         *)
(*   queue         hp_sender::my_messages           (hp_sender.cpp)        *)
(*   xbee_busy     hp_sender::my_xbee_mess_id       frame numbers in use   *)
(*   start_id      hp_sender::my_start_xbee_id                             *)
(*   uc_busy       hp_sender::my_uc_mess_id         letters in use         *)
(*   sent          hp_go::my_send_messages          (hp2go.cpp)            *)
(*   mess_counter, u_send, protect, restart_type    fields of hp_hbx       *)
(*   quiet         HBXs not heard of for RESTART_TIME_TRESHOLD seconds     *)
(*   todo          add_message calls a loop over pins or HBXs still makes  *)
(*   pc, it        place in the main loop of hp_go::run                    *)
(*   air           answers of the driver and of the HBXs not yet handled   *)
(*   line          pin D0 of an HBX's radio, which holds its processor in  *)
(*                 reset while it is low ("4"): the world outside hp_go    *)
(*   budget        how many more external events the environment may cause *)
(*                                                                         *)
(* One lap of the main loop is: "incoming" (m_incomming is emptied),       *)
(* "send" (send_messages), "check" (check_sent_messages) and, when the     *)
(* timing thread has announced a new second, "second".                     *)
(*                                                                         *)
(* Message types are the ones the code distinguishes: "0" remote AT        *)
(* command (reset of the HBX), "8" diagnostics, "9" the U message, and "1" *)
(* for the output commands (types "2" and "6" take the same branches).     *)
(***************************************************************************)
EXTENDS HpSender

CONSTANTS
  NumHbx,            \* HBXs are numbered 1..NumHbx, as hp_hbx::my_pos is
  Active,            \* the HBXs whose my_hbx_active is set
  External,          \* the HBXs reached through another gateway
  Pins, Values,      \* output pins of an HBX and what can be written to one
  NumUc,             \* size of the pool of message letters (82 in the code)
  MAX_XBEE_MESS_ID, HBX_BUFFER, MAX_POSTPONE_COUNT,
  MAX_RESEND_COUNT,
  MAX_DELAY_TIME,    \* laps an entry of my_send_messages waits for its answer
  DELAY_20, DELAY_40, DELAY_100, \* laps of the delays of the same length / 10 ms
  CommandDelays,     \* laps by which a rule may delay a command
  Prompt,            \* answers come before the next lap, or at any later time
  Budget             \* bound: how often each external event may happen

Hbx == 1..NumHbx
NONE == 0            \* no frame number, no letter
Events == {"command", "boot", "diagnostic", "nack", "loss", "silence", "answer",
           "socket", "dbfail", "interval"}

ASSUME SizeAssumption ==
  /\ NumHbx \in Nat /\ Active \subseteq Hbx /\ External \subseteq Hbx
  /\ IsFiniteSet(Pins)
  /\ NumUc \in Nat /\ MAX_XBEE_MESS_ID \in Nat
  /\ HBX_BUFFER \in Nat /\ MAX_POSTPONE_COUNT \in Nat
  /\ MAX_RESEND_COUNT \in Nat \ {0}
ASSUME DelayAssumption ==
  /\ MAX_DELAY_TIME \in Nat
  /\ DELAY_20 \in Nat /\ DELAY_40 \in Nat /\ DELAY_100 \in Nat /\ CommandDelays \subseteq Nat
ASSUME EnvironmentAssumption ==
  /\ Prompt \in BOOLEAN
  /\ Budget \in [Events -> Nat]

VARIABLES queue, xbee_busy, start_id, uc_busy, sent,
          mess_counter, u_send, protect, restart_type, quiet, todo, pc, it, air, line, budget

hbxVars == <<mess_counter, u_send, protect, restart_type, quiet>>
idVars  == <<xbee_busy, start_id, uc_busy>>
vars    == <<queue, idVars, sent, hbxVars, todo, pc, it, air, line, budget>>

----------------------------------------------------------------------------
(* Messages.  An item is the two characters of a pin and what follows.     *)

NACK == 1            \* RESTART_NACK
WATCHDOG == 2        \* RESTART_WATCHDOG
Types == {"0", "1", "8", "9"}
Frames == 1..MAX_XBEE_MESS_ID
UcIds == 1..NumUc
Item == [pin : Pins \cup {"D0", "X"}, val : Values \cup {"4", "5", ""}]
Message == [hbx : Hbx, type : Types, items : Seq(Item)]
Entry == [hbx : Hbx, type : Types, items : Seq(Item), delay : Nat, priority : Nat,
          resend : Nat, counter : Nat, postpone : Nat]
SentEntry == [hbx : Hbx, type : Types, items : Seq(Item), uc : UcIds \cup {NONE},
              frame : Frames, sent_count : Nat, age : Nat]
AnswerKinds == {"txstat", "drv_ack", "ack", "U", "X", "brc"}
Answer == [kind : AnswerKinds, hbx : Hbx, frame : Frames \cup {NONE}, uc : UcIds \cup {NONE}]

Msg(h, t, items) == [hbx |-> h, type |-> t, items |-> items]
Output(h, p, v) == Msg(h, "1", <<[pin |-> p, val |-> v]>>)
ResetLow(h)  == Msg(h, "0", <<[pin |-> "D0", val |-> "4"]>>)
ResetHigh(h) == Msg(h, "0", <<[pin |-> "D0", val |-> "5"]>>)
Diagnostics(h) == Msg(h, "8", <<[pin |-> "X", val |-> ""]>>)
UMessage(h) == Msg(h, "9", <<>>)

----------------------------------------------------------------------------
(* Mutated form of the next: the line is to be raised at once. *)
RestartMessagesAtOnce(q, h) ==
  AddMessage(AddMessage(q, ResetLow(h), 0, 0, 0), ResetHigh(h), 0, 0, 0)

(* hp_go::restart_uc, once restart_enabled has allowed it. *)
RestartMessages(q, h) ==
  AddMessage(AddMessage(q, ResetLow(h), 0, 0, 0), ResetHigh(h), 0, 0, DELAY_100)

(* hp_hbx::decrease_mess_counter, n times; before it two mutated forms:    *)
(* without the test for zero, and with an off-by-one in it.                *)
DecrementUnchecked(c, n) == c - n
DecrementOffByOne(c, n) == IF c > n THEN c - n ELSE c
Decrement(c, n) == IF c > n THEN c - n ELSE 0
Decrease(h, n) == [mess_counter EXCEPT ![h] = Decrement(@, n)]

(* hp_sender::free_xbee_id and is_free_xbee_id never reach the last number. *)
Freeable(f) == f > 0 /\ f < MAX_XBEE_MESS_ID
FreeXbeeIds(fs) == xbee_busy \ {f \in fs : Freeable(f)}

----------------------------------------------------------------------------
Init ==
  /\ queue = <<>> /\ sent = {} /\ todo = {} /\ air = {}
  /\ xbee_busy = {} /\ start_id = 0 /\ uc_busy = {}
  /\ mess_counter = [h \in Hbx |-> 0]
  /\ u_send = {} /\ protect = {} /\ quiet = Hbx
  /\ restart_type = [h \in Hbx |-> NONE]
  /\ pc = "incoming" /\ it = 1
  /\ line = [h \in Hbx |-> "5"]
  /\ budget = Budget

Spend(what) == budget[what] > 0 /\ budget' = [budget EXCEPT ![what] = @ - 1]

----------------------------------------------------------------------------
(* Incoming: m_incomming is handled message by message.                    *)

AtIncoming == pc = "incoming" /\ todo = {}

(* A GUI message, a rule or a sensor asks for an output. *)
Command(h, p, v, delay) ==
  /\ AtIncoming /\ Spend("command")
  /\ queue' = AddMessage(queue, Output(h, p, v), 0, 0, delay)
  /\ UNCHANGED <<idVars, sent, hbxVars, todo, pc, it, air, line>>

(* process_txstat_mess: the first entry with the frame number, which is    *)
(* the one that waits longest, gives back its buffer place and the number  *)
(* and stays.                                                              *)
Txstat(a) ==
  /\ AtIncoming /\ a.kind = "txstat" /\ air' = air \ {a}
  /\ LET same == {e \in sent : e.frame = a.frame}
     IN IF same = {} THEN UNCHANGED <<mess_counter, xbee_busy>>
        ELSE \E e \in same :
               /\ \A f \in same : f.age <= e.age
               /\ mess_counter' = Decrease(e.hbx, 1)
               /\ xbee_busy' = FreeXbeeIds({a.frame})
  /\ UNCHANGED <<queue, start_id, uc_busy, sent, u_send, protect, restart_type,
                 quiet, todo, pc, it, line, budget>>

(* process_xbee_mess: a remote AT answer removes every entry with the      *)
(* frame number and keeps their letters.                                   *)
DrvAck(a) ==
  /\ AtIncoming /\ a.kind = "drv_ack" /\ air' = air \ {a}
  /\ LET same == {e \in sent : e.frame = a.frame}
     IN /\ sent' = sent \ same
        /\ mess_counter' = Decrease(a.hbx, Cardinality(same))
        /\ xbee_busy' = IF same = {} THEN xbee_busy ELSE FreeXbeeIds({a.frame})
  /\ UNCHANGED <<queue, start_id, uc_busy, u_send, protect, restart_type,
                 quiet, todo, pc, it, line, budget>>

(* Mutated forms of the next: the letters stay taken; all letters of the   *)
(* HBX are given back.                                                     *)
CompleteKeepsLetters(h, done) ==
  LET frames == {e.frame : e \in done} \cap {f \in xbee_busy : Freeable(f)}
  IN /\ sent' = sent \ done /\ UNCHANGED uc_busy
     /\ xbee_busy' = xbee_busy \ frames
     /\ mess_counter' = Decrease(h, Cardinality(frames))
CompleteFreesAll(h, done) ==
  LET frames == {e.frame : e \in done} \cap {f \in xbee_busy : Freeable(f)}
  IN /\ sent' = sent \ done
     /\ uc_busy' = uc_busy \ {e.uc : e \in {x \in sent : x.hbx = h}}
     /\ xbee_busy' = xbee_busy \ frames
     /\ mess_counter' = Decrease(h, Cardinality(frames))

(* The last loop of process_ack_mess and process_dia_mess: the entries in  *)
(* done leave, with their letters and with those frame numbers that are    *)
(* still taken, each of which is a buffer place of the answering HBX.      *)
Complete(h, done) ==
  LET frames == {e.frame : e \in done} \cap {f \in xbee_busy : Freeable(f)}
  IN /\ sent' = sent \ done
     /\ uc_busy' = uc_busy \ {e.uc : e \in done}
     /\ xbee_busy' = xbee_busy \ frames
     /\ mess_counter' = Decrease(h, Cardinality(frames))

(* hp_hbx::set_internal_timer: the HBX has been heard of. *)
Heard(h) == quiet' = quiet \ {h}

(* process_ack_mess for the answer to an output command. *)
Ack(a) ==
  /\ AtIncoming /\ a.kind = "ack" /\ air' = air \ {a} /\ Heard(a.hbx)
  /\ Complete(a.hbx, {e \in sent : e.uc = a.uc})
  /\ UNCHANGED <<queue, start_id, u_send, protect, restart_type, todo, pc, it, line, budget>>

(* The same when a value is "088": the HBX is restarted first. *)
AckWithNack(a) ==
  /\ AtIncoming /\ a.kind = "ack" /\ air' = air \ {a} /\ Heard(a.hbx) /\ Spend("nack")
  /\ IF a.hbx \in protect THEN UNCHANGED <<queue, protect, restart_type>>
     ELSE /\ queue' = RestartMessages(queue, a.hbx)
          /\ protect' = protect \cup {a.hbx}
          /\ restart_type' = [restart_type EXCEPT ![a.hbx] = NACK]
  /\ Complete(a.hbx, {e \in sent : e.uc = a.uc})
  /\ UNCHANGED <<start_id, u_send, todo, pc, it, line>>

(* process_ack_mess for "U": after a restart the outputs are restored from *)
(* the database (sync_hbx, in the order of the item names), and everything *)
(* sent to the HBX counts as answered.                                     *)
UAck(a) ==
  /\ AtIncoming /\ a.kind = "U" /\ air' = air \ {a} /\ Heard(a.hbx)
  /\ Complete(a.hbx, {e \in sent : e.hbx = a.hbx})
  /\ restart_type' = [restart_type EXCEPT ![a.hbx] = NONE]
  /\ IF restart_type[a.hbx] = NONE THEN UNCHANGED <<todo, budget>>
     ELSE \/ \E place \in [Pins -> 0..(Cardinality(Pins) - 1)], status \in [Pins -> Values] :
               /\ \A p, q \in Pins : place[p] = place[q] => p = q
               /\ todo' = {[ord |-> place[p], delay |-> place[p] * DELAY_20,
                            m |-> Output(a.hbx, p, status[p])] : p \in Pins}
               /\ UNCHANGED budget
          \/ Spend("dbfail") /\ UNCHANGED todo
  /\ UNCHANGED <<queue, start_id, u_send, protect, pc, it, line>>

(* process_act_mess for "X": process_dia_mess. *)
XAct(a) ==
  /\ AtIncoming /\ a.kind = "X" /\ air' = air \ {a} /\ Heard(a.hbx)
  /\ Complete(a.hbx, {e \in sent : e.hbx = a.hbx})
  /\ UNCHANGED <<queue, start_id, u_send, protect, restart_type, todo, pc, it, line, budget>>

(* process_brc_mess: the HBX has booted and is sent a U message, unless    *)
(* one was sent within the last ten seconds (send_U_message, whose log     *)
(* line calls get_restart_type, and that forgets the restart when the HBX  *)
(* has been quiet).  If the HBX says more than U, process_ack_mess is      *)
(* called: W, the other text it knows by name, is no letter of the pool,   *)
(* so that the HBX has been heard of and no entry leaves.                  *)
Boot(h) ==
  /\ restart_type' = [restart_type EXCEPT
       ![h] = IF h \notin u_send /\ h \in quiet THEN NONE ELSE WATCHDOG]
  /\ queue' = IF h \in u_send THEN queue
              ELSE AddMessage(queue, UMessage(h), 0, 5, DELAY_100)
  /\ u_send' = u_send \cup {h}
  /\ UNCHANGED quiet \/ Heard(h)
  /\ UNCHANGED <<idVars, sent, mess_counter, protect, todo, pc, it, line>>

Brc(a) == AtIncoming /\ a.kind = "brc" /\ air' = air \ {a} /\ Boot(a.hbx) /\ UNCHANGED budget
SpontaneousBoot(h) == AtIncoming /\ Spend("boot") /\ Boot(h) /\ UNCHANGED air

(* One turn of the loops over add_message in sync_hbx and send_diagnostic. *)
AddStep ==
  /\ todo # {}
  /\ \E t \in todo :
       /\ \A u \in todo : t.ord <= u.ord
       /\ queue' = AddMessage(queue, t.m, 0, 0, t.delay)
       /\ todo' = todo \ {t}
  /\ UNCHANGED <<idVars, sent, hbxVars, pc, it, air, line, budget>>

----------------------------------------------------------------------------
(* Send: hp_sender::send_messages                                          *)

(* std::sort by priority; up to 16 entries libstdc++ sorts by insertion,   *)
(* which keeps the order of equal priorities.                              *)
Before(q, i, j) ==
  q[i].priority > q[j].priority \/ (q[i].priority = q[j].priority /\ i < j)
StableSort(q, r) ==
  \E p \in [DOMAIN q -> DOMAIN q] :
    /\ \A i, j \in DOMAIN q : i < j => Before(q, p[i], p[j])
    /\ r = [i \in DOMAIN q |-> q[p[i]]]

StartSend ==
  /\ AtIncoming /\ (Prompt => air = {})
  /\ StableSort(queue, queue')
  /\ pc' = "send" /\ it' = 1
  /\ UNCHANGED <<idVars, sent, hbxVars, todo, air, line, budget>>

AtEntry == pc = "send" /\ it \in DOMAIN queue
CountDelay ==
  /\ AtEntry /\ queue[it].delay > 0
  /\ queue' = [queue EXCEPT ![it].delay = @ - 1] /\ it' = it + 1
  /\ UNCHANGED <<idVars, sent, hbxVars, todo, pc, air, line, budget>>

(* in_protect_interval() is true once ten seconds have passed since the    *)
(* last restart_uc; a postponed entry gets a new delay and still goes on   *)
(* to be sent in this lap.                                                 *)
Postponed(e) == e.hbx \notin protect /\ e.hbx \in u_send
GivenUp(e) == Postponed(e) /\ e.postpone >= MAX_POSTPONE_COUNT
Considered(e) ==
  IF Postponed(e) THEN [e EXCEPT !.postpone = @ + 1, !.delay = DELAY_100] ELSE e

DropEntry ==
  /\ AtEntry /\ queue[it].delay = 0
  /\ GivenUp(queue[it]) \/ queue[it].hbx \notin Active
  /\ queue' = RemoveAt(queue, it)
  /\ UNCHANGED <<idVars, sent, hbxVars, todo, pc, it, air, line, budget>>

Due == AtEntry /\ queue[it].delay = 0 /\ ~GivenUp(queue[it]) /\ queue[it].hbx \in Active
BufferFull ==
  /\ Due /\ mess_counter[queue[it].hbx] >= HBX_BUFFER
  /\ queue' = [queue EXCEPT ![it] = Considered(@)] /\ it' = it + 1
  /\ UNCHANGED <<idVars, sent, hbxVars, todo, pc, air, line, budget>>

(* get_free_xbee_mess_id and get_free_uc_mess_id *)
NextStart == IF start_id + 1 > MAX_XBEE_MESS_ID \div 2 THEN 0 ELSE start_id + 1
FreeFrames == {f \in Frames : f > NextStart /\ f \notin xbee_busy}
FreeUcsOfHbx == UcIds \ {e.uc : e \in {x \in sent : x.hbx = queue[it].hbx}} \* a mutated form
FreeUcs == UcIds \ uc_busy
Lowest(S) == CHOOSE x \in S : \A y \in S : x <= y
TakenFrame == IF FreeFrames = {} THEN NONE ELSE Lowest(FreeFrames)
TakenUc(t) == IF t = "0" \/ FreeUcs = {} THEN NONE ELSE Lowest(FreeUcs)
Ready == Due /\ mess_counter[queue[it].hbx] < HBX_BUFFER
HaveIds == FreeFrames # {} /\ (queue[it].type = "0" \/ FreeUcs # {})

(* One of the two pools is empty: what the other one gave stays taken. *)
NoIds ==
  /\ Ready /\ ~HaveIds
  /\ start_id' = NextStart
  /\ xbee_busy' = xbee_busy \cup ({TakenFrame} \ {NONE})
  /\ uc_busy' = uc_busy \cup ({TakenUc(queue[it].type)} \ {NONE})
  /\ queue' = [queue EXCEPT ![it] = Considered(@)] /\ it' = it + 1
  /\ UNCHANGED <<sent, hbxVars, todo, pc, air, line, budget>>

(* socket() failed: the letter is given back, the frame number is not. *)
SocketFails ==
  /\ Ready /\ HaveIds /\ queue[it].hbx \notin External /\ Spend("socket")
  /\ start_id' = NextStart
  /\ xbee_busy' = xbee_busy \cup {TakenFrame}
  /\ queue' = [queue EXCEPT ![it] = Considered(@)] /\ it' = it + 1
  /\ UNCHANGED <<uc_busy, sent, hbxVars, todo, pc, air, line>>

(* What is heard of a transmission.  The radio reports what became of it:  *)
(* a remote AT command is answered by the remote radio or, in its place,   *)
(* by a drv_ack that says "Norespones", which process_xbee_mess takes for  *)
(* an answer; everything else gets a txstat.  The processor of the HBX     *)
(* answers unless it is held in reset, and boots when the line is raised.  *)
Reply(k, h, f, u) == [kind |-> k, hbx |-> h, frame |-> f, uc |-> u]
Report(e, f) == {Reply(IF e.type = "0" THEN "drv_ack" ELSE "txstat", e.hbx, f, NONE)}
Answers(e, f, u) ==
  LET h == e.hbx
      awake == line[h] = "5"
  IN Report(e, f) \cup
     CASE e.type = "0" -> IF e.items = ResetHigh(h).items /\ ~awake
                          THEN {Reply("brc", h, NONE, NONE)} ELSE {}
       [] e.type = "1" -> IF awake THEN {Reply("ack", h, NONE, u)} ELSE {}
       [] e.type = "8" -> IF awake THEN {Reply("X", h, NONE, NONE)} ELSE {}
       [] e.type = "9" -> IF awake THEN {Reply("U", h, NONE, NONE)} ELSE {}

(* The message reaches the HBX and all answers, or some of them, come; or  *)
(* it is lost on the mesh and only the radio reports; or it does not even  *)
(* reach the driver, because connect() failed, which send_socket does not  *)
(* report.                                                                 *)
Transmit(e, f, u) ==
  LET Hear(got) == air' = air \cup got
      heard == Answers(e, f, u)
  IN \/ /\ line' = IF e.type = "0" THEN [line EXCEPT ![e.hbx] = e.items[1].val] ELSE line
        /\ \/ Hear(heard) /\ UNCHANGED budget
           \/ \E got \in SUBSET heard : got # heard /\ Hear(got) /\ Spend("answer")
     \/ Hear(Report(e, f)) /\ UNCHANGED line /\ Spend("loss")
     \/ Hear({}) /\ UNCHANGED line /\ Spend("silence")

(* The message is handed to the driver and to my_send_messages. *)
SendEntry ==
  /\ Ready /\ HaveIds
  /\ LET e == queue[it]
         f == TakenFrame
         u == TakenUc(e.type)
     IN /\ start_id' = NextStart
        /\ xbee_busy' = xbee_busy \cup {f}
        /\ uc_busy' = uc_busy \cup ({u} \ {NONE})
        /\ mess_counter' = [mess_counter EXCEPT ![e.hbx] = @ + 1]
        /\ sent' = sent \cup {[hbx |-> e.hbx, type |-> e.type, items |-> e.items, uc |-> u,
                               frame |-> f, sent_count |-> e.resend, age |-> 0]}
        /\ Transmit(e, f, u)
        /\ queue' = RemoveAt(queue, it)
  /\ UNCHANGED <<u_send, protect, restart_type, quiet, todo, pc, it>>

EndSend ==
  /\ pc = "send" /\ it \notin DOMAIN queue
  /\ pc' = "check" /\ it' = 1
  /\ UNCHANGED <<queue, idVars, sent, hbxVars, todo, air, line, budget>>

----------------------------------------------------------------------------
(* Check: hp_go::check_sent_messages.  The entries that waited long enough *)
(* are handled one by one, then the others grow older.                     *)

Elapsed(e) == pc = "check" /\ e \in sent /\ e.age = MAX_DELAY_TIME

(* What every elapsed entry does: its letter, its place in the buffer of   *)
(* its HBX and its frame number are given back, and it leaves.             *)
Release(e) ==
  /\ uc_busy' = uc_busy \ {e.uc}
  /\ mess_counter' = Decrease(e.hbx, 1)
  /\ xbee_busy' = FreeXbeeIds({e.frame})
  /\ sent' = sent \ {e}

TimeoutDiagnostics(e) ==
  /\ Elapsed(e) /\ e.sent_count + 1 < MAX_RESEND_COUNT /\ e.type = "8"
  /\ Release(e)
  /\ UNCHANGED <<queue, start_id, u_send, protect, restart_type, quiet, todo, pc, it, air, line, budget>>

(* Mutated form of the next: one attempt too many. *)
TimeoutResendOnceMore(e) ==
  /\ Elapsed(e) /\ e.sent_count + 1 <= MAX_RESEND_COUNT /\ e.type # "8"
  /\ queue' = AddMessage(queue, Msg(e.hbx, e.type, e.items), e.sent_count + 1, 0, 0)
  /\ Release(e)
  /\ UNCHANGED <<start_id, u_send, protect, restart_type, quiet, todo, pc, it, air, line, budget>>

TimeoutResend(e) ==
  /\ Elapsed(e) /\ e.sent_count + 1 < MAX_RESEND_COUNT /\ e.type # "8"
  /\ queue' = AddMessage(queue, Msg(e.hbx, e.type, e.items), e.sent_count + 1, 0, 0)
  /\ Release(e)
  /\ UNCHANGED <<start_id, u_send, protect, restart_type, quiet, todo, pc, it, air, line, budget>>

(* The message is lost; unless it was a reset command or diagnostics, the  *)
(* HBX is restarted.                                                       *)
TimeoutLost(e) ==
  /\ Elapsed(e) /\ e.sent_count + 1 >= MAX_RESEND_COUNT
  /\ IF e.type \in {"0", "8"} \/ e.hbx \in protect
     THEN UNCHANGED <<queue, protect, restart_type>>
     ELSE /\ queue' = RestartMessages(queue, e.hbx)
          /\ protect' = protect \cup {e.hbx}
          /\ restart_type' = [restart_type EXCEPT ![e.hbx] = NACK]
  /\ Release(e)
  /\ UNCHANGED <<start_id, u_send, quiet, todo, pc, it, air, line, budget>>

EndCheck(next) ==
  /\ pc = "check" /\ \A e \in sent : e.age < MAX_DELAY_TIME
  /\ sent' = {[e EXCEPT !.age = @ + 1] : e \in sent}
  /\ pc' = next
  /\ UNCHANGED <<queue, idVars, hbxVars, todo, it, air, line, budget>>

----------------------------------------------------------------------------
(* Second: the work of a new second that concerns the transport.           *)

(* check_hbx_times: for some HBXs ten seconds have passed since the U      *)
(* message, since the last transmission, since the last restart, or        *)
(* RESTART_TIME_TRESHOLD since anything was heard.  When answers are       *)
(* prompt, so are the laps, and MAX_DELAY_TIME of them take less than      *)
(* those ten seconds.                                                      *)
Second(uElapsed, messElapsed, protectElapsed, quietNow) ==
  /\ pc = "second" /\ todo = {} /\ pc' = "incoming"
  /\ Prompt => \A e \in sent : e.hbx \notin messElapsed
  /\ IF protectElapsed = {} /\ quietNow = {} THEN UNCHANGED budget ELSE Spend("interval")
  /\ u_send' = u_send \ uElapsed
  /\ protect' = protect \ protectElapsed
  /\ quiet' = quiet \cup quietNow
  /\ mess_counter' = [h \in Hbx |-> Decrement(mess_counter[h], IF h \in messElapsed THEN 1 ELSE 0)]
  /\ UNCHANGED <<queue, idVars, sent, restart_type, todo, it, air, line>>

(* send_diagnostic, every DIAGNOSTIC_INTERVAL seconds. *)
SendDiagnostic ==
  /\ pc = "second" /\ todo = {} /\ Spend("diagnostic")
  /\ todo' = {[ord |-> h, delay |-> (h - 1) * DELAY_40, m |-> Diagnostics(h)] : h \in Active}
  /\ UNCHANGED <<queue, idVars, sent, hbxVars, pc, it, air, line>>

----------------------------------------------------------------------------
Handle ==
  \E a \in air : Txstat(a) \/ DrvAck(a) \/ Ack(a) \/ AckWithNack(a) \/ UAck(a) \/ XAct(a) \/ Brc(a)
Incoming ==
  \/ \E h \in Hbx, p \in Pins, v \in Values, d \in CommandDelays : Command(h, p, v, d)
  \/ Handle
  \/ \E h \in Hbx : SpontaneousBoot(h)
Send == StartSend \/ CountDelay \/ DropEntry \/ BufferFull \/ NoIds \/ SocketFails \/ SendEntry \/ EndSend
Check ==
  \/ \E e \in sent : TimeoutDiagnostics(e) \/ TimeoutResend(e) \/ TimeoutLost(e)
  \/ EndCheck("incoming") \/ EndCheck("second")
Seconds ==
  \/ SendDiagnostic
  \/ \E u \in SUBSET u_send, m \in SUBSET Hbx, p \in SUBSET protect, q \in SUBSET (Hbx \ quiet) :
       Second(u, m, p, q)

Next == Incoming \/ AddStep \/ Send \/ Check \/ Seconds

Spec == Init /\ [][Next]_vars

(* The loop never stops and handles what it finds; the driver delivers     *)
(* what it has heard; the timing thread announces seconds for ever, and    *)
(* after ten of them a timer has elapsed.                                  *)
Fairness ==
  /\ WF_vars(Handle) /\ WF_vars(AddStep) /\ WF_vars(Send) /\ WF_vars(Check)
  /\ WF_vars(Seconds) /\ SF_vars(EndCheck("second"))
  /\ \A h \in Hbx : SF_vars(Second({}, {h}, {}, {}) /\ mess_counter[h] > 0)
FairSpec == Spec /\ Fairness

----------------------------------------------------------------------------
(* Properties *)

(* Every variable has its type. *)
TypeOK ==
  /\ queue \in Seq(Entry) /\ sent \subseteq SentEntry
  /\ xbee_busy \subseteq Frames /\ start_id \in Nat /\ uc_busy \subseteq UcIds
  /\ mess_counter \in [Hbx -> Nat] /\ u_send \subseteq Hbx /\ protect \subseteq Hbx
  /\ quiet \subseteq Hbx
  /\ restart_type \in [Hbx -> {NONE, NACK, WATCHDOG}]
  /\ todo \subseteq [ord : Nat, delay : Nat, m : Message]
  /\ pc \in {"incoming", "send", "check", "second"} /\ it \in Nat \ {0}
  /\ air \subseteq Answer /\ line \in [Hbx -> {"4", "5"}]
  /\ budget \in [Events -> Nat]

(* A letter that waits for its answer is not given to another message: it  *)
(* is marked as taken, and no two entries of my_send_messages share it.    *)
LettersExclusive ==
  /\ \A e \in sent : e.uc # NONE => e.uc \in uc_busy
  /\ \A e, f \in sent : e.uc = f.uc /\ e.uc # NONE => e = f

(* No message is transmitted more than MAX_RESEND_COUNT times, whatever is *)
(* merged, dropped or answered on the way. *)
AttemptsBounded ==
  /\ \A e \in sent : e.sent_count < MAX_RESEND_COUNT
  /\ \A i \in DOMAIN queue : queue[i].resend < MAX_RESEND_COUNT

(* When answers are prompt, the answer of one HBX never completes the      *)
(* message sent to another one. *)
AckFindsItsOwn ==
  \A a \in air, e \in sent : a.kind = "ack" /\ a.uc = e.uc => a.hbx = e.hbx

(* Without socket failures no number leaks: every frame number and letter  *)
(* that is taken belongs to an entry that still waits.                     *)
NoIdLeaks ==
  /\ \A f \in xbee_busy : Freeable(f) => \E e \in sent : e.frame = f
  /\ \A u \in uc_busy : \E e \in sent : e.uc = u

(* When nothing is left to do, no HBX is held in reset: after restart_uc   *)
(* has pulled its line down, the line has been raised again.               *)
Idle == queue = <<>> /\ sent = {} /\ todo = {} /\ air = {}
ResetReleased == Idle => \A h \in Hbx : line[h] = "5"

(* Once the environment is quiet, every message is answered or given up,   *)
(* and no HBX stays blocked by its counter.                                *)
Drains == <>[](Idle /\ \A h \in Hbx : mess_counter[h] = 0)
=============================================================================
