------------------------------ MODULE HpSender ------------------------------
(***************************************************************************)
(* The queue of hp_sender (my_messages): what add_message does with a new  *)
(* command and delete_timer_mess with the delayed ones.  A message is a    *)
(* record with its HBX, its type and its items, each a pin and a value; an *)
(* entry of the queue collects up to MAX_MESS_COUNTER of them.             *)
(***************************************************************************)
EXTENDS HpQueues, FiniteSets, SequencesExt

CONSTANT MAX_MESS_COUNTER

ASSUME CounterAssumption == MAX_MESS_COUNTER \in Nat

(* The constructor of hp_mess_data. *)
NewEntry(m, resend, priority, delay) ==
  [hbx |-> m.hbx, type |-> m.type, items |-> m.items, delay |-> delay,
   priority |-> IF resend = 0 THEN priority ELSE 1, resend |-> resend,
   counter |-> 1, postpone |-> 0]

(* hp_sender::add_message *)

(* check_message: the first pin of m already is in the entry; the text of  *)
(* a U message is empty and is found in every text.                        *)
HoldsFirstPin(e, m) ==
  m.items # <<>> => \E i \in DOMAIN e.items : e.items[i].pin = m.items[1].pin

(* get_mess().find(data.mess): the items of m occur in the entry as they are. *)
HoldsText(e, m) ==
  /\ m.type # "9" /\ m.items # <<>>
  /\ m.items \in SubSeqs(e.items)

(* hp_mess_data::add_message *)
Merge(e, m) == [e EXCEPT !.items = @ \o m.items, !.counter = @ + 1]

SameSlot(e, m, delay) ==
  /\ e.hbx = m.hbx /\ e.type = m.type /\ e.delay = delay
  /\ e.counter < MAX_MESS_COUNTER

(* The entries before place k that hold the same text get the new delay.   *)
Retimed(q, m, delay, k) ==
  {j \in DOMAIN q : j < k /\ q[j].hbx = m.hbx /\ HoldsText(q[j], m)}
Retime(q, m, delay, k) ==
  [j \in DOMAIN q |->
     IF j \in Retimed(q, m, delay, k) THEN [q[j] EXCEPT !.delay = delay] ELSE q[j]]

(* The loop stops at the first entry with the same HBX, delay and type and *)
(* a free slot: the message is dropped when its pin is there, merged when  *)
(* it is not.                                                              *)
AddMessage(q, m, resend, priority, delay) ==
  LET slots == {k \in DOMAIN q : SameSlot(q[k], m, delay)}
  IN IF slots # {}
     THEN LET k == CHOOSE x \in slots : \A y \in slots : x <= y
              r == Retime(q, m, delay, k)
          IN IF HoldsFirstPin(q[k], m) THEN r
             ELSE [j \in DOMAIN q |-> IF j = k THEN Merge(q[k], m) ELSE r[j]]
     ELSE IF Retimed(q, m, delay, Len(q) + 1) # {}
     THEN Retime(q, m, delay, Len(q) + 1)
     ELSE Append(q, NewEntry(m, resend, priority, delay))

(* hp_sender::delete_timer_mess: the delayed entries whose first item is   *)
(* for the pin go, with everything that was merged into them.              *)
TimerOf(e, h, pin) == e.hbx = h /\ e.delay # 0 /\ e.items # <<>> /\ e.items[1].pin = pin
DeleteTimerMess(q, h, pin) == Without(q, {e \in ToSet(q) : TimerOf(e, h, pin)})
=============================================================================
