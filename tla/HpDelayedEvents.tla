-------------------------- MODULE HpDelayedEvents --------------------------
(***************************************************************************)
(* hp_go::my_delayed_events: what is to happen later.  An event has a type *)
(* ("off" is EVENT_TIMER_CLOCK_MESS, "heat" EVENT_MESS_HEATING, "check"    *)
(* EVENT_HEATING_CHECK), a var and the time left: it is due when its       *)
(* run_time is smaller than time(NULL), left is the difference of the two, *)
(* and -1 stands for every time in the past.  Texts that never read like a *)
(* number are negative numbers here, so that vars of different types can   *)
(* be compared.                                                            *)
(***************************************************************************)
EXTENDS HpQueues, SequencesExt

Due(e) == e.left < 0

(* The events push_delayed_event takes for the one it is to add: for "off" *)
(* and "heat" the var is compared and the type is not.  Before it a        *)
(* mutated form: the search is left out.                                   *)
AlreadyThereNever(es, x) == {i \in DOMAIN es : FALSE}
AlreadyThere(es, x) ==
  {i \in DOMAIN es : \/ x.type \in {"off", "heat"} /\ es[i].var = x.var
                     \/ x.type = "check" /\ es[i].type = "check"}

FirstOf(places) == CHOOSE i \in places : \A j \in places : i <= j

(* hp_go::push_delayed_event: "check" replaces the var of the event found  *)
(* and keeps its time, the others move the run time of the first one.      *)
Push(es, x) ==
  IF AlreadyThere(es, x) = {} THEN Append(es, x)
  ELSE LET i == FirstOf(AlreadyThere(es, x))
       IN IF x.type = "check" THEN [es EXCEPT ![i] = [@ EXCEPT !.var = x.var]]
          ELSE [es EXCEPT ![i] = [@ EXCEPT !.left = x.left]]

(* A second passes for every event. *)
Aged(es) == [i \in DOMAIN es |-> [es[i] EXCEPT !.left = IF @ < 0 THEN -1 ELSE @ - 1]]

(* hp_go::erase_delayed_event. *)
EraseEvents(es, type) == Without(es, {e \in ToSet(es) : e.type = type})
=============================================================================
