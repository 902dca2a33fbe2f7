---------------------------- MODULE MCHpHeating ----------------------------
(* A small instance of HpHeating for TLC: a section of two zones with      *)
(* tempering, a cooler and a main vent, and a section of one zone without. *)
EXTENDS HpHeating

Rooms == [z \in 1..3 |-> IF z = 3 THEN 2 ELSE 1]
Thermometers == [z \in 1..3 |-> IF z = 1 THEN 1 ELSE 2]
OneEach == [s \in 1..2 |-> s]
OwnHeater == [z \in 1..3 |-> <<z, z>>]
FirstCools == << <<4, 1>> >>
FirstVent == [s \in 1..2 |-> IF s = 1 THEN <<7>> ELSE <<>>]
FirstTempered == [s \in 1..2 |-> IF s = 1 THEN 1 ELSE 0]
SomeBudget == [any |-> 4, reading |-> 2, request |-> 2, mode |-> 2, plan |-> 1]
=============================================================================
