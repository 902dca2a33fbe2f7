--------------------------- MODULE MCHpTransport ---------------------------
(* Small instances of HpTransport for TLC. *)
EXTENDS HpTransport

NoEvents == [x \in Events |-> 0]
PromptBudget == [NoEvents EXCEPT !["command"] = 2, !["nack"] = 1, !["silence"] = 2, !["boot"] = 1]
LateBudget == [NoEvents EXCEPT !["command"] = 1, !["socket"] = 1]
DrainBudget == [NoEvents EXCEPT !["command"] = 1, !["loss"] = 1, !["answer"] = 1, !["boot"]=1, !["diagnostic"] = 1, !["dbfail"] = 1, !["interval"] = 1]
=============================================================================
