----------------------------- MODULE DeviceTally -----------------------------
(***************************************************************************)
(* How often each device is named: rows of PathAnalysisQueue, or rows that *)
(* are still to be written.                                                *)
(***************************************************************************)
EXTENDS Naturals

CONSTANT Device

Tally == [Device -> Nat]
None == [d \in Device |-> 0]
Once(devs) == [d \in Device |-> IF d \in devs THEN 1 ELSE 0]
a ++ b == [d \in Device |-> a[d] + b[d]]
Only(devs, a) == [d \in Device |-> IF d \in devs THEN a[d] ELSE 0]
=============================================================================
