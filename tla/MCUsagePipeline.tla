-------------------------- MODULE MCUsagePipeline --------------------------
(* Small instances of UsagePipeline for TLC.                               *)
EXTENDS UsagePipeline

CONSTANTS pat, e1, e2, e3, kafka, other, timer

OnlyPat == {pat}
OneEvent == {e1}
ThreeEvents == {e1, e2, e3}
AllPats == [e \in Events |-> pat]
EachTwice == [e \in Events |-> 2]
FirstTwice == [e \in Events |-> IF e = e1 THEN 2 ELSE 1]
OneConsumer == {kafka}
TwoDeliverers == {kafka, other}
=============================================================================
