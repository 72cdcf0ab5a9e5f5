---------------------------- MODULE MCEventFeed ----------------------------
(* A small instance of EventFeed for TLC.                                  *)
EXTENDS EventFeed

CONSTANTS usage, payment, p1, p2

TwoTopics == {usage, payment}
ThreeRecords == [t \in Topics |-> IF t = usage THEN 2 ELSE 1]
TwoPolls == {p1, p2}
=============================================================================
