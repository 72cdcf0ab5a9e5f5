---------------------------- MODULE UsageLedger ----------------------------
(***************************************************************************)
(* What the Metronome stand-in promises of usage, whatever buffers,        *)
(* batches, retries and restarts lie behind it: an event is recorded once  *)
(* and its record never changes, and a bill drawn up for a window holds    *)
(* exactly the records of its customer that lie in the window by then.     *)
(* Every window is billed once; windows may overlap, and a record is then  *)
(* on several bills.  UsagePipeline implements this specification.         *)
(***************************************************************************)
EXTENDS Integers

CONSTANTS
    Events,         \* ids of the usage events
    CustomerOf      \* event -> its customer

VARIABLES
    ledger,         \* the records kept, [id, at]
    bills           \* the bills drawn up, [window, usage]

usageLedger == <<ledger, bills>>

Recorded == {r.id : r \in ledger}

(* A window takes in its start and not its end.                            *)
Within(w) ==
    {r \in ledger : CustomerOf[r.id] = w.customer /\ w.start <= r.at /\ r.at < w.end}

Init == ledger = {} /\ bills = {}

(* One request may record several events.                                  *)
Store ==
    LET new == ledger' \ ledger
    IN  /\ new # {}
        /\ ledger' = ledger \cup new
        /\ \A r \in new : r.id \in Events \ Recorded
        /\ \A r, q \in new : r.id = q.id => r = q
        /\ UNCHANGED bills

DrawUp ==
    /\ \E b \in bills' :
          /\ bills' = bills \cup {b}
          /\ b.usage = Within(b.window)
          /\ \A a \in bills : a.window # b.window
    /\ UNCHANGED ledger

Next == Store \/ DrawUp

Spec == Init /\ [][Next]_usageLedger
=============================================================================
