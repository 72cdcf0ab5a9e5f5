---------------------------- MODULE Generators ----------------------------
(***************************************************************************)
(* internal/controlplane: usage generators.  A started generator has a     *)
(* goroutine, its loop, that publishes a batch of usage at every tick;     *)
(* stopping or deleting the generator cancels the loop's context.          *)
(*                                                                         *)
(* The manager's mutex is held by each request and while a batch is        *)
(* counted, never while it is published: what a batch was started for may  *)
(* be stopped, started again or deleted by the time it is out.  A request  *)
(* to emit a burst publishes beside the loops.                             *)
(*                                                                         *)
(* Customers are left out (a generator keeps its own), and so is Close,    *)
(* after which the process ends.                                           *)
(***************************************************************************)
EXTENDS Integers, Sequences

CONSTANTS
    Generators,     \* the ids events.NewID may return; it repeats none
    Counts,         \* the batch sizes asked for
    MaxBatch,       \* the largest batch size granted (5000)
    Requests,       \* the emit requests that may be in progress at a time
    MaxStarts,      \* bound: loops ever started
    MaxEvents       \* bound: events ever published for one generator

ASSUME GeneratorsAssumption ==
    /\ Counts \subseteq Int
    /\ MaxBatch \in Nat \ {0}
    /\ {MaxStarts, MaxEvents} \subseteq Nat
    /\ Requests \cap Nat = {}

VARIABLES
    known,          \* every id provisioned so far
    procs,          \* id -> generator; a deleted one leaves the map
    loops,          \* the loops started, in order
    batch,          \* loop or request -> the batch it is emitting
    published,      \* history: id -> events that reached the bus
    failed          \* history: the ids with a batch that was reported as failed

vars == <<known, procs, loops, batch, published, failed>>

-----------------------------------------------------------------------------
NoLoop == 0
Loops == 1 .. MaxStarts
Emitters == Loops \cup Requests

NoBatch == [doing |-> "nothing"]

Process == [perTick : 1 .. MaxBatch, running : BOOLEAN, cancel : 0 .. MaxStarts,
            emitted : Nat]
Loop == [id : Generators, perTick : 1 .. MaxBatch, cancelled : BOOLEAN, ended : BOOLEAN]
Batch == {NoBatch} \cup [doing : {"publishing", "counting"}, id : Generators,
                         n : 1 .. MaxBatch]

TypeOK ==
    /\ known \subseteq Generators
    /\ DOMAIN procs \subseteq known
    /\ \A id \in DOMAIN procs : procs[id] \in Process
    /\ loops \in Seq(Loop) /\ Len(loops) <= MaxStarts
    /\ batch \in [Emitters -> Batch]
    /\ published \in [Generators -> Nat]
    /\ failed \subseteq Generators

-----------------------------------------------------------------------------
(* Mutant: only the upper end is looked after.                             *)
CappedCount(n) == IF n > MaxBatch THEN MaxBatch ELSE n

Clamped(n) == IF n <= 0 THEN 1 ELSE IF n > MaxBatch THEN MaxBatch ELSE n

handleProvision(id, n) ==
    /\ id \notin known
    /\ known' = known \cup {id}
    /\ procs' = [g \in DOMAIN procs \cup {id} |->
                   IF g = id THEN [perTick |-> Clamped(n), running |-> FALSE,
                                   cancel |-> NoLoop, emitted |-> 0]
                   ELSE procs[g]]
    /\ UNCHANGED <<loops, batch, published, failed>>

goRun(id) ==
    /\ Len(loops) < MaxStarts
    /\ loops' = Append(loops, [id |-> id, perTick |-> procs[id].perTick,
                               cancelled |-> FALSE, ended |-> FALSE])
    /\ procs' = [procs EXCEPT ![id].running = TRUE, ![id].cancel = Len(loops')]
    /\ UNCHANGED <<known, batch, published, failed>>

(* Mutant: a second start is not noticed.                                  *)
startAnyway(id) == id \in DOMAIN procs /\ goRun(id)

handleStart(id) ==
    /\ id \in DOMAIN procs
    /\ ~procs[id].running
    /\ goRun(id)

Cancelled(id) ==
    IF procs[id].cancel = NoLoop THEN loops
    ELSE [loops EXCEPT ![procs[id].cancel].cancelled = TRUE]

handleStop(id) ==
    /\ id \in DOMAIN procs
    /\ procs[id].running
    /\ loops' = Cancelled(id)
    /\ procs' = [procs EXCEPT ![id].running = FALSE, ![id].cancel = NoLoop]
    /\ UNCHANGED <<known, batch, published, failed>>

Without(id) == [g \in DOMAIN procs \ {id} |-> procs[g]]

(* Mutant: the loop of a deleted generator is forgotten.                   *)
deleteOnly(id) ==
    /\ id \in DOMAIN procs
    /\ procs' = Without(id)
    /\ UNCHANGED <<known, loops, batch, published, failed>>

handleDelete(id) ==
    /\ id \in DOMAIN procs
    /\ loops' = Cancelled(id)
    /\ procs' = Without(id)
    /\ UNCHANGED <<known, batch, published, failed>>

-----------------------------------------------------------------------------
(* emitBatch, called by a loop or a request: e emits n events for id.      *)
emitBatch(e, id, n) ==
    /\ batch[e] = NoBatch
    /\ published[id] + n <= MaxEvents
    /\ batch' = [batch EXCEPT ![e] = [doing |-> "publishing", id |-> id, n |-> n]]
    /\ UNCHANGED <<known, procs, loops, published, failed>>

Running(l) == l \in DOMAIN loops /\ ~loops[l].ended

(* The select of run: a tick may be taken although the context is done.    *)
tick(l) ==
    /\ Running(l)
    /\ emitBatch(l, loops[l].id, loops[l].perTick)

done(l) ==
    /\ Running(l)
    /\ loops[l].cancelled
    /\ batch[l] = NoBatch
    /\ loops' = [loops EXCEPT ![l].ended = TRUE]
    /\ UNCHANGED <<known, procs, batch, published, failed>>

handleEmit(r, id, n) ==
    /\ id \in DOMAIN procs
    /\ emitBatch(r, id, Clamped(n))

(* Every event of the batch reached the bus.                               *)
publish(e) ==
    LET b == batch[e] IN
    /\ b.doing = "publishing"
    /\ published' = [published EXCEPT ![b.id] = @ + b.n]
    /\ batch' = [batch EXCEPT ![e].doing = "counting"]
    /\ UNCHANGED <<known, procs, loops, failed>>

(* Mutant: the error is logged and the batch counted all the same.         *)
publishOrLog(e) ==
    LET b == batch[e] IN
    /\ b.doing = "publishing"
    /\ \E k \in 0 .. b.n : published' = [published EXCEPT ![b.id] = @ + k]
    /\ failed' = failed \cup {b.id}
    /\ batch' = [batch EXCEPT ![e].doing = "counting"]
    /\ UNCHANGED <<known, procs, loops>>

(* PublishBatch reports an error: any part of the batch may be out.        *)
publishFails(e) ==
    LET b == batch[e] IN
    /\ b.doing = "publishing"
    /\ \E k \in 0 .. b.n : published' = [published EXCEPT ![b.id] = @ + k]
    /\ failed' = failed \cup {b.id}
    /\ batch' = [batch EXCEPT ![e] = NoBatch]
    /\ UNCHANGED <<known, procs, loops>>

count(e) ==
    LET b == batch[e] IN
    /\ b.doing = "counting"
    /\ procs' = IF b.id \in DOMAIN procs
                THEN [procs EXCEPT ![b.id].emitted = @ + b.n] ELSE procs
    /\ batch' = [batch EXCEPT ![e] = NoBatch]
    /\ UNCHANGED <<known, loops, published, failed>>

-----------------------------------------------------------------------------
Init ==
    /\ known = {}
    /\ procs = [id \in {} |-> 0]
    /\ loops = <<>>
    /\ batch = [e \in Emitters |-> NoBatch]
    /\ published = [id \in Generators |-> 0]
    /\ failed = {}

Manage(id) ==
    \/ \E n \in Counts : handleProvision(id, n)
    \/ handleStart(id)
    \/ handleStop(id)
    \/ handleDelete(id)
    \/ \E r \in Requests, n \in Counts : handleEmit(r, id, n)

Publishing(e) == publish(e) \/ publishFails(e) \/ count(e)

Next ==
    \/ \E id \in Generators : Manage(id)
    \/ \E l \in Loops : tick(l) \/ done(l)
    \/ \E e \in Emitters : Publishing(e)

(* A publish ends, and so does the wait for the mutex.  select picks at    *)
(* random among what is ready, so it cannot pass over a done context for   *)
(* ever, however often a tick is ready as well: strong fairness.           *)
Spec ==
    /\ Init /\ [][Next]_vars
    /\ \A e \in Emitters : WF_vars(Publishing(e))
    /\ \A l \in Loops : SF_vars(done(l))

-----------------------------------------------------------------------------
(* Properties                                                              *)

Live(id) == {l \in DOMAIN loops : loops[l].id = id /\ ~loops[l].cancelled}

(* Through any sequence of starts, stops and deletions a running generator *)
(* has one loop whose context is not done, the one its cancel function     *)
(* ends, and no other generator, provisioned or deleted, has any: a loop   *)
(* nobody can stop would bill its customer for good.                       *)
OneLoopEach ==
    \A id \in Generators :
        Live(id) = IF id \in DOMAIN procs /\ procs[id].running
                   THEN {procs[id].cancel} ELSE {}

Counting(id) == \E e \in Emitters : batch[e].doing = "counting" /\ batch[e].id = id

(* A generator's count never claims an event the bus did not get, and is   *)
(* exact when no batch is being counted and none failed, however loops,    *)
(* bursts, stops and restarts interleave.                                  *)
EmittedIsPublished ==
    \A id \in DOMAIN procs :
        /\ procs[id].emitted <= published[id]
        /\ (~Counting(id) /\ id \notin failed) => procs[id].emitted = published[id]

(* A deleted generator falls silent: its loops end, and no other starts,   *)
(* although a loop may prefer a tick to its done context for a while.      *)
DeletedFallSilent ==
    \A id \in Generators :
        id \in known /\ id \notin DOMAIN procs
            ~> [](\A l \in DOMAIN loops : loops[l].id = id => loops[l].ended)
=============================================================================
