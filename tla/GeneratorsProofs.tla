------------------------- MODULE GeneratorsProofs -------------------------
(***************************************************************************)
(* What holds of Generators for any generators, requests and bounds: its   *)
(* types, that every generator that runs has one loop, the one it can      *)
(* stop, and that a generator's count is what the bus got for it.          *)
(***************************************************************************)
EXTENDS Generators, Counting

(* A generator that does not run has no cancel function to call: a stale   *)
(* one would cancel the loop of somebody else, or none.                    *)
IdleHoldsNoLoop ==
    \A id \in DOMAIN procs : ~procs[id].running => procs[id].cancel = NoLoop

GeneratorsInv == TypeOK /\ IdleHoldsNoLoop /\ OneLoopEach

-----------------------------------------------------------------------------
(* However many events are asked for, the size granted is within bounds.   *)
LEMMA ClampedInRange == ASSUME NEW n \in Counts PROVE Clamped(n) \in 1 .. MaxBatch
  BY GeneratorsAssumption DEF Clamped

(* What cancelling a generator does: its loop's context is done, if it has *)
(* a loop, and no other loop changes.                                      *)
LEMMA CancelledLoops ==
  ASSUME GeneratorsInv, NEW id \in DOMAIN procs
  PROVE  /\ Cancelled(id) \in Seq(Loop)
         /\ Len(Cancelled(id)) = Len(loops)
         /\ DOMAIN Cancelled(id) = DOMAIN loops
         /\ \A l \in DOMAIN loops :
              /\ Cancelled(id)[l].id = loops[l].id
              /\ Cancelled(id)[l].cancelled <=> loops[l].cancelled \/ l = procs[id].cancel
  <1>1. /\ loops \in Seq(Loop) /\ Len(loops) \in Nat
        /\ DOMAIN loops = 1 .. Len(loops)
    BY DEF GeneratorsInv, TypeOK
  <1>2. \A l \in DOMAIN loops : l # NoLoop /\ loops[l] \in Loop
    BY <1>1 DEF NoLoop
  <1>3. CASE procs[id].cancel = NoLoop
    <2>1. Cancelled(id) = loops
      BY <1>3 DEF Cancelled
    <2> QED  BY <1>1, <1>2, <1>3, <2>1
  <1>4. CASE procs[id].cancel # NoLoop
    <2> DEFINE c == procs[id].cancel
               marked(l) == IF l = c THEN [loops[l] EXCEPT !.cancelled = TRUE] ELSE loops[l]
    <2>1. Cancelled(id) = [l \in 1 .. Len(loops) |-> marked(l)]
      BY <1>1, <1>4 DEF Cancelled
    <2>2. ASSUME NEW l \in 1 .. Len(loops)
          PROVE  /\ marked(l) \in Loop
                 /\ marked(l).id = loops[l].id
                 /\ marked(l).cancelled <=> loops[l].cancelled \/ l = c
      BY <1>1, <1>2 DEF Loop
    <2> HIDE DEF marked
    <2>3. [l \in 1 .. Len(loops) |-> marked(l)] \in Seq(Loop)
      BY <1>1, <2>2
    <2> QED  BY <1>1, <2>1, <2>2, <2>3
  <1> QED  BY <1>3, <1>4

-----------------------------------------------------------------------------
LEMMA InitEstablishes == Init => GeneratorsInv
  <1> SUFFICES ASSUME Init PROVE GeneratorsInv
    OBVIOUS
  <1>1. TypeOK
    BY GeneratorsAssumption DEF Init, TypeOK, Batch
  <1>2. IdleHoldsNoLoop
    BY DEF Init, IdleHoldsNoLoop
  <1>3. DOMAIN procs = {} /\ DOMAIN loops = {}
    BY DEF Init
  <1>4. OneLoopEach
    BY <1>3 DEF OneLoopEach, Live
  <1> QED  BY <1>1, <1>2, <1>4 DEF GeneratorsInv

(* Steps that leave generators alone and cancel no loop keep OneLoopEach.  *)
LEMMA SameLoops ==
  ASSUME IdleHoldsNoLoop, OneLoopEach,
         DOMAIN procs' = DOMAIN procs,
         \A id \in DOMAIN procs : /\ procs'[id].running = procs[id].running
                                  /\ procs'[id].cancel = procs[id].cancel,
         DOMAIN loops' = DOMAIN loops,
         \A l \in DOMAIN loops : /\ loops'[l].id = loops[l].id
                                 /\ loops'[l].cancelled = loops[l].cancelled
  PROVE  IdleHoldsNoLoop' /\ OneLoopEach'
  <1>1. \A id \in Generators : Live(id)' = Live(id)
    BY DEF Live
  <1> QED  BY <1>1 DEF IdleHoldsNoLoop, OneLoopEach

(* What handleStart and handleStop assign leaves a generator a generator.  *)
LEMMA ProcessUpdated ==
  ASSUME NEW p \in Process, NEW c \in 0 .. MaxStarts
  PROVE  LET q == [p EXCEPT !.running = TRUE, !.cancel = c]
             r == [p EXCEPT !.running = FALSE, !.cancel = c]
         IN  /\ q \in Process /\ q.running = TRUE /\ q.cancel = c
             /\ r \in Process /\ r.running = FALSE /\ r.cancel = c
  BY DEF Process

LEMMA ProvisionKeeps ==
  ASSUME GeneratorsInv, NEW id \in Generators, NEW n \in Counts, handleProvision(id, n)
  PROVE  GeneratorsInv'
  <1> USE DEF handleProvision
  <1>1. DOMAIN procs' = DOMAIN procs \cup {id} /\ id \notin DOMAIN procs
    BY DEF GeneratorsInv, TypeOK
  <1>2. /\ \A g \in DOMAIN procs : procs'[g] = procs[g]
        /\ procs'[id] = [perTick |-> Clamped(n), running |-> FALSE,
                         cancel |-> NoLoop, emitted |-> 0]
    BY <1>1
  <1>3. procs'[id] \in Process
    BY <1>2, ClampedInRange, GeneratorsAssumption DEF Process, NoLoop
  <1>4. TypeOK'
    BY <1>1, <1>2, <1>3 DEF GeneratorsInv, TypeOK
  <1>5. IdleHoldsNoLoop'
    BY <1>1, <1>2 DEF GeneratorsInv, IdleHoldsNoLoop
  <1>6. \A g \in Generators : Live(g)' = Live(g)
    BY DEF Live
  <1>7. OneLoopEach'
    BY <1>1, <1>2, <1>6 DEF GeneratorsInv, OneLoopEach
  <1> QED  BY <1>4, <1>5, <1>7 DEF GeneratorsInv

LEMMA StartKeeps ==
  ASSUME GeneratorsInv, NEW id \in Generators, handleStart(id)
  PROVE  GeneratorsInv'
  <1> DEFINE new == [id |-> id, perTick |-> procs[id].perTick,
                     cancelled |-> FALSE, ended |-> FALSE]
             k == Len(loops) + 1
  <1>1. /\ loops \in Seq(Loop) /\ Len(loops) \in Nat /\ Len(loops) < MaxStarts
        /\ id \in DOMAIN procs /\ procs[id] \in Process
        /\ loops' = Append(loops, new)
    BY DEF handleStart, goRun, GeneratorsInv, TypeOK
  <1>2. new \in Loop
    BY <1>1 DEF Loop, Process
  <1>3. /\ loops' \in Seq(Loop) /\ Len(loops') = k /\ k \in 1 .. MaxStarts
        /\ DOMAIN loops' = DOMAIN loops \cup {k} /\ k \notin DOMAIN loops
        /\ loops'[k] = new
        /\ \A l \in DOMAIN loops : loops'[l] = loops[l]
    BY <1>1, <1>2, GeneratorsAssumption
  <1>4. /\ DOMAIN procs' = DOMAIN procs
        /\ \A g \in DOMAIN procs : g # id => procs'[g] = procs[g]
        /\ procs'[id] = [procs[id] EXCEPT !.running = TRUE, !.cancel = k]
    BY <1>1, <1>3 DEF handleStart, goRun
  <1> HIDE DEF k
  <1>5. procs'[id] \in Process /\ procs'[id].running = TRUE /\ procs'[id].cancel = k
    <2>1. k \in 0 .. MaxStarts
      BY <1>3, GeneratorsAssumption
    <2> DEFINE q == [procs[id] EXCEPT !.running = TRUE, !.cancel = k]
    <2>2. q \in Process /\ q.running = TRUE /\ q.cancel = k
      BY <1>1, <2>1, ProcessUpdated
    <2>3. procs'[id] = q
      BY <1>4
    <2> HIDE DEF q
    <2> QED  BY <2>2, <2>3
  <1>6. TypeOK'
    BY <1>3, <1>4, <1>5 DEF handleStart, goRun, GeneratorsInv, TypeOK
  <1>7. IdleHoldsNoLoop'
    BY <1>4, <1>5 DEF GeneratorsInv, IdleHoldsNoLoop
  <1>8. ASSUME NEW g \in Generators, g # id PROVE Live(g)' = Live(g)
    BY <1>3, <1>8 DEF Live
  <1>9. Live(id) = {}
    BY DEF handleStart, goRun, GeneratorsInv, OneLoopEach
  <1>10. Live(id)' = {k}
    BY <1>3, <1>9 DEF Live
  <1>11. OneLoopEach'
    <2>1. SUFFICES ASSUME NEW g \in Generators
                   PROVE  Live(g)' = IF g \in DOMAIN procs' /\ procs'[g].running
                                     THEN {procs'[g].cancel} ELSE {}
      BY DEF OneLoopEach
    <2>2. CASE g = id
      BY <1>1, <1>4, <1>5, <1>10, <2>2
    <2>3. CASE g # id
      BY <1>4, <1>8, <2>3 DEF GeneratorsInv, OneLoopEach
    <2> QED  BY <2>2, <2>3
  <1> QED  BY <1>6, <1>7, <1>11 DEF GeneratorsInv

-----------------------------------------------------------------------------
(* Cancelling leaves the generator without a live loop, the others alone.  *)
LEMMA CancelledLive ==
  ASSUME GeneratorsInv, NEW id \in DOMAIN procs, loops' = Cancelled(id)
  PROVE  /\ loops' \in Seq(Loop) /\ Len(loops') = Len(loops)
         /\ Live(id)' = {}
         /\ \A g \in Generators : g # id => Live(g)' = Live(g)
  <1>1. id \in Generators
    BY DEF GeneratorsInv, TypeOK
  <1>2. Live(id) \subseteq {procs[id].cancel}
    BY <1>1 DEF GeneratorsInv, OneLoopEach
  <1>3. Live(id)' = {}
    BY <1>2, CancelledLoops DEF Live
  <1>4. ASSUME NEW g \in Generators, g # id PROVE Live(g)' = Live(g)
    <2>1. ASSUME NEW l \in Live(g) PROVE l # procs[id].cancel
      <3>1. l \in DOMAIN loops /\ loops[l].id = g
        BY DEF Live
      <3>2. CASE procs[id].running
        <4>1. procs[id].cancel \in Live(id)
          BY <1>1, <3>2 DEF GeneratorsInv, OneLoopEach
        <4> QED  BY <3>1, <4>1, <1>4 DEF Live
      <3>3. CASE ~procs[id].running
        <4>1. procs[id].cancel = NoLoop
          BY <3>3 DEF GeneratorsInv, IdleHoldsNoLoop
        <4>2. l # NoLoop
          BY <3>1 DEF GeneratorsInv, TypeOK, NoLoop
        <4> QED  BY <4>1, <4>2
      <3> QED  BY <3>2, <3>3
    <2> QED  BY <2>1, CancelledLoops DEF Live
  <1> QED  BY <1>3, <1>4, CancelledLoops

LEMMA StopKeeps ==
  ASSUME GeneratorsInv, NEW id \in Generators, handleStop(id)
  PROVE  GeneratorsInv'
  <1>1. /\ id \in DOMAIN procs /\ procs[id] \in Process
        /\ loops' = Cancelled(id)
    BY DEF handleStop, GeneratorsInv, TypeOK
  <1>2. /\ DOMAIN procs' = DOMAIN procs
        /\ \A g \in DOMAIN procs : g # id => procs'[g] = procs[g]
        /\ procs'[id] = [procs[id] EXCEPT !.running = FALSE, !.cancel = NoLoop]
    BY <1>1 DEF handleStop
  <1>3. /\ procs'[id] \in Process
        /\ procs'[id].running = FALSE /\ procs'[id].cancel = NoLoop
    <2>1. NoLoop \in 0 .. MaxStarts
      BY GeneratorsAssumption DEF NoLoop
    <2> DEFINE q == [procs[id] EXCEPT !.running = FALSE, !.cancel = NoLoop]
    <2>2. q \in Process /\ q.running = FALSE /\ q.cancel = NoLoop
      BY <1>1, <2>1, ProcessUpdated
    <2>3. procs'[id] = q
      BY <1>2
    <2> HIDE DEF q
    <2> QED  BY <2>2, <2>3
  <1>4. TypeOK'
    BY <1>1, <1>2, <1>3, CancelledLive DEF handleStop, GeneratorsInv, TypeOK
  <1>5. IdleHoldsNoLoop'
    BY <1>2, <1>3 DEF GeneratorsInv, IdleHoldsNoLoop
  <1>6. OneLoopEach'
    BY <1>1, <1>2, <1>3, CancelledLive DEF GeneratorsInv, OneLoopEach
  <1> QED  BY <1>4, <1>5, <1>6 DEF GeneratorsInv

LEMMA DeleteKeeps ==
  ASSUME GeneratorsInv, NEW id \in Generators, handleDelete(id)
  PROVE  GeneratorsInv'
  <1>1. id \in DOMAIN procs /\ loops' = Cancelled(id)
    BY DEF handleDelete
  <1>2. /\ DOMAIN procs' = DOMAIN procs \ {id}
        /\ \A g \in DOMAIN procs' : procs'[g] = procs[g]
    BY DEF handleDelete, Without
  <1>3. TypeOK'
    BY <1>1, <1>2, CancelledLive DEF handleDelete, GeneratorsInv, TypeOK
  <1>4. IdleHoldsNoLoop'
    BY <1>2 DEF GeneratorsInv, IdleHoldsNoLoop
  <1>5. OneLoopEach'
    BY <1>1, <1>2, CancelledLive DEF GeneratorsInv, OneLoopEach
  <1> QED  BY <1>3, <1>4, <1>5 DEF GeneratorsInv

-----------------------------------------------------------------------------
(* A batch begins: for a loop, or for a request, of a known generator.     *)
LEMMA EmitKeeps ==
  ASSUME GeneratorsInv, NEW e \in Emitters, NEW id \in Generators,
         NEW n \in 1 .. MaxBatch, emitBatch(e, id, n)
  PROVE  GeneratorsInv'
  <1>1. [doing |-> "publishing", id |-> id, n |-> n] \in Batch
    BY DEF Batch
  <1>2. TypeOK'
    BY <1>1 DEF emitBatch, GeneratorsInv, TypeOK
  <1>3. IdleHoldsNoLoop' /\ OneLoopEach'
    BY SameLoops DEF emitBatch, GeneratorsInv
  <1> QED  BY <1>2, <1>3 DEF GeneratorsInv

LEMMA DoneKeeps ==
  ASSUME GeneratorsInv, NEW l \in Loops, done(l)
  PROVE  GeneratorsInv'
  <1>1. loops \in Seq(Loop) /\ l \in DOMAIN loops /\ loops[l] \in Loop
    BY DEF done, Running, GeneratorsInv, TypeOK
  <1>2. [loops[l] EXCEPT !.ended = TRUE] \in Loop
    BY <1>1 DEF Loop
  <1>3. /\ loops' \in Seq(Loop) /\ Len(loops') = Len(loops)
        /\ DOMAIN loops' = DOMAIN loops
        /\ \A k \in DOMAIN loops : k # l => loops'[k] = loops[k]
        /\ loops'[l] = [loops[l] EXCEPT !.ended = TRUE]
    BY <1>1, <1>2 DEF done
  <1>4. loops'[l].id = loops[l].id /\ loops'[l].cancelled = loops[l].cancelled
    BY <1>1, <1>3 DEF Loop
  <1>5. TypeOK'
    BY <1>3 DEF done, GeneratorsInv, TypeOK
  <1>6. IdleHoldsNoLoop' /\ OneLoopEach'
    BY <1>3, <1>4, SameLoops DEF done, GeneratorsInv
  <1> QED  BY <1>5, <1>6 DEF GeneratorsInv

LEMMA PublishingKeeps ==
  ASSUME GeneratorsInv, NEW e \in Emitters, Publishing(e)
  PROVE  GeneratorsInv'
  <1> DEFINE b == batch[e]
  <1>1. b \in Batch /\ b # NoBatch
    BY DEF Publishing, publish, publishFails, count, GeneratorsInv, TypeOK, NoBatch
  <1>2. /\ b \in [doing : {"publishing", "counting"}, id : Generators, n : 1 .. MaxBatch]
        /\ b.id \in Generators /\ b.n \in Nat
    BY <1>1 DEF Batch
  <1>3. [b EXCEPT !.doing = "counting"] \in Batch /\ NoBatch \in Batch
    BY <1>2 DEF Batch
  <1>4. CASE publish(e)
    <2>1. TypeOK'
      BY <1>2, <1>3, <1>4 DEF publish, GeneratorsInv, TypeOK
    <2>2. IdleHoldsNoLoop' /\ OneLoopEach'
      BY <1>4, SameLoops DEF publish, GeneratorsInv
    <2> QED  BY <2>1, <2>2 DEF GeneratorsInv
  <1>5. CASE publishFails(e)
    <2>1. PICK k \in 0 .. b.n : published' = [published EXCEPT ![b.id] = @ + k]
      BY <1>5 DEF publishFails
    <2>2. published' \in [Generators -> Nat]
      BY <1>2, <2>1 DEF GeneratorsInv, TypeOK
    <2>3. TypeOK'
      BY <1>2, <1>3, <1>5, <2>2 DEF publishFails, GeneratorsInv, TypeOK
    <2>4. IdleHoldsNoLoop' /\ OneLoopEach'
      BY <1>5, SameLoops DEF publishFails, GeneratorsInv
    <2> QED  BY <2>3, <2>4 DEF GeneratorsInv
  <1>6. CASE count(e)
    <2>1. /\ DOMAIN procs' = DOMAIN procs
          /\ \A g \in DOMAIN procs :
               /\ procs'[g] \in Process
               /\ procs'[g].running = procs[g].running
               /\ procs'[g].cancel = procs[g].cancel
      <3>1. ASSUME NEW p \in Process
            PROVE  LET q == [p EXCEPT !.emitted = @ + b.n]
                   IN  q \in Process /\ q.running = p.running /\ q.cancel = p.cancel
        BY <1>2 DEF Process
      <3>2. CASE b.id \in DOMAIN procs
        <4>1. procs' = [procs EXCEPT ![b.id].emitted = @ + b.n]
          BY <1>6, <3>2 DEF count
        <4> QED  BY <3>1, <3>2, <4>1 DEF GeneratorsInv, TypeOK
      <3>3. CASE b.id \notin DOMAIN procs
        BY <1>6, <3>3 DEF count, GeneratorsInv, TypeOK
      <3> QED  BY <3>2, <3>3
    <2>2. TypeOK'
      BY <1>3, <1>6, <2>1 DEF count, GeneratorsInv, TypeOK
    <2>3. IdleHoldsNoLoop' /\ OneLoopEach'
      BY <1>6, <2>1, SameLoops DEF count, GeneratorsInv
    <2> QED  BY <2>2, <2>3 DEF GeneratorsInv
  <1> QED  BY <1>4, <1>5, <1>6 DEF Publishing

-----------------------------------------------------------------------------
LEMMA NextKeeps == GeneratorsInv /\ [Next]_vars => GeneratorsInv'
  <1> SUFFICES ASSUME GeneratorsInv, [Next]_vars PROVE GeneratorsInv'
    OBVIOUS
  <1>1. ASSUME NEW id \in Generators, Manage(id) PROVE GeneratorsInv'
    <2>1. ASSUME NEW r \in Requests, NEW n \in Counts, handleEmit(r, id, n)
          PROVE  GeneratorsInv'
      BY <2>1, ClampedInRange, EmitKeeps DEF handleEmit, Emitters
    <2> QED  BY <1>1, <2>1, ProvisionKeeps, StartKeeps, StopKeeps, DeleteKeeps DEF Manage
  <1>2. ASSUME NEW l \in Loops, tick(l) PROVE GeneratorsInv'
    <2>1. loops[l].id \in Generators /\ loops[l].perTick \in 1 .. MaxBatch
      <3>1. loops \in Seq(Loop) /\ l \in DOMAIN loops
        BY <1>2 DEF tick, Running, GeneratorsInv, TypeOK
      <3>2. loops[l] \in Loop
        BY <3>1
      <3> QED  BY <3>2 DEF Loop
    <2> QED  BY <1>2, <2>1, EmitKeeps DEF tick, Emitters
  <1>3. CASE UNCHANGED vars
    BY <1>3, SameLoops DEF vars, GeneratorsInv, TypeOK
  <1> QED  BY <1>1, <1>2, <1>3, DoneKeeps, PublishingKeeps DEF Next

THEOREM AlwaysGeneratorsInv == Spec => []GeneratorsInv
  BY InitEstablishes, NextKeeps, PTL DEF Spec

(* The variables of the manager keep their types: no batch is empty or     *)
(* larger than granted, and no cancel function leads beyond the loops.     *)
THEOREM GeneratorsTypeCorrect == Spec => []TypeOK
  <1>1. GeneratorsInv => TypeOK
    BY DEF GeneratorsInv
  <1> QED  BY <1>1, AlwaysGeneratorsInv, PTL

(* handleStart, handleStop and handleDelete, in any order and any number,  *)
(* leave a running generator with one live loop and no other with any.     *)
THEOREM OneLoopPerGenerator == Spec => []OneLoopEach
  <1>1. GeneratorsInv => OneLoopEach
    BY DEF GeneratorsInv
  <1> QED  BY <1>1, AlwaysGeneratorsInv, PTL

-----------------------------------------------------------------------------
(* The count and the bus.  An event is <<e, k>>, the k-th of the batch e   *)
(* emits; what is out and not yet counted is a set of them, as the batches *)
(* of a generator's loop and of any number of bursts are counted each in   *)
(* its turn.                                                               *)
IsCounting(b, id) == b.doing = "counting" /\ b.id = id

EventsOf(B, id) ==
    {u \in Emitters \X (1 .. MaxBatch) : IsCounting(B[u[1]], id) /\ u[2] <= B[u[1]].n}

ToCount(id) == EventsOf(batch, id)

CountsMatch(id) ==
    /\ IsFiniteSet(ToCount(id))
    /\ procs[id].emitted + Cardinality(ToCount(id)) <= published[id]
    /\ id \notin failed => procs[id].emitted + Cardinality(ToCount(id)) = published[id]

(* Nothing was emitted under an id that NewID has not given out yet: the   *)
(* count of a new generator starts level with the bus.                     *)
Silent(id) ==
    /\ published[id] = 0
    /\ \A e \in Emitters : batch[e] # NoBatch => batch[e].id # id
    /\ \A l \in DOMAIN loops : loops[l].id # id

CountInv ==
    /\ \A id \in DOMAIN procs : CountsMatch(id)
    /\ \A id \in Generators \ known : Silent(id)

(* Batches that differ in the one of e, which is counted in B only.        *)
LEMMA OneMoreBatch ==
  ASSUME NEW A, NEW B, NEW e \in Emitters, NEW id,
         ~IsCounting(A[e], id), IsCounting(B[e], id),
         \A f \in Emitters : f # e => A[f] = B[f],
         NEW n \in 1 .. MaxBatch, B[e].n = n
  PROVE  /\ EventsOf(B, id) = EventsOf(A, id) \cup ({e} \X (1 .. n))
         /\ EventsOf(A, id) \cap ({e} \X (1 .. n)) = {}
  <1> DEFINE pairs == Emitters \X (1 .. MaxBatch)
  <1>1. 1 .. n \subseteq 1 .. MaxBatch
    BY GeneratorsAssumption
  <1>2. EventsOf(B, id) \subseteq pairs /\ EventsOf(A, id) \cup ({e} \X (1 .. n)) \subseteq pairs
    BY <1>1 DEF EventsOf
  <1>3. ASSUME NEW f \in Emitters, NEW k \in 1 .. MaxBatch
        PROVE  <<f, k>> \in EventsOf(B, id)
                 <=> <<f, k>> \in EventsOf(A, id) \cup ({e} \X (1 .. n))
    <2>1. <<f, k>> \in EventsOf(B, id) <=> IsCounting(B[f], id) /\ k <= B[f].n
      BY DEF EventsOf
    <2>2. <<f, k>> \in EventsOf(A, id) <=> IsCounting(A[f], id) /\ k <= A[f].n
      BY DEF EventsOf
    <2>3. <<f, k>> \in {e} \X (1 .. n) <=> f = e /\ k <= n
      OBVIOUS
    <2>4. CASE f = e
      BY <2>1, <2>2, <2>3, <2>4
    <2>5. CASE f # e
      BY <2>1, <2>2, <2>3, <2>5
    <2> QED  BY <2>4, <2>5
  <1>4. EventsOf(A, id) \cap ({e} \X (1 .. n)) = {}
    BY DEF EventsOf
  <1> QED  BY <1>2, <1>3, <1>4

(* A step of e that neither starts nor ends the counting of a batch of id  *)
(* leaves what is to be counted for id as it was.                          *)
LEMMA SameToCount ==
  ASSUME NEW e, NEW id,
         \A f \in Emitters : f # e => batch'[f] = batch[f],
         e \in Emitters => ~IsCounting(batch[e], id) /\ ~IsCounting(batch'[e], id)
  PROVE  ToCount(id)' = ToCount(id)
  BY DEF ToCount, EventsOf

(* A generator whose count, events and batches a step leaves alone.        *)
LEMMA SameCounts ==
  ASSUME NEW id, CountsMatch(id), ToCount(id)' = ToCount(id),
         procs'[id].emitted = procs[id].emitted, published'[id] = published[id],
         id \in failed => id \in failed'
  PROVE  CountsMatch(id)'
  BY DEF CountsMatch

LEMMA SameSilence ==
  ASSUME NEW id, Silent(id), published'[id] = published[id], batch' = batch,
         \A l \in DOMAIN loops' : l \in DOMAIN loops /\ loops'[l].id = loops[l].id
  PROVE  Silent(id)'
  BY DEF Silent

(* What starting, stopping or deleting generators, or the end of a loop,   *)
(* does to the counts: nothing.                                            *)
LEMMA ManagingCounts ==
  ASSUME CountInv, UNCHANGED <<known, batch, published, failed>>,
         DOMAIN procs' \subseteq DOMAIN procs,
         \A g \in DOMAIN procs' : procs'[g].emitted = procs[g].emitted,
         \A l \in DOMAIN loops' : \/ l \in DOMAIN loops /\ loops'[l].id = loops[l].id
                                 \/ loops'[l].id \in known
  PROVE  CountInv'
  <1>1. ASSUME NEW id \in DOMAIN procs' PROVE CountsMatch(id)'
    <2>1. ToCount(id)' = ToCount(id)
      BY DEF ToCount
    <2> QED  BY <2>1, SameCounts DEF CountInv
  <1>2. ASSUME NEW id \in Generators \ known PROVE Silent(id)'
    BY DEF CountInv, Silent
  <1> QED  BY <1>1, <1>2 DEF CountInv

LEMMA InitCounts == Init => CountInv
  BY DEF Init, CountInv, Silent

LEMMA ProvisionCounts ==
  ASSUME GeneratorsInv, CountInv, NEW id \in Generators, NEW n \in Counts,
         handleProvision(id, n)
  PROVE  CountInv'
  <1>1. /\ id \notin known /\ id \notin DOMAIN procs
        /\ DOMAIN procs' = DOMAIN procs \cup {id}
        /\ \A g \in DOMAIN procs : procs'[g] = procs[g]
        /\ procs'[id].emitted = 0
        /\ UNCHANGED <<loops, batch, published, failed>>
    BY DEF handleProvision, GeneratorsInv, TypeOK
  <1>2. \A g : ToCount(g)' = ToCount(g)
    BY <1>1 DEF ToCount
  <1>3. CountsMatch(id)'
    <2>1. Silent(id)
      BY <1>1 DEF CountInv
    <2>2. ToCount(id) = {}
      <3>1. \A e \in Emitters : ~IsCounting(batch[e], id)
        BY <2>1 DEF Silent, IsCounting, NoBatch
      <3> QED  BY <3>1 DEF ToCount, EventsOf
    <2>3. IsFiniteSet({}) /\ Cardinality({}) = 0
      BY FS_EmptySet
    <2>4. published'[id] = 0
      BY <1>1, <2>1 DEF Silent
    <2>5. ToCount(id)' = {}
      BY <1>2, <2>2
    <2> QED  BY <1>1, <2>3, <2>4, <2>5 DEF CountsMatch
  <1>4. ASSUME NEW g \in DOMAIN procs PROVE CountsMatch(g)'
    BY <1>1, <1>2, SameCounts DEF CountInv
  <1>5. known' = known \cup {id}
    BY DEF handleProvision
  <1>6. ASSUME NEW g \in Generators \ known' PROVE Silent(g)'
    BY <1>1, <1>5, SameSilence DEF CountInv
  <1> QED  BY <1>1, <1>3, <1>4, <1>6 DEF CountInv

LEMMA EmitCounts ==
  ASSUME GeneratorsInv, CountInv, NEW e \in Emitters, NEW id \in known,
         NEW n \in 1 .. MaxBatch, emitBatch(e, id, n)
  PROVE  CountInv'
  <1> DEFINE new == [doing |-> "publishing", id |-> id, n |-> n]
  <1>1. /\ batch \in [Emitters -> Batch] /\ batch[e] = NoBatch
        /\ batch' = [batch EXCEPT ![e] = new]
        /\ UNCHANGED <<known, procs, loops, published, failed>>
    BY DEF emitBatch, GeneratorsInv, TypeOK
  <1>2. batch'[e] = new /\ \A f \in Emitters : f # e => batch'[f] = batch[f]
    BY <1>1
  <1>3. \A g : ToCount(g)' = ToCount(g)
    <2>1. \A g : ~IsCounting(batch[e], g) /\ ~IsCounting(batch'[e], g)
      BY <1>1, <1>2 DEF IsCounting, NoBatch
    <2> QED  BY <1>2, <2>1, SameToCount
  <1>4. ASSUME NEW g \in DOMAIN procs' PROVE CountsMatch(g)'
    BY <1>1, <1>3, SameCounts DEF CountInv
  <1>5. ASSUME NEW g \in Generators \ known' PROVE Silent(g)'
    BY <1>1, <1>2 DEF CountInv, Silent
  <1> QED  BY <1>4, <1>5 DEF CountInv

(* The batch e is emitting, whatever becomes of it, is of a known id.      *)
LEMMA EmittedBatch ==
  ASSUME GeneratorsInv, CountInv, NEW e \in Emitters, batch[e] # NoBatch
  PROVE  /\ batch[e] \in [doing : {"publishing", "counting"}, id : Generators,
                           n : 1 .. MaxBatch]
         /\ batch[e].id \in known /\ batch[e].n \in Nat
  <1>1. batch[e] \in [doing : {"publishing", "counting"}, id : Generators,
                      n : 1 .. MaxBatch]
    BY DEF GeneratorsInv, TypeOK, Batch
  <1>2. batch[e].id \in known
    BY <1>1 DEF CountInv, Silent
  <1> QED  BY <1>1, <1>2

(* What a batch of e does not touch, for any id but its own.               *)
LEMMA OtherCounts ==
  ASSUME GeneratorsInv, CountInv, NEW e \in Emitters, batch[e] # NoBatch,
         NEW i, batch[e].id = i,
         \A f \in Emitters : f # e => batch'[f] = batch[f],
         batch'[e] # NoBatch => batch'[e].id = i,
         DOMAIN procs' = DOMAIN procs, known' = known, loops' = loops,
         \A g \in Generators : g # i =>
             /\ published'[g] = published[g]
             /\ g \in DOMAIN procs => procs'[g].emitted = procs[g].emitted,
         failed \subseteq failed',
         i \in DOMAIN procs => CountsMatch(i)'
  PROVE  CountInv'
  <1>1. i \in known
    BY EmittedBatch
  <1>2. DOMAIN procs \subseteq Generators
    BY DEF GeneratorsInv, TypeOK
  <1>3. ASSUME NEW g \in DOMAIN procs', g # i PROVE CountsMatch(g)'
    <2>1. ~IsCounting(batch[e], g) /\ ~IsCounting(batch'[e], g)
      BY <1>3 DEF IsCounting, NoBatch
    <2>2. ToCount(g)' = ToCount(g)
      BY <2>1, SameToCount
    <2>3. /\ CountsMatch(g) /\ published'[g] = published[g]
          /\ procs'[g].emitted = procs[g].emitted
      BY <1>2, <1>3 DEF CountInv
    <2> QED  BY <2>2, <2>3, SameCounts
  <1>4. ASSUME NEW g \in Generators \ known' PROVE Silent(g)'
    BY <1>1 DEF CountInv, Silent
  <1>5. ASSUME NEW g \in DOMAIN procs' PROVE CountsMatch(g)'
    <2>1. CASE g = i
      BY <2>1
    <2>2. CASE g # i
      BY <1>3, <2>2
    <2> QED  BY <2>1, <2>2
  <1> QED  BY <1>4, <1>5 DEF CountInv

LEMMA PublishCounts ==
  ASSUME GeneratorsInv, CountInv, NEW e \in Emitters, publish(e)
  PROVE  CountInv'
  <1> DEFINE b == batch[e]
  <1> PICK i : i = b.id
    OBVIOUS
  <1> DEFINE units == {e} \X (1 .. b.n)
  <1>1. /\ b # NoBatch /\ b.doing = "publishing"
        /\ batch' = [batch EXCEPT ![e].doing = "counting"]
        /\ published' = [published EXCEPT ![b.id] = @ + b.n]
        /\ UNCHANGED <<known, procs, loops, failed>>
    BY DEF publish, NoBatch
  <1>2. /\ b \in [doing : {"publishing", "counting"}, id : Generators, n : 1 .. MaxBatch]
        /\ b.id \in known /\ b.n \in Nat
    BY <1>1, EmittedBatch
  <1>3. /\ batch \in [Emitters -> Batch] /\ published \in [Generators -> Nat]
        /\ \A g \in DOMAIN procs : procs[g].emitted \in Nat
    BY DEF GeneratorsInv, TypeOK, Process
  <1>4. /\ \A f \in Emitters : f # e => batch'[f] = batch[f]
        /\ batch'[e].doing = "counting" /\ batch'[e].id = b.id /\ batch'[e].n = b.n
    BY <1>1, <1>2, <1>3
  <1>5. ASSUME i \in DOMAIN procs PROVE CountsMatch(i)'
    <2> DEFINE old == ToCount(i)
               p == procs[i].emitted
    <2>1. ToCount(i)' = old \cup units /\ old \cap units = {}
      <3>1. ~IsCounting(batch[e], i) /\ IsCounting(batch'[e], i)
        BY <1>1, <1>4 DEF IsCounting
      <3> QED  BY <1>2, <1>4, <3>1, OneMoreBatch DEF ToCount
    <2>2. /\ IsFiniteSet(old) /\ p + Cardinality(old) <= published[i]
          /\ i \notin failed => p + Cardinality(old) = published[i]
      BY <1>5 DEF CountInv, CountsMatch
    <2> HIDE DEF units, old
    <2>3. /\ IsFiniteSet(old \cup units)
          /\ Cardinality(old \cup units) = Cardinality(old) + b.n
          /\ Cardinality(old) \in Nat
      BY <1>2, <2>1, <2>2, UnitsAdded DEF units
    <2>4. published'[i] = published[i] + b.n /\ published[i] \in Nat /\ p \in Nat
      BY <1>1, <1>2, <1>3, <1>5
    <2> HIDE DEF p
    <2>5. /\ p + Cardinality(old \cup units) <= published'[i]
          /\ i \notin failed => p + Cardinality(old \cup units) = published'[i]
      BY <1>2, <2>2, <2>3, <2>4
    <2>6. procs'[i].emitted = p /\ failed' = failed
      BY <1>1 DEF p
    <2> QED  BY <2>1, <2>3, <2>5, <2>6 DEF CountsMatch
  <1> HIDE DEF b
  <1>6. batch'[e].id = i
    BY <1>4 DEF b
  <1>7. \A g \in Generators : g # i => published'[g] = published[g]
    BY <1>1, <1>3 DEF b
  <1> QED  BY <1>1, <1>4, <1>5, <1>6, <1>7, OtherCounts DEF b

(* Part of the batch is out and none of it will be counted: the count may  *)
(* fall behind the bus, and the generator is marked as one that failed.    *)
LEMMA FailCounts ==
  ASSUME GeneratorsInv, CountInv, NEW e \in Emitters, publishFails(e)
  PROVE  CountInv'
  <1> DEFINE b == batch[e]
  <1> PICK i : i = b.id
    OBVIOUS
  <1>1. PICK k \in 0 .. b.n : published' = [published EXCEPT ![b.id] = @ + k]
    BY DEF publishFails
  <1>2. /\ b # NoBatch /\ b.doing = "publishing"
        /\ batch' = [batch EXCEPT ![e] = NoBatch]
        /\ failed' = failed \cup {b.id}
        /\ UNCHANGED <<known, procs, loops>>
    BY DEF publishFails, NoBatch
  <1>3. b.id \in Generators /\ b.n \in Nat
    BY <1>2, EmittedBatch
  <1>4. /\ batch \in [Emitters -> Batch] /\ published \in [Generators -> Nat]
        /\ \A g \in DOMAIN procs : procs[g].emitted \in Nat
    BY DEF GeneratorsInv, TypeOK, Process
  <1>5. batch'[e] = NoBatch /\ \A f \in Emitters : f # e => batch'[f] = batch[f]
    BY <1>2, <1>4
  <1>6. ASSUME i \in DOMAIN procs PROVE CountsMatch(i)'
    <2> DEFINE old == ToCount(i)
    <2>1. ToCount(i)' = old
      <3>1. ~IsCounting(batch[e], i) /\ ~IsCounting(batch'[e], i)
        BY <1>2, <1>5 DEF IsCounting, NoBatch
      <3> QED  BY <1>5, <3>1, SameToCount
    <2>2. IsFiniteSet(old) /\ procs[i].emitted + Cardinality(old) <= published[i]
      BY <1>6 DEF CountInv, CountsMatch
    <2>3. Cardinality(old) \in Nat
      BY <2>2, FS_CardinalityType
    <2>4. published'[i] = published[i] + k /\ published[i] \in Nat /\ k \in Nat
      BY <1>1, <1>3, <1>4
    <2>5. procs'[i].emitted = procs[i].emitted /\ procs[i].emitted \in Nat /\ i \in failed'
      BY <1>2, <1>4, <1>6
    <2> HIDE DEF old
    <2>6. procs'[i].emitted + Cardinality(old) <= published'[i]
      BY <2>2, <2>3, <2>4, <2>5
    <2> QED  BY <2>1, <2>2, <2>5, <2>6 DEF CountsMatch
  <1>7. \A g \in Generators : g # i => published'[g] = published[g]
    BY <1>1, <1>4
  <1> QED  BY <1>2, <1>5, <1>6, <1>7, OtherCounts

(* The batch is counted: what leaves ToCount enters the generator's count, *)
(* unless the generator was deleted.                                       *)
LEMMA CountCounts ==
  ASSUME GeneratorsInv, CountInv, NEW e \in Emitters, count(e)
  PROVE  CountInv'
  <1> DEFINE b == batch[e]
  <1> PICK i : i = b.id
    OBVIOUS
  <1> DEFINE units == {e} \X (1 .. b.n)
  <1>1. /\ b # NoBatch /\ b.doing = "counting"
        /\ batch' = [batch EXCEPT ![e] = NoBatch]
        /\ UNCHANGED <<known, loops, published, failed>>
    BY DEF count, NoBatch
  <1>2. b.id \in Generators /\ b.n \in Nat /\ b.n \in 1 .. MaxBatch
    BY <1>1, EmittedBatch
  <1>3. /\ batch \in [Emitters -> Batch] /\ published \in [Generators -> Nat]
        /\ \A g \in DOMAIN procs : procs[g] \in Process /\ procs[g].emitted \in Nat
    BY DEF GeneratorsInv, TypeOK, Process
  <1>4. batch'[e] = NoBatch /\ \A f \in Emitters : f # e => batch'[f] = batch[f]
    BY <1>1, <1>3
  <1>5. /\ DOMAIN procs' = DOMAIN procs
        /\ \A g \in DOMAIN procs : g # i => procs'[g] = procs[g]
        /\ i \in DOMAIN procs => procs'[i].emitted = procs[i].emitted + b.n
    <2>1. CASE i \in DOMAIN procs
      <3>1. procs' = [procs EXCEPT ![i].emitted = @ + b.n]
        BY <2>1 DEF count
      <3>2. procs'[i] = [procs[i] EXCEPT !.emitted = @ + b.n]
        BY <2>1, <3>1
      <3>3. procs'[i].emitted = procs[i].emitted + b.n
        BY <1>3, <2>1, <3>2 DEF Process
      <3> QED  BY <3>1, <3>3
    <2>2. CASE i \notin DOMAIN procs
      BY <2>2 DEF count
    <2> QED  BY <2>1, <2>2
  <1>6. ASSUME i \in DOMAIN procs PROVE CountsMatch(i)'
    <2> DEFINE old == ToCount(i)
               new == EventsOf(batch', i)
    <2>1. old = new \cup units /\ new \cap units = {}
      <3>1. ~IsCounting(batch'[e], i) /\ IsCounting(batch[e], i)
        BY <1>1, <1>4 DEF IsCounting, NoBatch
      <3> QED  BY <1>2, <1>4, <3>1, OneMoreBatch DEF ToCount
    <2>2. /\ IsFiniteSet(old) /\ procs[i].emitted + Cardinality(old) <= published[i]
          /\ i \notin failed => procs[i].emitted + Cardinality(old) = published[i]
      BY <1>6 DEF CountInv, CountsMatch
    <2>3. ToCount(i)' = new
      BY DEF ToCount
    <2> HIDE DEF units, old, new
    <2>4. IsFiniteSet(new)
      BY <2>1, <2>2, FS_Subset
    <2>5. Cardinality(old) = Cardinality(new) + b.n /\ Cardinality(new) \in Nat
      BY <1>2, <2>1, <2>4, UnitsAdded DEF units
    <2>6. /\ procs[i].emitted \in Nat /\ published[i] \in Nat
          /\ procs'[i].emitted = procs[i].emitted + b.n
      BY <1>2, <1>3, <1>5, <1>6
    <2>7. procs[i].emitted + Cardinality(old) = procs'[i].emitted + Cardinality(new)
      BY <1>2, <2>5, <2>6
    <2> QED  BY <1>1, <2>2, <2>3, <2>4, <2>7 DEF CountsMatch
  <1> QED  BY <1>1, <1>4, <1>5, <1>6, OtherCounts

LEMMA NextCounts == GeneratorsInv /\ CountInv /\ [Next]_vars => CountInv'
  <1> SUFFICES ASSUME GeneratorsInv, CountInv, [Next]_vars PROVE CountInv'
    OBVIOUS
  <1>1. DOMAIN procs \subseteq known
    BY DEF GeneratorsInv, TypeOK
  <1>2. \A g \in DOMAIN procs : procs[g] \in Process
    BY DEF GeneratorsInv, TypeOK
  <1>3. \A l \in DOMAIN loops : loops[l].id \in known /\ loops[l].perTick \in 1 .. MaxBatch
    <2>1. \A l \in DOMAIN loops : loops[l] \in Loop
      BY DEF GeneratorsInv, TypeOK
    <2> QED  BY <2>1 DEF Loop, CountInv, Silent
  <1>4. ASSUME NEW id \in Generators, Manage(id) PROVE CountInv'
    <2>1. CASE \E n \in Counts : handleProvision(id, n)
      BY <2>1, ProvisionCounts
    <2>2. CASE handleStart(id)
      <3>1. /\ id \in known /\ UNCHANGED <<known, batch, published, failed>>
            /\ DOMAIN procs' = DOMAIN procs
            /\ \A g \in DOMAIN procs : procs'[g].emitted = procs[g].emitted
        BY <1>1, <1>2, <2>2 DEF handleStart, goRun, Process
      <3>2. /\ loops \in Seq(Loop)
            /\ loops' = Append(loops, [id |-> id, perTick |-> procs[id].perTick,
                                       cancelled |-> FALSE, ended |-> FALSE])
        BY <2>2 DEF handleStart, goRun, GeneratorsInv, TypeOK
      <3>3. \A l \in DOMAIN loops' : \/ l \in DOMAIN loops /\ loops'[l].id = loops[l].id
                                     \/ loops'[l].id = id
        BY <3>2
      <3> QED  BY <3>1, <3>3, ManagingCounts
    <2>3. CASE handleStop(id)
      <3>1. /\ id \in DOMAIN procs /\ loops' = Cancelled(id)
            /\ UNCHANGED <<known, batch, published, failed>>
            /\ DOMAIN procs' = DOMAIN procs
            /\ \A g \in DOMAIN procs : procs'[g].emitted = procs[g].emitted
        BY <1>2, <2>3 DEF handleStop, Process
      <3> QED  BY <3>1, CancelledLoops, ManagingCounts
    <2>4. CASE handleDelete(id)
      <3>1. /\ id \in DOMAIN procs /\ loops' = Cancelled(id)
            /\ UNCHANGED <<known, batch, published, failed>>
            /\ DOMAIN procs' = DOMAIN procs \ {id}
            /\ \A g \in DOMAIN procs' : procs'[g].emitted = procs[g].emitted
        BY <2>4 DEF handleDelete, Without
      <3> QED  BY <3>1, CancelledLoops, ManagingCounts
    <2>5. ASSUME NEW r \in Requests, NEW n \in Counts, handleEmit(r, id, n)
          PROVE  CountInv'
      BY <1>1, <2>5, ClampedInRange, EmitCounts DEF handleEmit, Emitters
    <2> QED  BY <1>4, <2>1, <2>2, <2>3, <2>4, <2>5 DEF Manage
  <1>5. ASSUME NEW l \in Loops, tick(l) PROVE CountInv'
    BY <1>3, <1>5, EmitCounts DEF tick, Running, Emitters
  <1>6. ASSUME NEW l \in Loops, done(l) PROVE CountInv'
    <2>1. /\ DOMAIN loops' = DOMAIN loops
          /\ \A k \in DOMAIN loops : loops'[k].id = loops[k].id
      <3>1. loops \in Seq(Loop) /\ l \in DOMAIN loops /\ loops[l] \in Loop
        BY <1>6 DEF done, Running, GeneratorsInv, TypeOK
      <3>2. loops' = [loops EXCEPT ![l].ended = TRUE]
        BY <1>6 DEF done
      <3> QED  BY <3>1, <3>2 DEF Loop
    <2> QED  BY <1>6, <2>1, ManagingCounts DEF done
  <1>7. ASSUME NEW e \in Emitters, Publishing(e) PROVE CountInv'
    BY <1>7, PublishCounts, FailCounts, CountCounts DEF Publishing
  <1>8. CASE UNCHANGED vars
    BY <1>8, ManagingCounts DEF vars
  <1> QED  BY <1>4, <1>5, <1>6, <1>7, <1>8 DEF Next

LEMMA CountsAgree == GeneratorsInv /\ CountInv => EmittedIsPublished
  <1> SUFFICES ASSUME GeneratorsInv, CountInv, NEW id \in DOMAIN procs
               PROVE  /\ procs[id].emitted <= published[id]
                      /\ (~Counting(id) /\ id \notin failed)
                           => procs[id].emitted = published[id]
    BY DEF EmittedIsPublished
  <1>1. procs[id].emitted \in Nat /\ published[id] \in Nat
    BY DEF GeneratorsInv, TypeOK, Process
  <1>2. /\ IsFiniteSet(ToCount(id))
        /\ procs[id].emitted + Cardinality(ToCount(id)) <= published[id]
        /\ id \notin failed => procs[id].emitted + Cardinality(ToCount(id)) = published[id]
    BY DEF CountInv, CountsMatch
  <1>3. Cardinality(ToCount(id)) \in Nat
    BY <1>2, FS_CardinalityType
  <1>4. ~Counting(id) => Cardinality(ToCount(id)) = 0
    <2>1. ~Counting(id) => ToCount(id) = {}
      BY DEF Counting, ToCount, EventsOf, IsCounting
    <2> QED  BY <2>1, FS_EmptySet
  <1> QED  BY <1>1, <1>2, <1>3, <1>4

(* Through loops, bursts, failed batches and restarts that interleave, a   *)
(* generator's Emitted never exceeds what the bus got from it, and is that *)
(* number once its batches are counted and none failed.                    *)
THEOREM CountNeverAheadOfBus == Spec => []EmittedIsPublished
  <1>1. Spec => [](GeneratorsInv /\ CountInv)
    BY InitEstablishes, NextKeeps, InitCounts, NextCounts, PTL DEF Spec
  <1> QED  BY <1>1, CountsAgree, PTL
=============================================================================
