----------------------------- MODULE EventFeed -----------------------------
(***************************************************************************)
(* internal/eventfeed and the console's panel that polls it.  The feed     *)
(* tails every topic from the end of its log, numbers what it reads, keeps *)
(* the last maxBuffered entries in a ring and answers polls from it.       *)
(*                                                                         *)
(* Appending and answering hold one mutex each time and are one step each. *)
(* The panel sends a poll at every tick of a timer, whether or not the one *)
(* before was answered; answers arrive in any order, or not at all.        *)
(*                                                                         *)
(* A restarted feed starts over: empty ring, numbers from 1, the logs from *)
(* where they end by then.  The panel keeps what it has.                   *)
(***************************************************************************)
EXTENDS Integers, Sequences, Functions

CONSTANTS
    Topics,         \* the event types; one partition each
    maxBuffered,    \* entries the ring holds (500)
    MAX_ROWS,       \* rows the panel holds (200)
    Polls,          \* the polls that may be under way at a time
    MaxRecords,     \* bound: topic -> records ever produced to it
    MaxRestarts     \* bound: restarts of the feed

ASSUME EventFeedAssumption ==
    /\ maxBuffered \in Nat /\ maxBuffered > 0
    /\ MAX_ROWS \in Nat
    /\ MaxRecords \in [Topics -> Nat]
    /\ MaxRestarts \in Nat

VARIABLES
    log,            \* broker: topic -> records it holds, at offsets 0, 1, ...
    position,       \* feed: topic -> offset of the record it reads next
    ring,           \* feed: the buffered entries, oldest first
    seq,            \* feed: the number of the newest entry
    lastSeq,        \* panel: the number it polls from
    paused,         \* panel: no new polls
    rows,           \* panel: the entries it holds, newest on top
    poll,           \* what has become of each poll
    restarts,       \* restarts so far
    blind,          \* history: the highest number an earlier life of the feed gave
    received,       \* history: the records that reached the panel
    overlapped      \* history: a poll was sent while another was under way

broker == <<log>>
feed == <<position, ring, seq, restarts, blind>>
panel == <<lastSeq, paused, rows, received, overlapped>>
vars == <<broker, feed, panel, poll>>

-----------------------------------------------------------------------------
NoPoll == [stage |-> "none"]

Entry == [seq : Nat \ {0}, topic : Topics, offset : Nat]
Record == [topic : Topics, offset : Nat]
RecordOf(e) == [topic |-> e.topic, offset |-> e.offset]

Poll == {NoPoll}
        \cup [stage : {"sent"}, since : Nat]
        \cup [stage : {"answered"}, since : Nat, events : Seq(Entry), last_seq : Nat]

TypeOK ==
    /\ log \in [Topics -> Nat]
    /\ position \in [Topics -> Nat]
    /\ ring \in Seq(Entry) /\ Len(ring) <= maxBuffered
    /\ seq \in Nat /\ lastSeq \in Nat /\ restarts \in Nat /\ blind \in Nat
    /\ paused \in BOOLEAN /\ overlapped \in BOOLEAN
    /\ rows \in Seq(Entry) /\ Len(rows) <= MAX_ROWS
    /\ poll \in [Polls -> Poll]
    /\ received \subseteq Record

-----------------------------------------------------------------------------
(* Some service publishes an event.                                        *)
produce(t) ==
    /\ log[t] < MaxRecords[t]
    /\ log' = [log EXCEPT ![t] = @ + 1]
    /\ UNCHANGED <<feed, panel, poll>>

(* Mutant: a ring that is full keeps the old entries.                      *)
OldestEntries(s) == IF Len(s) > maxBuffered THEN SubSeq(s, 1, maxBuffered) ELSE s

(* Mutant: off by one, the ring grows to one more than it may hold.        *)
OneEntryMore(s) ==
    IF Len(s) > maxBuffered + 1 THEN SubSeq(s, Len(s) - maxBuffered, Len(s)) ELSE s

LastEntries(s) ==
    IF Len(s) > maxBuffered THEN SubSeq(s, Len(s) - maxBuffered + 1, Len(s)) ELSE s

(* consume and append: the next record of some topic.                      *)
append(t) ==
    LET e == [seq |-> seq + 1, topic |-> t, offset |-> position[t]] IN
    /\ position[t] < log[t]
    /\ position' = [position EXCEPT ![t] = @ + 1]
    /\ seq' = seq + 1
    /\ ring' = LastEntries(Append(ring, e))
    /\ UNCHANGED <<broker, restarts, blind, panel, poll>>

(* The process ends, and another tails the logs from their ends.           *)
restart ==
    /\ restarts < MaxRestarts
    /\ restarts' = restarts + 1
    /\ position' = log
    /\ ring' = <<>>
    /\ seq' = 0
    /\ blind' = IF seq > blind THEN seq ELSE blind
    /\ UNCHANGED <<broker, panel, poll>>

-----------------------------------------------------------------------------
(* The buffered entries numbered above since: the numbers rise, so they    *)
(* are the last ones.                                                      *)
Newer(since) ==
    LET first == CHOOSE n \in 1 .. Len(ring) + 1 :
                     \A m \in 1 .. Len(ring) : ring[m].seq > since <=> m >= n
    IN  SubSeq(ring, first, Len(ring))

tick(p) ==
    /\ poll[p] = NoPoll
    /\ ~paused
    /\ poll' = [poll EXCEPT ![p] = [stage |-> "sent", since |-> lastSeq]]
    /\ overlapped' = (overlapped \/ \E q \in Polls : poll[q] # NoPoll)
    /\ UNCHANGED <<broker, feed, lastSeq, paused, rows, received>>

(* Mutant: only what is more than one ahead is sent.                       *)
handleListLate(p) ==
    LET since == poll[p].since IN
    /\ poll[p].stage = "sent"
    /\ poll' = [poll EXCEPT ![p] = [stage |-> "answered", since |-> since,
                                    events |-> Newer(since + 1), last_seq |-> seq]]
    /\ UNCHANGED <<broker, feed, panel>>

handleList(p) ==
    LET since == poll[p].since IN
    /\ poll[p].stage = "sent"
    /\ poll' = [poll EXCEPT ![p] = [stage |-> "answered", since |-> since,
                                    events |-> Newer(since), last_seq |-> seq]]
    /\ UNCHANGED <<broker, feed, panel>>

(* Mutant: an answer is put on top as it came, oldest first.               *)
RowsUnreversed(events) ==
    LET all == events \o rows IN
    [n \in 1 .. IF Len(all) > MAX_ROWS THEN MAX_ROWS ELSE Len(all) |-> all[n]]

(* The rows once an answer, newest first, is put on top of them.           *)
RowsWith(events) ==
    LET k == Len(events)
        all == k + Len(rows)
    IN  [n \in 1 .. IF all > MAX_ROWS THEN MAX_ROWS ELSE all |->
            IF n <= k THEN events[k + 1 - n] ELSE rows[n - k]]

(* Mutant: the panel goes on from the number the feed has reached by now,  *)
(* as if it were read apart from the entries.                              *)
receiveThenAsk(p) ==
    LET answer == poll[p] IN
    /\ answer.stage = "answered"
    /\ lastSeq' = IF seq > lastSeq THEN seq ELSE lastSeq
    /\ rows' = RowsWith(answer.events)
    /\ received' = received \cup {RecordOf(e) : e \in Range(answer.events)}
    /\ poll' = [poll EXCEPT ![p] = NoPoll]
    /\ UNCHANGED <<broker, feed, paused, overlapped>>

(* The rest of tick: lastSeq only goes up.                                 *)
receive(p) ==
    LET answer == poll[p] IN
    /\ answer.stage = "answered"
    /\ lastSeq' = IF answer.last_seq > lastSeq THEN answer.last_seq ELSE lastSeq
    /\ rows' = RowsWith(answer.events)
    /\ received' = received \cup {RecordOf(e) : e \in Range(answer.events)}
    /\ poll' = [poll EXCEPT ![p] = NoPoll]
    /\ UNCHANGED <<broker, feed, paused, overlapped>>

(* A poll that fails is ignored; the next tick tries again.                *)
fail(p) ==
    /\ poll[p] # NoPoll
    /\ poll' = [poll EXCEPT ![p] = NoPoll]
    /\ UNCHANGED <<broker, feed, panel>>

togglePause ==
    /\ paused' = ~paused
    /\ UNCHANGED <<broker, feed, lastSeq, rows, received, overlapped, poll>>

-----------------------------------------------------------------------------
(* The topics are new; a feed that starts on old ones is a restarted one.  *)
Init ==
    /\ log = [t \in Topics |-> 0]
    /\ position = log
    /\ ring = <<>>
    /\ seq = 0
    /\ lastSeq = 0
    /\ paused = FALSE
    /\ rows = <<>>
    /\ poll = [p \in Polls |-> NoPoll]
    /\ restarts = 0
    /\ blind = 0
    /\ received = {}
    /\ overlapped = FALSE

Next ==
    \/ \E t \in Topics : produce(t) \/ append(t)
    \/ restart
    \/ \E p \in Polls : tick(p) \/ handleList(p) \/ receive(p) \/ fail(p)
    \/ togglePause

(* The interval timer goes on, and errors are transient: a network that    *)
(* fails again and again lets a request and an answer through in the end.  *)
Spec ==
    /\ Init /\ [][Next]_vars
    /\ WF_vars(\E p \in Polls : tick(p))
    /\ \A p \in Polls : SF_vars(handleList(p)) /\ SF_vars(receive(p))

-----------------------------------------------------------------------------
(* Properties                                                              *)

(* The ring holds the newest entries without a gap, and each topic's       *)
(* records in it follow one another as they do in the log: the offsets the *)
(* package comment offers as proof that events went through the broker.    *)
RingIsTheTail ==
    /\ Len(ring) = IF seq > maxBuffered THEN maxBuffered ELSE seq
    /\ \A n \in DOMAIN ring :
           /\ ring[n].seq = seq - Len(ring) + n
           /\ ring[n].offset < position[ring[n].topic]
           /\ \A m \in 1 .. n - 1 :
                  ring[m].topic = ring[n].topic => ring[m].offset < ring[n].offset

(* However polls overlap, fail and are overtaken, the panel never polls    *)
(* from beyond an entry it was not sent while the ring still has it.  What *)
(* a restart hides are the entries numbered as the earlier life's were.    *)
NothingSkipped ==
    \A n \in DOMAIN ring :
        blind < ring[n].seq /\ ring[n].seq <= lastSeq => RecordOf(ring[n]) \in received

(* Rows are keyed by their numbers: as long as no two polls overlapped     *)
(* they are distinct and fall from the top, even across restarts.          *)
RowsNewestFirst ==
    ~overlapped =>
        \A m, n \in DOMAIN rows : m < n => rows[m].seq > rows[n].seq

Buffered(t, o) ==
    \E n \in DOMAIN ring :
        /\ RecordOf(ring[n]) = [topic |-> t, offset |-> o]
        /\ ring[n].seq > blind

(* An entry in the ring reaches the panel unless it is overwritten first   *)
(* or the viewer pauses.                                                   *)
BufferedIsShown ==
    \A t \in Topics : \A o \in 0 .. MaxRecords[t] - 1 :
        Buffered(t, o) ~> \/ [topic |-> t, offset |-> o] \in received
                          \/ ~Buffered(t, o)
                          \/ paused
=============================================================================
