--------------------------- MODULE UsagePipeline ---------------------------
(***************************************************************************)
(* The way of a usage event: internal/metering stamps it, buffers it and   *)
(* flushes batches to internal/fakemetronome, which stores it once and     *)
(* prices it when the invoice of a billing window is drawn up.             *)
(*                                                                         *)
(* Metering's buffer has a mutex of its own, released before anything is   *)
(* posted: taking the buffer and posting each chunk are separate steps of  *)
(* whoever flushes, the 500 ms timer or a delivery that filled the buffer. *)
(* Every request to Metronome runs under its mutex and is one step.        *)
(* When metering stops, buffer and batches go with it: nothing flushes     *)
(* them, and the bus goes on from where the consumer's offset was          *)
(* committed, before or after what was in them.                            *)
(*                                                                         *)
(* The billing windows are those FakeStripe opens for its containers,      *)
(* followed from the subscription to the last finalization; webhooks       *)
(* deliver them in any order.  A container here has one item, the usage    *)
(* item (a flat fee beside it means that some windows are never priced).   *)
(* Time is counted in units of 1/Second second, quantities and prices are  *)
(* left out.                                                               *)
(***************************************************************************)
EXTENDS Integers, Sequences, FiniteSets, Functions

CONSTANTS
    Customers,
    Events,         \* ids of the usage events on the bus
    CustomerOf,     \* event -> its customer
    Deliverers,     \* the goroutines that run the bus handler
    Timer,          \* the goroutine of flushLoop
    ingestBatchMax, \* metering's batch size, and the largest batch /ingest takes
    Second,         \* clock units per second
    Period,         \* length of a billing period, in clock units
    ClockLag,       \* bound: how stale a handler's reading of the clock may be
    MaxTime,        \* bound: the clock stops here
    MaxDeliveries,  \* bound: event -> how often the bus delivers it
    MaxRestarts,    \* bound: restarts of metering
    MaxContainers,  \* bound: containers ever created
    MaxWindows      \* bound: billing windows ever opened

ASSUME UsageAssumption ==
    /\ CustomerOf \in [Events -> Customers]
    /\ Timer \notin Deliverers
    /\ {ingestBatchMax, Second, Period} \subseteq Nat \ {0}
    /\ Period % Second = 0
    /\ MaxDeliveries \in [Events -> Nat]
    /\ {ClockLag, MaxTime, MaxRestarts, MaxContainers, MaxWindows} \subseteq Nat

VARIABLES
    now,            \* the wall clock
    times,          \* event -> deliveries so far
    buf,            \* metering: the stamped events not yet taken by a flush
    stage,          \* flusher -> "idle", "flushing" (called) or "posting"
    batch,          \* flusher -> what is left of the batch it is posting
    seen,           \* metronome: the transaction ids it has accepted
    events,         \* metronome: the stored usage records
    billedThrough,  \* metronome: customer -> its watermark
    created,        \* stripe: containers so far; their ids are 1..created
    containers,     \* stripe: live containers, id -> Container
    byCustomer,     \* stripe: customer -> its container, Absent if none
    opened,         \* stripe: windows so far; their ids are 1..opened
    windows,        \* billing windows whose webhook is on its way
    closing,        \* final windows that were priced, not yet finalized
    pulled,         \* history: the windows whose usage was pulled, and that usage
    crossed,        \* history: the customers served out of order, see subscribe
    restarts,       \* restarts of metering so far
    forgotten,      \* history: the events a stopping metering held
    dropped,        \* history: the events of chunks that did not arrive
    refused         \* history: the events of chunks /ingest found too large

vars == <<now, times, buf, stage, batch, seen, events, billedThrough,
          created, containers, byCustomer, opened, windows, closing, pulled,
          crossed, restarts, forgotten, dropped, refused>>

lost == <<restarts, forgotten, dropped, refused>>
metering == <<times, buf, stage, batch, lost>>
metronome == <<seen, events, billedThrough>>
stripe == <<created, containers, byCustomer>>
billing == <<stripe, opened, windows, closing, pulled, crossed>>

-----------------------------------------------------------------------------
Absent == 0
Flushers == Deliverers \cup {Timer}

(* Mutant: the second before, not the second of, an instant.               *)
TruncToPrevious(t) == t - (t % Second) - Second

Trunc(t) == t - (t % Second)

Record == [id : Events, at : Nat]
Container == [customer : Customers, start : Nat, metered : BOOLEAN]
Window ==
    [id : Nat, sub : Nat, customer : Customers, start : Nat, end : Nat, final : BOOLEAN]
Ids(records) == {r.id : r \in records}
Elements(s) == {s[n] : n \in DOMAIN s}
Put(f, k, v) == [x \in DOMAIN f \cup {k} |-> IF x = k THEN v ELSE f[x]]

TypeOK ==
    /\ now \in Nat
    /\ times \in [Events -> Nat]
    /\ buf \in Seq(Record)
    /\ stage \in [Flushers -> {"idle", "flushing", "posting"}]
    /\ batch \in [Flushers -> Seq(Record)]
    /\ seen \subseteq Events
    /\ events \subseteq Record
    /\ billedThrough \in [Customers -> Nat]
    /\ created \in Nat
    /\ DOMAIN containers \subseteq 1 .. created
    /\ \A s \in DOMAIN containers : containers[s] \in Container
    /\ byCustomer \in [Customers -> 0 .. created]
    /\ opened \in Nat
    /\ windows \cup closing \subseteq Window
    /\ pulled \subseteq [window : Window, usage : SUBSET Record]
    /\ restarts \in Nat
    /\ crossed \subseteq Customers
    /\ forgotten \cup dropped \cup refused \subseteq Events

-----------------------------------------------------------------------------
Tick ==
    /\ now < MaxTime
    /\ now' = now + 1
    /\ UNCHANGED <<metering, metronome, billing>>

(* The bill-by-receipt stamp: the time of ingestion, to the second.        *)
onUsageIngested(d, e) ==
    /\ stage[d] = "idle"
    /\ times[e] < MaxDeliveries[e]
    /\ times' = [times EXCEPT ![e] = @ + 1]
    /\ buf' = Append(buf, [id |-> e, at |-> Trunc(now)])
    /\ stage' = [stage EXCEPT ![d] = IF Len(buf') >= ingestBatchMax
                                     THEN "flushing" ELSE "idle"]
    /\ UNCHANGED <<now, batch, lost, metronome, billing>>

(* Mutant: the timer flushes full batches only.                            *)
takeFullBuffer(f) ==
    /\ stage[f] = IF f = Timer THEN "idle" ELSE "flushing"
    /\ f = Timer => Len(buf) >= ingestBatchMax
    /\ batch' = [batch EXCEPT ![f] = buf]
    /\ buf' = <<>>
    /\ stage' = [stage EXCEPT ![f] = IF buf = <<>> THEN "idle" ELSE "posting"]
    /\ UNCHANGED <<now, times, lost, metronome, billing>>

(* flush takes the whole buffer; the timer calls it of its own accord.     *)
takeBuffer(f) ==
    /\ stage[f] = IF f = Timer THEN "idle" ELSE "flushing"
    /\ f = Timer => buf # <<>>
    /\ batch' = [batch EXCEPT ![f] = buf]
    /\ buf' = <<>>
    /\ stage' = [stage EXCEPT ![f] = IF buf = <<>> THEN "idle" ELSE "posting"]
    /\ UNCHANGED <<now, times, lost, metronome, billing>>

(* Mutant: the batch is posted in one piece.                               *)
WholeBatch(s) == s

Chunk(s) == SubSeq(s, 1, IF Len(s) < ingestBatchMax THEN Len(s) ELSE ingestBatchMax)

(* Mutant: the next chunk starts one event too late.                       *)
RestButOne(s) == SubSeq(s, Len(Chunk(s)) + 2, Len(s))

Rest(s) == SubSeq(s, Len(Chunk(s)) + 1, Len(s))

(* Mutant: no look at the transaction ids accepted before.                 *)
FreshInChunk(chunk) ==
    {chunk[n] : n \in {m \in DOMAIN chunk :
                         \A k \in 1 .. m - 1 : chunk[k].id # chunk[m].id}}

(* The records handleIngest takes from a chunk: the first with each id, if *)
(* that id is new.                                                         *)
Fresh(chunk) ==
    {chunk[n] : n \in {m \in DOMAIN chunk :
                         /\ chunk[m].id \notin seen
                         /\ \A k \in 1 .. m - 1 : chunk[k].id # chunk[m].id}}

handleIngest(chunk) ==
    /\ Len(chunk) <= ingestBatchMax
    /\ events' = events \cup Fresh(chunk)
    /\ seen' = seen \cup Ids(Elements(chunk))
    /\ UNCHANGED <<billedThrough, lost>>

refuse(chunk) ==
    /\ Len(chunk) > ingestBatchMax
    /\ refused' = refused \cup Ids(Elements(chunk))
    /\ UNCHANGED <<metronome, restarts, forgotten, dropped>>

(* A chunk that does not arrive is given up: the failure is logged.        *)
giveUp(chunk) ==
    /\ dropped' = dropped \cup Ids(Elements(chunk))
    /\ UNCHANGED <<metronome, restarts, forgotten, refused>>

postChunk(f) ==
    /\ stage[f] = "posting"
    /\ \/ handleIngest(Chunk(batch[f]))
       \/ refuse(Chunk(batch[f]))
       \/ giveUp(Chunk(batch[f]))
    /\ batch' = [batch EXCEPT ![f] = Rest(@)]
    /\ stage' = [stage EXCEPT ![f] = IF Rest(batch[f]) = <<>> THEN "idle" ELSE @]
    /\ UNCHANGED <<now, times, buf, billing>>

Held == Ids(Elements(buf)) \cup UNION {Ids(Elements(batch[f])) : f \in Flushers}

(* The process ends, and another takes its place with an empty buffer.     *)
(* When it held nothing this changes nothing.                              *)
restart ==
    /\ restarts < MaxRestarts
    /\ Held # {}
    /\ restarts' = restarts + 1
    /\ forgotten' = forgotten \cup Held
    /\ buf' = <<>>
    /\ batch' = [f \in Flushers |-> <<>>]
    /\ stage' = [f \in Flushers |-> "idle"]
    /\ UNCHANGED <<now, times, dropped, refused, metronome, billing>>

-----------------------------------------------------------------------------
(* The readings of the clock a handler of Stripe may be working with.      *)
Readings == {t \in now - ClockLag .. now : t >= 0}

Priced == {p.window : p \in pulled}

(* A new container, for a customer the index leads nowhere.  If the clock  *)
(* was read before the end of a window the customer has had, the two       *)
(* containers overlap.                                                     *)
subscribe(c, at) ==
    LET start == Trunc(at)
        late == \E w \in windows \cup Priced : w.customer = c /\ start < w.end
    IN  /\ created < MaxContainers
        /\ byCustomer[c] \notin DOMAIN containers
        /\ created' = created + 1
        /\ containers' = Put(containers, created',
                             [customer |-> c, start |-> start, metered |-> TRUE])
        /\ byCustomer' = [byCustomer EXCEPT ![c] = created']
        /\ crossed' = IF late THEN crossed \cup {c} ELSE crossed
        /\ UNCHANGED <<now, opened, windows, closing, pulled, metering, metronome>>

(* The item is put back on the container that lost it: the final window is *)
(* on its way, and the container goes on from where that window started.   *)
resubscribe(c) ==
    LET s == byCustomer[c] IN
    /\ s \in DOMAIN containers
    /\ ~containers[s].metered
    /\ containers' = [containers EXCEPT ![s].metered = TRUE]
    /\ crossed' = crossed \cup {c}
    /\ UNCHANGED <<now, created, byCustomer, opened, windows, closing, pulled,
                   metering, metronome>>

openWindow(s, end, final) ==
    /\ opened < MaxWindows
    /\ opened' = opened + 1
    /\ windows' = windows \cup
          {[id |-> opened + 1, sub |-> s, customer |-> containers[s].customer,
            start |-> containers[s].start, end |-> end, final |-> final]}

periodEnds(s) ==
    LET end == containers[s].start + Period IN
    /\ containers[s].metered
    /\ now >= end
    /\ openWindow(s, end, FALSE)
    /\ containers' = [containers EXCEPT ![s].start = end]
    /\ UNCHANGED <<now, created, byCustomer, closing, pulled, crossed, metering,
                   metronome>>

(* The last item goes: the final window ends now, which RFC3339 truncates. *)
(* The container stays as it is until that window is finalized.            *)
cancel(s, at) ==
    /\ containers[s].metered
    /\ openWindow(s, Trunc(at), TRUE)
    /\ containers' = [containers EXCEPT ![s].metered = FALSE]
    /\ UNCHANGED <<now, created, byCustomer, closing, pulled, crossed, metering,
                   metronome>>

(* Mutant: After(end) for !Before(end), so a window takes in its end.      *)
CostsToTheEnd(w) ==
    {r \in events : CustomerOf[r.id] = w.customer /\ w.start <= r.at /\ r.at <= w.end}

(* What handleCosts adds up: for one window, and since the watermark.      *)
Costs(w) ==
    {r \in events : CustomerOf[r.id] = w.customer /\ w.start <= r.at /\ r.at < w.end}

Preview(c) == {r \in events : CustomerOf[r.id] = c /\ billedThrough[c] <= r.at}

(* Mutant: the watermark is put where the window starts.                   *)
pullToTheStart(w) ==
    /\ pulled' = pulled \cup {[window |-> w, usage |-> Costs(w)]}
    /\ billedThrough' = [billedThrough EXCEPT ![w.customer] = w.start]
    /\ windows' = windows \ {w}
    /\ closing' = IF w.final THEN closing \cup {w} ELSE closing
    /\ UNCHANGED <<now, stripe, opened, crossed, seen, events, metering>>

(* invoice.created is handled: its window is priced with finalize=true.    *)
pullUsage(w) ==
    /\ pulled' = pulled \cup {[window |-> w, usage |-> Costs(w)]}
    /\ billedThrough' = [billedThrough EXCEPT ![w.customer] = w.end]
    /\ windows' = windows \ {w}
    /\ closing' = IF w.final THEN closing \cup {w} ELSE closing
    /\ UNCHANGED <<now, stripe, opened, crossed, seen, events, metering>>

(* The final invoice is finalized: its container goes, and the customer's  *)
(* entry, whatever they have become since.                                 *)
finalize(w) ==
    /\ closing' = closing \ {w}
    /\ containers' = Restrict(containers, DOMAIN containers \ {w.sub})
    /\ byCustomer' = [byCustomer EXCEPT ![w.customer] = Absent]
    /\ UNCHANGED <<now, created, opened, windows, pulled, crossed, metering,
                   metronome>>

-----------------------------------------------------------------------------
Init ==
    /\ now = 0
    /\ times = [e \in Events |-> 0]
    /\ buf = <<>>
    /\ stage = [f \in Flushers |-> "idle"]
    /\ batch = [f \in Flushers |-> <<>>]
    /\ seen = {}
    /\ events = {}
    /\ billedThrough = [c \in Customers |-> 0]
    /\ created = 0
    /\ containers = [s \in {} |-> {}]
    /\ byCustomer = [c \in Customers |-> Absent]
    /\ opened = 0
    /\ windows = {}
    /\ closing = {}
    /\ pulled = {}
    /\ crossed = {}
    /\ restarts = 0
    /\ forgotten = {}
    /\ dropped = {}
    /\ refused = {}

Ingestion ==
    \/ \E d \in Deliverers, e \in Events : onUsageIngested(d, e)
    \/ \E f \in Flushers : takeBuffer(f)
    \/ \E f \in Flushers : postChunk(f)
    \/ restart

Billing ==
    \/ \E c \in Customers, at \in Readings : subscribe(c, at)
    \/ \E c \in Customers : resubscribe(c)
    \/ \E s \in DOMAIN containers : periodEnds(s)
    \/ \E s \in DOMAIN containers, at \in Readings : cancel(s, at)
    \/ \E w \in windows : pullUsage(w)
    \/ \E w \in closing : finalize(w)

Next == Tick \/ Ingestion \/ Billing

(* flushLoop's ticker never stops and a request ends within its timeout.   *)
Spec ==
    /\ Init /\ [][Next]_vars
    /\ \A f \in Flushers : WF_vars(takeBuffer(f) \/ postChunk(f))

-----------------------------------------------------------------------------
(* Properties                                                              *)

Settled(e) == e \in seen \cup forgotten \cup dropped \cup refused

(* Every event metering took is in the buffer, in a batch being posted, in *)
(* Metronome, or in a chunk whose failure was logged, or the process ended *)
(* with it: as long as it runs, no interleaving of deliveries with the two *)
(* kinds of flush loses one silently.                                      *)
NothingVanishes ==
    \A e \in Events : times[e] > 0 => e \in Held \/ Settled(e)

(* No chunk is ever too large for /ingest, even when concurrent deliveries *)
(* let the buffer outgrow the largest batch it takes.                      *)
NothingRefused == refused = {}

(* billOpenInvoice, on moving the watermark: so the same usage is not      *)
(* billed twice.                                                           *)
BilledOnce ==
    \A p, q \in pulled : Ids(p.usage) \cap Ids(q.usage) # {} => p = q

(* However often an event is delivered and its chunk posted, across        *)
(* restarts of metering, late passes of the scheduler, cancellations and   *)
(* new subscriptions, and in whatever order windows are pulled, an event   *)
(* is on two bills only of a customer who took the item back before the    *)
(* final invoice was finalized, or whose new container was opened from a   *)
(* reading of the clock older than the windows of the one before.          *)
BilledTwiceIfCrossedOnly ==
    \A p, q \in pulled :
        Ids(p.usage) \cap Ids(q.usage) # {} => p = q \/ p.window.customer \in crossed

(* handleCosts' comment: usage drops off the mid-cycle preview once it was *)
(* billed.  It comes back only if the window priced last was overtaken by  *)
(* one opened after it, or ended before it began, as a cancellation with   *)
(* an old reading of the clock makes it.                                   *)
PreviewReturnsIfOvertakenOnly ==
    \A q \in pulled :
        LET c == q.window.customer
        IN  Preview(c) \cap q.usage # {} =>
            \/ c \in crossed
            \/ \E w \in Priced : /\ w.customer = c /\ w.end = billedThrough[c]
                                 /\ w.id < q.window.id \/ w.end < w.start

(* onUsageIngested's comment: stamping with the time of receipt keeps late *)
(* usage out of windows that were billed already, where it would be lost.  *)
NothingFiledIntoABilledWindow ==
    \A p \in pulled : Costs(p.window) = p.usage

(* Usage as it is recorded and billed: see UsageLedger.                    *)
Ledger == INSTANCE UsageLedger WITH ledger <- events, bills <- pulled

(* handleIngest and handleCosts as one: whatever is retried, restarted or  *)
(* out of order, a record is never rewritten, and each window is billed    *)
(* once, for all of its customer's records that lie in it by then.         *)
UsageFollowsLedger == Ledger!Spec

(* What is buffered is posted, unless metering stops first.                *)
EverythingIsFlushed == \A e \in Events : times[e] > 0 ~> Settled(e)
=============================================================================
