# stripe_metronome, specified

TLA+ modules that model the billing core of this repository, TLC configurations
that check them on small instances, and proofs, checked by TLAPS, of what holds
for every instance. The repository has no tests; these specifications state what
its services are meant to guarantee and what they do guarantee.

## The system

Seven small Go services talk over HTTP and a bus (Kafka, or an in-process stand-in).

| component | state it keeps | operations | talks to |
|---|---|---|---|
| `internal/fakestripe` | subscription containers (period, items, proration owed), customer index, idempotency keys, drafts, finalized invoices | add item, remove item, attach invoice item, finalize, pay; a ticker that ends periods | posts a webhook to invoicing for every change |
| `internal/invoicing` | link records (customer to container), customer index, idempotency keys | add item, remove item, webhooks; previews and lists | calls fakestripe and metering, publishes facts |
| `internal/metering` | buffer of stamped usage events; lost when it restarts | bus handler, 500 ms flush timer, priced-usage read | subscribes to `usage.ingested`, posts batches to fakemetronome |
| `internal/fakemetronome` | usage records, accepted transaction ids, watermark per customer | ingest a batch, price a window | none |
| `internal/controlplane` | generators and their loops | provision, start, stop, delete, emit; relay of subscription calls | publishes usage, calls billing and invoicing |
| `internal/billing` | customer registry | create, get, list; payment events are logged | subscribes to payments |
| `internal/eventfeed` | ring of the last 500 events, numbered from 1 by each process | consume and append, list since a number | tails every topic |
| `internal/events` | bus | publish, subscribe | broker |
| `web` | console state; the live-events panel's rows and the number it polls from | polling, forms | all services through nginx |

One billing cycle runs through all of the core: the fakestripe ticker finds a period
over, opens a draft and posts `invoice.created`; invoicing asks metering (and through
it fakemetronome) to price the usage of exactly that window, attaches the groups to the
draft one call at a time, and finalizes it; `invoice.finalized` comes back, invoicing
publishes the fact and asks for collection; the payment webhook closes the circle. A
final invoice also ends the container and cancels the link record.

What makes it hard:

* every webhook is posted by a goroutine of its own, 150 ms later, once: webhooks are
  reordered and lost, never retried;
* invoicing releases its mutex around every HTTP call, so requests and webhooks of one
  customer interleave between its critical sections;
* a container outlives the removal of its last item until its final invoice is finalized,
  a webhook and several calls later, and customers can act meanwhile: an item put back goes
  on the same container, whose period still starts where it did, and which is deleted all
  the same when that invoice is finalized;
* handlers read the clock before they take the mutex, so they may be served in another
  order than their readings;
* billing several groups is several calls, any of which may fail;
* the scheduler, the calls and the usage pipeline each have a clock of their own to
  read, and boundaries are compared across them at a precision of one second;
* metering flushes from several goroutines at once and the bus may redeliver;
* services restart with empty memories while others carry on from what they were told:
  the bus from a committed offset, the console from a sequence number;
* the console polls on a timer, whether or not the poll before was answered.

What each component owes (the properties below, by component):

* fakestripe: no period is skipped; a period is invoiced once and windows abut, as long as
  no item is put back under a pending final invoice; no second of flat fee is charged twice,
  as long as no add is overtaken by a removal; amounts are rounded once; a finalized
  invoice keeps its amount; an empty container awaits a final invoice; the customer index
  is sound.
* metering and fakemetronome: an event taken is never silently lost while the process
  lives, is billed at most once as long as windows do not overlap, and is not in a window
  that was billed before it was stored (which the code does not achieve, see below).
* invoicing: an invoice bills all the usage priced for it or is not finalized; facts are
  handed to the bus in an order subscribers can use; every draft is billed in the end; a customer can
  always reach the container he pays for (which the code does not achieve either); a
  cancelled record is never current again.
* controlplane: a running generator has one loop, the one it can stop, and no other has
  any; its count matches what was published; a deleted generator falls silent.
* eventfeed and the panel: the ring is the tail of the logs; the panel never polls from
  beyond what it was sent, its rows are in order, and what is buffered reaches it.

## The modules

    InvoiceLifecycle            what is promised of invoices (abstract)
          ^ implemented by
    FakeStripe ---------------- FakeStripeProofs <-- InvoiceRefinement, FlatFeeProofs
          ^                                                 ^
          |                                          StripeTheorems (both)
          | INSTANCE                                        ^ INSTANCE
    Invoicing ----------------------------------------- InvoicingProofs

    UsageLedger                 what is promised of usage (abstract)
          ^ implemented by
    UsagePipeline ------------- UsagePipelineProofs
    Generators ---------------- GeneratorsProofs
    EventFeed ----------------- EventFeedProofs

On the left are the models, on the right the theorems about them; FlatFeeProofs and
GeneratorsProofs share Counting, the lemmas on sums. Each model has a module of
instances for TLC: MCFakeStripe, MCInvoicing, MCUsagePipeline, MCGenerators,
MCEventFeed.

**FakeStripe** is `internal/fakestripe`. Each handler, and each pass of the ticker, runs
under one mutex and is one action named as in the code: `handleAddItem`,
`handleRemoveItem`, `handleCreateItem`, `handleFinalizeInvoice`, `handlePayInvoice`,
`advancePeriods`. The variables are the maps of `Service`: `subs`, `byCustomer`,
`subIdem`, `drafts`, `open`; `invoice` stands for the invoice objects that `open` and
`invoices` share, and `listed` for `invoices`. `fired` holds the webhooks the latest
step handed to `deliver`; what becomes of them is the business of Invoicing.

The inner loop of `advancePeriods` (a container several periods late) is written in
closed form: `Elapsed` periods are invoiced at once, the k-th for its own window, the
first with the proration owed. An invoice is identified by its container and a number
in it; the global counter of the code gives no less. A handler reads the clock before
it takes the mutex, so it works with one of `Readings`, up to `ClockLag` old.
`flatAt` and `backdated` of a container say when the flat fee was last worked with and
whether it was ever put back as of an earlier second than it had been taken away. While the
item is there `flatAt` is its `AddedAt`; the rest is history that no action reads.
Time is counted in fractions of a second (`Second` units), since the code truncates to
seconds in some places (`handleAddItem`, RFC3339 in webhooks) and not in others
(`handleRemoveItem`, the ticker); fees are counted in billed seconds.
Calls that change nothing are no actions, but idempotent replays that do (in
invoicing) are. Collection fails for the customers in `Failing`.

**InvoiceLifecycle** says that an invoice is a draft, then open with an amount that never
changes, then perhaps paid, and that customers are shown exactly the finalized invoices
with something due. `InvoicesFollowLifecycle` in FakeStripe is the refinement mapping:
`Status` from `drafts` and `invoice`, `Amount` from `due`, `Statement` from `listed`.

**UsagePipeline** is `internal/metering` with `internal/fakemetronome`. The handler of
the bus (`onUsageIngested`), the taking of the buffer (`takeBuffer`) and the post of one
chunk (`postChunk`: `handleIngest`, `refuse` or `giveUp`) are separate steps of each
goroutine that flushes. Where windows come from is a part of fakestripe, cut down to
containers that hold the usage item alone: `subscribe` opens one, `periodEnds` and `cancel`
open a window, and `cancel` leaves the container, its `start` and the customer's entry as
they are, so that `resubscribe` puts the item back on it until `finalize`, once the final
window was priced, deletes it with whatever it has become. `pullUsage` prices a window and
sets the watermark; windows wait in a set, so they are priced in any order. `crossed` is
history: the customers who put the item back before a final invoice was finalized, or whose
new container was opened from a reading of the clock that lies before the end of a window
they had. (A flat fee beside the usage item adds windows whose usage is not priced, and
keeps a container alive that would otherwise have ended; what that comes to for windows
and fees is FakeStripe's part.) Quantities, prices and dimensions are left out: a window's bill is the set of
events in it. `restart` ends metering's process with whatever it holds (`forgotten`);
nothing flushes on the way out, and the bus redelivers or does not, as the offset was
committed: an event may be delivered again up to `MaxDeliveries`, which is given for each
event, before or after the restart.

**UsageLedger** is what all of that comes to: a ledger in which an event is recorded once
and for good, and bills, each holding what its window has recorded by then, one for each
window; windows may overlap. `UsageFollowsLedger` in UsagePipeline maps `events` to
the ledger and `pulled` to the bills; buffers, batches, watermark and seen ids are gone.

**Invoicing** is `internal/invoicing`, composed with `Stripe == INSTANCE FakeStripe`. A
request is a little process: `handleAddItem` is `beginAdd` (first critical section; or
`replayAdd`), `createStripeItem` (the call, a whole step of fakestripe), `finishAdd`
(second critical section); `handleRemoveItem` is `beginRemove` and `removeStripeItem`.
`network` is a bag of webhooks; each is delivered once, in any order. `handling` are the
webhook handlers in progress: `billOpenInvoice` is `pullUsage`, `addInvoiceItem` once per
group, `finalizeInvoice`; a finalized invoice goes on to `payInvoice` and, when final, to
`cancelLink`. With `Faulty` a webhook may get lost, a call may fail before it took effect,
and a reply may get lost after it did. The metadata of a container is the id of the link
record. Metered usage is external in this module: a window holds 0 to `MaxGroups` groups.

**Generators** is `internal/controlplane` without its relay. Requests are single actions
under the manager's mutex, `handleEmit` up to the point where it publishes. `loops` are the
goroutines of `run`, in the order they were started; `tick` and `done` are the two branches
of its `select`, and nothing keeps `tick` from being taken when the context is done.
`emitBatch` is called by loops and bursts alike and goes on as `publish` or `publishFails`
(any part of the batch may be out although an error came back) and `count`, outside and
inside the mutex. A cancel function is the number of the loop whose context it ends.

**EventFeed** is `internal/eventfeed` and the panel of the console that polls it
(`web/src/App.tsx`, `LiveEvents`). `produce` is any service that publishes; `append` is one
record consumed and appended to the ring under the feed's mutex; `restart` starts a new
feed at the ends of the logs. A poll is `tick` (the request leaves with `lastSeq`),
`handleList` (the answer, a step of the feed) and `receive` or `fail`; the polls in `Polls`
may be under way at a time. `blind` remembers how high the numbers of earlier processes
went, and `received` and `overlapped` are history the properties speak of.

### Not modelled

* Read-only endpoints and the previews, log lines, currencies, descriptions and line items
  (an invoice has one fee and one usage total), the current-period fields of a link record,
  the authentication of webhooks: nothing that changes state depends on them.
* Quantities, dimensions and prices of usage: sums that fakemetronome computes from the
  records of a window. Which records those are is modelled.
* `internal/billing`: a registry that only grows, and handlers that only log.
* Kafka's consumer groups: the offsets and their commits are the broker library's. The
  models take from it what the code must live with (redelivery, several goroutines).
* Restarts of fakestripe, invoicing, fakemetronome and the control plane: nothing is
  persisted, and the others are left with ids that lead nowhere, so there is no recovery
  to check. Restarts of metering and of the event feed are modelled: the bus and the
  console carry on with the new process.
* Start-up, configuration, HTTP plumbing, deployment, and the rest of the console.

## What TLC checks

All runs but `eventfeed` say `CHECK_DEADLOCK FALSE` because the bounds (`MaxTime`, `MaxCalls`, ...) stop a
bounded system that would go on. Every `Max...` constant is such a bound and appears in a
guard or in the input sets only. The runs of FakeStripe that TLC finds large and those of
Invoicing for invariants have a `VIEW` without `fired`, which no later step reads
(Invoicing copies it into `network` in the same step). That of `stripe_periods` leaves out
the usage on a bill as well: one micro at most is attached there, at prices (4 micros a
second, 8 a cent) where it never changes an amount due, and nothing else reads it, so
states that differ in it alone go the same ways. Runs of Invoicing tell usage apart.

| run | question | bounds |
|---|---|---|
| `stripe_periods` | is a period invoiced again without a final invoice before it (`PeriodsTile`), is one skipped (`NoPeriodSkipped`), is a second charged twice (`NoSecondChargedTwice`), does an emptied container lack a final invoice (`EmptyContainerAwaitsFinal`), do invoices follow their lifecycle (`InvoicesFollowLifecycle`), does a due period end (`DuePeriodsEnd`), are fees never negative (`TypeOK`) | one container, periods of two seconds, half-second clock, readings up to half a second old, two periods: a pass that is late by a whole period, removals on and between seconds, a regular and a final invoice, an item put back under the latter, and the regular invoice that overlaps it; a customer who does not pay, whose collections fail and are retried (480 thousand states, usage on a bill left out of the `VIEW`) |
| `usage` | is an event billed twice by other windows than those that overlap (`BilledTwiceIfCrossedOnly`), does billed usage return to the preview without one window overtaking another (`PreviewReturnsIfOvertakenOnly`), does every step record or bill as `UsageLedger` says, or nothing (`UsageFollowsLedger`) | one event delivered twice, flushed by the deliverer or the timer; periods of one unit, two of them; readings one unit old; three containers and three windows, so a final window, a second one of the same container, and one of a container opened after it (3.5 million states) |
| `metering` | is anything lost between buffer, flushers and Metronome (`NothingVanishes`), refused (`NothingRefused`), never flushed (`EverythingIsFlushed`) | three events, the first delivered twice; two deliverers and the timer, batches of two, so the buffer outgrows the batch; failing posts; one restart; no windows |
| `invoicing_faults` | does a fault leave an invoice with part of its usage (`PricedInFull`), announce a payment before its invoice (`PaymentsAreOfAnnouncedInvoices`), bring back a cancelled record (`CancelledIsRetired`), or unsettle Stripe's containers and index (`StripeStaysSound`: `EmptyContainerAwaitsFinal`, `IndexLeadsHome`, `StrandedByLateFinalOnly`) | everything may be lost; a customer who does not pay; five calls, enough for two final invoices of one container, a second container between them, and its being stranded by the later; two groups per window; no periods end (that is `invoicing_billing`'s part) |
| `invoicing_billing` | is every draft finalized and collected (`DraftsAreBilled`), do invoices keep to their lifecycle (`DrivenLifecycle`) | no faults; a customer who pays, three calls, one retried key, a period's end, two containers, one group |
| `generators` | can a loop escape its generator (`OneLoopEach`), does a count lie (`EmittedIsPublished`), does a deleted generator go on (`DeletedFallSilent`) | two generators and a burst; two loops, so that an old one runs beside a new one; two events per generator, one per batch |
| `eventfeed` | is the ring the tail of the logs (`RingIsTheTail`), does the panel skip an entry for good (`NothingSkipped`), are its rows out of order (`RowsNewestFirst`), does an entry never reach it (`BufferedIsShown`) | two topics with three records between them, a ring and a panel of two, so both overflow; two polls, so that they overlap and are overtaken; one restart |

`MaxDrafts` bounds the final invoices opened for one container, `MaxOwed` the proration one
may pile up.

The bounds are as small as they are because TLC must finish; for the invariants proved
below, the theorems say that size does not matter.

Each property is there because a plausible slip in the code breaks it: next to the
definition concerned stands the operator that makes the slip (commented `Mutant:`), and
PROJECT.json names, for every property, the one TLC must find it violated with.

### Where code and comments disagree

Five further runs each check a sentence of the repository's own README or comments, and TLC
finds it violated. The comment above each property states it; PROJECT.json quotes the
sentence with its line.

| run | says | what happens |
|---|---|---|
| `stripe_dropped_with_items` | a subscription ends only when it has no items | remove the last item; add one before the final invoice is finalized; the finalization deletes the container with it |
| `usage_billed_twice` | the watermark moves so that the same usage is not billed twice | remove the last item; add it back before the final invoice is finalized; the next window of the container starts where the final one did, and what is in both is billed on both |
| `usage_late` | stamping on receipt keeps usage out of finalized periods | stamped before the boundary, flushed after the window was priced |
| `invoicing_resubscribed` | one link record per customer ties it to the container | an add between Stripe's finalization and its webhook reuses the record that webhook cancels |
| `invoicing_retry` | an Idempotency-Key makes a retried add safe | the key is kept when the call it was for failed |

More have no run of their own:

* A second of flat fee can be charged twice. `handleAddItem` reads the clock (302), waits
  for the mutex, and is overtaken by a `handleRemoveItem` that read it later (358). The
  removal prorates the fee up to its own reading; the add then puts the item back with an
  `AddedAt` before it, and the end of the period charges the seconds in between once more.
  (An old reading of a removal does no such harm: served after a pass of the scheduler, it
  prorates nothing, since `flatFeeForWindow` stops at zero.) `NoSecondChargedTwice` excepts
  the containers this happened to (`backdated`) and nothing else, for any age of readings.
* A customer who removes the usage item first and the flat fee last gets a final invoice
  with `bill_usage` false (`fakestripe/service.go:384`), so the usage of the period so far
  is never priced. The comment at 382 intends it; README.md:301-303 reads as if the final
  invoice held the partial period's usage.
* The watermark goes to the end of the window priced last, whichever that is
  (`fakemetronome/service.go:219`). When two windows of a customer are priced in the wrong
  order it moves back, and the preview shows billed usage again, against the comment at 188.
  `PreviewReturnsIfOvertakenOnly` says that this takes a window overtaken by a later one, a
  cancellation with a reading from before its window began, or overlapping windows.
* README.md:341 says "one container per customer". A customer who removes his last item,
  adds one, removes it and adds one again while the two final invoices are under way can
  end up with a container the second finalization takes from the index
  (`fakestripe/service.go:438`). It is billed every period, no list shows it, only a
  removal by its id could end it, and the final webhook that follows unlinks the record
  that has the id; the customer's next add opens another container. `invoicing_faults` reaches such states;
  `StrandedByLateFinalOnly`, a part of `StripeStaysSound`, checked and proved, says that this
  is the only way to them.
* The feed numbers its entries from 1 in every process (`eventfeed/service.go:143-145`),
  and the console asks for what lies above the highest number it has seen
  (`web/src/api.ts:209-210`). After a restart the console misses every entry up to that
  number. `NothingSkipped` excludes exactly those (`blind`), and holds for all others.
* README.md:331 bounds the rounding error to less than half a cent. `math.Round` sends an
  exact half up, so it can be half a cent in the seller's favour, as for 50 requests of 100
  micros. `RoundingErrorIsBounded` says on which side the bound is strict. It is proved for
  all amounts; a run on a handful of them would show little more.

### Fairness

* `FakeStripe`: weak fairness of the scheduler alone. The ticker goroutine never ends and
  the mutex is held only for short critical sections; nobody is obliged to call.
* `UsagePipeline`: weak fairness of each flusher's steps, `takeBuffer` or `postChunk`:
  `flushLoop` never ends and every post ends, by its timeout if need be. Deliveries,
  restarts and billing need not happen.
* `Invoicing`: weak fairness of the scheduler, of each request's next step, of some
  delivery and of some handler. Each webhook has a goroutine that sleeps and posts; each
  handler runs in a goroutine of the server. Fairness of "some" delivery suffices because
  the bounds leave finitely many webhooks. With `Faulty` nothing of the kind could hold:
  a lost webhook is lost.
* `EventFeed`: weak fairness of the panel's timer, for an interval timer goes on; strong
  fairness of each poll's answer and of its arrival. A poll may fail at any moment, so
  neither stays enabled; the assumption is that errors are transient. `BufferedIsShown`
  excepts entries that are overwritten first and a viewer who pauses.
* `Generators`: weak fairness of publishing and counting, for every publish ends and the
  mutex is held briefly; strong fairness of `done`. Go's `select` picks at random among
  the branches that are ready, so a loop whose context is done may prefer its ticker a few
  times, but not for ever. With weak fairness the property fails: a publish that fails
  without effect leads back to the same choice.

## What is proved

`FakeStripeProofs`, `InvoiceRefinement` and `FlatFeeProofs` hold for
every choice of the constants that meets `FakeStripeAssumption` (sets of customers and keys of any size, any period, any
clock lag, any bounds): the assumption only says which constants are numbers, that
`Second`, `PeriodSecs` and `MicrosPerCent` are positive and that the "absent" values are
not members.

* `TypeCorrect`, `EmptyContainersAreClosed`, `IndexIsSound` follow from the inductive
  invariant `StripeInv`. `EmptyContainerAwaitsFinal` is not inductive alone: finalizing a
  final draft keeps it only because the draft belongs to the container it drops
  (`BillsBelong`), and `IndexLeadsHome` only because that draft's customer is the
  container's customer. `FinalizedOnce` keeps an invoice from being a draft and finalized
  at once.
* `EveryPeriodIsInvoiced` needs the strengthening `PeriodInv`: every
  regular invoice lies where `start` and `period` of its container put it, counted from
  the instant the container was created. Nothing in it speaks of the clock, which is why
  the result does not depend on how late the scheduler is or how stale its reading.
* `WindowsTile` adds the final invoices, from `OrderInv`: a live container's period begins
  where or after every invoice of it that is not final ended (`BillsBehind`), so an invoice
  opened now comes after those (`BillsInOrder`). A final invoice moves nothing, which is
  why what follows one may overlap it, and the theorem says so.
* `InvoicesImplementLifecycle` is the refinement, step by step: calls and passes that open
  drafts are `OpenDrafts` (possibly several), finalization is `Finalize`, a collection
  that succeeds is `Collect`, all else stutters. It uses `StripeInv`, without which a
  finalization could overwrite an invoice.
* `OnlyLateFinalsStrand` needs to know why a container is gone (`GoneByFinal`): a final
  invoice of its own was finalized. A final invoice that finds its container gone is
  therefore not its first.
* `RoundingIsBounded` carries, from one step to the next, that an invoice's `due` is the
  rounded total of its bill (`DueAsBilled`) and that it is listed when something is due;
  the arithmetic is one lemma (`AmountDueIsNear`) about rounding half up.
* `FeesAreChargedOnce` (FlatFeeProofs) holds for any `ClockLag`, of every container that is
  not `backdated`. What is charged is counted as a set, one pair per invoice and billed second, so that sums become
  cardinalities (Counting) and no induction over invoices is needed. The invariant
  `ChargeInv` says how far a container was charged (`ChargedUpTo`): while it has the flat
  fee, up to its period's start or the moment the fee was added, whichever is later, and
  otherwise up to its period's start or the last removal. An old reading can only leave that
  point where it is or move it on, but for an add that sets it back, and that is what
  `backdated` records. A pass over several elapsed periods is the hard step: a bill of the
  pass has no more units than seconds fit into its window; its units are mapped to those
  seconds; seconds of different windows differ (`WindowsApart`), and all lie between what
  was charged before and the new period's start (`SecondHasRoom`), so there are no more
  units than seconds (`PassCounts`). That periods begin on whole seconds (`OnTheSecond`) is
  part of the invariant, since fees are cut to seconds.

`GeneratorsProofs` does the same under `GeneratorsAssumption`, for any number of
generators, bursts and starts. `OneLoopEach` is inductive together with
`IdleHoldsNoLoop`: were a stopped generator left with a cancel function, deleting it could
end a loop that is not its own. `TypeOK` is proved along with it, since cancelling keeps
`loops` well-formed only where the types hold. `CountNeverAheadOfBus` comes from `CountInv`:
what a generator published is its count and the batches being counted, and no less than that if a
publish failed. The batches are taken as a set of pairs (Counting): one that has been counted
leaves the set by as much as the count grows. A new generator starts level because nothing
was published under its id (`Silent`).

`InvoicingProofs` lifts this to the composition under `InvoicingAssumption`: every step of
Invoicing is a step of FakeStripe or leaves its variables alone, so `StripeInv` is inherited
from the instance `SP == INSTANCE StripeTheorems` and is not proved again. On it stand

* `InvoicingTypeCorrect` (`Shaped`: `StripeInv` and the types of links, webhooks and
  history);
* `CancelledStaysRetired`, from `LinkInv`: two customers never share a current link record,
  so that unlinking one retires the record for good, and only records that exist are
  cancelled;
* `PaymentsFollowInvoices`, from `PaymentInv`: a collection is asked for, and its webhook
  exists, only after the invoice's finalization was published;
* `InvoicesArePricedInFull`, from `PricingInv`. A lost reply lets a call take effect though
  its handler stops, so the invoice alone does not say how far its handler came. What makes
  it work is that a draft is announced by one webhook at most (`DraftsAnnouncedOnce`) and
  handled by one handler at most (`DraftsHandledOnce`), and that a handler that goes on has
  attached exactly the groups it counted (`HandlersInStep`): a retry by anybody would break
  it;
* `StripeIsDrivenSoundly`, `DrivenPeriodsTile` and `DrivenFeesAreChargedOnce`, which carry
  `StrandInv`, `PeriodInv` and `ChargeInv` over as it carries `StripeInv`: what holds of
  Stripe however it is called holds with invoicing as its caller, and every fault allowed;
* `DrivenInvoicesFollowLifecycle`: the refinement of InvoiceLifecycle, carried over step by
  step, so the composition implements it too.

`UsagePipelineProofs`, under `UsageAssumption`, for any events, deliverers, batch size,
deliveries and restarts:

* `PipelineTypeCorrect`, `NoEventVanishes` and `NoChunkIsRefused` come from `IngestInv`. A
  flusher that is idle holds nothing (`IdleHoldsNothing`); without that, taking the buffer
  would overwrite a batch.
* `EventsAreBilledOnce` comes from `BillingInv`. A window leaves `windows` when it is priced
  and is never opened again (`PricedOnce`, from the numbering of windows). It is billed by
  what is stored when it is priced, and windows are priced in any order, so the proof does
  not look at the order at all: an id is stored with one stamp only (`RecordPerId`,
  `RecordsAreSeen`), a window's usage lies within it (`UsageInWindow`), and the windows of a
  customer who did not cross do not overlap (`WindowsApart`). The last holds because such a
  customer's container, while it has the item, starts at or after the end of all his windows
  (`WindowsBehind`); while a final window is pending, and there is one at most
  (`PendingAlone`), the container has no item and opens none (`PendingStopped`).
* `PipelineImplementsLedger` is the refinement, step by step: posting a chunk is `Store` if
  anything in it is new, and one record is stored for each id even if a chunk has it twice
  (`FreshRecords`); pricing is `DrawUp`, of a window billed for the first time. Buffering, failed posts and restarts
  stutter.

`EventFeedProofs`, under `EventFeedAssumption`, for any topics, ring, panel, number of
overlapping polls and restarts: `FeedTypeCorrect`, `RingKeepsTheTail`,
`PanelSkipsNothing` (answers under way, overtaken or out of date must be shown to hold no
number beyond what they carry) and `RowsFallFromTheTop`.

Only model-checked:

* `EverythingIsFlushed`, `DuePeriodsEnd`, `DraftsAreBilled`, `DeletedFallSilent` and
  `BufferedIsShown`: TLAPS does not reason about fairness;
* `PreviewReturnsIfOvertakenOnly`, for which the invariant would have to follow the
  watermark through every order of pricing.

Every other property of a passing run is a theorem.

## Plan

1. *(done)* FakeStripe, its lifecycle, and their proofs; UsagePipeline; Invoicing;
   Generators with its proof.
2. *(done)* EventFeed: ring, poller, restart, with its proof. Restarts of metering.
3. *(done)* Proofs of UsagePipeline's invariants; `StripeInv` inherited by Invoicing, and
   the proofs of its invariants on it; rounding.
4. *(done)* `EmittedIsPublished` and `NoSecondChargedTwice` counted as cardinalities and
   proved.
5. *(done)* UsageLedger, and UsagePipeline proved to implement it; the theorems about
   FakeStripe carried over to Invoicing.
6. *(done)* Overlapping windows: containers that outlive their final window in
   UsagePipeline, all invoices in `PeriodsTile`, old readings in `NoSecondChargedTwice`.
7. An abstract specification of the link records, for Invoicing to implement.
8. BillingCycle: UsagePipeline under Invoicing, so that a window's groups are those stored
   by then and late usage can be followed to the invoice that misses it.
9. Restarts, should the code come to persist anything.
