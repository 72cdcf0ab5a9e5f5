----------------------------- MODULE FakeStripe -----------------------------
(***************************************************************************)
(* internal/fakestripe: the stand-in for Stripe.  It owns subscription     *)
(* containers (a billing period and up to two items), draft and finalized  *)
(* invoices, and reports every change in a webhook.                        *)
(*                                                                         *)
(* Every handler and every pass of the period scheduler runs under one     *)
(* mutex, so each is one action.  A handler reads the clock BEFORE it      *)
(* takes the mutex, so the instant it works with may be up to ClockLag     *)
(* behind the clock when its step happens.  Calls that change nothing      *)
(* (404s, idempotent replays, reads) are not actions.                      *)
(*                                                                         *)
(* Time is counted in units of 1/Second second.  Flat fees are counted in  *)
(* units of prorationCentsPerSecond, so one unit is one billed second and  *)
(* the full fee is PeriodSecs units (3000 cents = 30 s * 100 cents/s).     *)
(***************************************************************************)
EXTENDS Integers, FiniteSets, Functions

CONSTANTS
    Customers,      \* customer ids
    Failing,        \* the customers whose id contains "fail"
    Metas,          \* metadata a caller may attach to a container
    NoMeta,         \* no metadata attached
    Keys,           \* Idempotency-Key values
    NoKey,          \* header absent
    Second,         \* clock units per second
    PeriodSecs,     \* subscriptionPeriod, in seconds
    ClockLag,       \* bound: how stale a handler's reading of the clock may be
    FeeMicros,      \* micros in one flat-fee unit
    MicrosPerCent,  \* microsPerCent
    ItemMicros,     \* amounts an attached invoice item may have
    MaxTime,        \* bound: the clock stops here
    MaxContainers,  \* bound: containers ever created
    MaxDrafts,      \* bound: final invoices opened per container
    MaxUsage,       \* bound: micros attached to one draft
    MaxOwed         \* bound: proration a container may have piled up

ASSUME FakeStripeAssumption ==
    /\ Failing \subseteq Customers
    /\ NoMeta \notin Metas
    /\ NoKey \notin Keys
    /\ {Second, PeriodSecs, MicrosPerCent} \subseteq Nat \ {0}
    /\ {ClockLag, FeeMicros, MaxTime, MaxContainers, MaxDrafts, MaxUsage,
        MaxOwed} \subseteq Nat
    /\ ItemMicros \subseteq Nat

VARIABLES
    now,        \* the wall clock
    created,    \* containers created so far; container ids are 1..created
    subs,       \* live containers: id -> Container
    byCustomer, \* customer -> id of its container, Absent if none
    subIdem,    \* idempotency key -> id of a container, Absent if unused
    drafts,     \* invoice id -> Bill, until finalized
    invoice,    \* every finalized invoice object: id -> [bill, due, paid]
    open,       \* ids of finalized invoices that collection may still be tried on
    listed,     \* customer -> ids of the invoices it is shown
    fired       \* the webhooks the latest step handed to deliver

vars == <<now, created, subs, byCustomer, subIdem, drafts, invoice, open,
          listed, fired>>

-----------------------------------------------------------------------------
ItemTypes == {"flat_fee", "usage"}
Absent == 0
Period == PeriodSecs * Second
Trunc(t) == t - (t % Second)

Put(f, k, v) == [x \in DOMAIN f \cup {k} |-> IF x = k THEN v ELSE f[x]]
Without(f, k) == Restrict(f, DOMAIN f \ {k})

(* An invoice is identified by its container and its number there; the     *)
(* code's global counter gives the same uniqueness.                        *)
InvoiceIds == Nat \X Nat

(* opened counts the invoices ever opened for the container.  flatAt is    *)
(* AddedAt of the flat-fee item while it is there (the usage item's is     *)
(* never read); once the item is gone the code keeps nothing of it, and    *)
(* flatAt is the latest instant it was worked with.  That, and backdated,  *)
(* which says that the item was once put back as of an earlier second than *)
(* it had been taken away, are history: no action depends on them.         *)
Container ==
    [customer : Customers, start : Nat, period : Nat \ {0},
     items : SUBSET ItemTypes, flatAt : Nat, backdated : BOOLEAN,
     proration : Nat, metadata : Metas \cup {NoMeta}, opened : Nat]

Bill ==
    [customer : Customers, sub : Nat, period : Nat \ {0}, start : Nat,
     end : Nat, final : BOOLEAN, billUsage : BOOLEAN, fee : Nat, usage : Nat]

Finalized == [bill : Bill, due : Nat, paid : BOOLEAN]

SubscriptionWebhook ==
    [type : {"customer.subscription.created", "customer.subscription.updated"},
     sub : Nat, customer : Customers, items : SUBSET ItemTypes, period : Nat,
     metadata : Metas \cup {NoMeta}]

CreatedWebhook ==
    [type : {"invoice.created"}, invoice : InvoiceIds, customer : Customers,
     start : Nat, end : Nat, period : Nat, final : BOOLEAN, billUsage : BOOLEAN]

InvoiceWebhook ==
    [type : {"invoice.finalized", "invoice.payment_succeeded",
             "invoice.payment_failed"},
     invoice : InvoiceIds, customer : Customers, due : Nat, final : BOOLEAN]

TypeOK ==
    /\ now \in Nat
    /\ created \in Nat
    /\ DOMAIN subs \subseteq 1 .. created
    /\ \A s \in DOMAIN subs : subs[s] \in Container
    /\ byCustomer \in [Customers -> 0 .. created]
    /\ subIdem \in [Keys -> 0 .. created]
    /\ DOMAIN drafts \subseteq InvoiceIds
    /\ \A i \in DOMAIN drafts : drafts[i] \in Bill
    /\ DOMAIN invoice \subseteq InvoiceIds
    /\ \A i \in DOMAIN invoice : invoice[i] \in Finalized
    /\ open \subseteq DOMAIN invoice
    /\ listed \in [Customers -> SUBSET DOMAIN invoice]
    /\ fired \subseteq SubscriptionWebhook \cup CreatedWebhook \cup InvoiceWebhook

-----------------------------------------------------------------------------
(* The readings of the clock a handler may be working with.                *)
Readings == {t \in now - ClockLag .. now : t >= 0}

PeriodEnd(st) == st.start + Period

(* Mutant: no floor at zero, so a window read backwards has a negative fee. *)
FlatFeeUnclamped(addedAt, start, end) ==
    LET activeStart == IF addedAt < start THEN start ELSE addedAt
        secs == (end - activeStart) \div Second
    IN  IF secs > PeriodSecs THEN PeriodSecs ELSE secs

(* flatFeeForWindow: the whole seconds of [start, end) during which the    *)
(* flat-fee item was there, at one unit a second, capped at the full fee.  *)
FlatFeeForWindow(addedAt, start, end) ==
    LET activeStart == IF addedAt < start THEN start ELSE addedAt
        secs == (end - activeStart) \div Second
    IN  IF secs < 0 THEN 0 ELSE IF secs > PeriodSecs THEN PeriodSecs ELSE secs

FlatLine(st, start, end) ==
    IF "flat_fee" \in st.items
    THEN FlatFeeForWindow(st.flatAt, start, end)
    ELSE 0

(* openDraftLocked: a draft for one window of a container, already holding *)
(* the flat-fee line and the proration owed.  The callers clear proration. *)
OpenDraft(s, st, start, end, period, final, billUsage) ==
    [customer |-> st.customer, sub |-> s, period |-> period, start |-> start,
     end |-> end, final |-> final, billUsage |-> billUsage,
     fee |-> FlatLine(st, start, end) + st.proration, usage |-> 0]

SubObject(type, s, st) ==
    [type |-> type, sub |-> s, customer |-> st.customer, items |-> st.items,
     period |-> st.period, metadata |-> st.metadata]

(* RFC3339 has no fraction of a second: the window is sent truncated.      *)
InvoiceCreated(i, d) ==
    [type |-> "invoice.created", invoice |-> i, customer |-> d.customer,
     start |-> Trunc(d.start), end |-> Trunc(d.end), period |-> d.period,
     final |-> d.final, billUsage |-> d.billUsage]

InvoiceEvent(type, i, inv) ==
    [type |-> type, invoice |-> i, customer |-> inv.bill.customer,
     due |-> inv.due, final |-> inv.bill.final]

-----------------------------------------------------------------------------
Tick ==
    /\ now < MaxTime
    /\ now' = now + 1
    /\ fired' = {}
    /\ UNCHANGED <<created, subs, byCustomer, subIdem, drafts, invoice, open,
                   listed>>

(* Mutant: now.After(PeriodEnd) for !now.Before(PeriodEnd), so a period     *)
(* that ends exactly on a tick is not over.                                *)
ElapsedLate(st, at) == IF at <= PeriodEnd(st) THEN 0 ELSE (at - st.start) \div Period

(* How many periods of a container have elapsed at instant at: the number  *)
(* of turns of advancePeriods' inner loop.                                 *)
Elapsed(st, at) == IF at < PeriodEnd(st) THEN 0 ELSE (at - st.start) \div Period

Due(at) ==
    {s \in DOMAIN subs : subs[s].items # {} /\ Elapsed(subs[s], at) > 0}

(* Mutant: Period++ once per pass instead of once per elapsed period.      *)
RolledOnce(st, n) ==
    [st EXCEPT !.start = @ + n * Period, !.period = @ + 1,
               !.proration = 0, !.opened = @ + n]

(* Mutant: PendingProrationCents is billed but not reset.                  *)
RolledStillOwing(st, n) ==
    [st EXCEPT !.start = @ + n * Period, !.period = @ + n, !.opened = @ + n]

Rolled(st, n) ==
    [st EXCEPT !.start = @ + n * Period, !.period = @ + n,
               !.proration = 0, !.opened = @ + n]

(* Mutant: every elapsed period is billed for the first one's window.      *)
ElapsedDraftSameWindow(s, st, k) ==
    OpenDraft(s, IF k = 0 THEN st ELSE [st EXCEPT !.proration = 0],
              st.start, st.start + Period, st.period + k, FALSE,
              "usage" \in st.items)

(* The draft for the k-th of the elapsed periods, counted from 0: only the *)
(* first one still finds proration to bill.                                *)
ElapsedDraft(s, st, k) ==
    LET start == st.start + k * Period
        owing == IF k = 0 THEN st ELSE [st EXCEPT !.proration = 0]
    IN  OpenDraft(s, owing, start, start + Period, st.period + k, FALSE,
                  "usage" \in st.items)

ElapsedIds(s, st, at) == {s} \X (st.opened + 1 .. st.opened + Elapsed(st, at))

advancePeriods(at) ==
    LET ids == UNION {ElapsedIds(s, subs[s], at) : s \in Due(at)}
        New(i) == ElapsedDraft(i[1], subs[i[1]], i[2] - subs[i[1]].opened - 1)
    IN  /\ Due(at) # {}
        /\ subs' = [s \in DOMAIN subs |->
                      IF s \in Due(at) THEN Rolled(subs[s], Elapsed(subs[s], at))
                                       ELSE subs[s]]
        /\ drafts' = [i \in DOMAIN drafts \cup ids |->
                        IF i \in ids THEN New(i) ELSE drafts[i]]
        /\ fired' = {InvoiceCreated(i, New(i)) : i \in ids}
        /\ UNCHANGED <<now, created, byCustomer, subIdem, invoice, open, listed>>

(* A key whose container is still there is answered from subIdem.          *)
Replayed(k) == k # NoKey /\ subIdem[k] \in DOMAIN subs

NewContainer(c, meta, at) ==
    [customer |-> c, start |-> at, period |-> 1, items |-> {}, flatAt |-> 0,
     backdated |-> FALSE, proration |-> 0, metadata |-> meta, opened |-> 0]

WithMetadata(st, meta) ==
    IF st.metadata = NoMeta THEN [st EXCEPT !.metadata = meta] ELSE st

(* A call that puts the flat fee there: it does nothing if it was there.   *)
AddsFlatFee(st, t) == t = "flat_fee" /\ t \notin st.items

WithItem(st, t, at) ==
    [st EXCEPT !.items = @ \cup {t},
               !.flatAt = IF AddsFlatFee(st, t) THEN at ELSE @,
               !.backdated = @ \/ (AddsFlatFee(st, t) /\ at < Trunc(st.flatAt))]

(* Put st in place as container s of customer c and remember the key.      *)
StoreContainer(c, k, s, st, type) ==
    /\ subs' = Put(subs, s, st)
    /\ subIdem' = IF k = NoKey THEN subIdem ELSE [subIdem EXCEPT ![k] = s]
    /\ fired' = {SubObject(type, s, st)}
    /\ UNCHANGED <<now, drafts, invoice, open, listed>>

(* handleAddItem, with the item put on the customer's container ...        *)
AddToExisting(c, t, k, meta, at) ==
    LET s == byCustomer[c] IN
    /\ ~Replayed(k)
    /\ s \in DOMAIN subs
    /\ StoreContainer(c, k, s, WithItem(WithMetadata(subs[s], meta), t, Trunc(at)),
                      "customer.subscription.updated")
    /\ UNCHANGED <<created, byCustomer>>

(* ... or on a new one.                                                    *)
AddToNew(c, t, k, meta, at) ==
    LET s == created + 1 IN
    /\ created < MaxContainers
    /\ ~Replayed(k)
    /\ byCustomer[c] \notin DOMAIN subs
    /\ StoreContainer(c, k, s, WithItem(NewContainer(c, meta, Trunc(at)), t, Trunc(at)),
                      "customer.subscription.created")
    /\ created' = s
    /\ byCustomer' = [byCustomer EXCEPT ![c] = s]

handleAddItem(c, t, k, meta, at) ==
    AddToExisting(c, t, k, meta, at) \/ AddToNew(c, t, k, meta, at)

(* The container once item t is gone: a flat fee leaves its partial-period *)
(* charge behind as proration.                                             *)
WithoutItem(st, t, at) ==
    [st EXCEPT !.items = @ \ {t},
               !.flatAt = IF t = "flat_fee" /\ @ < at THEN at ELSE @,
               !.proration = IF t = "flat_fee"
                             THEN @ + FlatFeeForWindow(st.flatAt, st.start, at)
                             ELSE @]

RemoveOneOfTwo(s, t, at) ==
    LET st == WithoutItem(subs[s], t, at) IN
    /\ st.items # {}
    /\ subs' = [subs EXCEPT ![s] = st]
    /\ fired' = {SubObject("customer.subscription.updated", s, st)}
    /\ UNCHANGED drafts

(* Removing the last item opens the final invoice; its usage is billed     *)
(* only if the item just removed was the usage item.                       *)
RemoveLast(s, t, at) ==
    LET st == WithoutItem(subs[s], t, at)
        i == <<s, st.opened + 1>>
        d == OpenDraft(s, st, st.start, at, st.period, TRUE, t = "usage")
    IN  /\ st.items = {}
        /\ st.opened - (st.period - 1) < MaxDrafts
        /\ subs' = [subs EXCEPT ![s] = [st EXCEPT !.proration = 0, !.opened = @ + 1]]
        /\ drafts' = Put(drafts, i, d)
        /\ fired' = {InvoiceCreated(i, d)}

handleRemoveItem(s, t, at) ==
    /\ t \in subs[s].items
    /\ WithoutItem(subs[s], t, at).proration <= MaxOwed
    /\ RemoveOneOfTwo(s, t, at) \/ RemoveLast(s, t, at)
    /\ UNCHANGED <<now, created, byCustomer, subIdem, invoice, open, listed>>

(* An invoice item for metered usage is attached to an open draft.         *)
handleCreateItem(i, micros) ==
    /\ drafts[i].usage + micros <= MaxUsage
    /\ drafts' = [drafts EXCEPT ![i].usage = @ + micros]
    /\ fired' = {}
    /\ UNCHANGED <<now, created, subs, byCustomer, subIdem, invoice, open,
                   listed>>

TotalMicros(d) == d.fee * FeeMicros + d.usage

(* math.Round of micros per cent: half a cent rounds up.                   *)
AmountDue(d) == (2 * TotalMicros(d) + MicrosPerCent) \div (2 * MicrosPerCent)

(* Mutant: an invoice with nothing due is shown too.                       *)
ShownAlways(i, inv) == [listed EXCEPT ![inv.bill.customer] = @ \cup {i}]

(* Only an invoice with something due is shown to its customer.            *)
Shown(i, inv) ==
    IF inv.due > 0 THEN [listed EXCEPT ![inv.bill.customer] = @ \cup {i}]
                   ELSE listed

(* Mutant: finalizing the last invoice leaves the container in place.      *)
ForgetCustomerOnly(d) ==
    IF d.final
    THEN byCustomer' = [byCustomer EXCEPT ![d.customer] = Absent] /\ UNCHANGED subs
    ELSE UNCHANGED <<subs, byCustomer>>

(* Mutant: the container goes but the customer's entry still names it.     *)
ForgetContainerOnly(d) ==
    IF d.final
    THEN subs' = Without(subs, d.sub) /\ UNCHANGED byCustomer
    ELSE UNCHANGED <<subs, byCustomer>>

(* A final invoice takes its container and its customer's entry with it,   *)
(* whatever they have become since the draft was opened.                   *)
CloseContainer(d) ==
    IF d.final
    THEN /\ subs' = Without(subs, d.sub)
         /\ byCustomer' = [byCustomer EXCEPT ![d.customer] = Absent]
    ELSE UNCHANGED <<subs, byCustomer>>

handleFinalizeInvoice(i) ==
    LET d == drafts[i]
        inv == [bill |-> d, due |-> AmountDue(d), paid |-> FALSE]
    IN  /\ drafts' = Without(drafts, i)
        /\ invoice' = Put(invoice, i, inv)
        /\ open' = open \cup {i}
        /\ listed' = Shown(i, inv)
        /\ CloseContainer(d)
        /\ fired' = {InvoiceEvent("invoice.finalized", i, inv)}
        /\ UNCHANGED <<now, created, subIdem>>

(* Collection: a failing customer's invoice stays open for a later try.    *)
handlePayInvoice(i) ==
    LET paid == invoice[i].bill.customer \notin Failing
        outcome == IF paid THEN "invoice.payment_succeeded"
                           ELSE "invoice.payment_failed"
    IN  /\ invoice' = [invoice EXCEPT ![i].paid = paid]
        /\ open' = IF paid THEN open \ {i} ELSE open
        /\ fired' = {InvoiceEvent(outcome, i, invoice[i])}
        /\ UNCHANGED <<now, created, subs, byCustomer, subIdem, drafts, listed>>

-----------------------------------------------------------------------------
Init ==
    /\ now = 0
    /\ created = 0
    /\ subs = [s \in {} |-> {}]
    /\ byCustomer = [c \in Customers |-> Absent]
    /\ subIdem = [k \in Keys |-> Absent]
    /\ drafts = [i \in {} |-> {}]
    /\ invoice = [i \in {} |-> {}]
    /\ open = {}
    /\ listed = [c \in Customers |-> {}]
    /\ fired = {}

SomeCall ==
    \/ \E c \in Customers, t \in ItemTypes, k \in Keys \cup {NoKey},
         meta \in Metas \cup {NoMeta}, at \in Readings :
             handleAddItem(c, t, k, meta, at)
    \/ \E s \in DOMAIN subs, t \in ItemTypes, at \in Readings :
             handleRemoveItem(s, t, at)
    \/ \E i \in DOMAIN drafts : \E micros \in ItemMicros : handleCreateItem(i, micros)
    \/ \E i \in DOMAIN drafts : handleFinalizeInvoice(i)
    \/ \E i \in open : handlePayInvoice(i)

Scheduler == \E at \in Readings : advancePeriods(at)

Next ==
    \/ Tick
    \/ Scheduler
    \/ SomeCall

(* The ticker goroutine always gets its turn; nobody has to call.          *)
Spec == Init /\ [][Next]_vars /\ WF_vars(Scheduler)

-----------------------------------------------------------------------------
(* Properties                                                              *)

Bills == DOMAIN drafts \cup DOMAIN invoice
BillOf(i) == IF i \in DOMAIN drafts THEN drafts[i] ELSE invoice[i].bill
RegularBills(s) == {i \in Bills : BillOf(i).sub = s /\ ~BillOf(i).final}

(* Every invoice carries the number and the customer of its container, and *)
(* no container will issue that number again.                              *)
BillsBelong ==
    \A i \in Bills :
        /\ BillOf(i).sub = i[1]
        /\ i[1] \in 1 .. created
        /\ i[1] \in DOMAIN subs =>
               /\ i[2] <= subs[i[1]].opened
               /\ BillOf(i).customer = subs[i[1]].customer

(* An invoice is a draft or finalized, never both, and an invoice that can *)
(* still be paid has not been.                                             *)
FinalizedOnce ==
    /\ DOMAIN drafts \cap DOMAIN invoice = {}
    /\ \A i \in open : ~invoice[i].paid

(* A container that lost its last item has a final draft of its own: it is *)
(* dropped as soon as that draft is finalized, and an interleaving of adds *)
(* and removals never leaves it without one, in its customer's way.        *)
EmptyContainerAwaitsFinal ==
    \A s \in DOMAIN subs : subs[s].items = {} =>
        \E i \in DOMAIN drafts : drafts[i].sub = s /\ drafts[i].final

(* The customer index never leads to a dropped or another customer's       *)
(* container, although two finalizations may drop things in any order.     *)
IndexLeadsHome ==
    \A c \in Customers : byCustomer[c] # Absent =>
        /\ byCustomer[c] \in DOMAIN subs
        /\ subs[byCustomer[c]].customer = c

(* Two final invoices of one container were finalized, the later for c.    *)
TwoFinals(c) ==
    \E i, j \in DOMAIN invoice :
        LET first == invoice[i].bill
            later == invoice[j].bill
        IN  /\ i # j /\ first.sub = later.sub
            /\ first.final /\ later.final /\ later.customer = c

(* README, "Pricing & rounding": a subscription is one container per       *)
(* customer.  A container that goes on being billed although the index no  *)
(* longer leads to it, so that the customer's next add opens another and   *)
(* no list shows this one, needs an earlier container with two final       *)
(* invoices: the later one clears the entry, whatever it leads to by then. *)
(* Nothing else, in any order, strands a container.                        *)
StrandedByLateFinalOnly ==
    \A s \in DOMAIN subs :
        byCustomer[subs[s].customer] = s \/ TwoFinals(subs[s].customer)

StripeInv ==
    TypeOK /\ BillsBelong /\ FinalizedOnce /\ EmptyContainerAwaitsFinal
           /\ IndexLeadsHome

(* However late the scheduler runs, and whatever is added or removed       *)
(* meanwhile, an invoice opened later takes up where an earlier one of its *)
(* container ended or after it, in a later period.  The exception is a     *)
(* final invoice: put an item back before it is finalized, and the period  *)
(* it was closing is invoiced again (the run usage_billed_twice).  Regular *)
(* invoices are for whole periods, and those of successive periods abut.   *)
PeriodsTile ==
    /\ \A i, j \in Bills : i[1] = j[1] /\ i[2] < j[2] =>
           \/ BillOf(i).final
           \/ /\ BillOf(i).end <= BillOf(j).start
              /\ BillOf(i).period < BillOf(j).period
    /\ \A s \in 1 .. created : \A i, j \in RegularBills(s) :
           /\ BillOf(i).end = BillOf(i).start + Period
           /\ BillOf(j).period = BillOf(i).period + 1 =>
                  BillOf(j).start = BillOf(i).end

(* Every period a live container has left behind was invoiced, and the     *)
(* current one starts where the last invoiced one ended.                   *)
NoPeriodSkipped ==
    \A s \in DOMAIN subs :
        /\ {BillOf(i).period : i \in RegularBills(s)} = 1 .. subs[s].period - 1
        /\ \A i \in RegularBills(s) :
               BillOf(i).period = subs[s].period - 1 => BillOf(i).end = subs[s].start

(* The seconds of flat fee on a container's invoices, one by one ...       *)
SecondsBilled(s) ==
    UNION {{i} \X (1 .. BillOf(i).fee) : i \in {j \in Bills : BillOf(j).sub = s}}

(* ... and how many it was charged or still owes.                          *)
SecondsCharged(s) == subs[s].proration + Cardinality(SecondsBilled(s))

Anchor(s) == subs[s].start - (subs[s].period - 1) * Period

(* However often the flat fee is removed, prorated and put back, however   *)
(* late the scheduler runs and however old the handlers' readings of the   *)
(* clock are, a container is charged for no more seconds than it has lived *)
(* - unless the item was put back as of a second before it had been taken  *)
(* away, which two overlapping requests can do: handleAddItem reads the    *)
(* clock, handleRemoveItem reads it later and is served first.             *)
NoSecondChargedTwice ==
    \A s \in DOMAIN subs :
        subs[s].backdated \/ SecondsCharged(s) * Second <= now - Anchor(s)

(* The package comment: the subscription ends only when it has no items.   *)
EndsOnlyWhenEmpty ==
    [][\A s \in DOMAIN subs : s \notin DOMAIN subs' => subs[s].items = {}]_vars

(* The total is rounded once: what an invoice collects is off by half a    *)
(* cent at most, however many items were attached to it, and one that is   *)
(* never shown is worth less.  (The README says that the error is less     *)
(* than half a cent; half a cent exactly rounds up.)                       *)
RoundingErrorIsBounded ==
    \A i \in DOMAIN invoice :
        LET bill == invoice[i].bill
            off == 2 * (TotalMicros(bill) - invoice[i].due * MicrosPerCent)
        IN  /\ off < MicrosPerCent /\ -off <= MicrosPerCent
            /\ i \notin listed[bill.customer] => 2 * TotalMicros(bill) < MicrosPerCent

(* A container whose period is over is rolled onto the next one, emptied   *)
(* by its customer, or dropped.                                            *)
Overdue(s) ==
    /\ s \in DOMAIN subs
    /\ subs[s].items # {}
    /\ now >= PeriodEnd(subs[s])

DuePeriodsEnd == \A s \in 1 .. MaxContainers : Overdue(s) ~> ~Overdue(s)

(* Invoices as their customers see them: see InvoiceLifecycle.             *)
Status == [i \in Bills |-> IF i \in DOMAIN drafts THEN "draft"
                           ELSE IF invoice[i].paid THEN "paid" ELSE "open"]
Amount == [i \in DOMAIN invoice |-> invoice[i].due]
Statement == UNION {listed[c] : c \in Customers}

Lifecycle == INSTANCE InvoiceLifecycle WITH
    status <- Status, amount <- Amount, statement <- Statement

(* No interleaving of calls, scheduler passes and retried collections ever *)
(* reopens, re-prices or hides an invoice that was finalized.              *)
InvoicesFollowLifecycle == Lifecycle!Spec
=============================================================================
