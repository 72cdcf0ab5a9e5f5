----------------------------- MODULE Invoicing -----------------------------
(***************************************************************************)
(* internal/invoicing together with FakeStripe: link records tying each    *)
(* customer to a subscription container, requests that add and remove its  *)
(* items, and the webhooks that report back.                               *)
(*                                                                         *)
(* The mutex of the link records is released before any HTTP call, so a    *)
(* request or webhook is handled in several steps: one for each critical   *)
(* section and one for each call, which is a whole step of FakeStripe.     *)
(* Every webhook is posted by a goroutine of its own: webhooks in flight   *)
(* are a bag, delivered in any order.  None is retried.                    *)
(*                                                                         *)
(* A Faulty network may lose a webhook, fail a call before it took effect, *)
(* or lose the reply of one that did.  Metered usage is external here: a   *)
(* window holds some number of priced groups, each worth one micro.        *)
(***************************************************************************)
EXTENDS Integers, Sequences, FiniteSets, Bags

CONSTANTS
    Customers, Failing, Metas, NoMeta, Keys, NoKey, Second, PeriodSecs,
    ClockLag, FeeMicros, MicrosPerCent, ItemMicros, MaxTime, MaxContainers,
    MaxDrafts, MaxUsage, MaxOwed,
    Requests,       \* the requests that may be in progress at a time
    Faulty,         \* the network may lose calls, replies and webhooks
    MaxCalls,       \* bound: requests ever made
    MaxLinks,       \* bound: link records ever created
    MaxGroups       \* bound: usage groups priced for one window

VARIABLES
    now, created, subs, byCustomer, subIdem, drafts, invoice, open, listed, fired,
    links,          \* the link records, by id; none is ever deleted
    linkOf,         \* customer -> id of its current link record (subByCustomer)
    linkIdem,       \* Idempotency-Key -> id of a link record (subIdem)
    request,        \* request -> what it is doing
    calls,          \* requests made so far
    network,        \* bag of the webhooks on their way
    handling,       \* the webhooks being handled, each with what comes next
    groups,         \* history: invoice -> usage groups pulled for it
    accepted,       \* history: keys whose request was answered with success
    facts           \* history: the facts handed to the bus, whether or not it took them

Stripe == INSTANCE FakeStripe

ASSUME InvoicingAssumption ==
    /\ Stripe!FakeStripeAssumption
    /\ Metas = 1 .. MaxLinks    \* the metadata is the id of a link record
    /\ 1 \in ItemMicros
    /\ Faulty \in BOOLEAN
    /\ MaxCalls \in Nat /\ MaxLinks \in Nat /\ MaxGroups \in Nat
    /\ MaxGroups <= MaxUsage

stripeVars == <<now, created, subs, byCustomer, subIdem, drafts, invoice, open,
                listed, fired>>
linkVars == <<links, linkOf, linkIdem>>
hookVars == <<network, handling>>
history == <<groups, accepted, facts>>
requestVars == <<request, calls>>
vars == <<stripeVars, linkVars, requestVars, hookVars, history>>

-----------------------------------------------------------------------------
Absent == 0
ItemTypes == {"flat_fee", "usage"}

Link ==
    [customer : Customers, stripeId : Nat, items : SUBSET ItemTypes,
     status : {"pending", "active", "canceled"}]

Idle == [doing |-> "nothing"]

Request ==
    {Idle}
    \cup [doing : {"adding", "added"}, customer : Customers, type : ItemTypes,
          key : Keys \cup {NoKey}, link : Nat, stripeId : Nat]
    \cup [doing : {"removing"}, type : ItemTypes, stripeId : Nat]

Webhook ==
    Stripe!SubscriptionWebhook \cup Stripe!CreatedWebhook \cup Stripe!InvoiceWebhook

Handling ==
    [hook : Webhook, next : {"pull", "attach", "finalize", "pay", "cancel"},
     left : Nat]

Fact ==
    [type : {"invoice.finalized", "payment.succeeded", "payment.failed"},
     invoice : Stripe!InvoiceIds]
    \cup [type : {"subscription.created", "subscription.cancelled"}, link : Nat]

TypeOK ==
    /\ Stripe!TypeOK
    /\ links \in Seq(Link)
    /\ linkOf \in [Customers -> 0 .. Len(links)]
    /\ linkIdem \in [Keys -> 0 .. Len(links)]
    /\ request \in [Requests -> Request]
    /\ calls \in Nat
    /\ IsABag(network) /\ BagToSet(network) \subseteq Webhook
    /\ handling \subseteq Handling
    /\ DOMAIN groups \subseteq Stripe!InvoiceIds
    /\ \A i \in DOMAIN groups : groups[i] \in Nat
    /\ accepted \subseteq Keys
    /\ facts \subseteq Fact

-----------------------------------------------------------------------------
(* A call that Stripe served: its webhooks are on their way.               *)
Posted == network' = network (+) SetToBag(fired')

Become(r, state) == request' = [request EXCEPT ![r] = state]

(* Request r is free, and it is called.                                    *)
Called(r) ==
    /\ request[r] = Idle
    /\ calls < MaxCalls
    /\ calls' = calls + 1

Acknowledge(k) == accepted' = IF k = NoKey THEN accepted ELSE accepted \cup {k}

(* handleAddItem, its first critical section.  A key seen before is        *)
(* answered at once with the record it led to.                             *)
replayAdd(r, k) ==
    /\ Called(r)
    /\ k # NoKey /\ linkIdem[k] # Absent
    /\ Acknowledge(k)
    /\ UNCHANGED <<stripeVars, linkVars, request, hookVars, groups, facts>>

beginAdd(r, c, t, k) ==
    LET reuse == linkOf[c] # Absent
        link == IF reuse THEN linkOf[c] ELSE Len(links) + 1
    IN  /\ Called(r)
        /\ k # NoKey => linkIdem[k] = Absent
        /\ link <= MaxLinks
        /\ links' = IF reuse THEN links
                    ELSE Append(links, [customer |-> c, stripeId |-> Absent,
                                        items |-> {}, status |-> "pending"])
        /\ linkOf' = [linkOf EXCEPT ![c] = link]
        /\ linkIdem' = IF k = NoKey THEN linkIdem ELSE [linkIdem EXCEPT ![k] = link]
        /\ Become(r, [doing |-> "adding", customer |-> c, type |-> t, key |-> k,
                      link |-> link, stripeId |-> Absent])
        /\ UNCHANGED <<stripeVars, hookVars, history>>

(* createStripeItem: Stripe serves the call, or has served the key before. *)
createStripeItem(r) ==
    LET q == request[r] IN
    /\ q.doing = "adding"
    /\ \/ /\ \E at \in Stripe!Readings :
                 Stripe!handleAddItem(q.customer, q.type, q.key, q.link, at)
          /\ Posted
          /\ \/ Become(r, [q EXCEPT !.doing = "added", !.stripeId = byCustomer'[q.customer]])
             \/ Faulty /\ Become(r, Idle)
       \/ /\ Stripe!Replayed(q.key)
          /\ Become(r, [q EXCEPT !.doing = "added", !.stripeId = subIdem[q.key]])
          /\ UNCHANGED <<stripeVars, network>>
       \/ /\ Faulty
          /\ Become(r, Idle)
          /\ UNCHANGED <<stripeVars, network>>
    /\ UNCHANGED <<calls, linkVars, handling, history>>

(* The second critical section, and the answer.                            *)
finishAdd(r) ==
    LET q == request[r] IN
    /\ q.doing = "added"
    /\ links' = [links EXCEPT ![q.link].stripeId = IF @ = Absent THEN q.stripeId ELSE @]
    /\ Become(r, Idle)
    /\ Acknowledge(q.key)
    /\ UNCHANGED <<stripeVars, linkOf, linkIdem, calls, hookVars, groups, facts>>

(* handleRemoveItem: without a confirmed container the answer is 409.      *)
beginRemove(r, c, t) ==
    /\ Called(r)
    /\ linkOf[c] # Absent
    /\ links[linkOf[c]].stripeId # Absent
    /\ Become(r, [doing |-> "removing", type |-> t, stripeId |-> links[linkOf[c]].stripeId])
    /\ UNCHANGED <<stripeVars, linkVars, hookVars, history>>

removeStripeItem(r) ==
    LET q == request[r]
        there == q.stripeId \in DOMAIN subs /\ q.type \in subs[q.stripeId].items
    IN  /\ q.doing = "removing"
        /\ \/ /\ there
              /\ \E at \in Stripe!Readings :
                     Stripe!handleRemoveItem(q.stripeId, q.type, at)
              /\ Posted
           \/ /\ ~there \/ Faulty
              /\ UNCHANGED <<stripeVars, network>>
        /\ Become(r, Idle)
        /\ UNCHANGED <<calls, linkVars, handling, history>>

-----------------------------------------------------------------------------
(* handleWebhook.  A webhook arrives once, if it arrives.                  *)
Arrives(h) == network' = network (-) SetToBag({h})
Starts(h, next) == handling' = handling \cup {[hook |-> h, next |-> next, left |-> 0]}

lose(h) ==
    /\ Faulty
    /\ Arrives(h)
    /\ UNCHANGED <<stripeVars, linkVars, requestVars, handling, history>>

(* correlateLocked: by metadata, by container, by customer.                *)
Correlated(h) ==
    LET byContainer == {l \in DOMAIN links : links[l].stripeId = h.sub} IN
    IF h.metadata \in DOMAIN links THEN h.metadata
    ELSE IF byContainer # {} THEN CHOOSE l \in byContainer : TRUE
    ELSE linkOf[h.customer]

StatusOf(h) ==
    IF h.type = "customer.subscription.created" \/ h.items # {}
    THEN "active" ELSE "canceled"

Synced(link, h) ==
    [link EXCEPT !.stripeId = IF @ = Absent THEN h.sub ELSE @,
                 !.items = h.items,
                 !.status = StatusOf(h)]

syncLink(h) ==
    LET l == Correlated(h) IN
    /\ h.type \in {"customer.subscription.created", "customer.subscription.updated"}
    /\ Arrives(h)
    /\ links' = IF l = Absent THEN links ELSE [links EXCEPT ![l] = Synced(@, h)]
    /\ facts' = IF l = Absent \/ h.type = "customer.subscription.updated" THEN facts
                ELSE facts \cup {[type |-> "subscription.created", link |-> l]}
    /\ UNCHANGED <<stripeVars, linkOf, linkIdem, requestVars, handling, groups, accepted>>

(* Mutant: a window without usage to bill is skipped, not finalized.       *)
invoiceCreatedForUsage(h) ==
    /\ h.type = "invoice.created"
    /\ Arrives(h)
    /\ IF h.billUsage THEN Starts(h, "pull") ELSE UNCHANGED handling
    /\ UNCHANGED <<stripeVars, linkVars, requestVars, history>>

invoiceCreated(h) ==
    /\ h.type = "invoice.created"
    /\ Arrives(h)
    /\ Starts(h, IF h.billUsage THEN "pull" ELSE "finalize")
    /\ UNCHANGED <<stripeVars, linkVars, requestVars, history>>

(* Mutant: of a final invoice only the cancellation is announced.          *)
finalizedButUnannounced(h) ==
    /\ h.type = "invoice.finalized"
    /\ Arrives(h)
    /\ facts' = IF h.due > 0 /\ ~h.final
                THEN facts \cup {[type |-> "invoice.finalized", invoice |-> h.invoice]}
                ELSE facts
    /\ IF h.due > 0 THEN Starts(h, "pay")
       ELSE IF h.final THEN Starts(h, "cancel") ELSE UNCHANGED handling
    /\ UNCHANGED <<stripeVars, linkVars, requestVars, groups, accepted>>

(* An invoice with nothing due is neither announced nor collected.         *)
invoiceFinalized(h) ==
    /\ h.type = "invoice.finalized"
    /\ Arrives(h)
    /\ IF h.due > 0
       THEN /\ facts' = facts \cup {[type |-> "invoice.finalized", invoice |-> h.invoice]}
            /\ Starts(h, "pay")
       ELSE /\ IF h.final THEN Starts(h, "cancel") ELSE UNCHANGED handling
            /\ UNCHANGED facts
    /\ UNCHANGED <<stripeVars, linkVars, requestVars, groups, accepted>>

paymentReported(h) ==
    /\ h.type \in {"invoice.payment_succeeded", "invoice.payment_failed"}
    /\ Arrives(h)
    /\ facts' = IF h.due = 0 THEN facts
                ELSE facts \cup {[type |-> IF h.type = "invoice.payment_succeeded"
                                           THEN "payment.succeeded" ELSE "payment.failed",
                                  invoice |-> h.invoice]}
    /\ UNCHANGED <<stripeVars, linkVars, requestVars, handling, groups, accepted>>

(* What a handler does next; Ends if there is nothing more.                *)
Continues(x, next, left) ==
    handling' = (handling \ {x}) \cup {[x EXCEPT !.next = next, !.left = left]}
Ends(x) == handling' = handling \ {x}

(* billOpenInvoice prices the window's usage, attaches it group by group   *)
(* and finalizes the draft.  Whatever fails on the way ends it.            *)
pullUsage(x) ==
    /\ x.next = "pull"
    /\ \/ \E n \in 0 .. MaxGroups :
             /\ groups' = [i \in DOMAIN groups \cup {x.hook.invoice} |->
                             IF i = x.hook.invoice THEN n ELSE groups[i]]
             /\ \/ Continues(x, IF n = 0 THEN "finalize" ELSE "attach", n)
                \/ Faulty /\ Ends(x)
       \/ /\ Faulty
          /\ Ends(x)
          /\ UNCHANGED groups
    /\ UNCHANGED <<stripeVars, linkVars, requestVars, network, accepted, facts>>

(* Mutant: one group more than was priced.                                 *)
addOneMore(x) ==
    LET i == x.hook.invoice IN
    /\ x.next = "attach"
    /\ \/ /\ i \in DOMAIN drafts
          /\ Stripe!handleCreateItem(i, 1)
          /\ \/ Continues(x, IF x.left = 0 THEN "finalize" ELSE "attach", x.left - 1)
             \/ Faulty /\ Ends(x)
       \/ /\ i \notin DOMAIN drafts \/ Faulty
          /\ Ends(x)
          /\ UNCHANGED stripeVars
    /\ UNCHANGED <<linkVars, requestVars, network, history>>

(* Mutant: a group that cannot be attached is skipped.                     *)
addOrSkip(x) ==
    LET i == x.hook.invoice IN
    /\ x.next = "attach"
    /\ \/ i \in DOMAIN drafts /\ Stripe!handleCreateItem(i, 1)
       \/ Faulty /\ UNCHANGED stripeVars
    /\ Continues(x, IF x.left = 1 THEN "finalize" ELSE "attach", x.left - 1)
    /\ UNCHANGED <<linkVars, requestVars, network, history>>

addInvoiceItem(x) ==
    LET i == x.hook.invoice IN
    /\ x.next = "attach"
    /\ \/ /\ i \in DOMAIN drafts
          /\ Stripe!handleCreateItem(i, 1)
          /\ \/ Continues(x, IF x.left = 1 THEN "finalize" ELSE "attach", x.left - 1)
             \/ Faulty /\ Ends(x)
       \/ /\ i \notin DOMAIN drafts \/ Faulty
          /\ Ends(x)
          /\ UNCHANGED stripeVars
    /\ UNCHANGED <<linkVars, requestVars, network, history>>

finalizeInvoice(x) ==
    LET i == x.hook.invoice IN
    /\ x.next = "finalize"
    /\ \/ /\ i \in DOMAIN drafts
          /\ Stripe!handleFinalizeInvoice(i)
          /\ Posted
       \/ /\ i \notin DOMAIN drafts \/ Faulty
          /\ UNCHANGED <<stripeVars, network>>
    /\ Ends(x)
    /\ UNCHANGED <<linkVars, requestVars, history>>

(* A failure to collect is logged, and the handler goes on.                *)
payInvoice(x) ==
    LET i == x.hook.invoice IN
    /\ x.next = "pay"
    /\ \/ /\ i \in open
          /\ Stripe!handlePayInvoice(i)
          /\ Posted
       \/ /\ i \notin open \/ Faulty
          /\ UNCHANGED <<stripeVars, network>>
    /\ IF x.hook.final THEN Continues(x, "cancel", 0) ELSE Ends(x)
    /\ UNCHANGED <<linkVars, requestVars, history>>

(* Mutant: the record stays the customer's own.                            *)
cancelKeepingLink(x) ==
    LET l == linkOf[x.hook.customer] IN
    /\ x.next = "cancel"
    /\ IF l = Absent THEN UNCHANGED <<links, facts>>
       ELSE /\ links' = [links EXCEPT ![l].status = "canceled", ![l].items = {}]
            /\ facts' = facts \cup {[type |-> "subscription.cancelled", link |-> l]}
    /\ Ends(x)
    /\ UNCHANGED <<stripeVars, linkOf, linkIdem, requestVars, network, groups, accepted>>

(* The final invoice cancels the customer's record, whichever it is now.   *)
cancelLink(x) ==
    LET c == x.hook.customer
        l == linkOf[c]
    IN  /\ x.next = "cancel"
        /\ IF l = Absent THEN UNCHANGED <<links, linkOf, facts>>
           ELSE /\ links' = [links EXCEPT ![l].status = "canceled", ![l].items = {}]
                /\ linkOf' = [linkOf EXCEPT ![c] = Absent]
                /\ facts' = facts \cup {[type |-> "subscription.cancelled", link |-> l]}
        /\ Ends(x)
        /\ UNCHANGED <<stripeVars, linkIdem, requestVars, network, groups, accepted>>

-----------------------------------------------------------------------------
Init ==
    /\ Stripe!Init
    /\ links = <<>>
    /\ linkOf = [c \in Customers |-> Absent]
    /\ linkIdem = [k \in Keys |-> Absent]
    /\ request = [r \in Requests |-> Idle]
    /\ calls = 0
    /\ network = EmptyBag
    /\ handling = {}
    /\ groups = [i \in {} |-> 0]
    /\ accepted = {}
    /\ facts = {}

(* Time passes, and the scheduler of fakestripe runs.                      *)
StripeAlone ==
    /\ Stripe!Tick \/ Stripe!Scheduler
    /\ Posted
    /\ UNCHANGED <<linkVars, requestVars, handling, history>>

Call(r) ==
    \/ \E k \in Keys : replayAdd(r, k)
    \/ \E c \in Customers, t \in ItemTypes, k \in Keys \cup {NoKey} :
           beginAdd(r, c, t, k)
    \/ \E c \in Customers, t \in ItemTypes : beginRemove(r, c, t)

Serve(r) == createStripeItem(r) \/ finishAdd(r) \/ removeStripeItem(r)

Deliver(h) ==
    syncLink(h) \/ invoiceCreated(h) \/ invoiceFinalized(h) \/ paymentReported(h)

Handle(x) ==
    pullUsage(x) \/ addInvoiceItem(x) \/ finalizeInvoice(x) \/ payInvoice(x)
    \/ cancelLink(x)

Next ==
    \/ StripeAlone
    \/ \E r \in Requests : Call(r)
    \/ \E r \in Requests : Serve(r)
    \/ \E h \in BagToSet(network) : Deliver(h) \/ lose(h)
    \/ \E x \in handling : Handle(x)

(* The ticker goes on, requests and handlers run to their end, and what is *)
(* posted arrives unless it is lost.  Nobody has to call.                  *)
Spec ==
    /\ Init /\ [][Next]_vars
    /\ WF_vars(StripeAlone)
    /\ \A r \in Requests : WF_vars(Serve(r))
    /\ WF_vars(\E h \in BagToSet(network) : Deliver(h))
    /\ WF_vars(\E x \in handling : Handle(x))

-----------------------------------------------------------------------------
(* Properties                                                              *)

(* A finalized invoice carries every usage group priced for its window,    *)
(* whatever calls, replies and webhooks were lost: a failure half-way      *)
(* leaves a draft, never an invoice that bills part of the usage.          *)
PricedInFull ==
    \A i \in DOMAIN invoice : invoice[i].bill.billUsage =>
        i \in DOMAIN groups /\ invoice[i].bill.usage = groups[i]

(* invoicing announces a payment only after it announced the invoice, in   *)
(* whatever order the webhooks come.  (A publish that fails is logged.)    *)
PaymentsAreOfAnnouncedInvoices ==
    \A f \in facts : f.type \in {"payment.succeeded", "payment.failed"} =>
        [type |-> "invoice.finalized", invoice |-> f.invoice] \in facts

(* Once a record's cancellation is announced no request starts from it     *)
(* again, so no record is cancelled twice.                                 *)
CancelledIsRetired ==
    \A f \in facts : f.type = "subscription.cancelled" =>
        \A c \in Customers : linkOf[c] # f.link

(* Whatever calls invoicing makes and however faults cross them: Stripe's  *)
(* index leads a customer to no container that is gone or another's, an    *)
(* empty container has a final invoice to end it, and a live container is  *)
(* missing from the index only after two final invoices of an earlier one. *)
StripeStaysSound ==
    /\ Stripe!IndexLeadsHome
    /\ Stripe!EmptyContainerAwaitsFinal
    /\ Stripe!StrandedByLateFinalOnly

(* Whatever calls invoicing repeats, gives up or makes twice because a     *)
(* reply was lost: an invoice is finalized once, keeps its amount, is      *)
(* collected once, and is shown exactly when something is due.             *)
DrivenLifecycle == Stripe!InvoicesFollowLifecycle

(* Every draft is finalized, and what is due from it is collected.         *)
Collected(i) ==
    /\ i \in DOMAIN invoice
    /\ invoice[i].paid \/ invoice[i].due = 0 \/ invoice[i].bill.customer \in Failing

DraftsAreBilled ==
    \A i \in (1 .. MaxContainers) \X (1 .. MaxDrafts + MaxTime) :
        i \in DOMAIN drafts ~> Collected(i)

Quiet ==
    /\ network = EmptyBag
    /\ handling = {}
    /\ \A r \in Requests : request[r] = Idle

(* Service's comment: one link record per customer, tying the customer to  *)
(* a container; without it handleRemoveItem cannot reach the container.    *)
LiveContainersAreLinked ==
    Quiet => \A s \in DOMAIN subs : subs[s].items # {} =>
        LET l == linkOf[subs[s].customer] IN l # Absent /\ links[l].stripeId = s

(* web/src/api.ts: an Idempotency-Key makes a retried add safe.            *)
AnsweredAddsReachedStripe == \A k \in accepted : subIdem[k] # Absent
=============================================================================
