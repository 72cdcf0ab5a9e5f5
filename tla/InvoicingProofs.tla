--------------------------- MODULE InvoicingProofs ---------------------------
(***************************************************************************)
(* The safety properties of Invoicing, for any numbers of customers,       *)
(* requests, containers and webhooks, and whether or not the network is    *)
(* Faulty.  Nothing is proved of fakestripe again: every step of Invoicing *)
(* is shown to be a step of FakeStripe or none, and the invariants that    *)
(* FakeStripeProofs and FlatFeeProofs establish are inherited.             *)
(***************************************************************************)
EXTENDS Invoicing, TLAPS

SP == INSTANCE StripeTheorems       \* FakeStripe again, with its lemmas

(* SP's actions are those of Stripe, definition by definition.             *)
LEMMA StripeAssumed == SP!FakeStripeAssumption
  BY InvoicingAssumption DEF Stripe!FakeStripeAssumption, SP!FakeStripeAssumption

LEMMA SameTick ==
  Stripe!Tick <=> SP!Tick
  BY Zenon DEF Stripe!Tick, SP!Tick

LEMMA SameScheduler ==
  Stripe!Scheduler <=> SP!Scheduler
  BY Zenon DEF Stripe!Elapsed, SP!Elapsed,
      Stripe!Due, SP!Due,
      Stripe!Rolled, SP!Rolled,
      Stripe!ElapsedDraft, SP!ElapsedDraft,
      Stripe!ElapsedIds, SP!ElapsedIds,
      Stripe!advancePeriods, SP!advancePeriods,
      Stripe!PeriodEnd, SP!PeriodEnd,
      Stripe!FlatFeeForWindow, SP!FlatFeeForWindow,
      Stripe!FlatLine, SP!FlatLine,
      Stripe!OpenDraft, SP!OpenDraft,
      Stripe!InvoiceCreated, SP!InvoiceCreated,
      Stripe!Trunc, SP!Trunc,
      Stripe!Period, SP!Period,
      Stripe!Scheduler, SP!Scheduler,
      Stripe!Readings, SP!Readings

LEMMA SameAdd ==
  ASSUME NEW c, NEW t, NEW k, NEW meta, NEW at
  PROVE  Stripe!handleAddItem(c, t, k, meta, at) <=> SP!handleAddItem(c, t, k, meta, at)
  BY Zenon DEF Stripe!Replayed, SP!Replayed,
      Stripe!NewContainer, SP!NewContainer,
      Stripe!WithMetadata, SP!WithMetadata,
      Stripe!WithItem, SP!WithItem,
      Stripe!AddsFlatFee, SP!AddsFlatFee,
      Stripe!StoreContainer, SP!StoreContainer,
      Stripe!AddToExisting, SP!AddToExisting,
      Stripe!AddToNew, SP!AddToNew,
      Stripe!handleAddItem, SP!handleAddItem,
      Stripe!SubObject, SP!SubObject,
      Stripe!Put, SP!Put,
      Stripe!Trunc, SP!Trunc

LEMMA SameRemove ==
  ASSUME NEW s, NEW t, NEW at
  PROVE  Stripe!handleRemoveItem(s, t, at) <=> SP!handleRemoveItem(s, t, at)
  BY Zenon DEF Stripe!WithoutItem, SP!WithoutItem,
      Stripe!RemoveOneOfTwo, SP!RemoveOneOfTwo,
      Stripe!RemoveLast, SP!RemoveLast,
      Stripe!handleRemoveItem, SP!handleRemoveItem,
      Stripe!FlatFeeForWindow, SP!FlatFeeForWindow,
      Stripe!FlatLine, SP!FlatLine,
      Stripe!OpenDraft, SP!OpenDraft,
      Stripe!SubObject, SP!SubObject,
      Stripe!InvoiceCreated, SP!InvoiceCreated,
      Stripe!Put, SP!Put,
      Stripe!Trunc, SP!Trunc,
      Stripe!Period, SP!Period

LEMMA SameCreateItem ==
  ASSUME NEW i, NEW m
  PROVE  Stripe!handleCreateItem(i, m) <=> SP!handleCreateItem(i, m)
  BY Zenon DEF Stripe!handleCreateItem, SP!handleCreateItem

LEMMA SameFinalize ==
  ASSUME NEW i
  PROVE  Stripe!handleFinalizeInvoice(i) <=> SP!handleFinalizeInvoice(i)
  <1>1. \A d : Stripe!AmountDue(d) = SP!AmountDue(d)
    BY Zenon DEF Stripe!AmountDue, SP!AmountDue, Stripe!TotalMicros, SP!TotalMicros
  <1>2. \A inv : Stripe!Shown(i, inv) = SP!Shown(i, inv)
    BY Zenon DEF Stripe!Shown, SP!Shown
  <1>3. \A d : Stripe!CloseContainer(d) <=> SP!CloseContainer(d)
    BY Zenon DEF Stripe!CloseContainer, SP!CloseContainer, Stripe!Without, SP!Without, Stripe!Restrict, SP!Restrict,
                 Stripe!Absent, SP!Absent
  <1>4. Stripe!Without(drafts, i) = SP!Without(drafts, i)
    BY Zenon DEF Stripe!Without, SP!Without, Stripe!Restrict, SP!Restrict
  <1>5. \A inv : Stripe!Put(invoice, i, inv) = SP!Put(invoice, i, inv)
    BY Zenon DEF Stripe!Put, SP!Put
  <1>6. \A type, inv : Stripe!InvoiceEvent(type, i, inv) = SP!InvoiceEvent(type, i, inv)
    BY Zenon DEF Stripe!InvoiceEvent, SP!InvoiceEvent
  <1> QED
    BY <1>1, <1>2, <1>3, <1>4, <1>5, <1>6
       DEF Stripe!handleFinalizeInvoice, SP!handleFinalizeInvoice

LEMMA SamePay ==
  ASSUME NEW i
  PROVE  Stripe!handlePayInvoice(i) <=> SP!handlePayInvoice(i)
  BY Zenon DEF Stripe!handlePayInvoice, SP!handlePayInvoice,
      Stripe!InvoiceEvent, SP!InvoiceEvent

-----------------------------------------------------------------------------
(* The bag of webhooks.                                                    *)

LEMMA BagPlus ==
  ASSUME NEW B, IsABag(B), NEW S
  PROVE  LET P == B (+) SetToBag(S) IN
         /\ IsABag(P)
         /\ BagToSet(P) = BagToSet(B) \cup S
         /\ \A h \in BagToSet(B) \ S : P[h] = B[h]
         /\ \A h \in S \ BagToSet(B) : P[h] = 1
  <1> DEFINE P == B (+) SetToBag(S)
  <1>1. /\ DOMAIN P = DOMAIN B \cup S
        /\ \A h \in DOMAIN P : P[h] = (IF h \in DOMAIN B THEN B[h] ELSE 0)
                                        + (IF h \in S THEN 1 ELSE 0)
        /\ P = [h \in DOMAIN P |-> P[h]]
    BY DEF (+), SetToBag
  <1>2. \A h \in DOMAIN B : B[h] \in Nat /\ B[h] > 0
    BY DEF IsABag
  <1> HIDE DEF P
  <1>3. \A h \in DOMAIN P : P[h] \in {n \in Nat : n > 0}
    BY <1>1, <1>2
  <1>4. IsABag(P)
    BY <1>1, <1>3 DEF IsABag
  <1>5. \A h \in DOMAIN B \ S : P[h] = B[h]
    BY <1>1, <1>2
  <1>6. \A h \in S \ DOMAIN B : P[h] = 1
    BY <1>1
  <1> QED  BY <1>1, <1>4, <1>5, <1>6 DEF BagToSet, P

LEMMA BagMinus ==
  ASSUME NEW B, IsABag(B), NEW h \in BagToSet(B)
  PROVE  LET M == B (-) SetToBag({h}) IN
         /\ IsABag(M)
         /\ BagToSet(M) \subseteq BagToSet(B)
         /\ \A g \in BagToSet(M) : g # h => M[g] = B[g]
         /\ B[h] = 1 => h \notin BagToSet(M)
  <1> DEFINE M == B (-) SetToBag({h})
             C == [e \in DOMAIN B |-> IF e = h THEN B[e] - 1 ELSE B[e]]
  <1>1. \A e \in DOMAIN B : B[e] \in Nat /\ B[e] > 0
    BY DEF IsABag
  <1>2. /\ DOMAIN M = {e \in DOMAIN B : C[e] > 0}
        /\ \A e \in DOMAIN M : M[e] = C[e]
        /\ M = [e \in DOMAIN M |-> M[e]]
    BY DEF (-), SetToBag
  <1> HIDE DEF M
  <1>3. \A e \in DOMAIN M : M[e] \in {n \in Nat : n > 0}
    BY <1>1, <1>2
  <1>4. IsABag(M)
    BY <1>2, <1>3 DEF IsABag
  <1>5. B[h] = 1 => h \notin DOMAIN M
    BY <1>2 DEF BagToSet
  <1> QED  BY <1>2, <1>4, <1>5 DEF BagToSet, M

-----------------------------------------------------------------------------
(* The types, and the shape of requests and handlers.                      *)

RequestsHaveLinks ==
    \A r \in Requests : request[r].doing \in {"adding", "added"} =>
        request[r].link \in 1 .. Len(links)

HandlersFit ==
    \A x \in handling :
        /\ x.next \in {"pull", "attach", "finalize"} => x.hook \in Stripe!CreatedWebhook
        /\ x.next \in {"pay", "cancel"} => x.hook \in Stripe!InvoiceWebhook
        /\ x.next = "attach" => x.left > 0

LinksTyped ==
    /\ links \in Seq(Link) /\ Len(links) <= MaxLinks
    /\ linkOf \in [Customers -> 0 .. Len(links)]
    /\ linkIdem \in [Keys -> 0 .. Len(links)]
    /\ request \in [Requests -> Request] /\ RequestsHaveLinks
    /\ calls \in Nat

WebhooksTyped ==
    /\ IsABag(network) /\ BagToSet(network) \subseteq Webhook
    /\ handling \subseteq Handling /\ HandlersFit

HistoryTyped ==
    /\ DOMAIN groups \subseteq Stripe!InvoiceIds
    /\ \A i \in DOMAIN groups : groups[i] \in Nat
    /\ accepted \subseteq Keys
    /\ facts \subseteq Fact

Shaped ==
    SP!StripeInv /\ Stripe!TypeOK /\ LinksTyped /\ WebhooksTyped /\ HistoryTyped

LEMMA SameTypes ==
  /\ Stripe!TypeOK <=> SP!TypeOK
  /\ Stripe!TypeOK' <=> SP!TypeOK'
  BY DEF Stripe!TypeOK, SP!TypeOK, Stripe!Container, SP!Container,
      Stripe!Bill, SP!Bill, Stripe!Finalized, SP!Finalized,
      Stripe!SubscriptionWebhook, SP!SubscriptionWebhook,
      Stripe!CreatedWebhook, SP!CreatedWebhook,
      Stripe!InvoiceWebhook, SP!InvoiceWebhook,
      Stripe!InvoiceIds, SP!InvoiceIds, Stripe!ItemTypes, SP!ItemTypes

LEMMA LinkFields ==
  ASSUME NEW s \in Seq(Link)
  PROVE  /\ Len(s) \in Nat /\ DOMAIN s = 1 .. Len(s)
         /\ \A l \in 1 .. Len(s) : s[l] \in Link
  OBVIOUS

LEMMA AddFields ==
  ASSUME NEW q \in Request, q.doing \in {"adding", "added"}
  PROVE  q \in [doing : {"adding", "added"}, customer : Customers, type : ItemTypes,
                key : Keys \cup {NoKey}, link : Nat, stripeId : Nat]
  BY DEF Request, Idle

LEMMA AddedFields ==
  ASSUME NEW q \in [doing : {"adding", "added"}, customer : Customers, type : ItemTypes,
                    key : Keys \cup {NoKey}, link : Nat, stripeId : Nat],
         NEW s \in Nat
  PROVE  LET done == [q EXCEPT !.doing = "added", !.stripeId = s] IN
         done \in Request /\ done.link = q.link
  <1> DEFINE done == [q EXCEPT !.doing = "added", !.stripeId = s]
  <1>1. done \in [doing : {"adding", "added"}, customer : Customers, type : ItemTypes,
                  key : Keys \cup {NoKey}, link : Nat, stripeId : Nat]
    OBVIOUS
  <1>2. done.link = q.link
    OBVIOUS
  <1> HIDE DEF done
  <1>3. done \in Request /\ done.link = q.link
    BY <1>1, <1>2 DEF Request
  <1> QED  BY <1>3 DEF done

LEMMA RemoveFields ==
  ASSUME NEW q \in Request, q.doing = "removing"
  PROVE  q \in [doing : {"removing"}, type : ItemTypes, stripeId : Nat]
  BY DEF Request, Idle

LEMMA HookKinds ==
  ASSUME NEW h \in Webhook
  PROVE  /\ h.type = "invoice.created" => h \in Stripe!CreatedWebhook
         /\ h.type \in {"invoice.finalized", "invoice.payment_succeeded",
                        "invoice.payment_failed"} => h \in Stripe!InvoiceWebhook
         /\ h.type \in {"customer.subscription.created",
                        "customer.subscription.updated"}
                => h \in Stripe!SubscriptionWebhook
  BY DEF Webhook, Stripe!CreatedWebhook, Stripe!InvoiceWebhook, Stripe!SubscriptionWebhook

(* Whatever happens, fakestripe takes a step of its own or none.           *)
LEMMA StripeSteps ==
  ASSUME Shaped, Next
  PROVE  SP!Next \/ UNCHANGED stripeVars
  <1>1. CASE StripeAlone
    BY <1>1, SameTick, SameScheduler DEF StripeAlone, SP!Next
  <1>2. ASSUME NEW r \in Requests, Call(r)
        PROVE  UNCHANGED stripeVars
    BY <1>2 DEF Call, replayAdd, beginAdd, beginRemove
  <1>3. ASSUME NEW r \in Requests, createStripeItem(r)
        PROVE  SP!Next \/ UNCHANGED stripeVars
    <2> DEFINE q == request[r]
    <2>1. q.doing = "adding" /\ q \in Request
      BY <1>3 DEF createStripeItem, Shaped, LinksTyped
    <2>2. q.customer \in Customers /\ q.type \in ItemTypes /\ q.key \in Keys \cup {NoKey}
      BY <2>1, AddFields
    <2>3. q.link \in Metas
      BY <2>1, InvoicingAssumption DEF Shaped, LinksTyped, RequestsHaveLinks
    <2>4. CASE \E at \in Stripe!Readings :
                 Stripe!handleAddItem(q.customer, q.type, q.key, q.link, at)
      BY <2>2, <2>3, <2>4, SameAdd
         DEF SP!Next, SP!SomeCall, Stripe!Readings, SP!Readings, ItemTypes, SP!ItemTypes
    <2>5. CASE UNCHANGED stripeVars
      BY <2>5
    <2> QED  BY <1>3, <2>4, <2>5 DEF createStripeItem
  <1>4. ASSUME NEW r \in Requests, finishAdd(r)
        PROVE  UNCHANGED stripeVars
    BY <1>4 DEF finishAdd
  <1>5. ASSUME NEW r \in Requests, removeStripeItem(r)
        PROVE  SP!Next \/ UNCHANGED stripeVars
    <2> DEFINE q == request[r]
    <2>1. q.doing = "removing" /\ q \in Request
      BY <1>5 DEF removeStripeItem, Shaped, LinksTyped
    <2>2. q.type \in ItemTypes
      BY <2>1, RemoveFields
    <2>3. CASE q.stripeId \in DOMAIN subs
               /\ \E at \in Stripe!Readings :
                      Stripe!handleRemoveItem(q.stripeId, q.type, at)
      BY <2>2, <2>3, SameRemove
         DEF SP!Next, SP!SomeCall, Stripe!Readings, SP!Readings, ItemTypes, SP!ItemTypes
    <2>4. CASE UNCHANGED stripeVars
      BY <2>4
    <2> QED  BY <1>5, <2>3, <2>4 DEF removeStripeItem
  <1>6. ASSUME NEW h \in BagToSet(network), Deliver(h) \/ lose(h)
        PROVE  UNCHANGED stripeVars
    BY <1>6 DEF Deliver, lose, syncLink, invoiceCreated, invoiceFinalized, paymentReported
  <1>7. ASSUME NEW x \in handling, Handle(x)
        PROVE  SP!Next \/ UNCHANGED stripeVars
    <2>1. CASE pullUsage(x)
      BY <2>1 DEF pullUsage
    <2>2. CASE addInvoiceItem(x)
      BY <2>2, SameCreateItem, InvoicingAssumption
         DEF addInvoiceItem, SP!Next, SP!SomeCall
    <2>3. CASE finalizeInvoice(x)
      BY <2>3, SameFinalize DEF finalizeInvoice, SP!Next, SP!SomeCall
    <2>4. CASE payInvoice(x)
      BY <2>4, SamePay DEF payInvoice, SP!Next, SP!SomeCall
    <2>5. CASE cancelLink(x)
      BY <2>5 DEF cancelLink
    <2> QED  BY <1>7, <2>1, <2>2, <2>3, <2>4, <2>5 DEF Handle
  <1> QED
    BY <1>1, <1>2, <1>3, <1>4, <1>5, <1>6, <1>7 DEF Next, Serve

(* So the invariant proved of fakestripe alone holds of it here.           *)
LEMMA StripeInvKept ==
  ASSUME Shaped, [Next]_vars
  PROVE  SP!StripeInv' /\ Stripe!TypeOK'
  <1>1. SP!Next \/ UNCHANGED stripeVars
    BY StripeSteps DEF vars
  <1>2. [SP!Next]_(SP!vars)
    BY <1>1 DEF stripeVars, SP!vars
  <1>3. SP!StripeInv'
    <2>1. SP!StripeInv
      BY DEF Shaped
    <2>2. SP!StripeInv /\ [SP!Next]_(SP!vars) => SP!StripeInv'
      BY StripeAssumed, SP!InvStep
    <2> QED  BY <1>2, <2>1, <2>2
  <1>4. SP!TypeOK'
    BY <1>3 DEF SP!StripeInv
  <1> QED
    BY <1>3, <1>4, SameTypes

LEMMA Posts ==
  ASSUME WebhooksTyped, Stripe!TypeOK', Posted
  PROVE  IsABag(network') /\ BagToSet(network') \subseteq Webhook
  <1>1. fired' \subseteq Webhook
    BY DEF Stripe!TypeOK, Webhook
  <1> QED  BY <1>1, BagPlus DEF WebhooksTyped, Posted

LEMMA Arrivals ==
  ASSUME WebhooksTyped, NEW h \in BagToSet(network), Arrives(h)
  PROVE  /\ IsABag(network') /\ BagToSet(network') \subseteq Webhook
         /\ h \in Webhook
  BY BagMinus DEF WebhooksTyped, Arrives

LEMMA InvoiceOfHook ==
  ASSUME NEW h \in Stripe!CreatedWebhook \cup Stripe!InvoiceWebhook
  PROVE  h.invoice \in Stripe!InvoiceIds /\ h.customer \in Customers
  BY DEF Stripe!CreatedWebhook, Stripe!InvoiceWebhook

LEMMA LinksStep ==
  ASSUME Shaped, Next
  PROVE  LinksTyped'
  <1> DEFINE N == Len(links)
  <1>t. /\ links \in Seq(Link) /\ N \in Nat /\ N <= MaxLinks
        /\ DOMAIN links = 1 .. N
        /\ \A l \in 1 .. N : links[l] \in Link
    BY LinkFields DEF Shaped, LinksTyped
  <1>u. /\ linkOf \in [Customers -> 0 .. N] /\ linkIdem \in [Keys -> 0 .. N]
        /\ request \in [Requests -> Request] /\ calls \in Nat
        /\ RequestsHaveLinks
    BY DEF Shaped, LinksTyped
  (* The records keep their number, and the rest of the side is as it was. *)
  <1>a. ASSUME links' \in Seq(Link), Len(links') = N,
               linkOf' \in [Customers -> 0 .. N], linkIdem' = linkIdem,
               request' \in [Requests -> Request], calls' \in Nat,
               \A r \in Requests : request'[r].doing \in {"adding", "added"} =>
                   request'[r].link \in 1 .. N
        PROVE  LinksTyped'
    BY <1>a, <1>t, <1>u DEF LinksTyped, RequestsHaveLinks
  <1>b. \A r \in Requests : request[r].doing \in {"adding", "added"} =>
            request[r].link \in 1 .. N
    BY <1>u DEF RequestsHaveLinks
  <1>idle. Idle \in Request /\ Idle.doing = "nothing"
    BY DEF Idle, Request
  (* A request that becomes something is the only one that changes.        *)
  <1>c. ASSUME NEW r \in Requests, NEW q \in Request, Become(r, q),
               q.doing \in {"adding", "added"} => q.link \in 1 .. N
        PROVE  /\ request' \in [Requests -> Request]
               /\ \A s \in Requests : request'[s].doing \in {"adding", "added"} =>
                      request'[s].link \in 1 .. N
    <2>1. request' = [request EXCEPT ![r] = q]
      BY <1>c DEF Become
    <2> QED  BY <1>c, <2>1, <1>u, <1>b
  <1>1. CASE StripeAlone
    BY <1>1, <1>a, <1>b, <1>t, <1>u DEF StripeAlone, linkVars, requestVars
  <1>2. ASSUME NEW r \in Requests, NEW k \in Keys, replayAdd(r, k)
        PROVE  LinksTyped'
    BY <1>2, <1>a, <1>b, <1>t, <1>u DEF replayAdd, Called, linkVars
  <1>3. ASSUME NEW r \in Requests, NEW c \in Customers, NEW t \in ItemTypes,
               NEW k \in Keys \cup {NoKey}, beginAdd(r, c, t, k)
        PROVE  LinksTyped'
    <2> DEFINE reuse == linkOf[c] # Absent
               link == IF reuse THEN linkOf[c] ELSE N + 1
               new == [customer |-> c, stripeId |-> Absent, items |-> {},
                       status |-> "pending"]
               q == [doing |-> "adding", customer |-> c, type |-> t, key |-> k,
                     link |-> link, stripeId |-> Absent]
    <2>1. /\ link <= MaxLinks
          /\ links' = IF reuse THEN links ELSE Append(links, new)
          /\ linkOf' = [linkOf EXCEPT ![c] = link]
          /\ linkIdem' = IF k = NoKey THEN linkIdem ELSE [linkIdem EXCEPT ![k] = link]
          /\ Become(r, q) /\ calls' = calls + 1
      BY <1>3 DEF beginAdd, Called
    <2>2. new \in Link
      BY DEF Link, Absent
    <2>3. linkOf[c] \in 0 .. N /\ (reuse => linkOf[c] \in 1 .. N)
      BY <1>t, <1>u DEF Absent
    <2>4. link \in Nat /\ link > 0
      BY <1>t, <2>3
    <2>5. q \in Request /\ q.doing = "adding" /\ q.link = link
      BY <2>4 DEF Request, Absent
    <2> HIDE DEF new, q
    <2>6. /\ links' \in Seq(Link) /\ Len(links') \in Nat /\ Len(links') <= MaxLinks
          /\ N <= Len(links') /\ link \in 1 .. Len(links')
      <3>1. CASE reuse
        BY <3>1, <2>1, <2>3, <1>t
      <3>2. CASE ~reuse
        <4>1. links' = Append(links, new) /\ link = N + 1
          BY <3>2, <2>1
        <4>2. links' \in Seq(Link) /\ Len(links') = N + 1
          BY <4>1, <2>2, <1>t
        <4> QED  BY <4>1, <4>2, <2>1, <1>t
      <3> QED  BY <3>1, <3>2
    <2> HIDE DEF link, reuse
    <2>7. linkOf' \in [Customers -> 0 .. Len(links')]
      BY <2>1, <2>6, <1>u, <1>t
    <2>8. linkIdem' \in [Keys -> 0 .. Len(links')]
      BY <2>1, <2>6, <1>u, <1>t
    <2>9. request' = [request EXCEPT ![r] = q]
      BY <2>1 DEF Become
    <2>10. request' \in [Requests -> Request]
      BY <2>9, <2>5, <1>u
    <2>11. \A s \in Requests : request'[s].doing \in {"adding", "added"} =>
                request'[s].link \in 1 .. Len(links')
      BY <2>9, <2>5, <2>6, <1>b, <1>u, <1>t
    <2> QED
      BY <2>1, <2>6, <2>7, <2>8, <2>10, <2>11, <1>u DEF LinksTyped, RequestsHaveLinks
  <1>4. ASSUME NEW r \in Requests, NEW c \in Customers, NEW t \in ItemTypes,
               beginRemove(r, c, t)
        PROVE  LinksTyped'
    <2> DEFINE q == [doing |-> "removing", type |-> t,
                     stripeId |-> links[linkOf[c]].stripeId]
    <2>1. linkOf[c] \in 1 .. N
      BY <1>4, <1>t, <1>u DEF beginRemove, Absent
    <2>2. links[linkOf[c]].stripeId \in Nat
      BY <2>1, <1>t DEF Link
    <2>3. q \in Request /\ q.doing = "removing"
      BY <2>2 DEF Request
    <2>4. Become(r, q) /\ calls' = calls + 1 /\ UNCHANGED linkVars
      BY <1>4 DEF beginRemove, Called
    <2> HIDE DEF q
    <2> QED  BY <2>3, <2>4, <1>a, <1>c, <1>t, <1>u DEF linkVars
  <1>5. ASSUME NEW r \in Requests, createStripeItem(r)
        PROVE  LinksTyped'
    <2> DEFINE q == request[r]
               done(s) == [q EXCEPT !.doing = "added", !.stripeId = s]
    <2>1. q.doing = "adding" /\ q \in Request
      BY <1>5, <1>u DEF createStripeItem
    <2>2. q \in [doing : {"adding", "added"}, customer : Customers, type : ItemTypes,
                 key : Keys \cup {NoKey}, link : Nat, stripeId : Nat]
      BY <2>1, AddFields
    <2>3. q.link \in 1 .. N
      BY <2>1, <1>b
    <2>4. ASSUME NEW s \in Nat
          PROVE  done(s) \in Request /\ done(s).link \in 1 .. N
      BY <2>2, <2>3, AddedFields
    <2>5. byCustomer'[q.customer] \in Nat
      <3>1. Stripe!TypeOK'
        BY StripeInvKept
      <3> QED  BY <3>1, <2>2 DEF Stripe!TypeOK
    <2>6. q.key # NoKey => subIdem[q.key] \in Nat
      <3>1. Stripe!TypeOK
        BY DEF Shaped
      <3> QED  BY <3>1, <2>2 DEF Stripe!TypeOK
    <2>7. /\ UNCHANGED <<linkVars, calls>>
          /\ \/ Become(r, done(byCustomer'[q.customer]))
             \/ Become(r, Idle)
             \/ q.key # NoKey /\ Become(r, done(subIdem[q.key]))
      BY <1>5 DEF createStripeItem, Stripe!Replayed
    <2> HIDE DEF done, q
    <2>8. \E p \in Request : Become(r, p)
                             /\ (p.doing \in {"adding", "added"} => p.link \in 1 .. N)
      BY <2>4, <2>5, <2>6, <2>7, <1>idle
    <2> QED  BY <2>7, <2>8, <1>a, <1>c, <1>t, <1>u DEF linkVars
  <1>6. ASSUME NEW r \in Requests, finishAdd(r)
        PROVE  LinksTyped'
    <2> DEFINE q == request[r]
               id == IF links[q.link].stripeId = Absent THEN q.stripeId
                     ELSE links[q.link].stripeId
    <2>1. q.doing = "added" /\ q \in Request
      BY <1>6, <1>u DEF finishAdd
    <2>2. q.link \in 1 .. N /\ q.stripeId \in Nat
      BY <2>1, <1>b, AddFields
    <2>3. id \in Nat /\ links[q.link] \in Link
      BY <2>2, <1>t DEF Link
    <2>4. links' = [links EXCEPT ![q.link].stripeId = id]
          /\ UNCHANGED <<linkOf, linkIdem, calls>> /\ Become(r, Idle)
      BY <1>6 DEF finishAdd
    <2> HIDE DEF id, q
    <2>5. [links[q.link] EXCEPT !.stripeId = id] \in Link
      BY <2>3 DEF Link
    <2>6. links' = [links EXCEPT ![q.link] = [links[q.link] EXCEPT !.stripeId = id]]
      BY <2>4
    <2>7. links' \in Seq(Link) /\ Len(links') = N
      BY <2>5, <2>6, <2>2, <1>t
    <2> QED  BY <2>4, <2>7, <1>a, <1>c, <1>idle, <1>u
  <1>7. ASSUME NEW r \in Requests, removeStripeItem(r)
        PROVE  LinksTyped'
    <2>1. UNCHANGED <<linkVars, calls>> /\ Become(r, Idle)
      BY <1>7 DEF removeStripeItem
    <2> QED  BY <2>1, <1>a, <1>c, <1>idle, <1>t, <1>u DEF linkVars
  <1>8. ASSUME NEW h \in BagToSet(network), Deliver(h) \/ lose(h)
        PROVE  LinksTyped'
    <2>1. UNCHANGED <<linkOf, linkIdem, requestVars>>
      BY <1>8 DEF Deliver, lose, syncLink, invoiceCreated, invoiceFinalized,
                  paymentReported, linkVars
    <2>2. links' \in Seq(Link) /\ Len(links') = N
      <3>1. CASE syncLink(h)
        <4> DEFINE l == Correlated(h)
        <4>1. h \in Stripe!SubscriptionWebhook
          BY <3>1, HookKinds DEF Shaped, WebhooksTyped, syncLink
        <4>2. links' = IF l = Absent THEN links ELSE [links EXCEPT ![l] = Synced(links[l], h)]
          BY <3>1 DEF syncLink
        <4>3. ASSUME NEW link \in Link
              PROVE  Synced(link, h) \in Link
          <5> DEFINE id == IF link.stripeId = Absent THEN h.sub ELSE link.stripeId
          <5>1. id \in Nat /\ h.items \in SUBSET ItemTypes
                /\ StatusOf(h) \in {"pending", "active", "canceled"}
            BY <4>1 DEF Stripe!SubscriptionWebhook, Link, StatusOf, ItemTypes,
                        Stripe!ItemTypes
          <5>2. Synced(link, h) = [link EXCEPT !.stripeId = id, !.items = h.items,
                                               !.status = StatusOf(h)]
            BY DEF Synced
          <5> HIDE DEF id
          <5> QED  BY <5>1, <5>2 DEF Link
        <4> HIDE DEF l
        <4>4. CASE l \in 1 .. N
          <5> DEFINE new == Synced(links[l], h)
          <5>1. new \in Link
            BY <4>3, <4>4, <1>t
          <5>2. links' = IF l = Absent THEN links ELSE [links EXCEPT ![l] = new]
            BY <4>2
          <5> HIDE DEF new
          <5> QED  BY <5>1, <5>2, <4>4, <1>t
        <4>5. CASE l \notin 1 .. N
          <5> DEFINE new == Synced(links[l], h)
          <5>1. links' = IF l = Absent THEN links ELSE [links EXCEPT ![l] = new]
            BY <4>2
          <5> HIDE DEF new
          <5>2. [links EXCEPT ![l] = new] = links
            BY <4>5, <1>t
          <5> QED  BY <5>1, <5>2, <1>t
        <4> QED  BY <4>4, <4>5
      <3>2. CASE ~syncLink(h)
        BY <3>2, <1>8, <1>t DEF Deliver, lose, invoiceCreated, invoiceFinalized,
                                paymentReported, linkVars
      <3> QED  BY <3>1, <3>2
    <2> QED  BY <2>1, <2>2, <1>a, <1>b, <1>t, <1>u DEF requestVars
  <1>9. ASSUME NEW x \in handling, Handle(x)
        PROVE  LinksTyped'
    <2>1. CASE cancelLink(x)
      <3> DEFINE c == x.hook.customer
                 l == linkOf[c]
                 new == [links[l] EXCEPT !.status = "canceled", !.items = {}]
      <3>1. c \in Customers
        BY <2>1, InvoiceOfHook DEF Shaped, WebhooksTyped, HandlersFit, cancelLink
      <3>2. l \in 0 .. N
        BY <3>1, <1>u
      <3>3. CASE l = Absent
        BY <2>1, <3>3, <1>a, <1>b, <1>t, <1>u DEF cancelLink, requestVars
      <3>4. CASE l # Absent
        <4>1. l \in 1 .. N
          BY <3>2, <3>4, <1>t DEF Absent
        <4>2. new \in Link
          BY <4>1, <1>t DEF Link
        <4>3. /\ links' = [links EXCEPT ![l].status = "canceled", ![l].items = {}]
              /\ linkOf' = [linkOf EXCEPT ![c] = Absent]
              /\ UNCHANGED <<linkIdem, requestVars>>
          BY <2>1, <3>4 DEF cancelLink
        <4>4. links' = [links EXCEPT ![l] = new]
          BY <4>3, <4>1, <1>t
        <4> HIDE DEF new
        <4>5. links' \in Seq(Link) /\ Len(links') = N
          BY <4>1, <4>2, <4>4, <1>t
        <4>6. linkOf' \in [Customers -> 0 .. N]
          <5>1. linkOf' = [linkOf EXCEPT ![c] = 0]
            BY <4>3 DEF Absent
          <5>2. linkOf \in [Customers -> 0 .. N] /\ 0 \in 0 .. N
            BY <1>t, <1>u
          <5> HIDE DEF l, c, N
          <5> QED  BY <5>1, <5>2
        <4>7. /\ request' = request /\ calls' = calls /\ linkIdem' = linkIdem
              /\ \A r \in Requests : request'[r].doing \in {"adding", "added"} =>
                     request'[r].link \in 1 .. N
          BY <4>3, <1>b DEF requestVars
        <4> QED  BY <4>5, <4>6, <4>7, <1>a, <1>u
      <3> QED  BY <3>3, <3>4
    <2>2. CASE ~cancelLink(x)
      BY <1>9, <2>2, <1>a, <1>b, <1>t, <1>u
         DEF Handle, pullUsage, addInvoiceItem, finalizeInvoice, payInvoice,
             linkVars, requestVars
    <2> QED  BY <2>1, <2>2
  <1> QED
    BY <1>1, <1>2, <1>3, <1>4, <1>5, <1>6, <1>7, <1>8, <1>9 DEF Next, Call, Serve

LEMMA ArrivedFits ==
  ASSUME WebhooksTyped, NEW h \in BagToSet(network), Arrives(h),
         \/ handling' = handling
         \/ Starts(h, "pull") /\ h.type = "invoice.created"
         \/ Starts(h, "finalize") /\ h.type = "invoice.created"
         \/ Starts(h, "pay") /\ h.type = "invoice.finalized"
         \/ Starts(h, "cancel") /\ h.type = "invoice.finalized"
  PROVE  WebhooksTyped'
  <1>1. /\ IsABag(network') /\ BagToSet(network') \subseteq Webhook
        /\ h \in Webhook
    BY Arrivals
  <1>2. handling \subseteq Handling /\ HandlersFit
    BY DEF WebhooksTyped
  <1>3. ASSUME NEW next \in {"pull", "finalize", "pay", "cancel"}, Starts(h, next),
               next \in {"pull", "finalize"} => h \in Stripe!CreatedWebhook,
               next \in {"pay", "cancel"} => h \in Stripe!InvoiceWebhook
        PROVE  WebhooksTyped'
    <2> DEFINE x == [hook |-> h, next |-> next, left |-> 0]
    <2>1. x \in Handling /\ x.hook = h /\ x.next = next
      BY <1>1 DEF Handling
    <2>2. handling' = handling \cup {x}
      BY <1>3 DEF Starts
    <2> HIDE DEF x
    <2>3. HandlersFit'
      BY <1>2, <1>3, <2>1, <2>2 DEF HandlersFit
    <2> QED  BY <1>1, <1>2, <2>1, <2>2, <2>3 DEF WebhooksTyped
  <1>4. CASE handling' = handling
    BY <1>1, <1>2, <1>4 DEF WebhooksTyped, HandlersFit
  <1> QED  BY <1>1, <1>3, <1>4, HookKinds

(* A handler that goes on, or ends.                                        *)
LEMMA HandledFits ==
  ASSUME WebhooksTyped, NEW x \in handling,
         IsABag(network') /\ BagToSet(network') \subseteq Webhook,
         \/ Ends(x)
         \/ \E left \in Nat :
               \/ x.next \in {"pull", "attach", "finalize"} /\ Continues(x, "finalize", left)
               \/ x.next \in {"pull", "attach", "finalize"} /\ left > 0
                     /\ Continues(x, "attach", left)
               \/ x.next \in {"pay", "cancel"} /\ Continues(x, "cancel", left)
  PROVE  WebhooksTyped'
  <1>1. handling \subseteq Handling /\ HandlersFit /\ x \in Handling
    BY DEF WebhooksTyped
  <1>2. CASE Ends(x)
    BY <1>1, <1>2 DEF Ends, WebhooksTyped, HandlersFit
  <1>3. ASSUME NEW left \in Nat, NEW next \in {"attach", "finalize", "cancel"},
               Continues(x, next, left),
               next \in {"attach", "finalize"} => x.hook \in Stripe!CreatedWebhook,
               next = "cancel" => x.hook \in Stripe!InvoiceWebhook,
               next = "attach" => left > 0
        PROVE  WebhooksTyped'
    <2> DEFINE y == [x EXCEPT !.next = next, !.left = left]
    <2>1. y \in Handling /\ y.hook = x.hook /\ y.next = next /\ y.left = left
      BY <1>1 DEF Handling
    <2>2. handling' = (handling \ {x}) \cup {y}
      BY <1>3 DEF Continues
    <2> HIDE DEF y
    <2>3. HandlersFit'
      BY <1>1, <1>3, <2>1, <2>2 DEF HandlersFit
    <2> QED  BY <1>1, <2>1, <2>2, <2>3 DEF WebhooksTyped
  <1> QED  BY <1>1, <1>2, <1>3 DEF HandlersFit

LEMMA WebhooksStep ==
  ASSUME Shaped, Next
  PROVE  WebhooksTyped'
  <1>t. WebhooksTyped /\ Stripe!TypeOK'
    BY StripeInvKept DEF Shaped
  <1>a. ASSUME network' = network, handling' = handling
        PROVE  WebhooksTyped'
    BY <1>t, <1>a DEF WebhooksTyped, HandlersFit
  <1>b. ASSUME Posted, handling' = handling
        PROVE  WebhooksTyped'
    BY <1>t, <1>b, Posts DEF WebhooksTyped, HandlersFit
  <1>1. CASE StripeAlone
    BY <1>1, <1>b DEF StripeAlone
  <1>2. ASSUME NEW r \in Requests, Call(r)
        PROVE  WebhooksTyped'
    BY <1>2, <1>a DEF Call, replayAdd, beginAdd, beginRemove, hookVars
  <1>3. ASSUME NEW r \in Requests, Serve(r)
        PROVE  WebhooksTyped'
    BY <1>3, <1>a, <1>b DEF Serve, createStripeItem, finishAdd, removeStripeItem, hookVars
  <1>4. ASSUME NEW h \in BagToSet(network), Deliver(h) \/ lose(h)
        PROVE  WebhooksTyped'
    BY <1>4, <1>t, ArrivedFits
       DEF Deliver, lose, syncLink, invoiceCreated, invoiceFinalized, paymentReported
  <1>5. ASSUME NEW x \in handling, Handle(x)
        PROVE  WebhooksTyped'
    <2>t. /\ x \in Handling /\ x.left \in Nat /\ (x.next = "attach" => x.left > 0)
          /\ IsABag(network) /\ BagToSet(network) \subseteq Webhook
      BY <1>t DEF WebhooksTyped, HandlersFit, Handling
    <2>1. CASE pullUsage(x)
      <3>1. /\ x.next = "pull" /\ network' = network
            /\ \/ Ends(x)
               \/ \E n \in 0 .. MaxGroups :
                     Continues(x, IF n = 0 THEN "finalize" ELSE "attach", n)
        BY <2>1 DEF pullUsage
      <3>2. CASE \E n \in 0 .. MaxGroups :
                     Continues(x, IF n = 0 THEN "finalize" ELSE "attach", n)
        <4>1. PICK n \in 0 .. MaxGroups :
                     Continues(x, IF n = 0 THEN "finalize" ELSE "attach", n)
          BY <3>2
        <4>2. n \in Nat /\ (n = 0 \/ n > 0)
          BY InvoicingAssumption
        <4>3. CASE n = 0
          BY <1>t, <2>t, <3>1, <4>1, <4>2, <4>3, HandledFits
        <4>4. CASE n # 0
          BY <1>t, <2>t, <3>1, <4>1, <4>2, <4>4, HandledFits
        <4> QED  BY <4>3, <4>4
      <3>3. CASE Ends(x)
        BY <1>t, <2>t, <3>1, <3>3, HandledFits
      <3> QED  BY <3>1, <3>2, <3>3
    <2>2. CASE addInvoiceItem(x)
      <3>1. /\ x.next = "attach" /\ network' = network
            /\ \/ Ends(x)
               \/ Continues(x, IF x.left = 1 THEN "finalize" ELSE "attach", x.left - 1)
        BY <2>2 DEF addInvoiceItem
      <3>2. x.left - 1 \in Nat /\ (x.left = 1 \/ x.left - 1 > 0)
        BY <2>t, <3>1
      <3>3. CASE x.left = 1
        BY <1>t, <2>t, <3>1, <3>2, <3>3, HandledFits
      <3>4. CASE x.left # 1
        BY <1>t, <2>t, <3>1, <3>2, <3>4, HandledFits
      <3> QED  BY <3>3, <3>4
    <2>3. CASE finalizeInvoice(x)
      <3>1. Ends(x) /\ (Posted \/ network' = network)
        BY <2>3 DEF finalizeInvoice
      <3> QED  BY <1>t, <2>t, <3>1, Posts, HandledFits
    <2>4. CASE payInvoice(x)
      <3>1. x.next = "pay" /\ (Ends(x) \/ Continues(x, "cancel", 0))
              /\ (Posted \/ network' = network)
        BY <2>4 DEF payInvoice
      <3>2. IsABag(network') /\ BagToSet(network') \subseteq Webhook
        BY <1>t, <2>t, <3>1, Posts
      <3> QED  BY <1>t, <3>1, <3>2, HandledFits
    <2>5. CASE cancelLink(x)
      <3>1. Ends(x) /\ network' = network
        BY <2>5 DEF cancelLink
      <3> QED  BY <1>t, <2>t, <3>1, HandledFits
    <2> QED  BY <1>5, <2>1, <2>2, <2>3, <2>4, <2>5 DEF Handle
  <1> QED  BY <1>1, <1>2, <1>3, <1>4, <1>5 DEF Next

LEMMA HistoryStep ==
  ASSUME Shaped, Next
  PROVE  HistoryTyped'
  <1>t. HistoryTyped /\ LinksTyped /\ WebhooksTyped
    BY DEF Shaped
  <1>a. ASSUME UNCHANGED history
        PROVE  HistoryTyped'
    BY <1>t, <1>a DEF HistoryTyped, history
  <1>b. ASSUME NEW k \in Keys \cup {NoKey}, Acknowledge(k), UNCHANGED <<groups, facts>>
        PROVE  HistoryTyped'
    BY <1>t, <1>b DEF HistoryTyped, Acknowledge
  <1>c. ASSUME NEW f \in Fact, facts' = facts \cup {f}, UNCHANGED <<groups, accepted>>
        PROVE  HistoryTyped'
    BY <1>t, <1>c DEF HistoryTyped
  <1>1. CASE StripeAlone
    BY <1>1, <1>a DEF StripeAlone
  <1>2. ASSUME NEW r \in Requests, Call(r)
        PROVE  HistoryTyped'
    BY <1>2, <1>a, <1>b DEF Call, replayAdd, beginAdd, beginRemove
  <1>3. ASSUME NEW r \in Requests, Serve(r)
        PROVE  HistoryTyped'
    <2>1. CASE finishAdd(r)
      <3>1. request[r] \in Request /\ request[r].doing = "added"
        BY <1>t, <2>1 DEF LinksTyped, finishAdd
      <3>2. request[r].key \in Keys \cup {NoKey}
        BY <3>1, AddFields
      <3> QED  BY <2>1, <3>2, <1>b DEF finishAdd
    <2>2. CASE ~finishAdd(r)
      BY <1>3, <2>2, <1>a DEF Serve, createStripeItem, removeStripeItem
    <2> QED  BY <2>1, <2>2
  <1>4. ASSUME NEW h \in BagToSet(network), Deliver(h) \/ lose(h)
        PROVE  HistoryTyped'
    <2>1. h \in Webhook /\ Len(links) \in Nat /\ DOMAIN links = 1 .. Len(links)
      BY <1>t, LinkFields DEF WebhooksTyped, LinksTyped
    <2>2. CASE syncLink(h)
      <3> DEFINE l == Correlated(h)
                 f == [type |-> "subscription.created", link |-> l]
      <3>1. h \in Stripe!SubscriptionWebhook
        BY <2>1, <2>2, HookKinds DEF syncLink
      <3>2. l \in Nat
        <4>1. linkOf[h.customer] \in Nat
          BY <1>t, <2>1, <3>1 DEF LinksTyped, Stripe!SubscriptionWebhook
        <4>2. \A m \in DOMAIN links : m \in Nat
          BY <2>1
        <4> QED  BY <4>1, <4>2 DEF Correlated
      <3>3. f \in Fact
        BY <3>2 DEF Fact
      <3> HIDE DEF l
      <3>4. UNCHANGED <<groups, accepted>> /\ (facts' = facts \/ facts' = facts \cup {f})
        BY <2>2 DEF syncLink, l
      <3> QED  BY <3>3, <3>4, <1>a, <1>c DEF history
    <2>3. CASE invoiceFinalized(h)
      <3> DEFINE f == [type |-> "invoice.finalized", invoice |-> h.invoice]
      <3>1. f \in Fact
        BY <2>1, <2>3, HookKinds, InvoiceOfHook DEF Fact, invoiceFinalized
      <3>2. UNCHANGED <<groups, accepted>> /\ (facts' = facts \/ facts' = facts \cup {f})
        BY <2>3 DEF invoiceFinalized
      <3> HIDE DEF f
      <3> QED  BY <3>1, <3>2, <1>a, <1>c DEF history
    <2>4. CASE paymentReported(h)
      <3> DEFINE f == [type |-> IF h.type = "invoice.payment_succeeded"
                                THEN "payment.succeeded" ELSE "payment.failed",
                       invoice |-> h.invoice]
      <3>1. f \in Fact
        BY <2>1, <2>4, HookKinds, InvoiceOfHook DEF Fact, paymentReported
      <3>2. UNCHANGED <<groups, accepted>> /\ (facts' = facts \/ facts' = facts \cup {f})
        BY <2>4 DEF paymentReported
      <3> HIDE DEF f
      <3> QED  BY <3>1, <3>2, <1>a, <1>c DEF history
    <2>5. CASE invoiceCreated(h) \/ lose(h)
      BY <2>5, <1>a DEF invoiceCreated, lose
    <2> QED  BY <1>4, <2>2, <2>3, <2>4, <2>5 DEF Deliver
  <1>5. ASSUME NEW x \in handling, Handle(x)
        PROVE  HistoryTyped'
    <2>1. CASE pullUsage(x)
      <3> DEFINE i == x.hook.invoice
      <3>1. i \in Stripe!InvoiceIds
        BY <1>t, <2>1, InvoiceOfHook DEF WebhooksTyped, HandlersFit, pullUsage
      <3>2. UNCHANGED <<accepted, facts>>
        BY <2>1 DEF pullUsage
      <3>3. CASE UNCHANGED groups
        BY <3>2, <3>3, <1>a DEF history
      <3>4. ASSUME NEW n \in 0 .. MaxGroups,
                   groups' = [j \in DOMAIN groups \cup {i} |-> IF j = i THEN n ELSE groups[j]]
            PROVE  HistoryTyped'
        <4>1. n \in Nat
          BY InvoicingAssumption
        <4> HIDE DEF i
        <4> QED  BY <4>1, <3>1, <3>2, <3>4, <1>t DEF HistoryTyped
      <3> QED  BY <2>1, <3>3, <3>4 DEF pullUsage
    <2>2. CASE cancelLink(x)
      <3> DEFINE l == linkOf[x.hook.customer]
                 f == [type |-> "subscription.cancelled", link |-> l]
      <3>1. x.hook.customer \in Customers
        BY <1>t, <2>2, InvoiceOfHook DEF WebhooksTyped, HandlersFit, cancelLink
      <3>2. l \in Nat
        BY <1>t, <3>1, LinkFields DEF LinksTyped
      <3>3. f \in Fact
        BY <3>2 DEF Fact
      <3>4. UNCHANGED <<groups, accepted>> /\ (facts' = facts \/ facts' = facts \cup {f})
        BY <2>2 DEF cancelLink
      <3> HIDE DEF f
      <3> QED  BY <3>3, <3>4, <1>a, <1>c DEF history
    <2>3. CASE addInvoiceItem(x) \/ finalizeInvoice(x) \/ payInvoice(x)
      BY <2>3, <1>a DEF addInvoiceItem, finalizeInvoice, payInvoice
    <2> QED  BY <1>5, <2>1, <2>2, <2>3 DEF Handle
  <1> QED  BY <1>1, <1>2, <1>3, <1>4, <1>5 DEF Next

LEMMA ShapedStep ==
  ASSUME Shaped, [Next]_vars
  PROVE  Shaped'
  <1>1. SP!StripeInv' /\ Stripe!TypeOK'
    BY StripeInvKept
  <1>2. CASE Next
    BY <1>1, <1>2, LinksStep, WebhooksStep, HistoryStep DEF Shaped
  <1>3. CASE UNCHANGED vars
    <2>1. /\ LinksTyped' /\ WebhooksTyped' /\ HistoryTyped'
      BY <1>3 DEF Shaped, LinksTyped, RequestsHaveLinks, WebhooksTyped, HandlersFit,
                  HistoryTyped, vars, linkVars, requestVars, hookVars, history
    <2> QED  BY <1>1, <2>1 DEF Shaped
  <1> QED  BY <1>2, <1>3

LEMMA ShapedInit == Init => Shaped
  <1> SUFFICES ASSUME Init PROVE Shaped
    OBVIOUS
  <1>1. SP!Init
    BY DEF Init, Stripe!Init, SP!Init, Stripe!Absent, SP!Absent
  <1>2. SP!StripeInv
    BY <1>1, StripeAssumed, SP!InvInit
  <1>3. Stripe!TypeOK
    BY <1>2, SameTypes DEF SP!StripeInv
  <1>4. LinksTyped
    BY InvoicingAssumption
       DEF Init, LinksTyped, RequestsHaveLinks, Absent, Idle, Request
  <1>5. WebhooksTyped
    BY DEF Init, WebhooksTyped, HandlersFit, EmptyBag, SetToBag, IsABag, BagToSet
  <1>6. HistoryTyped
    BY DEF Init, HistoryTyped
  <1> QED  BY <1>2, <1>3, <1>4, <1>5, <1>6 DEF Shaped

LEMMA ShapedAlways == Spec => []Shaped
  <1>1. Shaped /\ [Next]_vars => Shaped'
    BY ShapedStep
  <1> QED  BY <1>1, ShapedInit, PTL DEF Spec

(* Every request, handler, link record and webhook is as the types say,    *)
(* whatever the network loses.                                             *)
THEOREM InvoicingTypeCorrect == Spec => []TypeOK
  <1>1. Shaped => TypeOK
    BY DEF Shaped, TypeOK, LinksTyped, WebhooksTyped, HistoryTyped
  <1> QED  BY <1>1, ShapedAlways, PTL

-----------------------------------------------------------------------------
(* Link records and cancellations.                                         *)

(* No record is the current one of two customers.                          *)
LinksNotShared ==
    \A c, d \in Customers : linkOf[c] = linkOf[d] /\ linkOf[c] # Absent => c = d

CancelledExist ==
    \A f \in facts : f.type = "subscription.cancelled" => f.link \in 1 .. Len(links)

LinkInv == LinksNotShared /\ CancelledExist /\ CancelledIsRetired

LEMMA LinkStep ==
  ASSUME Shaped, LinkInv, [Next]_vars
  PROVE  LinkInv'
  <1> DEFINE N == Len(links)
             Cancelled(f) == f.type = "subscription.cancelled"
  <1>t. /\ LinksTyped /\ WebhooksTyped /\ LinksTyped'
        /\ LinksNotShared /\ CancelledExist /\ CancelledIsRetired
    BY ShapedStep DEF Shaped, LinkInv
  <1>n. /\ N \in Nat /\ Len(links') \in Nat
        /\ linkOf \in [Customers -> 0 .. N]
    BY <1>t, LinkFields DEF LinksTyped
  (* No cancellation is announced and no record becomes current again.     *)
  <1>a. ASSUME linkOf' = linkOf, N <= Len(links'),
               \A f \in facts' : f \in facts \/ ~Cancelled(f)
        PROVE  LinkInv'
    BY <1>a, <1>t, <1>n DEF LinkInv, LinksNotShared, CancelledExist, CancelledIsRetired
  <1>1. CASE UNCHANGED vars
    BY <1>1, <1>a, <1>n DEF vars, linkVars, history
  <1>2. CASE StripeAlone
    BY <1>2, <1>a, <1>n DEF StripeAlone, linkVars, history
  <1>3. ASSUME NEW r \in Requests, NEW c \in Customers, NEW t \in ItemTypes,
               NEW k \in Keys \cup {NoKey}, beginAdd(r, c, t, k)
        PROVE  LinkInv'
    <2>1. facts' = facts
      BY <1>3 DEF beginAdd, history
    <2>2. CASE linkOf[c] # Absent
      <3>1. links' = links /\ linkOf' = linkOf
        BY <1>3, <2>2, <1>n DEF beginAdd
      <3> QED  BY <2>1, <3>1, <1>a, <1>n
    <2>3. CASE linkOf[c] = Absent
      <3>1. linkOf' = [linkOf EXCEPT ![c] = N + 1]
        BY <1>3, <2>3 DEF beginAdd
      <3>2. Len(links') = N + 1
        <4> DEFINE new == [customer |-> c, stripeId |-> Absent, items |-> {},
                           status |-> "pending"]
        <4>1. links' = Append(links, new)
          BY <1>3, <2>3 DEF beginAdd
        <4> HIDE DEF new
        <4> QED  BY <4>1, <1>t DEF LinksTyped
      <3>3. \A d \in Customers : /\ linkOf[d] # N + 1
                                 /\ linkOf'[d] = IF d = c THEN N + 1 ELSE linkOf[d]
        BY <3>1, <1>n
      <3>4. LinksNotShared'
        BY <3>3, <1>t DEF LinksNotShared
      <3>5. CancelledExist'
        BY <2>1, <3>2, <1>t, <1>n DEF CancelledExist
      <3>6. CancelledIsRetired'
        BY <2>1, <3>3, <1>t, <1>n DEF CancelledExist, CancelledIsRetired
      <3> QED  BY <3>4, <3>5, <3>6 DEF LinkInv
    <2> QED  BY <2>2, <2>3
  <1>4. ASSUME NEW r \in Requests, Call(r),
               ~\E c \in Customers, t \in ItemTypes, k \in Keys \cup {NoKey} :
                     beginAdd(r, c, t, k)
        PROVE  LinkInv'
    <2>1. UNCHANGED <<links, linkOf, facts>>
      BY <1>4 DEF Call, replayAdd, beginRemove, linkVars, history
    <2> QED  BY <2>1, <1>a, <1>n
  <1>5. ASSUME NEW r \in Requests, Serve(r)
        PROVE  LinkInv'
    <2>1. facts' = facts /\ linkOf' = linkOf
      BY <1>5 DEF Serve, createStripeItem, finishAdd, removeStripeItem, linkVars, history
    <2>2. Len(links') = N
      <3>1. CASE finishAdd(r)
        BY <1>t, <3>1 DEF finishAdd, LinksTyped
      <3>2. CASE ~finishAdd(r)
        BY <1>5, <3>2 DEF Serve, createStripeItem, removeStripeItem, linkVars
      <3> QED  BY <3>1, <3>2
    <2> QED  BY <2>1, <2>2, <1>a, <1>n
  <1>6. ASSUME NEW h \in BagToSet(network), Deliver(h) \/ lose(h)
        PROVE  LinkInv'
    <2>1. linkOf' = linkOf
      BY <1>6 DEF Deliver, lose, syncLink, invoiceCreated, invoiceFinalized,
                  paymentReported, linkVars
    <2>2. Len(links') = N
      <3>1. links' = links \/ \E l, link : links' = [links EXCEPT ![l] = link]
        BY <1>6 DEF Deliver, lose, syncLink, invoiceCreated, invoiceFinalized,
                    paymentReported, linkVars
      <3> QED  BY <3>1, <1>t DEF LinksTyped
    <2>3. \A f \in facts' : f \in facts \/ ~Cancelled(f)
      BY <1>6 DEF Deliver, lose, syncLink, invoiceCreated, invoiceFinalized,
                  paymentReported, history
    <2> QED  BY <2>1, <2>2, <2>3, <1>a, <1>n
  <1>7. ASSUME NEW x \in handling, Handle(x)
        PROVE  LinkInv'
    <2>1. CASE cancelLink(x)
      <3> DEFINE c == x.hook.customer
                 l == linkOf[c]
                 f == [type |-> "subscription.cancelled", link |-> l]
      <3>1. c \in Customers
        BY <1>t, <2>1, InvoiceOfHook DEF WebhooksTyped, HandlersFit, cancelLink
      <3>2. CASE l = Absent
        BY <2>1, <3>2, <1>a, <1>n DEF cancelLink
      <3>3. CASE l # Absent
        <4>1. l \in 1 .. N
          BY <3>1, <3>3, <1>n DEF Absent
        <4>2. linkOf' = [linkOf EXCEPT ![c] = Absent] /\ facts' = facts \cup {f}
          BY <2>1, <3>3 DEF cancelLink
        <4>3. Len(links') = N
          BY <2>1, <3>3, <1>t DEF cancelLink, LinksTyped
        <4>4. \A d \in Customers : linkOf'[d] = IF d = c THEN Absent ELSE linkOf[d]
          BY <4>2, <1>n
        <4>5. f.link = l
          OBVIOUS
        <4> HIDE DEF f
        <4>6. LinksNotShared'
          BY <4>4, <1>t DEF LinksNotShared
        <4>7. CancelledExist'
          BY <4>1, <4>2, <4>3, <4>5, <1>t DEF CancelledExist
        <4>8. CancelledIsRetired'
          <5> SUFFICES ASSUME NEW g \in facts', Cancelled(g), NEW d \in Customers
                       PROVE  linkOf'[d] # g.link
            BY DEF CancelledIsRetired
          <5>1. CASE g \in facts
            <6>1. linkOf[d] # g.link /\ g.link \in 1 .. N
              BY <5>1, <1>t DEF CancelledIsRetired, CancelledExist
            <6> QED  BY <6>1, <4>4, <1>n DEF Absent
          <5>2. CASE g = f
            BY <5>2, <3>1, <3>3, <4>1, <4>4, <4>5, <1>t, <1>n DEF LinksNotShared, Absent
          <5> QED  BY <5>1, <5>2, <4>2
        <4> QED  BY <4>6, <4>7, <4>8 DEF LinkInv
      <3> QED  BY <3>2, <3>3
    <2>2. CASE ~cancelLink(x)
      BY <1>7, <2>2, <1>a, <1>n
         DEF Handle, pullUsage, addInvoiceItem, finalizeInvoice, payInvoice, linkVars, history
    <2> QED  BY <2>1, <2>2
  <1> QED
    BY <1>1, <1>2, <1>3, <1>4, <1>5, <1>6, <1>7 DEF Next

(* A record whose cancellation was announced is never a customer's current *)
(* record again: no request starts from it, and it is not cancelled twice. *)
THEOREM CancelledStaysRetired == Spec => []CancelledIsRetired
  <1>1. Init => LinkInv
    BY DEF Init, LinkInv, LinksNotShared, CancelledExist, CancelledIsRetired
  <1>2. Shaped /\ LinkInv /\ [Next]_vars => LinkInv'
    BY LinkStep
  <1>3. LinkInv => CancelledIsRetired
    BY DEF LinkInv
  <1> QED  BY <1>1, <1>2, <1>3, ShapedAlways, PTL DEF Spec

-----------------------------------------------------------------------------
(* Payments.                                                               *)

PaymentTypes == {"invoice.payment_succeeded", "invoice.payment_failed"}

Announced(i) == [type |-> "invoice.finalized", invoice |-> i] \in facts

(* An invoice is collected, and its payment reported, only once announced. *)
PaymentInv ==
    /\ \A h \in BagToSet(network) : h.type \in PaymentTypes => Announced(h.invoice)
    /\ \A x \in handling : x.next = "pay" => Announced(x.hook.invoice)
    /\ PaymentsAreOfAnnouncedInvoices

(* Only a collection makes fakestripe report a payment.                    *)
LEMMA NoPaymentFired ==
  ASSUME \/ Stripe!Tick
         \/ Stripe!Scheduler
         \/ \E c, t, k, meta, at : Stripe!handleAddItem(c, t, k, meta, at)
         \/ \E s, t, at : Stripe!handleRemoveItem(s, t, at)
         \/ \E i : Stripe!handleFinalizeInvoice(i)
  PROVE  \A h \in fired' : h.type \notin PaymentTypes
  <1>1. CASE Stripe!Tick
    BY <1>1 DEF Stripe!Tick
  <1>2. CASE Stripe!Scheduler
    <2>1. \A h \in fired' : \E i, d : h = Stripe!InvoiceCreated(i, d)
      BY <1>2 DEF Stripe!Scheduler, Stripe!advancePeriods
    <2> QED  BY <2>1 DEF Stripe!InvoiceCreated, PaymentTypes
  <1>3. CASE \E c, t, k, meta, at : Stripe!handleAddItem(c, t, k, meta, at)
    BY <1>3 DEF Stripe!handleAddItem, Stripe!AddToExisting, Stripe!AddToNew,
                Stripe!StoreContainer, Stripe!SubObject, PaymentTypes
  <1>4. CASE \E s, t, at : Stripe!handleRemoveItem(s, t, at)
    <2>1. ASSUME NEW s, NEW t, NEW at, Stripe!RemoveOneOfTwo(s, t, at)
          PROVE  \A h \in fired' : h.type \notin PaymentTypes
      BY <2>1 DEF Stripe!RemoveOneOfTwo, Stripe!SubObject, PaymentTypes
    <2>2. ASSUME NEW s, NEW t, NEW at, Stripe!RemoveLast(s, t, at)
          PROVE  \A h \in fired' : h.type \notin PaymentTypes
      <3>1. \E i, d : fired' = {Stripe!InvoiceCreated(i, d)}
        BY Zenon, <2>2 DEF Stripe!RemoveLast
      <3> QED  BY <3>1 DEF Stripe!InvoiceCreated, PaymentTypes
    <2> QED  BY <1>4, <2>1, <2>2 DEF Stripe!handleRemoveItem
  <1>5. CASE \E i : Stripe!handleFinalizeInvoice(i)
    BY <1>5 DEF Stripe!handleFinalizeInvoice, Stripe!InvoiceEvent, PaymentTypes
  <1> QED  BY <1>1, <1>2, <1>3, <1>4, <1>5

LEMMA GoesOn ==
  ASSUME NEW x \in Handling, NEW next, NEW left, Continues(x, next, left)
  PROVE  \E y : /\ handling' = (handling \ {x}) \cup {y}
                /\ y.hook = x.hook /\ y.next = next /\ y.left = left
  <1> DEFINE y == [x EXCEPT !.next = next, !.left = left]
  <1>1. y.hook = x.hook /\ y.next = next /\ y.left = left
    BY DEF Handling
  <1>2. handling' = (handling \ {x}) \cup {y}
    BY DEF Continues
  <1> HIDE DEF y
  <1> QED  BY <1>1, <1>2

LEMMA PaymentStep ==
  ASSUME Shaped, PaymentInv, [Next]_vars
  PROVE  PaymentInv'
  <1>t. /\ IsABag(network)
        /\ \A h \in BagToSet(network) : h.type \in PaymentTypes => Announced(h.invoice)
        /\ \A x \in handling : x.next = "pay" => Announced(x.hook.invoice)
        /\ PaymentsAreOfAnnouncedInvoices
    BY DEF Shaped, WebhooksTyped, PaymentInv
  (* Nothing is reported or collected that was not announced before.       *)
  <1>a. ASSUME facts \subseteq facts',
               \A h \in BagToSet(network') :
                   \/ h \in BagToSet(network)
                   \/ h.type \in PaymentTypes => Announced(h.invoice)',
               \A x \in handling' :
                   \/ x \in handling
                   \/ x.next = "pay" => Announced(x.hook.invoice)',
               \A f \in facts' :
                   \/ f \in facts
                   \/ f.type \in {"payment.succeeded", "payment.failed"} =>
                          Announced(f.invoice)'
        PROVE  PaymentInv'
    <2>1. \A i : Announced(i) => Announced(i)'
      BY <1>a DEF Announced
    <2>2. \A f \in facts : f.type \in {"payment.succeeded", "payment.failed"} =>
              Announced(f.invoice)
      BY <1>t DEF PaymentsAreOfAnnouncedInvoices, Announced
    <2>3. \A f \in facts' : f.type \in {"payment.succeeded", "payment.failed"} =>
              Announced(f.invoice)'
      BY <1>a, <2>1, <2>2
    <2>4. PaymentsAreOfAnnouncedInvoices'
      BY <2>3 DEF PaymentsAreOfAnnouncedInvoices, Announced
    <2> QED  BY <1>a, <1>t, <2>1, <2>4 DEF PaymentInv
  <1>b. ASSUME Posted, \A h \in fired' : h.type \notin PaymentTypes
        PROVE  \A h \in BagToSet(network') : h \in BagToSet(network)
                                              \/ h.type \notin PaymentTypes
    BY <1>t, <1>b, BagPlus DEF Posted
  <1>c. ASSUME NEW h \in BagToSet(network), Arrives(h)
        PROVE  BagToSet(network') \subseteq BagToSet(network)
    BY <1>t, <1>c, BagMinus DEF Arrives
  <1>1. CASE UNCHANGED vars
    BY <1>1, <1>a DEF vars, hookVars, history
  <1>2. CASE StripeAlone
    BY <1>2, <1>a, <1>b, NoPaymentFired DEF StripeAlone, history
  <1>3. ASSUME NEW r \in Requests, Call(r)
        PROVE  PaymentInv'
    <2>1. UNCHANGED <<network, handling, facts>>
      BY <1>3 DEF Call, replayAdd, beginAdd, beginRemove, hookVars, history
    <2> QED  BY <2>1, <1>a
  <1>4. ASSUME NEW r \in Requests, Serve(r)
        PROVE  PaymentInv'
    <2>1. handling' = handling /\ facts' = facts
      BY <1>4 DEF Serve, createStripeItem, finishAdd, removeStripeItem, hookVars, history
    <2>2. \/ network' = network
          \/ /\ Posted
             /\ \/ \E c, t, k, meta, at : Stripe!handleAddItem(c, t, k, meta, at)
                \/ \E s, t, at : Stripe!handleRemoveItem(s, t, at)
      BY <1>4 DEF Serve, createStripeItem, finishAdd, removeStripeItem, hookVars
    <2> QED  BY <2>1, <2>2, <1>a, <1>b, NoPaymentFired
  <1>5. ASSUME NEW h \in BagToSet(network), Deliver(h) \/ lose(h)
        PROVE  PaymentInv'
    <2>1. BagToSet(network') \subseteq BagToSet(network)
      BY <1>5, <1>c DEF Deliver, lose, syncLink, invoiceCreated, invoiceFinalized,
                        paymentReported
    <2>2. CASE syncLink(h)
      BY <2>1, <2>2, <1>a DEF syncLink
    <2>3. CASE invoiceCreated(h)
      BY <2>1, <2>3, <1>a DEF invoiceCreated, Starts, history
    <2>4. CASE invoiceFinalized(h)
      <3>1. CASE h.due > 0
        <4> DEFINE f == [type |-> "invoice.finalized", invoice |-> h.invoice]
                   x == [hook |-> h, next |-> "pay", left |-> 0]
        <4>1. facts' = facts \cup {f} /\ handling' = handling \cup {x}
          BY <2>4, <3>1 DEF invoiceFinalized, Starts
        <4>2. Announced(h.invoice)' /\ x.hook = h /\ f.type = "invoice.finalized"
          BY <4>1 DEF Announced
        <4> HIDE DEF f, x
        <4> QED  BY <2>1, <4>1, <4>2, <1>a
      <3>2. CASE ~(h.due > 0)
        BY <2>1, <2>4, <3>2, <1>a DEF invoiceFinalized, Starts
      <3> QED  BY <3>1, <3>2
    <2>5. CASE paymentReported(h)
      <3>1. handling' = handling /\ h.type \in PaymentTypes
        BY <2>5 DEF paymentReported, PaymentTypes
      <3>2. Announced(h.invoice) /\ facts \subseteq facts'
        BY <2>5, <3>1, <1>t DEF paymentReported
      <3>3. \A f \in facts' : f \in facts \/ f.invoice = h.invoice
        BY <2>5 DEF paymentReported
      <3>4. Announced(h.invoice)'
        BY <3>2 DEF Announced
      <3> QED  BY <2>1, <3>1, <3>2, <3>3, <3>4, <1>a
    <2>6. CASE lose(h)
      BY <2>1, <2>6, <1>a DEF lose, history
    <2> QED  BY <1>5, <2>2, <2>3, <2>4, <2>5, <2>6 DEF Deliver
  <1>6. ASSUME NEW x \in handling, Handle(x)
        PROVE  PaymentInv'
    <2>1. CASE pullUsage(x) \/ addInvoiceItem(x)
      <3>1. network' = network /\ facts' = facts
        BY <2>1 DEF pullUsage, addInvoiceItem, history
      <3>2. \A y \in handling' : y \in handling \/ y.next # "pay"
        <4>1. x \in Handling
          BY DEF Shaped, WebhooksTyped
        <4>2. \/ Ends(x)
              \/ \E left : Continues(x, "finalize", left) \/ Continues(x, "attach", left)
          BY <2>1 DEF pullUsage, addInvoiceItem
        <4> QED  BY <4>1, <4>2, GoesOn DEF Ends
      <3> QED  BY <3>1, <3>2, <1>a
    <2>2. CASE finalizeInvoice(x)
      <3>1. facts' = facts /\ Ends(x)
            /\ (network' = network \/ (Posted /\ \E i : Stripe!handleFinalizeInvoice(i)))
        BY <2>2 DEF finalizeInvoice, history
      <3> QED  BY <3>1, <1>a, <1>b, NoPaymentFired DEF Ends
    <2>3. CASE payInvoice(x)
      <3> DEFINE i == x.hook.invoice
      <3>1. facts' = facts /\ Announced(i) /\ Announced(i)'
        BY <2>3, <1>t DEF payInvoice, history, Announced
      <3>2. \A y \in handling' : y \in handling \/ y.next # "pay"
        <4>1. x \in Handling
          BY DEF Shaped, WebhooksTyped
        <4>2. Ends(x) \/ Continues(x, "cancel", 0)
          BY <2>3 DEF payInvoice
        <4> QED  BY <4>1, <4>2, GoesOn DEF Ends
      <3>3. \A h \in BagToSet(network') : h \in BagToSet(network) \/ h.invoice = i
        <4>1. CASE network' = network
          BY <4>1
        <4>2. CASE Stripe!handlePayInvoice(i) /\ Posted
          <5>1. \A h \in fired' : h.invoice = i
            BY <4>2 DEF Stripe!handlePayInvoice, Stripe!InvoiceEvent
          <5>2. BagToSet(network') = BagToSet(network) \cup fired'
            BY <4>2, <1>t, BagPlus DEF Posted
          <5> QED  BY <5>1, <5>2
        <4> QED  BY <2>3, <4>1, <4>2 DEF payInvoice
      <3> HIDE DEF i
      <3> QED  BY <3>1, <3>2, <3>3, <1>a
    <2>4. CASE cancelLink(x)
      <3> DEFINE f == [type |-> "subscription.cancelled", link |-> linkOf[x.hook.customer]]
      <3>1. network' = network /\ Ends(x) /\ (facts' = facts \/ facts' = facts \cup {f})
        BY <2>4 DEF cancelLink
      <3>2. f.type = "subscription.cancelled"
        OBVIOUS
      <3> HIDE DEF f
      <3> QED  BY <3>1, <3>2, <1>a DEF Ends
    <2> QED  BY <1>6, <2>1, <2>2, <2>3, <2>4 DEF Handle
  <1> QED  BY <1>1, <1>2, <1>3, <1>4, <1>5, <1>6 DEF Next

(* In whatever order the webhooks come, a payment is announced only of an  *)
(* invoice that was announced before.                                      *)
THEOREM PaymentsFollowInvoices == Spec => []PaymentsAreOfAnnouncedInvoices
  <1>1. Init => PaymentInv
    BY DEF Init, PaymentInv, PaymentsAreOfAnnouncedInvoices, EmptyBag, SetToBag, BagToSet
  <1>2. Shaped /\ PaymentInv /\ [Next]_vars => PaymentInv'
    BY PaymentStep
  <1>3. PaymentInv => PaymentsAreOfAnnouncedInvoices
    BY DEF PaymentInv
  <1> QED  BY <1>1, <1>2, <1>3, ShapedAlways, PTL DEF Spec

-----------------------------------------------------------------------------
(* Usage is priced in full.                                                *)

Announces(h) == h.type = "invoice.created"

(* The draft a webhook announces is as it was opened.                      *)
Unpriced(h) ==
    /\ h.invoice \in DOMAIN drafts
    /\ drafts[h.invoice].usage = 0
    /\ drafts[h.invoice].billUsage = h.billUsage

Billing(x) == x.next \in {"pull", "attach", "finalize"}

(* Where a handler has got to: what is attached to its draft, and what is  *)
(* still to be attached, make up what it pulled.                           *)
InStep(x) ==
    LET i == x.hook.invoice IN
    /\ i \in DOMAIN drafts
    /\ drafts[i].billUsage = x.hook.billUsage
    /\ x.next = "pull" => drafts[i].usage = 0
    /\ x.next = "attach" => i \in DOMAIN groups /\ groups[i] = drafts[i].usage + x.left
    /\ x.next = "finalize" /\ x.hook.billUsage =>
           i \in DOMAIN groups /\ groups[i] = drafts[i].usage

DraftsAnnouncedOnce ==
    /\ \A h \in BagToSet(network) : Announces(h) => network[h] = 1 /\ Unpriced(h)
    /\ \A g, h \in BagToSet(network) :
           Announces(g) /\ Announces(h) /\ g.invoice = h.invoice => g = h

(* A draft still to be announced has no handler, and any other at most one.*)
DraftsHandledOnce ==
    \A x \in handling : Billing(x) =>
        /\ \A y \in handling : Billing(y) /\ y.hook.invoice = x.hook.invoice => y = x
        /\ \A h \in BagToSet(network) : Announces(h) => h.invoice # x.hook.invoice

HandlersInStep == \A x \in handling : Billing(x) => InStep(x)

PricingInv ==
    DraftsAnnouncedOnce /\ DraftsHandledOnce /\ HandlersInStep /\ PricedInFull

(* Steps that at most open drafts, and announce each of them once.         *)
OnlyOpens ==
    /\ invoice' = invoice
    /\ \A i \in DOMAIN drafts : i \in DOMAIN drafts' /\ drafts'[i] = drafts[i]
    /\ \A h \in fired' : Announces(h) => h.invoice \notin DOMAIN drafts /\ Unpriced(h)'
    /\ \A g, h \in fired' :
           Announces(g) /\ Announces(h) /\ g.invoice = h.invoice => g = h

LEMMA CreatedFields ==
  ASSUME NEW i, NEW d
  PROVE  /\ SP!InvoiceCreated(i, d).invoice = i
         /\ SP!InvoiceCreated(i, d).billUsage = d.billUsage
  BY DEF SP!InvoiceCreated

LEMMA SchedulerOpens ==
  ASSUME SP!StripeInv, NEW at \in SP!Readings, SP!advancePeriods(at)
  PROVE  OnlyOpens
  <1> DEFINE New(i) == SP!ElapsedDraft(i[1], subs[i[1]], i[2] - subs[i[1]].opened - 1)
  <1>1. SP!TypeOK /\ SP!BillsBelong
    BY DEF SP!StripeInv
  <1>2. /\ SP!RolledIds(at) \cap SP!Bills = {}
        /\ DOMAIN drafts' = DOMAIN drafts \cup SP!RolledIds(at)
        /\ \A i \in DOMAIN drafts : drafts'[i] = drafts[i]
        /\ \A i \in SP!RolledIds(at) : drafts'[i] = New(i)
        /\ invoice' = invoice
    BY <1>1, StripeAssumed, SP!SchedulerFacts
  <1>3. fired' = {SP!InvoiceCreated(i, New(i)) : i \in SP!RolledIds(at)}
    <2> DEFINE ids == UNION {SP!ElapsedIds(s, subs[s], at) : s \in SP!Due(at)}
    <2> HIDE DEF ids, New
    <2>1. fired' = {SP!InvoiceCreated(i, New(i)) : i \in ids}
      BY DEF SP!advancePeriods, ids, New
    <2>2. ids = SP!RolledIds(at)
      BY DEF ids, SP!RolledIds
    <2> QED  BY <2>1, <2>2
  <1>4. \A i : New(i).usage = 0
    BY DEF SP!ElapsedDraft, SP!OpenDraft
  <1> HIDE DEF New
  <1>5. \A h \in fired' : \E i \in SP!RolledIds(at) :
            h = SP!InvoiceCreated(i, New(i)) /\ h.invoice = i /\ h.billUsage = New(i).billUsage
    BY <1>3, CreatedFields
  <1>6. \A i \in SP!RolledIds(at) : i \notin DOMAIN drafts
    BY <1>2 DEF SP!Bills
  <1> QED  BY <1>2, <1>4, <1>5, <1>6 DEF OnlyOpens, Unpriced

LEMMA RemoveOpens ==
  ASSUME SP!StripeInv, NEW s \in DOMAIN subs, NEW t \in ItemTypes, NEW at \in SP!Readings,
         SP!handleRemoveItem(s, t, at)
  PROVE  OnlyOpens
  <1> DEFINE st == SP!WithoutItem(subs[s], t, at)
             i == <<s, st.opened + 1>>
             d == SP!OpenDraft(s, st, st.start, at, st.period, TRUE, t = "usage")
  <1>1. CASE SP!RemoveOneOfTwo(s, t, at)
    <2>1. \E x : fired' = {SP!SubObject("customer.subscription.updated", s, x)}
      BY <1>1 DEF SP!RemoveOneOfTwo
    <2>2. \A h \in fired' : ~Announces(h)
      BY <2>1 DEF SP!SubObject, Announces
    <2>3. drafts' = drafts /\ invoice' = invoice
      BY <1>1 DEF SP!RemoveOneOfTwo, SP!handleRemoveItem
    <2> QED  BY <2>2, <2>3 DEF OnlyOpens
  <1>2. CASE SP!RemoveLast(s, t, at)
    <2>1. /\ drafts' = SP!Put(drafts, i, d) /\ fired' = {SP!InvoiceCreated(i, d)}
          /\ invoice' = invoice
      BY Zenon, <1>2 DEF SP!RemoveLast, SP!handleRemoveItem
    <2>2. st.opened = subs[s].opened /\ subs[s].opened \in Nat
      <3>1. subs[s] \in SP!Container
        BY DEF SP!StripeInv, SP!TypeOK
      <3> QED  BY <3>1 DEF SP!WithoutItem, SP!Container
    <2>3. i \notin DOMAIN drafts
      <3>1. SP!BillsBelong
        BY DEF SP!StripeInv
      <3>2. i[1] = s /\ i[2] = subs[s].opened + 1
        BY <2>2
      <3> HIDE DEF i
      <3>3. i \in SP!Bills => i[2] <= subs[s].opened
        BY <3>1, <3>2 DEF SP!BillsBelong
      <3>4. i \in DOMAIN drafts => i \in SP!Bills
        BY DEF SP!Bills
      <3>5. ~(i[2] <= subs[s].opened)
        BY <2>2, <3>2
      <3> QED  BY <3>3, <3>4, <3>5
    <2>4. d.usage = 0
      BY DEF SP!OpenDraft
    <2> HIDE DEF i, d, st
    <2>5. /\ DOMAIN drafts' = DOMAIN drafts \cup {i} /\ drafts'[i] = d
          /\ \A j \in DOMAIN drafts : drafts'[j] = drafts[j]
      BY <2>1, <2>3 DEF SP!Put
    <2> QED  BY <2>1, <2>3, <2>4, <2>5, CreatedFields DEF OnlyOpens, Unpriced
  <1> QED  BY <1>1, <1>2 DEF SP!handleRemoveItem

LEMMA AddOpens ==
  ASSUME NEW c, NEW t, NEW k, NEW meta, NEW at, SP!handleAddItem(c, t, k, meta, at)
  PROVE  OnlyOpens
  <1>1. \E type \in {"customer.subscription.created", "customer.subscription.updated"} :
           \E s, st : SP!StoreContainer(c, k, s, st, type)
    BY DEF SP!handleAddItem, SP!AddToExisting, SP!AddToNew
  <1>2. PICK type \in {"customer.subscription.created", "customer.subscription.updated"} :
           \E s, st : fired' = {SP!SubObject(type, s, st)} /\ UNCHANGED <<drafts, invoice>>
    BY <1>1 DEF SP!StoreContainer
  <1>3. \A h \in fired' : ~Announces(h)
    BY <1>2 DEF SP!SubObject, Announces
  <1> QED  BY <1>2, <1>3 DEF OnlyOpens

(* A step that opens drafts at most, or is about other things than drafts. *)
LEMMA PricingKept ==
  ASSUME PricingInv,
         \A i \in DOMAIN drafts : i \in DOMAIN drafts' /\ drafts'[i] = drafts[i],
         DOMAIN invoice' = DOMAIN invoice,
         \A i \in DOMAIN invoice : invoice'[i].bill = invoice[i].bill,
         groups' = groups,
         \A x \in handling' : x \in handling \/ ~Billing(x),
         NEW new,
         \A h \in BagToSet(network') : Announces(h) =>
             \/ h \in BagToSet(network) /\ network'[h] = network[h]
             \/ /\ h \in new /\ network'[h] = 1
                /\ h.invoice \notin DOMAIN drafts /\ Unpriced(h)',
         \A g, h \in new : Announces(g) /\ Announces(h) /\ g.invoice = h.invoice => g = h
  PROVE  PricingInv'
  <1>1. \A h \in BagToSet(network) : Announces(h) =>
            network[h] = 1 /\ Unpriced(h) /\ Unpriced(h)' /\ h.invoice \in DOMAIN drafts
    BY DEF PricingInv, DraftsAnnouncedOnce, Unpriced
  <1>2. \A g, h \in BagToSet(network) :
            Announces(g) /\ Announces(h) /\ g.invoice = h.invoice => g = h
    BY DEF PricingInv, DraftsAnnouncedOnce
  <1>3. \A x \in handling : Billing(x) =>
            /\ \A y \in handling : Billing(y) /\ y.hook.invoice = x.hook.invoice => y = x
            /\ \A h \in BagToSet(network) : Announces(h) => h.invoice # x.hook.invoice
            /\ InStep(x) /\ InStep(x)' /\ x.hook.invoice \in DOMAIN drafts
    BY DEF PricingInv, DraftsHandledOnce, HandlersInStep, InStep
  <1>4. DraftsAnnouncedOnce'
    <2>1. \A h \in BagToSet(network') : Announces(h) => network'[h] = 1 /\ Unpriced(h)'
      BY <1>1
    <2>2. \A g, h \in BagToSet(network') :
              Announces(g) /\ Announces(h) /\ g.invoice = h.invoice => g = h
      BY <1>1, <1>2
    <2> QED  BY <2>1, <2>2 DEF DraftsAnnouncedOnce
  <1>5. DraftsHandledOnce'
    BY <1>3 DEF DraftsHandledOnce
  <1>6. HandlersInStep'
    BY <1>3 DEF HandlersInStep
  <1>7. PricedInFull'
    BY DEF PricingInv, PricedInFull
  <1> QED  BY <1>4, <1>5, <1>6, <1>7 DEF PricingInv

LEMMA PricingUndisturbed ==
  ASSUME PricingInv,
         \A i \in DOMAIN drafts : i \in DOMAIN drafts' /\ drafts'[i] = drafts[i],
         DOMAIN invoice' = DOMAIN invoice,
         \A i \in DOMAIN invoice : invoice'[i].bill = invoice[i].bill,
         groups' = groups,
         \A x \in handling' : x \in handling \/ ~Billing(x),
         \A h \in BagToSet(network') : Announces(h) =>
             h \in BagToSet(network) /\ network'[h] = network[h]
  PROVE  PricingInv'
  <1> DEFINE none == {}
  <1>1. \A g, h \in none : Announces(g) /\ Announces(h) /\ g.invoice = h.invoice => g = h
    OBVIOUS
  <1> HIDE DEF none
  <1> QED  BY <1>1, PricingKept

(* A step of the handler x that is about its own draft only.               *)
LEMMA PricingOwn ==
  ASSUME PricingInv, NEW x \in handling, Billing(x), NEW i, i = x.hook.invoice,
         \A j \in DOMAIN drafts \ {i} : j \in DOMAIN drafts' /\ drafts'[j] = drafts[j],
         \A j \in DOMAIN groups \ {i} : j \in DOMAIN groups' /\ groups'[j] = groups[j],
         \A j \in DOMAIN invoice' \ {i} :
             j \in DOMAIN invoice /\ invoice'[j].bill = invoice[j].bill,
         i \in DOMAIN invoice' /\ invoice'[i].bill.billUsage =>
             i \in DOMAIN groups' /\ invoice'[i].bill.usage = groups'[i],
         \/ Ends(x)
         \/ \E y : /\ handling' = (handling \ {x}) \cup {y}
                   /\ y.hook = x.hook /\ InStep(y)',
         \A h \in BagToSet(network') : Announces(h) =>
             h \in BagToSet(network) /\ network'[h] = network[h]
  PROVE  PricingInv'
  <1>1. \A h \in BagToSet(network) : Announces(h) =>
            /\ network[h] = 1 /\ Unpriced(h) /\ h.invoice # i
            /\ \A y \in handling : Billing(y) => h.invoice # y.hook.invoice
    BY DEF PricingInv, DraftsAnnouncedOnce, DraftsHandledOnce
  <1>2. \A y \in handling : Billing(y) /\ y # x =>
            y.hook.invoice # i /\ InStep(y)
    BY DEF PricingInv, DraftsHandledOnce, HandlersInStep
  <1>3. \A y \in handling' :
            \/ y \in handling /\ y # x
            \/ /\ y.hook = x.hook /\ InStep(y)'
               /\ handling' = (handling \ {x}) \cup {y}
    BY DEF Ends
  <1>4. \A y \in handling : Billing(y) /\ y # x => InStep(y)'
    BY <1>2 DEF InStep
  <1>5. DraftsAnnouncedOnce'
    <2>1. \A h \in BagToSet(network') : Announces(h) => network'[h] = 1 /\ Unpriced(h)'
      BY <1>1 DEF Unpriced
    <2>2. \A g, h \in BagToSet(network') :
              Announces(g) /\ Announces(h) /\ g.invoice = h.invoice => g = h
      BY DEF PricingInv, DraftsAnnouncedOnce
    <2> QED  BY <2>1, <2>2 DEF DraftsAnnouncedOnce
  <1>6. DraftsHandledOnce'
    <2> SUFFICES ASSUME NEW y \in handling', Billing(y)
                 PROVE  /\ \A z \in handling' :
                               Billing(z) /\ z.hook.invoice = y.hook.invoice => z = y
                        /\ \A h \in BagToSet(network') :
                               Announces(h) => h.invoice # y.hook.invoice
      BY DEF DraftsHandledOnce
    <2>1. \A h \in BagToSet(network') : Announces(h) => h.invoice # y.hook.invoice
      BY <1>1, <1>3
    <2>2. ASSUME NEW z \in handling', Billing(z), z.hook.invoice = y.hook.invoice
          PROVE  z = y
      <3>1. CASE y \in handling /\ y # x
        <4>1. z \in handling /\ z # x
          BY <1>2, <1>3, <2>2, <3>1
        <4> QED  BY <2>2, <3>1, <4>1 DEF PricingInv, DraftsHandledOnce
      <3>2. CASE y.hook = x.hook /\ handling' = (handling \ {x}) \cup {y}
        BY <1>2, <2>2, <3>2
      <3> QED  BY <1>3, <3>1, <3>2
    <2> QED  BY <2>1, <2>2
  <1>7. HandlersInStep'
    BY <1>3, <1>4 DEF HandlersInStep
  <1>8. PricedInFull'
    BY DEF PricingInv, PricedInFull
  <1> QED  BY <1>5, <1>6, <1>7, <1>8 DEF PricingInv

LEMMA PricingStep ==
  ASSUME Shaped, PricingInv, [Next]_vars
  PROVE  PricingInv'
  <1>t. /\ SP!StripeInv /\ Stripe!TypeOK /\ IsABag(network)
        /\ DOMAIN drafts \cap DOMAIN invoice = {}
        /\ \A i \in DOMAIN drafts : drafts[i] \in Stripe!Bill /\ drafts[i].usage \in Nat
        /\ \A x \in handling : x \in Handling /\ x.left \in Nat
        /\ \A x \in handling : x.next = "attach" => x.left > 0
    BY DEF Shaped, WebhooksTyped, HandlersFit, Handling, SP!StripeInv, SP!FinalizedOnce,
           Stripe!TypeOK, Stripe!Bill
  <1>p. PricedInFull
    BY DEF PricingInv
  <1>b. ASSUME Posted
        PROVE  \A h \in BagToSet(network') :
                   \/ h \in BagToSet(network) /\ network'[h] = network[h]
                   \/ h \in fired' /\ network'[h] = 1
                   \/ h \in fired' /\ h \in BagToSet(network)
    BY <1>t, <1>b, BagPlus DEF Posted
  <1>u. \A h \in BagToSet(network) : Announces(h) => h.invoice \in DOMAIN drafts
    BY DEF PricingInv, DraftsAnnouncedOnce, Unpriced
  <1>c. ASSUME NEW h \in BagToSet(network), Arrives(h)
        PROVE  \A g \in BagToSet(network') :
                   \/ g \in BagToSet(network) /\ network'[g] = network[g] /\ g # h
                   \/ g = h /\ network[h] # 1
    <2>1. /\ BagToSet(network') \subseteq BagToSet(network)
          /\ \A g \in BagToSet(network') : g # h => network'[g] = network[g]
          /\ network[h] = 1 => h \notin BagToSet(network')
      BY Zenon, <1>t, <1>c, BagMinus DEF Arrives
    <2> QED  BY <2>1
  <1>o. ASSUME OnlyOpens, Posted, handling' = handling, groups' = groups
        PROVE  PricingInv'
    <2>1. \A h \in BagToSet(network') : Announces(h) =>
              \/ h \in BagToSet(network) /\ network'[h] = network[h]
              \/ /\ h \in fired' /\ network'[h] = 1
                 /\ h.invoice \notin DOMAIN drafts /\ Unpriced(h)'
      BY <1>o, <1>b, <1>u DEF OnlyOpens
    <2> QED  BY <2>1, <1>o, PricingKept DEF OnlyOpens
  (* Nothing happens in fakestripe and no handler starts to bill.          *)
  <1>n. ASSUME UNCHANGED stripeVars, groups' = groups,
               \A x \in handling' : x \in handling \/ ~Billing(x),
               \A h \in BagToSet(network') : Announces(h) =>
                   h \in BagToSet(network) /\ network'[h] = network[h]
        PROVE  PricingInv'
    <2>1. drafts' = drafts /\ invoice' = invoice
      BY <1>n DEF stripeVars
    <2> QED  BY <2>1, <1>n, PricingUndisturbed
  <1>s. ASSUME UNCHANGED stripeVars, UNCHANGED <<network, handling, groups>>
        PROVE  PricingInv'
    BY <1>s, <1>n
  <1>1. CASE UNCHANGED vars
    BY <1>1, <1>s DEF vars, hookVars, history
  <1>2. CASE StripeAlone
    <2>1. OnlyOpens
      <3>1. CASE Stripe!Tick
        BY <3>1 DEF Stripe!Tick, OnlyOpens
      <3>2. CASE Stripe!Scheduler
        BY <3>2, <1>t, SameScheduler, SchedulerOpens DEF SP!Scheduler
      <3> QED  BY <1>2, <3>1, <3>2 DEF StripeAlone
    <2> QED  BY <1>2, <2>1, <1>o DEF StripeAlone, history
  <1>3. ASSUME NEW r \in Requests, Call(r)
        PROVE  PricingInv'
    <2>1. UNCHANGED <<stripeVars, network, handling, groups>>
      BY <1>3 DEF Call, replayAdd, beginAdd, beginRemove, hookVars, history
    <2> QED  BY <2>1, <1>s
  <1>4. ASSUME NEW r \in Requests, createStripeItem(r)
        PROVE  PricingInv'
    <2>1. handling' = handling /\ groups' = groups
      BY <1>4 DEF createStripeItem, history
    <2>2. CASE \E at \in Stripe!Readings :
                   Stripe!handleAddItem(request[r].customer, request[r].type,
                                        request[r].key, request[r].link, at)
      <3>1. Posted \/ UNCHANGED <<stripeVars, network>>
        BY <1>4 DEF createStripeItem
      <3>2. OnlyOpens
        BY <2>2, SameAdd, AddOpens
      <3> QED  BY <2>1, <3>1, <3>2, <1>o, <1>s
    <2>3. CASE UNCHANGED <<stripeVars, network>>
      BY <2>1, <2>3, <1>s
    <2> QED  BY <1>4, <2>2, <2>3 DEF createStripeItem
  <1>5. ASSUME NEW r \in Requests, finishAdd(r)
        PROVE  PricingInv'
    BY <1>5, <1>s DEF finishAdd, hookVars
  <1>6. ASSUME NEW r \in Requests, removeStripeItem(r)
        PROVE  PricingInv'
    <2> DEFINE q == request[r]
    <2>1. handling' = handling /\ groups' = groups
      BY <1>6 DEF removeStripeItem, history
    <2>2. CASE /\ q.stripeId \in DOMAIN subs
               /\ \E at \in Stripe!Readings :
                      Stripe!handleRemoveItem(q.stripeId, q.type, at)
               /\ Posted
      <3>1. q.type \in ItemTypes
        BY <1>6, RemoveFields DEF removeStripeItem, Shaped, LinksTyped
      <3>2. PICK at \in SP!Readings : SP!handleRemoveItem(q.stripeId, q.type, at)
        BY <2>2, SameRemove DEF Stripe!Readings, SP!Readings
      <3>3. OnlyOpens
        BY <2>2, <3>1, <3>2, <1>t, RemoveOpens
      <3> QED  BY <2>1, <2>2, <3>3, <1>o
    <2>3. CASE UNCHANGED <<stripeVars, network>>
      BY <2>1, <2>3, <1>s
    <2> QED  BY <1>6, <2>2, <2>3 DEF removeStripeItem
  <1>7. ASSUME NEW h \in BagToSet(network), Deliver(h) \/ lose(h), ~invoiceCreated(h)
        PROVE  PricingInv'
    <2>1. Arrives(h) /\ UNCHANGED stripeVars /\ groups' = groups
      BY <1>7 DEF Deliver, lose, syncLink, invoiceFinalized, paymentReported, history
    <2>2. \A x \in handling' : x \in handling \/ ~Billing(x)
      BY <1>7 DEF Deliver, lose, syncLink, invoiceFinalized, paymentReported, Starts, Billing
    <2>3. \A g \in BagToSet(network') : Announces(g) =>
              g \in BagToSet(network) /\ network'[g] = network[g]
      <3>1. Announces(h) => network[h] = 1
        BY DEF PricingInv, DraftsAnnouncedOnce
      <3> QED  BY <2>1, <3>1, <1>c
    <2> QED  BY <2>1, <2>2, <2>3, <1>n
  <1>8. ASSUME NEW h \in BagToSet(network), invoiceCreated(h)
        PROVE  PricingInv'
    <2> DEFINE next == IF h.billUsage THEN "pull" ELSE "finalize"
               x == [hook |-> h, next |-> next, left |-> 0]
    <2>1. /\ Arrives(h) /\ Announces(h) /\ groups' = groups
          /\ drafts' = drafts /\ invoice' = invoice
          /\ handling' = handling \cup {x}
      BY <1>8 DEF invoiceCreated, Announces, Starts, history, stripeVars
    <2>2. x.hook = h /\ x.next = next
      OBVIOUS
    <2> HIDE DEF x
    <2>3. /\ network[h] = 1 /\ Unpriced(h)
          /\ \A g \in BagToSet(network) : Announces(g) /\ g.invoice = h.invoice => g = h
          /\ \A y \in handling : Billing(y) => y.hook.invoice # h.invoice
      BY <2>1 DEF PricingInv, DraftsAnnouncedOnce, DraftsHandledOnce
    <2>4. \A g \in BagToSet(network') :
              g \in BagToSet(network) /\ network'[g] = network[g] /\ g # h
      BY <2>1, <2>3, <1>c
    <2>5. DraftsAnnouncedOnce'
      BY <2>1, <2>4 DEF PricingInv, DraftsAnnouncedOnce, Unpriced
    <2>6. DraftsHandledOnce'
      <3>1. \A g \in BagToSet(network') : Announces(g) => g.invoice # h.invoice
        BY <2>3, <2>4
      <3>2. \A y \in handling : Billing(y) =>
                /\ \A z \in handling : Billing(z) /\ z.hook.invoice = y.hook.invoice => z = y
                /\ \A g \in BagToSet(network') : Announces(g) => g.invoice # y.hook.invoice
        BY <2>4 DEF PricingInv, DraftsHandledOnce
      <3> QED  BY <2>1, <2>2, <2>3, <3>1, <3>2 DEF DraftsHandledOnce
    <2>7. InStep(x)'
      BY <2>1, <2>2, <2>3 DEF InStep, Unpriced
    <2>8. \A y \in handling : Billing(y) => InStep(y)'
      BY <2>1 DEF PricingInv, HandlersInStep, InStep
    <2>9. HandlersInStep'
      BY <2>1, <2>7, <2>8 DEF HandlersInStep
    <2>10. PricedInFull'
      BY <2>1, <1>p DEF PricedInFull
    <2> QED  BY <2>5, <2>6, <2>9, <2>10 DEF PricingInv
  <1>9. ASSUME NEW x \in handling, pullUsage(x)
        PROVE  PricingInv'
    <2> DEFINE i == x.hook.invoice
    <2>1. /\ x.next = "pull" /\ Billing(x) /\ x \in Handling
          /\ drafts' = drafts /\ invoice' = invoice /\ network' = network
      BY <1>9, <1>t DEF pullUsage, Billing, stripeVars
    <2>2. InStep(x) /\ i \notin DOMAIN invoice
      BY <2>1, <1>t DEF PricingInv, HandlersInStep, InStep
    <2>3. \A h \in BagToSet(network') : Announces(h) =>
              h \in BagToSet(network) /\ network'[h] = network[h]
      BY <2>1
    <2>4. CASE groups' = groups /\ Ends(x)
      BY <2>1, <2>2, <2>3, <2>4, PricingOwn
    <2>5. ASSUME NEW n \in 0 .. MaxGroups,
                 groups' = [j \in DOMAIN groups \cup {i} |-> IF j = i THEN n ELSE groups[j]],
                 Ends(x) \/ Continues(x, IF n = 0 THEN "finalize" ELSE "attach", n)
          PROVE  PricingInv'
      <3>1. n \in Nat
        BY InvoicingAssumption
      <3>2. /\ i \in DOMAIN groups' /\ groups'[i] = n
            /\ \A j \in DOMAIN groups \ {i} : j \in DOMAIN groups' /\ groups'[j] = groups[j]
        BY <2>5
      <3>3. \/ Ends(x)
            \/ \E y : /\ handling' = (handling \ {x}) \cup {y}
                      /\ y.hook = x.hook /\ InStep(y)'
        <4> SUFFICES ASSUME Continues(x, IF n = 0 THEN "finalize" ELSE "attach", n)
                     PROVE  \E y : /\ handling' = (handling \ {x}) \cup {y}
                                   /\ y.hook = x.hook /\ InStep(y)'
          BY <2>5
        <4>1. PICK y : /\ handling' = (handling \ {x}) \cup {y}
                       /\ y.hook = x.hook /\ y.left = n
                       /\ y.next = IF n = 0 THEN "finalize" ELSE "attach"
          BY <2>1, GoesOn
        <4>2. InStep(y)'
          BY <2>1, <2>2, <3>1, <3>2, <4>1 DEF InStep
        <4> QED  BY <4>1, <4>2
      <3> HIDE DEF i
      <3> QED  BY <2>1, <2>2, <2>3, <3>2, <3>3, PricingOwn DEF i
    <2> QED  BY <1>9, <2>4, <2>5 DEF pullUsage
  <1>10. ASSUME NEW x \in handling, addInvoiceItem(x)
         PROVE  PricingInv'
    <2> DEFINE i == x.hook.invoice
    <2>1. /\ x.next = "attach" /\ Billing(x) /\ x \in Handling /\ x.left \in Nat /\ x.left > 0
          /\ groups' = groups /\ network' = network
      BY <1>10, <1>t DEF addInvoiceItem, Billing, history
    <2>2. InStep(x) /\ i \in DOMAIN drafts /\ i \notin DOMAIN invoice
      BY <2>1, <1>t DEF PricingInv, HandlersInStep, InStep
    <2>3. \A h \in BagToSet(network') : Announces(h) =>
              h \in BagToSet(network) /\ network'[h] = network[h]
      BY <2>1
    <2>4. CASE UNCHANGED stripeVars /\ Ends(x)
      <3>1. drafts' = drafts /\ invoice' = invoice
        BY <2>4 DEF stripeVars
      <3> QED  BY <2>1, <2>2, <2>3, <2>4, <3>1, PricingOwn
    <2>5. ASSUME Stripe!handleCreateItem(i, 1),
                 Ends(x) \/ Continues(x, IF x.left = 1 THEN "finalize" ELSE "attach", x.left - 1)
          PROVE  PricingInv'
      <3> DEFINE n == drafts[i].usage
      <3>1. invoice' = invoice /\ drafts' = [drafts EXCEPT ![i].usage = n + 1]
        BY <2>5 DEF Stripe!handleCreateItem
      <3>2. /\ i \in DOMAIN drafts' /\ drafts'[i].usage = n + 1 /\ n \in Nat
            /\ drafts'[i].billUsage = drafts[i].billUsage
            /\ \A j \in DOMAIN drafts \ {i} : j \in DOMAIN drafts' /\ drafts'[j] = drafts[j]
        BY <2>2, <3>1, <1>t DEF Stripe!Bill
      <3>3. \/ Ends(x)
            \/ \E y : /\ handling' = (handling \ {x}) \cup {y}
                      /\ y.hook = x.hook /\ InStep(y)'
        <4> SUFFICES ASSUME Continues(x, IF x.left = 1 THEN "finalize" ELSE "attach", x.left - 1)
                     PROVE  \E y : /\ handling' = (handling \ {x}) \cup {y}
                                   /\ y.hook = x.hook /\ InStep(y)'
          BY <2>5
        <4>1. PICK y : /\ handling' = (handling \ {x}) \cup {y}
                       /\ y.hook = x.hook /\ y.left = x.left - 1
                       /\ y.next = IF x.left = 1 THEN "finalize" ELSE "attach"
          BY <2>1, GoesOn
        <4>2. i \in DOMAIN groups /\ groups[i] = n + x.left
              /\ drafts[i].billUsage = x.hook.billUsage
          BY <2>1, <2>2 DEF InStep
        <4> HIDE DEF n
        <4>3. InStep(y)'
          BY <2>1, <3>2, <4>1, <4>2 DEF InStep
        <4> QED  BY <4>1, <4>3
      <3> QED  BY <2>1, <2>2, <2>3, <3>1, <3>2, <3>3, PricingOwn
    <2> QED  BY <1>10, <2>4, <2>5 DEF addInvoiceItem
  <1>11. ASSUME NEW x \in handling, finalizeInvoice(x)
         PROVE  PricingInv'
    <2> DEFINE i == x.hook.invoice
    <2>1. x.next = "finalize" /\ Billing(x) /\ Ends(x) /\ groups' = groups
      BY <1>11 DEF finalizeInvoice, Billing, history
    <2>2. InStep(x) /\ i \in DOMAIN drafts /\ i \notin DOMAIN invoice
      BY <2>1, <1>t DEF PricingInv, HandlersInStep, InStep
    <2>3. CASE UNCHANGED <<stripeVars, network>>
      <3>1. drafts' = drafts /\ invoice' = invoice /\ network' = network
        BY <2>3 DEF stripeVars
      <3> QED  BY <2>1, <2>2, <3>1, PricingOwn
    <2>4. CASE Stripe!handleFinalizeInvoice(i) /\ Posted
      <3>1. SP!handleFinalizeInvoice(i) /\ SP!TypeOK /\ SP!FinalizedOnce
        BY <2>4, <1>t, SameFinalize DEF SP!StripeInv
      <3>2. /\ \A j \in DOMAIN drafts \ {i} : j \in DOMAIN drafts' /\ drafts'[j] = drafts[j]
            /\ \A j \in DOMAIN invoice' \ {i} :
                   j \in DOMAIN invoice /\ invoice'[j].bill = invoice[j].bill
            /\ invoice'[i].bill = drafts[i]
        <4> HIDE DEF i
        <4> QED  BY <2>2, <3>1, StripeAssumed, SP!FinalizeFacts
      <3>3. \A h \in fired' : ~Announces(h)
        BY <2>4 DEF Stripe!handleFinalizeInvoice, Stripe!InvoiceEvent, Announces
      <3>4. \A h \in BagToSet(network') : Announces(h) =>
                h \in BagToSet(network) /\ network'[h] = network[h]
        BY <2>4, <3>3, <1>b
      <3>5. drafts[i].billUsage => i \in DOMAIN groups /\ drafts[i].usage = groups[i]
        BY <2>1, <2>2 DEF InStep
      <3> QED  BY <2>1, <3>2, <3>4, <3>5, PricingOwn
    <2> QED  BY <1>11, <2>3, <2>4 DEF finalizeInvoice
  <1>12. ASSUME NEW x \in handling, payInvoice(x)
         PROVE  PricingInv'
    <2> DEFINE i == x.hook.invoice
    <2>1. groups' = groups /\ x \in Handling /\ (Ends(x) \/ Continues(x, "cancel", 0))
      BY <1>12, <1>t DEF payInvoice, history
    <2>2. \A y \in handling' : y \in handling \/ ~Billing(y)
      BY <2>1, GoesOn DEF Ends, Billing
    <2>3. CASE UNCHANGED <<stripeVars, network>>
      BY <2>1, <2>2, <2>3, <1>n
    <2>4. CASE i \in open /\ Stripe!handlePayInvoice(i) /\ Posted
      <3>1. SP!handlePayInvoice(i) /\ SP!TypeOK
        BY <2>4, <1>t, SamePay DEF SP!StripeInv
      <3>2. /\ DOMAIN invoice' = DOMAIN invoice /\ drafts' = drafts
            /\ \A j \in DOMAIN invoice : invoice'[j].bill = invoice[j].bill
        <4> HIDE DEF i
        <4> QED  BY <2>4, <3>1, StripeAssumed, SP!PayFacts
      <3>3. \A h \in fired' : ~Announces(h)
        BY <2>4 DEF Stripe!handlePayInvoice, Stripe!InvoiceEvent, Announces
      <3>4. \A h \in BagToSet(network') : Announces(h) =>
                h \in BagToSet(network) /\ network'[h] = network[h]
        BY <2>4, <3>3, <1>b
      <3> QED  BY <2>1, <2>2, <3>2, <3>4, PricingUndisturbed
    <2> QED  BY <1>12, <2>3, <2>4 DEF payInvoice
  <1>13. ASSUME NEW x \in handling, cancelLink(x)
         PROVE  PricingInv'
    BY <1>13, <1>n DEF cancelLink, Ends
  <1> QED
    BY <1>1, <1>2, <1>3, <1>4, <1>5, <1>6, <1>7, <1>8, <1>9, <1>10, <1>11, <1>12, <1>13
       DEF Next, Serve, Deliver, Handle

(* An invoice that bills usage bills every group priced for its window,    *)
(* whichever calls, replies and webhooks were lost.                        *)
THEOREM InvoicesArePricedInFull == Spec => []PricedInFull
  <1>1. Init => PricingInv
    BY DEF Init, Stripe!Init, PricingInv, DraftsAnnouncedOnce, DraftsHandledOnce,
           HandlersInStep, PricedInFull, EmptyBag, SetToBag, BagToSet
  <1>2. Shaped /\ PricingInv /\ [Next]_vars => PricingInv'
    BY PricingStep
  <1>3. PricingInv => PricedInFull
    BY DEF PricingInv
  <1> QED  BY <1>1, <1>2, <1>3, ShapedAlways, PTL DEF Spec

-----------------------------------------------------------------------------
(* What fakestripe keeps, kept while invoicing drives it.                  *)

LEMMA StripeBegins == Init => SP!Init
  BY DEF Init, Stripe!Init, SP!Init, Stripe!Absent, SP!Absent

LEMMA StrandKept ==
  ASSUME Shaped, SP!StrandInv, [Next]_vars
  PROVE  SP!StrandInv'
  <1>1. SP!Next \/ UNCHANGED stripeVars
    BY StripeSteps DEF vars
  <1>2. [SP!Next]_(SP!vars)
    BY <1>1 DEF stripeVars, SP!vars
  <1>3. SP!StripeInv
    BY DEF Shaped
  <1>4. SP!StripeInv /\ SP!StrandInv /\ [SP!Next]_(SP!vars) => SP!StrandInv'
    BY StripeAssumed, SP!StrandStep
  <1> QED  BY <1>2, <1>3, <1>4

LEMMA SameSoundness ==
  SP!StripeInv /\ SP!StrandInv => StripeStaysSound
  <1>1. SP!StripeInv => Stripe!IndexLeadsHome
    BY DEF SP!StripeInv, SP!IndexLeadsHome, Stripe!IndexLeadsHome,
           SP!Absent, Stripe!Absent
  <1>2. SP!StripeInv => Stripe!EmptyContainerAwaitsFinal
    BY DEF SP!StripeInv, SP!EmptyContainerAwaitsFinal,
           Stripe!EmptyContainerAwaitsFinal
  <1>3. SP!StrandInv => Stripe!StrandedByLateFinalOnly
    BY DEF SP!StrandInv, SP!StrandedByLateFinalOnly,
           Stripe!StrandedByLateFinalOnly, SP!TwoFinals, Stripe!TwoFinals
  <1> QED  BY <1>1, <1>2, <1>3 DEF StripeStaysSound

(* However many webhooks and replies are lost, no sequence of invoicing's  *)
(* calls unsettles Stripe's index or strands a container in a new way.     *)
THEOREM StripeIsDrivenSoundly == Spec => []StripeStaysSound
  <1>1. Init => SP!StrandInv
    BY StripeBegins, StripeAssumed, SP!StrandInit
  <1>2. Shaped /\ SP!StrandInv /\ [Next]_vars => SP!StrandInv'
    BY StrandKept
  <1>3. Shaped /\ SP!StrandInv => StripeStaysSound
    BY SameSoundness DEF Shaped
  <1> QED  BY <1>1, <1>2, <1>3, ShapedAlways, PTL DEF Spec

LEMMA PeriodsKept ==
  ASSUME Shaped, SP!PeriodInv, [Next]_vars
  PROVE  SP!PeriodInv'
  <1>1. [SP!Next]_(SP!vars)
    BY StripeSteps DEF vars, stripeVars, SP!vars
  <1>2. SP!StripeInv
    BY DEF Shaped
  <1>3. SP!StripeInv /\ SP!PeriodInv /\ [SP!Next]_(SP!vars) => SP!PeriodInv'
    BY StripeAssumed, SP!PeriodStep
  <1> QED  BY <1>1, <1>2, <1>3

LEMMA OrderKept ==
  ASSUME Shaped, SP!OrderInv, [Next]_vars
  PROVE  SP!OrderInv'
  <1>1. [SP!Next]_(SP!vars)
    BY StripeSteps DEF vars, stripeVars, SP!vars
  <1>2. SP!StripeInv
    BY DEF Shaped
  <1>3. SP!StripeInv /\ SP!OrderInv /\ [SP!Next]_(SP!vars) => SP!OrderInv'
    BY StripeAssumed, SP!OrderStep
  <1> QED  BY <1>1, <1>2, <1>3

LEMMA ChargesKept ==
  ASSUME Shaped, SP!ChargeInv, [Next]_vars
  PROVE  SP!ChargeInv'
  <1>1. [SP!Next]_(SP!vars)
    BY StripeSteps DEF vars, stripeVars, SP!vars
  <1>2. SP!StripeInv
    BY DEF Shaped
  <1>3. SP!StripeInv /\ SP!ChargeInv /\ [SP!Next]_(SP!vars) => SP!ChargeInv'
    BY StripeAssumed, SP!ChargeStep
  <1> QED  BY <1>1, <1>2, <1>3

LEMMA SamePeriods ==
  SP!PeriodInv /\ SP!OrderInv => Stripe!PeriodsTile /\ Stripe!NoPeriodSkipped
  <1>1. SP!PeriodsTile => Stripe!PeriodsTile
    BY Zenon DEF SP!PeriodsTile, Stripe!PeriodsTile, SP!RegularBills,
           Stripe!RegularBills, SP!BillOf, Stripe!BillOf, SP!Bills, Stripe!Bills,
           SP!Period, Stripe!Period
  <1>2. SP!NoPeriodSkipped => Stripe!NoPeriodSkipped
    BY Zenon DEF SP!NoPeriodSkipped, Stripe!NoPeriodSkipped, SP!RegularBills,
           Stripe!RegularBills, SP!BillOf, Stripe!BillOf, SP!Bills, Stripe!Bills
  <1>3. SP!PeriodInv /\ SP!OrderInv => SP!PeriodsTile /\ SP!NoPeriodSkipped
    BY StripeAssumed, SP!TilesInOrder DEF SP!PeriodInv
  <1> QED  BY <1>1, <1>2, <1>3

LEMMA SameCharges ==
  SP!StripeInv /\ SP!ChargeInv => Stripe!NoSecondChargedTwice
  <1>1. SP!StripeInv /\ SP!ChargeInv => SP!NoSecondChargedTwice
    BY StripeAssumed, SP!ChargedByNow DEF SP!StripeInv
  <1>2. ASSUME NEW s
        PROVE  /\ SP!SecondsCharged(s) = Stripe!SecondsCharged(s)
               /\ SP!Anchor(s) = Stripe!Anchor(s)
    <2>1. SP!SecondsBilled(s) = Stripe!SecondsBilled(s)
      BY Zenon DEF SP!SecondsBilled, Stripe!SecondsBilled, SP!Bills, Stripe!Bills,
             SP!BillOf, Stripe!BillOf
    <2>2. SP!Anchor(s) = Stripe!Anchor(s)
      BY DEF SP!Anchor, Stripe!Anchor, SP!Period, Stripe!Period
    <2>3. ASSUME NEW S
          PROVE  SP!Cardinality(S) = Stripe!Cardinality(S)
      BY DEF SP!Cardinality, Stripe!Cardinality
    <2> QED  BY <2>1, <2>2, <2>3 DEF SP!SecondsCharged, Stripe!SecondsCharged
  <1>3. SP!NoSecondChargedTwice => Stripe!NoSecondChargedTwice
    BY <1>2 DEF SP!NoSecondChargedTwice, Stripe!NoSecondChargedTwice
  <1> QED  BY <1>1, <1>3

(* Through lost replies, retried calls and webhooks in any order, Stripe   *)
(* invoices every period a container leaves behind, and a period or part   *)
(* of one is invoiced again only behind a final invoice.                   *)
THEOREM DrivenPeriodsTile ==
  Spec => [](Stripe!PeriodsTile /\ Stripe!NoPeriodSkipped)
  <1>1. Init => SP!PeriodInv
    BY StripeBegins, StripeAssumed, SP!PeriodInit
  <1>2. Shaped /\ SP!PeriodInv /\ [Next]_vars => SP!PeriodInv'
    BY PeriodsKept
  <1>3. Init => SP!OrderInv
    BY StripeBegins, StripeAssumed, SP!OrderInit
  <1>4. Shaped /\ SP!OrderInv /\ [Next]_vars => SP!OrderInv'
    BY OrderKept
  <1> QED
    BY <1>1, <1>2, <1>3, <1>4, SamePeriods, ShapedAlways, PTL DEF Spec

(* Nor does a retried or half-answered removal, with an add between its    *)
(* tries, make Stripe charge a second of the flat fee twice: only an add   *)
(* that was overtaken by a removal does.                                   *)
THEOREM DrivenFeesAreChargedOnce ==
  Spec => []Stripe!NoSecondChargedTwice
  <1>1. Init => SP!ChargeInv
    BY StripeBegins, StripeAssumed, SP!ChargeInit
  <1>2. Shaped /\ SP!ChargeInv /\ [Next]_vars => SP!ChargeInv'
    BY ChargesKept
  <1>3. Shaped /\ SP!ChargeInv => Stripe!NoSecondChargedTwice
    BY SameCharges DEF Shaped
  <1> QED  BY <1>1, <1>2, <1>3, ShapedAlways, PTL DEF Spec

LEMMA SameStatus ==
  /\ SP!Status = Stripe!Status /\ SP!Status' = Stripe!Status'
  /\ SP!Amount = Stripe!Amount /\ SP!Amount' = Stripe!Amount'
  /\ SP!Statement = Stripe!Statement /\ SP!Statement' = Stripe!Statement'
  /\ SP!InvoiceIds = Stripe!InvoiceIds
  BY DEF SP!Status, Stripe!Status, SP!Amount, Stripe!Amount, SP!Statement,
         Stripe!Statement, SP!Bills, Stripe!Bills, SP!InvoiceIds, Stripe!InvoiceIds

LEMMA SameLifecycleInit == SP!Lifecycle!Init => Stripe!Lifecycle!Init
  BY SameStatus DEF SP!Lifecycle!Init, Stripe!Lifecycle!Init

LEMMA SameLifecycleNext ==
  [SP!Lifecycle!Next]_(SP!Lifecycle!lifecycle)
      => [Stripe!Lifecycle!Next]_(Stripe!Lifecycle!lifecycle)
  <1>1. SP!Lifecycle!OpenDrafts => Stripe!Lifecycle!OpenDrafts
    BY SameStatus DEF SP!Lifecycle!OpenDrafts, Stripe!Lifecycle!OpenDrafts,
       SP!Lifecycle!Issued, Stripe!Lifecycle!Issued
  <1>2. ASSUME NEW i
        PROVE  SP!Lifecycle!Finalize(i) => Stripe!Lifecycle!Finalize(i)
    BY SameStatus DEF SP!Lifecycle!Finalize, Stripe!Lifecycle!Finalize
  <1>3. ASSUME NEW i
        PROVE  SP!Lifecycle!Collect(i) => Stripe!Lifecycle!Collect(i)
    BY SameStatus DEF SP!Lifecycle!Collect, Stripe!Lifecycle!Collect
  <1>4. SP!Lifecycle!Issued = Stripe!Lifecycle!Issued
    BY SameStatus DEF SP!Lifecycle!Issued, Stripe!Lifecycle!Issued
  <1>5. SP!Lifecycle!Next => Stripe!Lifecycle!Next
    BY <1>1, <1>2, <1>3, <1>4 DEF SP!Lifecycle!Next, Stripe!Lifecycle!Next
  <1> QED
    BY <1>5, SameStatus DEF SP!Lifecycle!lifecycle, Stripe!Lifecycle!lifecycle

LEMMA LifecycleStep ==
  ASSUME Shaped, [Next]_vars
  PROVE  [Stripe!Lifecycle!Next]_(Stripe!Lifecycle!lifecycle)
  <1>1. [SP!Next]_(SP!vars)
    BY StripeSteps DEF vars, stripeVars, SP!vars
  <1>2. SP!StripeInv
    BY DEF Shaped
  <1>3. SP!StripeInv /\ [SP!Next]_(SP!vars)
            => [SP!Lifecycle!Next]_(SP!Lifecycle!lifecycle)
    BY StripeAssumed, SP!MapStep
  <1> QED  BY <1>1, <1>2, <1>3, SameLifecycleNext

(* Whatever calls invoicing repeats, gives up or makes twice because a     *)
(* reply was lost: an invoice is finalized once, keeps its amount, is      *)
(* collected once, and is shown exactly when something is due.             *)
THEOREM DrivenInvoicesFollowLifecycle == Spec => DrivenLifecycle
  <1>1. Init => Stripe!Lifecycle!Init
    BY StripeBegins, StripeAssumed, SP!MapInit, SameLifecycleInit
  <1>2. Shaped /\ [Next]_vars
            => [Stripe!Lifecycle!Next]_(Stripe!Lifecycle!lifecycle)
    BY LifecycleStep
  <1> QED
    BY <1>1, <1>2, ShapedAlways, PTL
       DEF Spec, DrivenLifecycle, Stripe!InvoicesFollowLifecycle,
           Stripe!Lifecycle!Spec
=============================================================================
