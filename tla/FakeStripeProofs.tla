-------------------------- MODULE FakeStripeProofs --------------------------
(***************************************************************************)
(* Theorems about FakeStripe, for every value of its constants.            *)
(***************************************************************************)
EXTENDS FakeStripe, TLAPS

-----------------------------------------------------------------------------
(* Facts about the operators the actions are built from.                   *)

LEMMA FeeIsNat ==
    ASSUME NEW a \in Nat, NEW b \in Nat, NEW e \in Nat
    PROVE  FlatFeeForWindow(a, b, e) \in Nat
  BY FakeStripeAssumption DEF FlatFeeForWindow

LEMMA TruncIsNat ==
    ASSUME NEW t \in Nat
    PROVE  Trunc(t) \in Nat /\ Trunc(t) <= t
  BY FakeStripeAssumption DEF Trunc

LEMMA PeriodIsPositive == Period \in Nat \ {0}
  BY FakeStripeAssumption DEF Period

LEMMA WholeQuotient ==
    ASSUME NEW a \in Nat, NEW b \in Nat, b > 0
    PROVE  /\ a \div b \in Nat
           /\ (a \div b) * b <= a
           /\ a < (a \div b + 1) * b
<1> DEFINE q == a \div b
<1>1. q \in Nat
  OBVIOUS
<1>2. a = b * q + (a % b) /\ a % b \in 0 .. b - 1
  OBVIOUS
<1>3. b * q \in Nat /\ b * q = q * b /\ (q + 1) * b = q * b + b
  <2> HIDE DEF q
  <2> QED BY <1>1
<1> HIDE DEF q
<1>4. q * b <= a /\ a < (q + 1) * b
  BY <1>1, <1>2, <1>3
<1> QED
  BY <1>1, <1>4 DEF q

LEMMA ElapsedIsNat ==
    ASSUME NEW st \in Container, NEW at \in Nat
    PROVE  Elapsed(st, at) \in Nat
<1>1. Period \in Nat /\ Period > 0
  BY PeriodIsPositive
<1>2. CASE at < PeriodEnd(st)
  BY <1>2 DEF Elapsed
<1>3. CASE ~(at < PeriodEnd(st))
  <2>1. at - st.start \in Nat
    BY <1>1, <1>3 DEF PeriodEnd, Container
  <2>2. (at - st.start) \div Period \in Nat
    BY <1>1, <2>1
  <2> QED
    BY <1>3, <2>2 DEF Elapsed
<1> QED
  BY <1>2, <1>3

LEMMA DraftIsBill ==
    ASSUME NEW s \in Nat, NEW st \in Container, NEW start \in Nat,
           NEW end \in Nat, NEW period \in Nat \ {0},
           NEW final \in BOOLEAN, NEW billUsage \in BOOLEAN
    PROVE  OpenDraft(s, st, start, end, period, final, billUsage) \in Bill
<1>1. FlatFeeForWindow(st.flatAt, start, end) \in Nat
  BY FeeIsNat DEF Container
<1>2. FlatLine(st, start, end) + st.proration \in Nat
  BY <1>1 DEF FlatLine, Container
<1> QED
  BY <1>2 DEF OpenDraft, Bill, Container

(* The periods that elapsed fit before the instant they were counted at.   *)
LEMMA ElapsedFits ==
    ASSUME NEW st \in Container, NEW at \in Nat, Elapsed(st, at) > 0
    PROVE  /\ Elapsed(st, at) \in Nat
           /\ st.start + Elapsed(st, at) * Period <= at
           /\ at < st.start + (Elapsed(st, at) + 1) * Period
<1>1. Period \in Nat /\ Period > 0
  BY PeriodIsPositive
<1>2. ~(at < PeriodEnd(st))
  BY DEF Elapsed
<1>3. at - st.start \in Nat
  BY <1>1, <1>2 DEF PeriodEnd, Container
<1> DEFINE lived == at - st.start
           n     == lived \div Period
<1>4. n \in Nat /\ n * Period <= lived /\ lived < (n + 1) * Period
  BY <1>1, <1>3, WholeQuotient
<1>5. Elapsed(st, at) = n
  BY <1>2 DEF Elapsed
<1>6. st.start \in Nat
  BY DEF Container
<1>7. st.start + n * Period <= at /\ at < st.start + (n + 1) * Period
  <2>1. n * Period \in Int /\ (n + 1) * Period \in Int
    BY <1>1, <1>4
  <2> QED BY <2>1, <1>4, <1>6
<1> QED
  BY <1>4, <1>5, <1>7

LEMMA RolledIsContainer ==
    ASSUME NEW st \in Container, NEW n \in Nat
    PROVE  Rolled(st, n) \in Container
<1>1. n * Period \in Nat
  BY PeriodIsPositive
<1>2. st.start + n * Period \in Nat /\ st.period + n \in Nat \ {0}
  BY <1>1 DEF Container
<1>3. st.opened + n \in Nat
  BY DEF Container
<1> QED
  BY <1>2, <1>3 DEF Rolled, Container

LEMMA ElapsedDraftIsBill ==
    ASSUME NEW s \in Nat, NEW st \in Container, NEW k \in Nat
    PROVE  ElapsedDraft(s, st, k) \in Bill
<1> DEFINE start == st.start + k * Period
           end == start + Period
           period == st.period + k
           owing == IF k = 0 THEN st ELSE [st EXCEPT !.proration = 0]
           metered == "usage" \in st.items
<1>1. start \in Nat /\ end \in Nat
  BY PeriodIsPositive DEF Container
<1>2. owing \in Container
  BY DEF Container
<1>3. period \in Nat \ {0} /\ metered \in BOOLEAN
  BY DEF Container
<1>4. ElapsedDraft(s, st, k)
        = OpenDraft(s, owing, start, end, period, FALSE, metered)
  BY DEF ElapsedDraft
<1> HIDE DEF start, end, period, owing, metered
<1>5. FALSE \in BOOLEAN
  OBVIOUS
<1>6. OpenDraft(s, owing, start, end, period, FALSE, metered) \in Bill
  BY <1>1, <1>2, <1>3, <1>5, DraftIsBill, Zenon
<1> QED
  BY <1>4, <1>6

LEMMA WithItemIsContainer ==
    ASSUME NEW st \in Container, NEW t \in ItemTypes, NEW at \in Nat
    PROVE  WithItem(st, t, at) \in Container
<1> DEFINE items == st.items \cup {t}
           addedAt == IF AddsFlatFee(st, t) THEN at ELSE st.flatAt
           late == st.backdated \/ (AddsFlatFee(st, t) /\ at < Trunc(st.flatAt))
<1>1. items \in SUBSET ItemTypes /\ addedAt \in Nat /\ late \in BOOLEAN
  BY DEF Container
<1>2. WithItem(st, t, at)
        = [st EXCEPT !.items = items, !.flatAt = addedAt, !.backdated = late]
  BY DEF WithItem
<1> HIDE DEF items, addedAt, late
<1> QED
  BY <1>1, <1>2 DEF Container

LEMMA WithoutItemIsContainer ==
    ASSUME NEW st \in Container, NEW t \in ItemTypes, NEW at \in Nat
    PROVE  WithoutItem(st, t, at) \in Container
<1>1. FlatFeeForWindow(st.flatAt, st.start, at) \in Nat
  BY FeeIsNat DEF Container
<1>2. st.items \ {t} \in SUBSET ItemTypes
  BY DEF Container
<1>3. (IF t = "flat_fee"
       THEN st.proration + FlatFeeForWindow(st.flatAt, st.start, at)
       ELSE st.proration) \in Nat
  BY <1>1 DEF Container
<1>4. (IF t = "flat_fee" /\ st.flatAt < at THEN at ELSE st.flatAt) \in Nat
  BY DEF Container
<1> QED
  BY <1>2, <1>3, <1>4 DEF WithoutItem, Container

LEMMA WithMetadataIsContainer ==
    ASSUME NEW st \in Container, NEW meta \in Metas \cup {NoMeta}
    PROVE  WithMetadata(st, meta) \in Container
  BY DEF WithMetadata, Container

LEMMA NewContainerIsContainer ==
    ASSUME NEW c \in Customers, NEW meta \in Metas \cup {NoMeta}, NEW at \in Nat
    PROVE  NewContainer(c, meta, at) \in Container
  BY DEF NewContainer, Container

LEMMA AmountDueIsNat ==
    ASSUME NEW d \in Bill
    PROVE  AmountDue(d) \in Nat
<1>1. TotalMicros(d) \in Nat
  <2>1. d.fee \in Nat /\ d.usage \in Nat
    BY DEF Bill
  <2>2. d.fee * FeeMicros \in Nat
    BY <2>1, FakeStripeAssumption
  <2> QED
    BY <2>1, <2>2 DEF TotalMicros
<1>2. MicrosPerCent \in Nat \ {0}
  BY FakeStripeAssumption
<1> QED
  BY <1>1, <1>2 DEF AmountDue

LEMMA SubObjectTyped ==
    ASSUME NEW type \in {"customer.subscription.created",
                         "customer.subscription.updated"},
           NEW s \in Nat, NEW st \in Container
    PROVE  SubObject(type, s, st) \in SubscriptionWebhook
  BY DEF SubObject, SubscriptionWebhook, Container

LEMMA InvoiceCreatedTyped ==
    ASSUME NEW i \in InvoiceIds, NEW d \in Bill
    PROVE  InvoiceCreated(i, d) \in CreatedWebhook
<1>1. Trunc(d.start) \in Nat /\ Trunc(d.end) \in Nat
  BY TruncIsNat DEF Bill
<1> QED
  BY <1>1 DEF InvoiceCreated, CreatedWebhook, Bill

LEMMA InvoiceEventTyped ==
    ASSUME NEW type \in {"invoice.finalized", "invoice.payment_succeeded",
                         "invoice.payment_failed"},
           NEW i \in InvoiceIds, NEW inv \in Finalized
    PROVE  InvoiceEvent(type, i, inv) \in InvoiceWebhook
  BY DEF InvoiceEvent, InvoiceWebhook, Finalized, Bill

LEMMA PutFacts ==
    ASSUME NEW f, NEW k, NEW v
    PROVE  /\ DOMAIN Put(f, k, v) = DOMAIN f \cup {k}
           /\ Put(f, k, v)[k] = v
           /\ \A x \in DOMAIN f : x # k => Put(f, k, v)[x] = f[x]
  BY DEF Put

LEMMA PutTyped ==
    ASSUME NEW f, NEW D, NEW S, NEW k \in D, NEW v \in S,
           DOMAIN f \subseteq D, \A x \in DOMAIN f : f[x] \in S
    PROVE  /\ DOMAIN Put(f, k, v) \subseteq D
           /\ \A x \in DOMAIN Put(f, k, v) : Put(f, k, v)[x] \in S
  BY DEF Put

LEMMA WithoutTyped ==
    ASSUME NEW f, NEW D, NEW S, NEW k,
           DOMAIN f \subseteq D, \A x \in DOMAIN f : f[x] \in S
    PROVE  /\ DOMAIN Without(f, k) \subseteq D
           /\ \A x \in DOMAIN Without(f, k) : Without(f, k)[x] \in S
  BY DEF Without, Restrict

LEMMA WithoutFacts ==
    ASSUME NEW f, NEW k
    PROVE  /\ DOMAIN Without(f, k) = DOMAIN f \ {k}
           /\ \A x \in DOMAIN f : x # k => Without(f, k)[x] = f[x]
  BY DEF Without, Restrict

-----------------------------------------------------------------------------
(* TypeOK is inductive.                                                    *)

LEMMA TypeInit == Init => TypeOK
  BY DEF Init, TypeOK, Absent

LEMMA TypeTick == TypeOK /\ Tick => TypeOK'
  BY DEF TypeOK, Tick

LEMMA TypeScheduler ==
    ASSUME TypeOK, NEW at \in Readings, advancePeriods(at)
    PROVE  TypeOK'
<1> DEFINE ids == UNION {ElapsedIds(s, subs[s], at) : s \in Due(at)}
           New(i) == ElapsedDraft(i[1], subs[i[1]], i[2] - subs[i[1]].opened - 1)
<1>1. at \in Nat
  BY FakeStripeAssumption DEF Readings, TypeOK
<1>2. \A s \in Due(at) : subs[s] \in Container /\ s \in 1 .. created /\ s \in Nat
  BY DEF Due, TypeOK
<1>3. \A s \in Due(at) : Elapsed(subs[s], at) \in Nat
  BY <1>1, <1>2, ElapsedIsNat
<1>4. \A i \in ids : i \in InvoiceIds /\ New(i) \in Bill
  <2> SUFFICES ASSUME NEW i \in ids
               PROVE  i \in InvoiceIds /\ New(i) \in Bill
    OBVIOUS
  <2>1. PICK s \in Due(at) : i \in ElapsedIds(s, subs[s], at)
    OBVIOUS
  <2>2. subs[s].opened \in Nat /\ Elapsed(subs[s], at) \in Nat
    BY <1>2, <1>3 DEF Container
  <2>3. i[1] = s /\ i[2] \in subs[s].opened + 1 .. subs[s].opened + Elapsed(subs[s], at)
        /\ i = <<i[1], i[2]>>
    BY <2>1 DEF ElapsedIds
  <2>4. i[2] \in Nat /\ i[2] - subs[s].opened - 1 \in Nat
    BY <2>2, <2>3
  <2>5. New(i) \in Bill
    BY <1>2, <2>3, <2>4, ElapsedDraftIsBill
  <2> QED
    BY <1>2, <2>3, <2>4, <2>5 DEF InvoiceIds
<1> HIDE DEF ids, New
<1>5. /\ subs' = [s \in DOMAIN subs |->
                    IF s \in Due(at) THEN Rolled(subs[s], Elapsed(subs[s], at))
                                     ELSE subs[s]]
      /\ drafts' = [i \in DOMAIN drafts \cup ids |->
                      IF i \in ids THEN New(i) ELSE drafts[i]]
      /\ fired' = {InvoiceCreated(i, New(i)) : i \in ids}
      /\ UNCHANGED <<now, created, byCustomer, subIdem, invoice, open, listed>>
  BY DEF advancePeriods, ids, New
<1>6. DOMAIN subs' = DOMAIN subs /\ \A s \in DOMAIN subs' : subs'[s] \in Container
  <2>1. \A s \in Due(at) : Rolled(subs[s], Elapsed(subs[s], at)) \in Container
    BY <1>2, <1>3, RolledIsContainer
  <2> QED
    BY <1>5, <2>1 DEF TypeOK
<1>7. DOMAIN drafts' \subseteq InvoiceIds /\ \A i \in DOMAIN drafts' : drafts'[i] \in Bill
  BY <1>4, <1>5 DEF TypeOK
<1>8. fired' \subseteq CreatedWebhook
  BY <1>4, <1>5, InvoiceCreatedTyped
<1> QED
  BY <1>5, <1>6, <1>7, <1>8 DEF TypeOK

LEMMA TypeAddToExisting ==
    ASSUME TypeOK, NEW c \in Customers, NEW t \in ItemTypes,
           NEW k \in Keys \cup {NoKey}, NEW meta \in Metas \cup {NoMeta},
           NEW at \in Readings, AddToExisting(c, t, k, meta, at)
    PROVE  TypeOK'
<1> DEFINE s  == byCustomer[c]
           st == WithItem(WithMetadata(subs[s], meta), t, Trunc(at))
<1>1. at \in Nat /\ Trunc(at) \in Nat
  BY FakeStripeAssumption, TruncIsNat DEF Readings, TypeOK
<1>2. s \in DOMAIN subs /\ subs[s] \in Container /\ s \in Nat /\ s \in 0 .. created
  BY DEF TypeOK, AddToExisting
<1>3. st \in Container
  BY <1>1, <1>2, WithMetadataIsContainer, WithItemIsContainer
<1>4. /\ subs' = Put(subs, s, st)
      /\ subIdem' = IF k = NoKey THEN subIdem ELSE [subIdem EXCEPT ![k] = s]
      /\ fired' = {SubObject("customer.subscription.updated", s, st)}
      /\ UNCHANGED <<now, created, byCustomer, drafts, invoice, open, listed>>
  BY DEF AddToExisting, StoreContainer
<1> HIDE DEF s, st
<1>5. DOMAIN subs' \subseteq 1 .. created /\ \A x \in DOMAIN subs' : subs'[x] \in Container
  <2>1. DOMAIN subs \subseteq 1 .. created /\ s \in 1 .. created
          /\ \A x \in DOMAIN subs : subs[x] \in Container
    BY <1>2 DEF TypeOK
  <2> QED
    BY <2>1, <1>3, <1>4, PutTyped
<1>6. subIdem' \in [Keys -> 0 .. created]
  BY <1>2, <1>4 DEF TypeOK
<1>7. fired' \subseteq SubscriptionWebhook
  BY <1>2, <1>3, <1>4, SubObjectTyped
<1> QED
  BY <1>4, <1>5, <1>6, <1>7 DEF TypeOK

LEMMA TypeAddToNew ==
    ASSUME TypeOK, NEW c \in Customers, NEW t \in ItemTypes,
           NEW k \in Keys \cup {NoKey}, NEW meta \in Metas \cup {NoMeta},
           NEW at \in Readings, AddToNew(c, t, k, meta, at)
    PROVE  TypeOK'
<1> DEFINE s  == created + 1
           st == WithItem(NewContainer(c, meta, Trunc(at)), t, Trunc(at))
<1>1. at \in Nat /\ Trunc(at) \in Nat
  BY FakeStripeAssumption, TruncIsNat DEF Readings, TypeOK
<1>2. st \in Container
  BY <1>1, NewContainerIsContainer, WithItemIsContainer
<1>3. /\ subs' = Put(subs, s, st)
      /\ subIdem' = IF k = NoKey THEN subIdem ELSE [subIdem EXCEPT ![k] = s]
      /\ fired' = {SubObject("customer.subscription.created", s, st)}
      /\ created' = s
      /\ byCustomer' = [byCustomer EXCEPT ![c] = s]
      /\ UNCHANGED <<now, drafts, invoice, open, listed>>
  BY DEF AddToNew, StoreContainer
<1>4. s \in Nat /\ 1 .. created \subseteq 1 .. s /\ 0 .. created \subseteq 0 .. s
        /\ s \in 1 .. s
  BY DEF TypeOK
<1> HIDE DEF s, st
<1>5. DOMAIN subs' \subseteq 1 .. s /\ \A x \in DOMAIN subs' : subs'[x] \in Container
  <2>1. DOMAIN subs \subseteq 1 .. s /\ \A x \in DOMAIN subs : subs[x] \in Container
    BY <1>4 DEF TypeOK
  <2> QED
    BY <2>1, <1>2, <1>3, <1>4, PutTyped
<1>6. subIdem' \in [Keys -> 0 .. s] /\ byCustomer' \in [Customers -> 0 .. s]
  BY <1>3, <1>4 DEF TypeOK
<1>7. fired' \subseteq SubscriptionWebhook
  BY <1>2, <1>3, <1>4, SubObjectTyped
<1> QED
  BY <1>3, <1>4, <1>5, <1>6, <1>7 DEF TypeOK

LEMMA TypeRemove ==
    ASSUME TypeOK, NEW s \in DOMAIN subs, NEW t \in ItemTypes,
           NEW at \in Readings, handleRemoveItem(s, t, at)
    PROVE  TypeOK'
<1> DEFINE st == WithoutItem(subs[s], t, at)
           i  == <<s, st.opened + 1>>
           d  == OpenDraft(s, st, st.start, at, st.period, TRUE, t = "usage")
<1>1. at \in Nat /\ s \in Nat /\ s \in 1 .. created /\ subs[s] \in Container
  BY FakeStripeAssumption DEF Readings, TypeOK
<1>2. st \in Container
  BY <1>1, WithoutItemIsContainer
<1>3. UNCHANGED <<now, created, byCustomer, subIdem, invoice, open, listed>>
  BY DEF handleRemoveItem
<1>4. CASE RemoveOneOfTwo(s, t, at)
  <2>1. /\ subs' = [subs EXCEPT ![s] = st]
        /\ fired' = {SubObject("customer.subscription.updated", s, st)}
        /\ drafts' = drafts
    BY <1>4 DEF RemoveOneOfTwo
  <2> HIDE DEF st
  <2>2. DOMAIN subs' = DOMAIN subs /\ \A x \in DOMAIN subs' : subs'[x] \in Container
    BY <1>2, <2>1 DEF TypeOK
  <2>3. fired' \subseteq SubscriptionWebhook
    BY <1>1, <1>2, <2>1, SubObjectTyped
  <2> QED
    BY <1>3, <2>1, <2>2, <2>3 DEF TypeOK
<1>5. CASE RemoveLast(s, t, at)
  <2>1. /\ subs' = [subs EXCEPT ![s] = [st EXCEPT !.proration = 0, !.opened = @ + 1]]
        /\ drafts' = Put(drafts, i, d)
        /\ fired' = {InvoiceCreated(i, d)}
    BY <1>5 DEF RemoveLast
  <2>2. st.start \in Nat /\ st.period \in Nat \ {0} /\ (t = "usage") \in BOOLEAN
          /\ st.opened + 1 \in Nat
    BY <1>2 DEF Container
  <2>3. d \in Bill
    BY <1>1, <1>2, <2>2, DraftIsBill
  <2>4. i \in InvoiceIds
    BY <1>1, <2>2 DEF InvoiceIds
  <2>5. [st EXCEPT !.proration = 0, !.opened = @ + 1] \in Container
    BY <1>2, <2>2 DEF Container
  <2> HIDE DEF st, i, d
  <2>6. DOMAIN subs' = DOMAIN subs /\ \A x \in DOMAIN subs' : subs'[x] \in Container
    BY <2>1, <2>5 DEF TypeOK
  <2>7. DOMAIN drafts' \subseteq InvoiceIds /\ \A x \in DOMAIN drafts' : drafts'[x] \in Bill
    <3>1. DOMAIN drafts \subseteq InvoiceIds /\ \A x \in DOMAIN drafts : drafts[x] \in Bill
      BY DEF TypeOK
    <3> QED
      BY <2>1, <2>3, <2>4, <3>1, PutTyped
  <2>8. fired' \subseteq CreatedWebhook
    BY <2>1, <2>3, <2>4, InvoiceCreatedTyped
  <2> QED
    BY <1>3, <2>6, <2>7, <2>8 DEF TypeOK
<1> QED
  BY <1>4, <1>5 DEF handleRemoveItem

LEMMA TypeCreateItem ==
    ASSUME TypeOK, NEW i \in DOMAIN drafts, NEW micros \in ItemMicros,
           handleCreateItem(i, micros)
    PROVE  TypeOK'
<1>1. micros \in Nat /\ drafts[i] \in Bill
  BY FakeStripeAssumption DEF TypeOK
<1>2. drafts[i].usage + micros \in Nat
  BY <1>1 DEF Bill
<1>3. drafts' = [drafts EXCEPT ![i] = [drafts[i] EXCEPT !.usage = drafts[i].usage + micros]]
  BY DEF handleCreateItem
<1>4. [drafts[i] EXCEPT !.usage = drafts[i].usage + micros] \in Bill
  BY <1>1, <1>2 DEF Bill
<1>5. DOMAIN drafts' = DOMAIN drafts /\ \A x \in DOMAIN drafts' : drafts'[x] \in Bill
  BY <1>3, <1>4 DEF TypeOK
<1> QED
  BY <1>5 DEF TypeOK, handleCreateItem

LEMMA TypeFinalize ==
    ASSUME TypeOK, NEW i \in DOMAIN drafts, handleFinalizeInvoice(i)
    PROVE  TypeOK'
<1> DEFINE d   == drafts[i]
           inv == [bill |-> d, due |-> AmountDue(d), paid |-> FALSE]
<1>1. d \in Bill /\ i \in InvoiceIds /\ AmountDue(d) \in Nat
  BY AmountDueIsNat DEF TypeOK
<1>2. inv \in Finalized
  BY <1>1 DEF Finalized
<1>3. /\ drafts' = Without(drafts, i)
      /\ invoice' = Put(invoice, i, inv)
      /\ open' = open \cup {i}
      /\ listed' = Shown(i, inv)
      /\ CloseContainer(d)
      /\ fired' = {InvoiceEvent("invoice.finalized", i, inv)}
      /\ UNCHANGED <<now, created, subIdem>>
  BY DEF handleFinalizeInvoice
<1>4. inv.bill = d /\ d.customer \in Customers
  BY <1>1 DEF Bill
<1>5. /\ DOMAIN subs' \subseteq 1 .. created
      /\ \A s \in DOMAIN subs' : subs'[s] \in Container
      /\ byCustomer' \in [Customers -> 0 .. created]
  <2>1. /\ DOMAIN subs \subseteq 1 .. created
        /\ \A s \in DOMAIN subs : subs[s] \in Container
        /\ byCustomer \in [Customers -> 0 .. created]
        /\ Absent \in 0 .. created
    BY DEF TypeOK, Absent
  <2>2. CASE d.final
    <3>1. /\ subs' = Without(subs, d.sub)
          /\ byCustomer' = [byCustomer EXCEPT ![d.customer] = Absent]
      BY <1>3, <2>2 DEF CloseContainer
    <3> HIDE DEF d
    <3>2. byCustomer' \in [Customers -> 0 .. created]
      BY <2>1, <3>1
    <3> QED
      BY <2>1, <3>1, <3>2, WithoutTyped
  <2>3. CASE ~d.final
    BY <1>3, <2>1, <2>3 DEF CloseContainer
  <2> QED
    BY <2>2, <2>3
<1> HIDE DEF d, inv
<1>6. DOMAIN drafts' \subseteq InvoiceIds /\ \A x \in DOMAIN drafts' : drafts'[x] \in Bill
  BY <1>3, WithoutTyped DEF TypeOK
<1>7. DOMAIN invoice' = DOMAIN invoice \cup {i}
  BY <1>3, PutFacts
<1>8. DOMAIN invoice' \subseteq InvoiceIds /\ \A x \in DOMAIN invoice' : invoice'[x] \in Finalized
  <2>1. DOMAIN invoice \subseteq InvoiceIds /\ \A x \in DOMAIN invoice : invoice[x] \in Finalized
    BY DEF TypeOK
  <2> QED
    BY <1>1, <1>2, <1>3, <2>1, PutTyped
<1>9. listed' \in [Customers -> SUBSET DOMAIN invoice']
  <2>1. listed \in [Customers -> SUBSET DOMAIN invoice']
    BY <1>7 DEF TypeOK
  <2>2. i \in DOMAIN invoice'
    BY <1>7
  <2> QED
    BY <1>3, <1>4, <2>1, <2>2 DEF Shown
<1>10. fired' \subseteq InvoiceWebhook
  BY <1>1, <1>2, <1>3, InvoiceEventTyped
<1>11. open' \subseteq DOMAIN invoice'
  BY <1>3, <1>7 DEF TypeOK
<1> QED
  BY <1>3, <1>5, <1>6, <1>8, <1>9, <1>10, <1>11 DEF TypeOK

LEMMA TypePay ==
    ASSUME TypeOK, NEW i \in open, handlePayInvoice(i)
    PROVE  TypeOK'
<1> DEFINE paid == invoice[i].bill.customer \notin Failing
           outcome == IF paid THEN "invoice.payment_succeeded"
                              ELSE "invoice.payment_failed"
<1>1. i \in DOMAIN invoice /\ i \in InvoiceIds /\ invoice[i] \in Finalized
  BY DEF TypeOK
<1>2. paid \in BOOLEAN
        /\ outcome \in {"invoice.finalized", "invoice.payment_succeeded",
                        "invoice.payment_failed"}
  OBVIOUS
<1>3. /\ invoice' = [invoice EXCEPT ![i] = [invoice[i] EXCEPT !.paid = paid]]
      /\ open' = IF paid THEN open \ {i} ELSE open
      /\ fired' = {InvoiceEvent(outcome, i, invoice[i])}
      /\ UNCHANGED <<now, created, subs, byCustomer, subIdem, drafts, listed>>
  BY DEF handlePayInvoice
<1> HIDE DEF paid, outcome
<1>4. [invoice[i] EXCEPT !.paid = paid] \in Finalized
  BY <1>1, <1>2 DEF Finalized
<1>5. DOMAIN invoice' = DOMAIN invoice /\ \A x \in DOMAIN invoice' : invoice'[x] \in Finalized
  BY <1>3, <1>4 DEF TypeOK
<1>6. fired' \subseteq InvoiceWebhook
  BY <1>1, <1>2, <1>3, InvoiceEventTyped
<1>7. open' \subseteq DOMAIN invoice'
  BY <1>3, <1>5 DEF TypeOK
<1> QED
  BY <1>3, <1>5, <1>6, <1>7 DEF TypeOK

LEMMA TypeStep == TypeOK /\ [Next]_vars => TypeOK'
<1> SUFFICES ASSUME TypeOK, [Next]_vars
             PROVE  TypeOK'
  OBVIOUS
<1>1. CASE Tick
  BY <1>1, TypeTick
<1>2. CASE Scheduler
  BY <1>2, TypeScheduler DEF Scheduler
<1>3. CASE SomeCall
  BY <1>3, TypeAddToExisting, TypeAddToNew, TypeRemove, TypeCreateItem,
     TypeFinalize, TypePay
     DEF SomeCall, handleAddItem
<1>4. CASE UNCHANGED vars
  BY <1>4 DEF vars, TypeOK
<1> QED
  BY <1>1, <1>2, <1>3, <1>4 DEF Next

(* Every variable keeps its type, for every customer set, clock precision  *)
(* and period length.                                                      *)
THEOREM TypeCorrect == Spec => []TypeOK
<1>1. Init => TypeOK
  BY TypeInit
<1>2. TypeOK /\ [Next]_vars => TypeOK'
  BY TypeStep
<1> QED
  BY <1>1, <1>2, PTL DEF Spec

-----------------------------------------------------------------------------
(* StripeInv is inductive.  Each action has a lemma that says what it does *)
(* to the invoices and containers, then one that it preserves StripeInv.   *)

(* Opening drafts under new ids leaves every earlier invoice as it was.    *)
LEMMA NewDrafts ==
    ASSUME NEW ids, ids \cap Bills = {}, invoice' = invoice,
           DOMAIN drafts' = DOMAIN drafts \cup ids,
           \A i \in DOMAIN drafts : drafts'[i] = drafts[i]
    PROVE  /\ Bills' = Bills \cup ids
           /\ \A i \in Bills : BillOf(i)' = BillOf(i)
           /\ \A i \in ids : BillOf(i)' = drafts'[i]
  BY DEF Bills, BillOf

LEMMA SameBills ==
    ASSUME drafts' = drafts, invoice' = invoice
    PROVE  Bills' = Bills /\ \A i \in Bills : BillOf(i)' = BillOf(i)
  BY DEF Bills, BillOf

(* What a pass of the scheduler does, container by container and invoice   *)
(* by invoice.                                                             *)
RolledIds(at) == UNION {ElapsedIds(s, subs[s], at) : s \in Due(at)}

LEMMA SchedulerFacts ==
    ASSUME TypeOK, BillsBelong, NEW at \in Readings, advancePeriods(at)
    PROVE  /\ at \in Nat /\ at <= now
           /\ \A s \in Due(at) :
                  /\ s \in DOMAIN subs /\ subs[s] \in Container
                  /\ Elapsed(subs[s], at) \in Nat \ {0}
                  /\ subs'[s] = Rolled(subs[s], Elapsed(subs[s], at))
           /\ DOMAIN subs' = DOMAIN subs
           /\ \A s \in DOMAIN subs \ Due(at) : subs'[s] = subs[s]
           /\ \A i \in RolledIds(at) :
                  /\ i[1] \in Due(at) /\ i = <<i[1], i[2]>>
                  /\ i[2] \in subs[i[1]].opened + 1
                               .. subs[i[1]].opened + Elapsed(subs[i[1]], at)
                  /\ drafts'[i] = ElapsedDraft(i[1], subs[i[1]],
                                               i[2] - subs[i[1]].opened - 1)
           /\ RolledIds(at) \cap Bills = {}
           /\ DOMAIN drafts' = DOMAIN drafts \cup RolledIds(at)
           /\ \A i \in DOMAIN drafts : drafts'[i] = drafts[i]
           /\ UNCHANGED <<now, created, byCustomer, subIdem, invoice, open, listed>>
<1> DEFINE New(i) == ElapsedDraft(i[1], subs[i[1]], i[2] - subs[i[1]].opened - 1)
<1>1. at \in Nat /\ at <= now
  BY FakeStripeAssumption DEF Readings, TypeOK
<1>2. \A s \in Due(at) : s \in DOMAIN subs /\ subs[s] \in Container
  BY DEF Due, TypeOK
<1>3. \A s \in Due(at) : Elapsed(subs[s], at) \in Nat \ {0}
  BY <1>1, <1>2, ElapsedIsNat DEF Due
<1>4. \A i \in RolledIds(at) :
         /\ i[1] \in Due(at) /\ i = <<i[1], i[2]>>
         /\ i[2] \in subs[i[1]].opened + 1
                      .. subs[i[1]].opened + Elapsed(subs[i[1]], at)
  BY DEF RolledIds, ElapsedIds
<1>5. RolledIds(at) \cap Bills = {}
  <2> SUFFICES ASSUME NEW i \in RolledIds(at), i \in Bills
               PROVE  FALSE
    OBVIOUS
  <2>1. i[1] \in DOMAIN subs /\ subs[i[1]].opened \in Nat
          /\ Elapsed(subs[i[1]], at) \in Nat
    BY <1>2, <1>3, <1>4 DEF Container
  <2>2. i[2] \in Int /\ i[2] > subs[i[1]].opened
    BY <2>1, <1>4
  <2>3. i[2] <= subs[i[1]].opened
    BY <2>1 DEF BillsBelong
  <2> QED
    BY <2>1, <2>2, <2>3
<1>6. /\ subs' = [s \in DOMAIN subs |->
                    IF s \in Due(at) THEN Rolled(subs[s], Elapsed(subs[s], at))
                                     ELSE subs[s]]
      /\ drafts' = [i \in DOMAIN drafts \cup RolledIds(at) |->
                      IF i \in RolledIds(at) THEN New(i) ELSE drafts[i]]
      /\ UNCHANGED <<now, created, byCustomer, subIdem, invoice, open, listed>>
  BY DEF advancePeriods, RolledIds
<1>7. \A i \in DOMAIN drafts : i \notin RolledIds(at)
  BY <1>5 DEF Bills
<1> HIDE DEF New
<1>8. /\ DOMAIN drafts' = DOMAIN drafts \cup RolledIds(at)
      /\ \A i \in RolledIds(at) : drafts'[i] = New(i)
      /\ \A i \in DOMAIN drafts : drafts'[i] = drafts[i]
  BY <1>6, <1>7
<1>9. /\ DOMAIN subs' = DOMAIN subs
      /\ \A s \in Due(at) : subs'[s] = Rolled(subs[s], Elapsed(subs[s], at))
      /\ \A s \in DOMAIN subs \ Due(at) : subs'[s] = subs[s]
  BY <1>2, <1>6
<1> QED
  BY <1>1, <1>2, <1>3, <1>4, <1>5, <1>6, <1>8, <1>9 DEF New

LEMMA RolledKeeps ==
    ASSUME NEW st \in Container, NEW n \in Nat
    PROVE  /\ Rolled(st, n).customer = st.customer
           /\ Rolled(st, n).items = st.items
           /\ Rolled(st, n).start = st.start + n * Period
           /\ Rolled(st, n).period = st.period + n
           /\ Rolled(st, n).opened = st.opened + n
<1>1. n * Period \in Nat
  BY PeriodIsPositive
<1> QED
  BY <1>1 DEF Rolled, Container

LEMMA ElapsedDraftFields ==
    ASSUME NEW s \in Nat, NEW st \in Container, NEW k \in Nat
    PROVE  /\ ElapsedDraft(s, st, k).sub = s
           /\ ElapsedDraft(s, st, k).customer = st.customer
           /\ ~ElapsedDraft(s, st, k).final
           /\ ElapsedDraft(s, st, k).period = st.period + k
           /\ ElapsedDraft(s, st, k).start = st.start + k * Period
           /\ ElapsedDraft(s, st, k).end = st.start + k * Period + Period
<1> DEFINE owing == IF k = 0 THEN st ELSE [st EXCEPT !.proration = 0]
<1>1. owing.customer = st.customer
  BY DEF Container
<1> HIDE DEF owing
<1>2. ElapsedDraft(s, st, k)
        = OpenDraft(s, owing, st.start + k * Period, st.start + k * Period + Period,
                    st.period + k, FALSE, "usage" \in st.items)
  BY DEF ElapsedDraft, owing
<1> QED
  BY <1>1, <1>2 DEF OpenDraft

LEMMA InvScheduler ==
    ASSUME StripeInv, NEW at \in Readings, advancePeriods(at)
    PROVE  StripeInv'
<1>a. TypeOK /\ BillsBelong /\ FinalizedOnce /\ EmptyContainerAwaitsFinal
        /\ IndexLeadsHome
  BY DEF StripeInv
<1>b. \A s \in Due(at) : /\ s \in DOMAIN subs /\ subs[s] \in Container
                        /\ Elapsed(subs[s], at) \in Nat \ {0}
                        /\ subs'[s] = Rolled(subs[s], Elapsed(subs[s], at))
  BY <1>a, SchedulerFacts
<1>c. DOMAIN subs' = DOMAIN subs /\ \A s \in DOMAIN subs \ Due(at) : subs'[s] = subs[s]
  BY <1>a, SchedulerFacts
<1>d. /\ RolledIds(at) \cap Bills = {}
      /\ DOMAIN drafts' = DOMAIN drafts \cup RolledIds(at)
      /\ \A i \in DOMAIN drafts : drafts'[i] = drafts[i]
  BY <1>a, SchedulerFacts
<1>e. UNCHANGED <<now, created, byCustomer, subIdem, invoice, open, listed>>
  BY <1>a, SchedulerFacts
<1>1. TypeOK'
  BY <1>a, TypeScheduler
<1>2. /\ Bills' = Bills \cup RolledIds(at)
      /\ \A i \in Bills : BillOf(i)' = BillOf(i)
      /\ \A i \in RolledIds(at) : BillOf(i)' = drafts'[i]
  BY <1>d, <1>e, NewDrafts
<1>3. \A s \in DOMAIN subs : /\ s \in DOMAIN subs'
                            /\ subs'[s].customer = subs[s].customer
                            /\ subs'[s].items = subs[s].items
                            /\ subs[s].opened \in Nat /\ subs'[s].opened \in Nat
                            /\ subs[s].opened <= subs'[s].opened
  <2> SUFFICES ASSUME NEW s \in DOMAIN subs
               PROVE  /\ s \in DOMAIN subs'
                      /\ subs'[s].customer = subs[s].customer
                      /\ subs'[s].items = subs[s].items
                      /\ subs[s].opened \in Nat /\ subs'[s].opened \in Nat
                      /\ subs[s].opened <= subs'[s].opened
    OBVIOUS
  <2>1. subs[s] \in Container /\ subs[s].opened \in Nat
    BY <1>a DEF TypeOK, Container
  <2>2. CASE s \in Due(at)
    <3> DEFINE n == Elapsed(subs[s], at)
    <3>1. n \in Nat /\ subs'[s] = Rolled(subs[s], n)
      BY <1>b, <2>2
    <3> HIDE DEF n
    <3>2. /\ subs'[s].customer = subs[s].customer
          /\ subs'[s].items = subs[s].items
          /\ subs'[s].opened = subs[s].opened + n
      BY <2>1, <3>1, RolledKeeps
    <3> QED
      BY <1>c, <2>1, <3>1, <3>2
  <2>3. CASE s \notin Due(at)
    BY <2>1, <2>3, <1>c
  <2> QED
    BY <2>2, <2>3
<1>4. BillsBelong'
  <2> SUFFICES ASSUME NEW i \in Bills'
               PROVE  /\ BillOf(i)'.sub = i[1]
                      /\ i[1] \in 1 .. created
                      /\ i[1] \in DOMAIN subs =>
                             /\ i[2] <= subs'[i[1]].opened
                             /\ BillOf(i)'.customer = subs'[i[1]].customer
    BY <1>c, <1>e DEF BillsBelong
  <2>1. CASE i \in Bills
    <3>1. i \in InvoiceIds /\ i[2] \in Nat
      BY <1>a, <2>1 DEF TypeOK, Bills, InvoiceIds
    <3>2. /\ BillOf(i).sub = i[1]
          /\ i[1] \in 1 .. created
          /\ i[1] \in DOMAIN subs => /\ i[2] <= subs[i[1]].opened
                                    /\ BillOf(i).customer = subs[i[1]].customer
      BY <1>a, <2>1 DEF BillsBelong
    <3>3. BillOf(i)' = BillOf(i)
      BY <1>2, <2>1
    <3>4. i[1] \in DOMAIN subs => i[2] <= subs'[i[1]].opened
      BY <1>3, <3>1, <3>2
    <3> QED
      BY <1>3, <3>2, <3>3, <3>4
  <2>2. CASE i \in RolledIds(at)
    <3> DEFINE s == i[1]
               n == Elapsed(subs[s], at)
               k == i[2] - subs[s].opened - 1
    <3>0. drafts'[i] = ElapsedDraft(s, subs[s], k) /\ s \in Due(at)
            /\ i[2] \in subs[s].opened + 1 .. subs[s].opened + n
      BY <1>a, <2>2, SchedulerFacts
    <3>1. /\ s \in Due(at) /\ s \in DOMAIN subs /\ subs[s] \in Container
          /\ n \in Nat /\ i[2] \in subs[s].opened + 1 .. subs[s].opened + n
          /\ BillOf(i)' = ElapsedDraft(s, subs[s], k)
          /\ subs'[s] = Rolled(subs[s], n)
      BY <1>2, <1>b, <2>2, <3>0
    <3>2. s \in 1 .. created /\ s \in Nat /\ subs[s].opened \in Nat
      BY <1>a, <3>1 DEF TypeOK, Container
    <3>3. k \in Nat /\ i[2] <= subs[s].opened + n
      BY <3>1, <3>2
    <3> HIDE DEF k, n, s
    <3>4. BillOf(i)'.sub = s /\ BillOf(i)'.customer = subs[s].customer
      BY <3>1, <3>2, <3>3, ElapsedDraftFields
    <3>5. subs'[s].opened = subs[s].opened + n /\ subs'[s].customer = subs[s].customer
      BY <3>1, RolledKeeps
    <3> QED
      BY <3>2, <3>3, <3>4, <3>5 DEF s
  <2> QED
    BY <1>2, <2>1, <2>2
<1>5. FinalizedOnce'
  BY <1>a, <1>d, <1>e DEF FinalizedOnce, Bills
<1>6. EmptyContainerAwaitsFinal'
  <2> SUFFICES ASSUME NEW s \in DOMAIN subs, subs[s].items = {}
               PROVE  \E i \in DOMAIN drafts' : drafts'[i].sub = s /\ drafts'[i].final
    BY <1>3, <1>c DEF EmptyContainerAwaitsFinal
  <2>1. PICK i \in DOMAIN drafts : drafts[i].sub = s /\ drafts[i].final
    BY <1>a DEF EmptyContainerAwaitsFinal
  <2> QED
    BY <1>d, <2>1
<1>7. IndexLeadsHome'
  BY <1>3, <1>a, <1>c, <1>e DEF IndexLeadsHome
<1> QED
  BY <1>1, <1>4, <1>5, <1>6, <1>7 DEF StripeInv

LEMMA WithItemKeeps ==
    ASSUME NEW st \in Container, NEW t \in ItemTypes, NEW at
    PROVE  /\ WithItem(st, t, at).customer = st.customer
           /\ WithItem(st, t, at).opened = st.opened
           /\ WithItem(st, t, at).start = st.start
           /\ WithItem(st, t, at).period = st.period
           /\ WithItem(st, t, at).items = st.items \cup {t}
  BY DEF WithItem, Container

LEMMA WithMetadataKeeps ==
    ASSUME NEW st \in Container, NEW meta
    PROVE  /\ WithMetadata(st, meta).customer = st.customer
           /\ WithMetadata(st, meta).items = st.items
           /\ WithMetadata(st, meta).opened = st.opened
           /\ WithMetadata(st, meta).start = st.start
           /\ WithMetadata(st, meta).period = st.period
  BY DEF WithMetadata, Container

(* Adding an item keeps every container's number of invoices, customer and *)
(* billing period, and never leaves the container it touches empty.        *)
LEMMA AddToExistingFacts ==
    ASSUME TypeOK, NEW c \in Customers, NEW t \in ItemTypes,
           NEW k \in Keys \cup {NoKey}, NEW meta \in Metas \cup {NoMeta},
           NEW at \in Readings, AddToExisting(c, t, k, meta, at)
    PROVE  /\ DOMAIN subs' = DOMAIN subs
           /\ \A s \in DOMAIN subs : /\ subs'[s].customer = subs[s].customer
                                    /\ subs'[s].opened = subs[s].opened
                                    /\ subs'[s].start = subs[s].start
                                    /\ subs'[s].period = subs[s].period
                                    /\ subs[s].items \subseteq subs'[s].items
           /\ UNCHANGED <<now, created, byCustomer, drafts, invoice, open, listed>>
<1> DEFINE h  == byCustomer[c]
           tagged == WithMetadata(subs[h], meta)
           st == WithItem(tagged, t, Trunc(at))
<1>1. h \in DOMAIN subs /\ subs[h] \in Container
  BY DEF TypeOK, AddToExisting
<1>2. tagged \in Container
  BY <1>1, WithMetadataIsContainer
<1>3. /\ subs' = Put(subs, h, st)
      /\ UNCHANGED <<now, created, byCustomer, drafts, invoice, open, listed>>
  BY DEF AddToExisting, StoreContainer
<1>4. /\ st.customer = subs[h].customer /\ st.opened = subs[h].opened
      /\ st.start = subs[h].start /\ st.period = subs[h].period
      /\ st.items = subs[h].items \cup {t}
  <2> HIDE DEF h
  <2>1. /\ tagged.customer = subs[h].customer /\ tagged.opened = subs[h].opened
        /\ tagged.start = subs[h].start /\ tagged.period = subs[h].period
        /\ tagged.items = subs[h].items
    BY <1>1, WithMetadataKeeps
  <2> HIDE DEF tagged
  <2> QED
    BY <1>2, <2>1, WithItemKeeps
<1> HIDE DEF h, st
<1>5. DOMAIN subs' = DOMAIN subs /\ subs'[h] = st
        /\ \A s \in DOMAIN subs : s # h => subs'[s] = subs[s]
  BY <1>1, <1>3 DEF Put
<1> QED
  BY <1>3, <1>4, <1>5

LEMMA AddToNewFacts ==
    ASSUME TypeOK, NEW c \in Customers, NEW t \in ItemTypes,
           NEW k \in Keys \cup {NoKey}, NEW meta \in Metas \cup {NoMeta},
           NEW at \in Readings, AddToNew(c, t, k, meta, at)
    PROVE  /\ created' = created + 1
           /\ created + 1 \notin DOMAIN subs
           /\ DOMAIN subs' = DOMAIN subs \cup {created + 1}
           /\ \A s \in DOMAIN subs : subs'[s] = subs[s]
           /\ subs'[created + 1].customer = c
           /\ subs'[created + 1].items # {}
           /\ subs'[created + 1].period = 1
           /\ byCustomer' = [byCustomer EXCEPT ![c] = created + 1]
           /\ UNCHANGED <<now, drafts, invoice, open, listed>>
<1> DEFINE s  == created + 1
           new == NewContainer(c, meta, Trunc(at))
           st == WithItem(new, t, Trunc(at))
<1>1. Trunc(at) \in Nat
  BY FakeStripeAssumption, TruncIsNat DEF Readings, TypeOK
<1>2. new \in Container /\ new.customer = c /\ new.period = 1
  BY <1>1, NewContainerIsContainer DEF NewContainer
<1>3. /\ subs' = Put(subs, s, st)
      /\ created' = s
      /\ byCustomer' = [byCustomer EXCEPT ![c] = s]
      /\ UNCHANGED <<now, drafts, invoice, open, listed>>
  BY DEF AddToNew, StoreContainer
<1>4. s \notin DOMAIN subs
  BY DEF TypeOK
<1> HIDE DEF new
<1>5. st.customer = c /\ st.items # {} /\ st.period = 1
  BY <1>2, WithItemKeeps
<1> HIDE DEF st
<1>6. /\ DOMAIN subs' = DOMAIN subs \cup {s} /\ subs'[s] = st
      /\ \A x \in DOMAIN subs : subs'[x] = subs[x]
  BY <1>3, <1>4 DEF Put
<1> QED
  BY <1>3, <1>4, <1>5, <1>6

LEMMA InvAddToExisting ==
    ASSUME StripeInv, NEW c \in Customers, NEW t \in ItemTypes,
           NEW k \in Keys \cup {NoKey}, NEW meta \in Metas \cup {NoMeta},
           NEW at \in Readings, AddToExisting(c, t, k, meta, at)
    PROVE  StripeInv'
<1>a. TypeOK /\ BillsBelong /\ FinalizedOnce /\ EmptyContainerAwaitsFinal
        /\ IndexLeadsHome
  BY DEF StripeInv
<1>b. /\ DOMAIN subs' = DOMAIN subs
      /\ \A s \in DOMAIN subs : /\ subs'[s].customer = subs[s].customer
                               /\ subs'[s].opened = subs[s].opened
                               /\ subs[s].items \subseteq subs'[s].items
      /\ UNCHANGED <<created, byCustomer, drafts, invoice, open>>
  BY <1>a, AddToExistingFacts
<1>1. TypeOK'
  BY <1>a, TypeAddToExisting
<1>2. Bills' = Bills /\ \A i \in Bills : BillOf(i)' = BillOf(i)
  BY <1>b, SameBills
<1>3. BillsBelong'
  BY <1>a, <1>b, <1>2 DEF BillsBelong
<1>4. FinalizedOnce'
  BY <1>a, <1>b DEF FinalizedOnce
<1>5. EmptyContainerAwaitsFinal'
  BY <1>a, <1>b DEF EmptyContainerAwaitsFinal
<1>6. IndexLeadsHome'
  BY <1>a, <1>b DEF IndexLeadsHome
<1> QED
  BY <1>1, <1>3, <1>4, <1>5, <1>6 DEF StripeInv

LEMMA InvAddToNew ==
    ASSUME StripeInv, NEW c \in Customers, NEW t \in ItemTypes,
           NEW k \in Keys \cup {NoKey}, NEW meta \in Metas \cup {NoMeta},
           NEW at \in Readings, AddToNew(c, t, k, meta, at)
    PROVE  StripeInv'
<1>a. TypeOK /\ BillsBelong /\ FinalizedOnce /\ EmptyContainerAwaitsFinal
        /\ IndexLeadsHome
  BY DEF StripeInv
<1>b. /\ created' = created + 1
      /\ DOMAIN subs' = DOMAIN subs \cup {created + 1}
      /\ \A s \in DOMAIN subs : subs'[s] = subs[s]
      /\ subs'[created + 1].customer = c
      /\ subs'[created + 1].items # {}
      /\ byCustomer' = [byCustomer EXCEPT ![c] = created + 1]
      /\ UNCHANGED <<drafts, invoice, open>>
  BY <1>a, AddToNewFacts
<1>c. created \in Nat /\ byCustomer \in [Customers -> 0 .. created]
  BY <1>a DEF TypeOK
<1>1. TypeOK'
  BY <1>a, TypeAddToNew
<1>2. Bills' = Bills /\ \A i \in Bills : BillOf(i)' = BillOf(i)
  BY <1>b, SameBills
<1>3. BillsBelong'
  <2>1. \A i \in Bills : i[1] \in 1 .. created /\ i[1] # created + 1
    BY <1>a, <1>c DEF BillsBelong
  <2> QED
    BY <1>a, <1>b, <1>c, <1>2, <2>1 DEF BillsBelong
<1>4. FinalizedOnce'
  BY <1>a, <1>b DEF FinalizedOnce
<1>5. EmptyContainerAwaitsFinal'
  BY <1>a, <1>b DEF EmptyContainerAwaitsFinal
<1>6. IndexLeadsHome'
  BY <1>a, <1>b, <1>c DEF IndexLeadsHome
<1> QED
  BY <1>1, <1>3, <1>4, <1>5, <1>6 DEF StripeInv

LEMMA WithoutItemKeeps ==
    ASSUME NEW st \in Container, NEW t \in ItemTypes, NEW at \in Nat
    PROVE  /\ WithoutItem(st, t, at).customer = st.customer
           /\ WithoutItem(st, t, at).opened = st.opened
           /\ WithoutItem(st, t, at).start = st.start
           /\ WithoutItem(st, t, at).period = st.period
  BY DEF WithoutItem, Container

(* Removing an item touches one container and keeps its period; removing   *)
(* the last one opens one draft, final and under a new id.                 *)
LEMMA RemoveFacts ==
    ASSUME TypeOK, BillsBelong, NEW s \in DOMAIN subs, NEW t \in ItemTypes,
           NEW at \in Readings, handleRemoveItem(s, t, at)
    PROVE  /\ DOMAIN subs' = DOMAIN subs
           /\ \A x \in DOMAIN subs : /\ subs'[x].customer = subs[x].customer
                                    /\ subs'[x].start = subs[x].start
                                    /\ subs'[x].period = subs[x].period
           /\ \A x \in DOMAIN subs \ {s} : subs'[x] = subs[x]
           /\ \/ /\ drafts' = drafts
                 /\ subs'[s].opened = subs[s].opened
                 /\ subs'[s].items # {}
              \/ \E i \in InvoiceIds :
                    /\ i = <<s, subs[s].opened + 1>>
                    /\ i[1] = s /\ i[2] = subs[s].opened + 1
                    /\ i \notin Bills
                    /\ DOMAIN drafts' = DOMAIN drafts \cup {i}
                    /\ \A j \in DOMAIN drafts : drafts'[j] = drafts[j]
                    /\ drafts'[i].sub = s
                    /\ drafts'[i].final
                    /\ drafts'[i].customer = subs[s].customer
                    /\ drafts'[i].start = subs[s].start
                    /\ drafts'[i].period = subs[s].period
                    /\ subs'[s].opened = subs[s].opened + 1
           /\ UNCHANGED <<now, created, byCustomer, subIdem, invoice, open, listed>>
<1> DEFINE st == WithoutItem(subs[s], t, at)
           i  == <<s, st.opened + 1>>
           d  == OpenDraft(s, st, st.start, at, st.period, TRUE, t = "usage")
<1>1. at \in Nat /\ s \in Nat /\ subs[s] \in Container
  BY FakeStripeAssumption DEF Readings, TypeOK
<1>2. st \in Container /\ st.customer = subs[s].customer /\ st.opened = subs[s].opened
        /\ st.start = subs[s].start /\ st.period = subs[s].period
        /\ st.opened \in Nat
  <2>1. st \in Container
    BY <1>1, WithoutItemIsContainer
  <2>2. st.opened \in Nat
    BY <2>1 DEF Container
  <2> QED
    BY <1>1, <2>1, <2>2, WithoutItemKeeps
<1>3. UNCHANGED <<now, created, byCustomer, subIdem, invoice, open, listed>>
  BY DEF handleRemoveItem
<1>4. CASE RemoveOneOfTwo(s, t, at)
  <2>1. subs' = [subs EXCEPT ![s] = st] /\ drafts' = drafts /\ st.items # {}
    BY <1>4 DEF RemoveOneOfTwo
  <2> HIDE DEF st, i, d
  <2>2. DOMAIN subs' = DOMAIN subs /\ subs'[s] = st
          /\ \A x \in DOMAIN subs \ {s} : subs'[x] = subs[x]
    BY <2>1
  <2> QED
    BY <1>2, <1>3, <2>1, <2>2
<1>5. CASE RemoveLast(s, t, at)
  <2> DEFINE ended == [st EXCEPT !.proration = 0, !.opened = @ + 1]
  <2>1. subs' = [subs EXCEPT ![s] = ended] /\ drafts' = Put(drafts, i, d)
    BY <1>5 DEF RemoveLast
  <2>2. /\ d.sub = s /\ d.final /\ d.customer = st.customer
        /\ d.start = st.start /\ d.period = st.period
    BY DEF OpenDraft
  <2> HIDE DEF st, d
  <2>3. ended.customer = st.customer /\ ended.start = st.start
          /\ ended.period = st.period /\ ended.opened = st.opened + 1
    BY <1>2 DEF Container
  <2> HIDE DEF ended
  <2>4. DOMAIN subs' = DOMAIN subs /\ subs'[s] = ended
          /\ \A x \in DOMAIN subs \ {s} : subs'[x] = subs[x]
    BY <2>1
  <2>5. i \in InvoiceIds /\ i = <<s, subs[s].opened + 1>>
          /\ i[1] = s /\ i[2] = subs[s].opened + 1
    BY <1>1, <1>2 DEF InvoiceIds
  <2>6. i \notin Bills
    BY <1>1, <1>2, <2>5 DEF BillsBelong
  <2>7. \A j \in DOMAIN drafts : j # i
    BY <2>6 DEF Bills
  <2> HIDE DEF i
  <2>8. DOMAIN drafts' = DOMAIN drafts \cup {i} /\ drafts'[i] = d
          /\ \A j \in DOMAIN drafts : drafts'[j] = drafts[j]
    BY <2>1, <2>7 DEF Put
  <2>9. \A x \in DOMAIN subs : /\ subs'[x].customer = subs[x].customer
                              /\ subs'[x].start = subs[x].start
                              /\ subs'[x].period = subs[x].period
    BY <1>2, <2>3, <2>4
  <2> QED
    BY <1>2, <1>3, <2>2, <2>3, <2>4, <2>5, <2>6, <2>8, <2>9
<1> QED
  BY <1>4, <1>5 DEF handleRemoveItem

LEMMA InvRemove ==
    ASSUME StripeInv, NEW s \in DOMAIN subs, NEW t \in ItemTypes,
           NEW at \in Readings, handleRemoveItem(s, t, at)
    PROVE  StripeInv'
<1>a. TypeOK /\ BillsBelong /\ FinalizedOnce /\ EmptyContainerAwaitsFinal
        /\ IndexLeadsHome
  BY DEF StripeInv
<1>b. /\ DOMAIN subs' = DOMAIN subs
      /\ \A x \in DOMAIN subs : subs'[x].customer = subs[x].customer
      /\ \A x \in DOMAIN subs \ {s} : subs'[x] = subs[x]
      /\ UNCHANGED <<now, created, byCustomer, subIdem, invoice, open, listed>>
  BY <1>a, RemoveFacts
<1>c. \A x \in DOMAIN subs : subs[x].opened \in Nat
  BY <1>a DEF TypeOK, Container
<1>1. TypeOK'
  BY <1>a, TypeRemove
<1>2. IndexLeadsHome'
  BY <1>a, <1>b DEF IndexLeadsHome
<1>3. CASE /\ drafts' = drafts
           /\ subs'[s].opened = subs[s].opened
           /\ subs'[s].items # {}
  <2>1. Bills' = Bills /\ \A i \in Bills : BillOf(i)' = BillOf(i)
    BY <1>b, <1>3, SameBills
  <2>2. \A x \in DOMAIN subs : subs'[x].opened = subs[x].opened
    BY <1>b, <1>3
  <2>3. BillsBelong'
    BY <1>a, <1>b, <2>1, <2>2 DEF BillsBelong
  <2>4. FinalizedOnce'
    BY <1>a, <1>b, <1>3 DEF FinalizedOnce
  <2>5. EmptyContainerAwaitsFinal'
    BY <1>a, <1>b, <1>3 DEF EmptyContainerAwaitsFinal
  <2> QED
    BY <1>1, <1>2, <2>3, <2>4, <2>5 DEF StripeInv
<1>4. CASE \E i \in InvoiceIds :
              /\ i = <<s, subs[s].opened + 1>>
              /\ i[1] = s /\ i[2] = subs[s].opened + 1
              /\ i \notin Bills
              /\ DOMAIN drafts' = DOMAIN drafts \cup {i}
              /\ \A j \in DOMAIN drafts : drafts'[j] = drafts[j]
              /\ drafts'[i].sub = s
              /\ drafts'[i].final
              /\ drafts'[i].customer = subs[s].customer
              /\ subs'[s].opened = subs[s].opened + 1
  <2>1. PICK i \in InvoiceIds :
              /\ i[1] = s /\ i[2] = subs[s].opened + 1
              /\ i \notin Bills
              /\ DOMAIN drafts' = DOMAIN drafts \cup {i}
              /\ \A j \in DOMAIN drafts : drafts'[j] = drafts[j]
              /\ drafts'[i].sub = s
              /\ drafts'[i].final
              /\ drafts'[i].customer = subs[s].customer
              /\ subs'[s].opened = subs[s].opened + 1
    BY <1>4
  <2>2. /\ Bills' = Bills \cup {i}
        /\ \A j \in Bills : BillOf(j)' = BillOf(j)
        /\ BillOf(i)' = drafts'[i]
    <3>1. {i} \cap Bills = {} /\ invoice' = invoice
      BY <1>b, <2>1
    <3>2. DOMAIN drafts' = DOMAIN drafts \cup {i}
            /\ \A j \in DOMAIN drafts : drafts'[j] = drafts[j]
      BY <2>1
    <3> QED
      BY <3>1, <3>2, NewDrafts
  <2>3. BillsBelong'
    <3> SUFFICES ASSUME NEW j \in Bills'
                 PROVE  /\ BillOf(j)'.sub = j[1]
                        /\ j[1] \in 1 .. created
                        /\ j[1] \in DOMAIN subs =>
                               /\ j[2] <= subs'[j[1]].opened
                               /\ BillOf(j)'.customer = subs'[j[1]].customer
      BY <1>b DEF BillsBelong
    <3>1. CASE j = i
      <4>1. s \in 1 .. created
        BY <1>a DEF TypeOK
      <4> QED
        BY <1>b, <1>c, <2>1, <2>2, <3>1, <4>1
    <3>2. CASE j \in Bills
      <4>1. /\ BillOf(j).sub = j[1]
            /\ j[1] \in 1 .. created
            /\ j[1] \in DOMAIN subs => /\ j[2] <= subs[j[1]].opened
                                      /\ BillOf(j).customer = subs[j[1]].customer
        BY <1>a, <3>2 DEF BillsBelong
      <4>2. j[2] \in Nat
        BY <1>a, <3>2 DEF TypeOK, Bills, InvoiceIds
      <4>3. j[1] \in DOMAIN subs => j[2] <= subs'[j[1]].opened
        BY <1>b, <1>c, <2>1, <4>1, <4>2
      <4> QED
        BY <1>b, <2>2, <3>2, <4>1, <4>3
    <3> QED
      BY <2>2, <3>1, <3>2
  <2>4. FinalizedOnce'
    BY <1>a, <1>b, <2>1 DEF FinalizedOnce, Bills
  <2>5. EmptyContainerAwaitsFinal'
    <3> SUFFICES ASSUME NEW x \in DOMAIN subs, subs'[x].items = {}
                 PROVE  \E j \in DOMAIN drafts' : drafts'[j].sub = x /\ drafts'[j].final
      BY <1>b DEF EmptyContainerAwaitsFinal
    <3>1. CASE x = s
      BY <2>1, <3>1
    <3>2. CASE x # s
      <4>1. PICK j \in DOMAIN drafts : drafts[j].sub = x /\ drafts[j].final
        BY <1>a, <1>b, <3>2 DEF EmptyContainerAwaitsFinal
      <4> QED
        BY <2>1, <4>1
    <3> QED
      BY <3>1, <3>2
  <2> QED
    BY <1>1, <1>2, <2>3, <2>4, <2>5 DEF StripeInv
<1> QED
  BY <1>a, <1>3, <1>4, RemoveFacts

(* Attaching usage to a draft changes none of the fields it is found by.   *)
LEMMA CreateItemFacts ==
    ASSUME TypeOK, NEW i \in DOMAIN drafts, NEW micros \in ItemMicros,
           handleCreateItem(i, micros)
    PROVE  /\ DOMAIN drafts' = DOMAIN drafts
           /\ \A j \in DOMAIN drafts : /\ drafts'[j].sub = drafts[j].sub
                                      /\ drafts'[j].customer = drafts[j].customer
                                      /\ drafts'[j].final = drafts[j].final
                                      /\ drafts'[j].period = drafts[j].period
                                      /\ drafts'[j].start = drafts[j].start
                                      /\ drafts'[j].end = drafts[j].end
           /\ Bills' = Bills
           /\ \A j \in Bills : /\ BillOf(j)'.sub = BillOf(j).sub
                              /\ BillOf(j)'.customer = BillOf(j).customer
                              /\ BillOf(j)'.final = BillOf(j).final
                              /\ BillOf(j)'.period = BillOf(j).period
                              /\ BillOf(j)'.start = BillOf(j).start
                              /\ BillOf(j)'.end = BillOf(j).end
           /\ UNCHANGED <<now, created, subs, byCustomer, subIdem, invoice, open, listed>>
<1> DEFINE d == [drafts[i] EXCEPT !.usage = @ + micros]
<1>1. drafts' = [drafts EXCEPT ![i] = d]
        /\ UNCHANGED <<now, created, subs, byCustomer, subIdem, invoice, open, listed>>
  BY DEF handleCreateItem
<1>2. drafts[i] \in Bill
  BY DEF TypeOK
<1>3. /\ d.sub = drafts[i].sub /\ d.customer = drafts[i].customer
      /\ d.final = drafts[i].final /\ d.period = drafts[i].period
      /\ d.start = drafts[i].start /\ d.end = drafts[i].end
  BY <1>2 DEF Bill
<1> HIDE DEF d
<1>4. DOMAIN drafts' = DOMAIN drafts
  BY <1>1
<1>5. \A j \in DOMAIN drafts : /\ drafts'[j].sub = drafts[j].sub
                              /\ drafts'[j].customer = drafts[j].customer
                              /\ drafts'[j].final = drafts[j].final
                              /\ drafts'[j].period = drafts[j].period
                              /\ drafts'[j].start = drafts[j].start
                              /\ drafts'[j].end = drafts[j].end
  BY <1>1, <1>3
<1> QED
  BY <1>1, <1>4, <1>5 DEF Bills, BillOf

LEMMA InvCreateItem ==
    ASSUME StripeInv, NEW i \in DOMAIN drafts, NEW micros \in ItemMicros,
           handleCreateItem(i, micros)
    PROVE  StripeInv'
<1>a. TypeOK /\ BillsBelong /\ FinalizedOnce /\ EmptyContainerAwaitsFinal
        /\ IndexLeadsHome
  BY DEF StripeInv
<1>b. /\ DOMAIN drafts' = DOMAIN drafts
      /\ \A j \in DOMAIN drafts : /\ drafts'[j].sub = drafts[j].sub
                                 /\ drafts'[j].final = drafts[j].final
      /\ Bills' = Bills
      /\ \A j \in Bills : /\ BillOf(j)'.sub = BillOf(j).sub
                         /\ BillOf(j)'.customer = BillOf(j).customer
      /\ UNCHANGED <<now, created, subs, byCustomer, subIdem, invoice, open, listed>>
  BY <1>a, CreateItemFacts
<1>1. TypeOK'
  BY <1>a, TypeCreateItem
<1>2. BillsBelong'
  BY <1>a, <1>b DEF BillsBelong
<1>3. FinalizedOnce'
  BY <1>a, <1>b DEF FinalizedOnce
<1>4. EmptyContainerAwaitsFinal'
  BY <1>a, <1>b DEF EmptyContainerAwaitsFinal
<1>5. IndexLeadsHome'
  BY <1>a, <1>b DEF IndexLeadsHome
<1> QED
  BY <1>1, <1>2, <1>3, <1>4, <1>5 DEF StripeInv

(* Finalizing moves one invoice from the drafts to the finalized ones with *)
(* its content unchanged, and a final one drops its own container.         *)
LEMMA FinalizeFacts ==
    ASSUME TypeOK, FinalizedOnce, NEW i \in DOMAIN drafts, handleFinalizeInvoice(i)
    PROVE  /\ DOMAIN drafts' = DOMAIN drafts \ {i}
           /\ \A j \in DOMAIN drafts \ {i} : drafts'[j] = drafts[j]
           /\ i \notin DOMAIN invoice
           /\ DOMAIN invoice' = DOMAIN invoice \cup {i}
           /\ \A j \in DOMAIN invoice : invoice'[j] = invoice[j]
           /\ invoice'[i].bill = drafts[i]
           /\ ~invoice'[i].paid
           /\ open' = open \cup {i}
           /\ Bills' = Bills
           /\ \A j \in Bills : BillOf(j)' = BillOf(j)
           /\ \/ /\ drafts[i].final
                 /\ DOMAIN subs' = DOMAIN subs \ {drafts[i].sub}
                 /\ byCustomer' = [byCustomer EXCEPT ![drafts[i].customer] = Absent]
              \/ /\ ~drafts[i].final
                 /\ UNCHANGED <<subs, byCustomer>>
           /\ \A s \in DOMAIN subs' : s \in DOMAIN subs /\ subs'[s] = subs[s]
           /\ UNCHANGED <<now, created, subIdem>>
<1> DEFINE d   == drafts[i]
           inv == [bill |-> d, due |-> AmountDue(d), paid |-> FALSE]
<1>1. /\ drafts' = Without(drafts, i)
      /\ invoice' = Put(invoice, i, inv)
      /\ open' = open \cup {i}
      /\ CloseContainer(d)
      /\ UNCHANGED <<now, created, subIdem>>
  BY DEF handleFinalizeInvoice
<1>2. inv.bill = d /\ ~inv.paid
  OBVIOUS
<1> HIDE DEF inv
<1>3. i \notin DOMAIN invoice
  BY DEF FinalizedOnce
<1>4. /\ DOMAIN drafts' = DOMAIN drafts \ {i}
      /\ \A j \in DOMAIN drafts \ {i} : drafts'[j] = drafts[j]
  BY <1>1 DEF Without, Restrict
<1>5. /\ DOMAIN invoice' = DOMAIN invoice \cup {i} /\ invoice'[i] = inv
      /\ \A j \in DOMAIN invoice : invoice'[j] = invoice[j]
  BY <1>1, <1>3 DEF Put
<1>6. Bills' = Bills
  BY <1>4, <1>5 DEF Bills
<1>7. \A j \in Bills : BillOf(j)' = BillOf(j)
  <2> SUFFICES ASSUME NEW j \in Bills
               PROVE  BillOf(j)' = BillOf(j)
    OBVIOUS
  <2>1. CASE j = i
    BY <1>2, <1>4, <1>5, <2>1 DEF BillOf
  <2>2. CASE j # i /\ j \in DOMAIN drafts
    BY <1>4, <2>2 DEF BillOf
  <2>3. CASE j # i /\ j \notin DOMAIN drafts
    <3>1. j \in DOMAIN invoice
      BY <2>3 DEF Bills
    <3> QED
      BY <1>4, <1>5, <2>3, <3>1 DEF BillOf
  <2> QED
    BY <2>1, <2>2, <2>3
<1>8. CASE d.final
  <2>1. /\ DOMAIN subs' = DOMAIN subs \ {d.sub}
        /\ \A s \in DOMAIN subs' : subs'[s] = subs[s]
    BY <1>1, <1>8 DEF CloseContainer, Without, Restrict
  <2>2. byCustomer' = [byCustomer EXCEPT ![d.customer] = Absent]
    BY <1>1, <1>8 DEF CloseContainer
  <2> QED
    BY <1>1, <1>2, <1>3, <1>4, <1>5, <1>6, <1>7, <1>8, <2>1, <2>2
<1>9. CASE ~d.final
  <2>1. UNCHANGED <<subs, byCustomer>>
    BY <1>1, <1>9 DEF CloseContainer
  <2> QED
    BY <1>1, <1>2, <1>3, <1>4, <1>5, <1>6, <1>7, <1>9, <2>1
<1> QED
  BY <1>8, <1>9

LEMMA InvFinalize ==
    ASSUME StripeInv, NEW i \in DOMAIN drafts, handleFinalizeInvoice(i)
    PROVE  StripeInv'
<1>a. TypeOK /\ BillsBelong /\ FinalizedOnce /\ EmptyContainerAwaitsFinal
        /\ IndexLeadsHome
  BY DEF StripeInv
<1>b. /\ DOMAIN drafts' = DOMAIN drafts \ {i}
      /\ \A j \in DOMAIN drafts \ {i} : drafts'[j] = drafts[j]
  BY <1>a, FinalizeFacts
<1>c. /\ DOMAIN invoice' = DOMAIN invoice \cup {i}
      /\ \A j \in DOMAIN invoice : invoice'[j] = invoice[j]
      /\ ~invoice'[i].paid
      /\ open' = open \cup {i}
  BY <1>a, FinalizeFacts
<1>d. Bills' = Bills /\ \A j \in Bills : BillOf(j)' = BillOf(j)
  BY <1>a, FinalizeFacts
<1>e. \A s \in DOMAIN subs' : s \in DOMAIN subs /\ subs'[s] = subs[s]
  BY <1>a, FinalizeFacts
<1>f. created' = created
  BY <1>a, FinalizeFacts
<1>g. \/ /\ drafts[i].final
         /\ DOMAIN subs' = DOMAIN subs \ {drafts[i].sub}
         /\ byCustomer' = [byCustomer EXCEPT ![drafts[i].customer] = Absent]
      \/ /\ ~drafts[i].final
         /\ UNCHANGED <<subs, byCustomer>>
  BY <1>a, FinalizeFacts
<1>1. TypeOK'
  BY <1>a, TypeFinalize
<1>2. BillsBelong'
  BY <1>a, <1>d, <1>e, <1>f DEF BillsBelong
<1>3. FinalizedOnce'
  <2>1. \A j \in open : j \in DOMAIN invoice
    BY <1>a DEF TypeOK
  <2> QED
    BY <1>a, <1>b, <1>c, <2>1 DEF FinalizedOnce
<1>4. EmptyContainerAwaitsFinal'
  <2> SUFFICES ASSUME NEW s \in DOMAIN subs', subs'[s].items = {}
               PROVE  \E j \in DOMAIN drafts' : drafts'[j].sub = s /\ drafts'[j].final
    BY DEF EmptyContainerAwaitsFinal
  <2>1. s \in DOMAIN subs /\ subs[s].items = {}
    BY <1>e
  <2>2. PICK j \in DOMAIN drafts : drafts[j].sub = s /\ drafts[j].final
    BY <1>a, <2>1 DEF EmptyContainerAwaitsFinal
  <2>3. j # i
    BY <1>g, <2>2
  <2> QED
    BY <1>b, <2>2, <2>3
<1>5. IndexLeadsHome'
  <2>1. CASE drafts[i].final
    <3> DEFINE d == drafts[i]
    <3>1. d.customer \in Customers
      BY <1>a DEF TypeOK, Bill
    <3>2. d.sub \in DOMAIN subs => d.customer = subs[d.sub].customer
      <4>1. i \in Bills /\ BillOf(i) = d
        BY DEF Bills, BillOf
      <4> QED
        BY <1>a, <4>1 DEF BillsBelong
    <3>3. /\ DOMAIN subs' = DOMAIN subs \ {d.sub}
          /\ byCustomer' = [byCustomer EXCEPT ![d.customer] = Absent]
      BY <1>g, <2>1
    <3> HIDE DEF d
    <3> SUFFICES ASSUME NEW c \in Customers, byCustomer'[c] # Absent
                 PROVE  /\ byCustomer'[c] \in DOMAIN subs'
                        /\ subs'[byCustomer'[c]].customer = c
      BY DEF IndexLeadsHome
    <3>4. c # d.customer /\ byCustomer'[c] = byCustomer[c]
      BY <1>a, <3>3 DEF TypeOK
    <3>5. byCustomer[c] \in DOMAIN subs /\ subs[byCustomer[c]].customer = c
      BY <1>a, <3>4 DEF IndexLeadsHome
    <3> QED
      BY <1>e, <3>2, <3>3, <3>4, <3>5
  <2>2. CASE ~drafts[i].final
    BY <1>a, <1>g, <2>2 DEF IndexLeadsHome
  <2> QED
    BY <2>1, <2>2
<1> QED
  BY <1>1, <1>2, <1>3, <1>4, <1>5 DEF StripeInv

LEMMA PayFacts ==
    ASSUME TypeOK, NEW i \in open, handlePayInvoice(i)
    PROVE  /\ DOMAIN invoice' = DOMAIN invoice
           /\ i \in DOMAIN invoice
           /\ \A j \in DOMAIN invoice : /\ invoice'[j].bill = invoice[j].bill
                                       /\ invoice'[j].due = invoice[j].due
           /\ \A j \in DOMAIN invoice \ {i} : invoice'[j] = invoice[j]
           /\ \/ invoice'[i].paid /\ open' = open \ {i}
              \/ ~invoice'[i].paid /\ open' = open
           /\ Bills' = Bills
           /\ \A j \in Bills : BillOf(j)' = BillOf(j)
           /\ UNCHANGED <<now, created, subs, byCustomer, subIdem, drafts, listed>>
<1> DEFINE paid == invoice[i].bill.customer \notin Failing
           inv  == [invoice[i] EXCEPT !.paid = paid]
<1>1. i \in DOMAIN invoice /\ invoice[i] \in Finalized
  BY DEF TypeOK
<1>2. /\ invoice' = [invoice EXCEPT ![i] = inv]
      /\ open' = IF paid THEN open \ {i} ELSE open
      /\ UNCHANGED <<now, created, subs, byCustomer, subIdem, drafts, listed>>
  BY DEF handlePayInvoice
<1>3. inv.bill = invoice[i].bill /\ inv.due = invoice[i].due /\ inv.paid = paid
  BY <1>1 DEF Finalized
<1> HIDE DEF inv, paid
<1>4. DOMAIN invoice' = DOMAIN invoice /\ invoice'[i] = inv
        /\ \A j \in DOMAIN invoice \ {i} : invoice'[j] = invoice[j]
  BY <1>1, <1>2
<1>5. \A j \in DOMAIN invoice : /\ invoice'[j].bill = invoice[j].bill
                               /\ invoice'[j].due = invoice[j].due
  BY <1>3, <1>4
<1>6. \/ invoice'[i].paid /\ open' = open \ {i}
      \/ ~invoice'[i].paid /\ open' = open
  BY <1>2, <1>3, <1>4
<1>7. Bills' = Bills /\ \A j \in Bills : BillOf(j)' = BillOf(j)
  BY <1>2, <1>4, <1>5 DEF Bills, BillOf
<1> QED
  BY <1>1, <1>2, <1>4, <1>5, <1>6, <1>7

LEMMA InvPay ==
    ASSUME StripeInv, NEW i \in open, handlePayInvoice(i)
    PROVE  StripeInv'
<1>a. TypeOK /\ BillsBelong /\ FinalizedOnce /\ EmptyContainerAwaitsFinal
        /\ IndexLeadsHome
  BY DEF StripeInv
<1>b. /\ DOMAIN invoice' = DOMAIN invoice
      /\ \A j \in DOMAIN invoice \ {i} : invoice'[j] = invoice[j]
      /\ \/ invoice'[i].paid /\ open' = open \ {i}
         \/ ~invoice'[i].paid /\ open' = open
  BY <1>a, PayFacts
<1>c. Bills' = Bills /\ \A j \in Bills : BillOf(j)' = BillOf(j)
  BY <1>a, PayFacts
<1>d. UNCHANGED <<now, created, subs, byCustomer, subIdem, drafts, listed>>
  BY <1>a, PayFacts
<1>1. TypeOK'
  BY <1>a, TypePay
<1>2. BillsBelong'
  BY <1>a, <1>c, <1>d DEF BillsBelong
<1>3. FinalizedOnce'
  <2>1. \A j \in open : j \in DOMAIN invoice
    BY <1>a DEF TypeOK
  <2> QED
    BY <1>a, <1>b, <1>d, <2>1 DEF FinalizedOnce
<1>4. EmptyContainerAwaitsFinal'
  BY <1>a, <1>d DEF EmptyContainerAwaitsFinal
<1>5. IndexLeadsHome'
  BY <1>a, <1>d DEF IndexLeadsHome
<1> QED
  BY <1>1, <1>2, <1>3, <1>4, <1>5 DEF StripeInv

LEMMA InvInit == Init => StripeInv
<1> SUFFICES ASSUME Init PROVE StripeInv
  OBVIOUS
<1>1. Bills = {} /\ DOMAIN subs = {} /\ open = {}
  BY DEF Init, Bills
<1> QED
  BY <1>1, TypeInit
     DEF Init, StripeInv, BillsBelong, FinalizedOnce, EmptyContainerAwaitsFinal,
         IndexLeadsHome

LEMMA InvUnchanged ==
    ASSUME StripeInv, UNCHANGED <<created, subs, byCustomer, drafts, invoice, open>>,
           TypeOK'
    PROVE  StripeInv'
<1>1. Bills' = Bills /\ \A j \in Bills : BillOf(j)' = BillOf(j)
  BY SameBills
<1>2. BillsBelong'
  BY <1>1 DEF StripeInv, BillsBelong
<1> QED
  BY <1>2 DEF StripeInv, FinalizedOnce, EmptyContainerAwaitsFinal, IndexLeadsHome

LEMMA InvStep == StripeInv /\ [Next]_vars => StripeInv'
<1> SUFFICES ASSUME StripeInv, [Next]_vars
             PROVE  StripeInv'
  OBVIOUS
<1>1. TypeOK'
  BY TypeStep DEF StripeInv
<1>2. CASE Tick
  BY <1>1, <1>2, InvUnchanged DEF Tick
<1>3. CASE Scheduler
  BY <1>3, InvScheduler DEF Scheduler
<1>4. CASE SomeCall
  BY <1>4, InvAddToExisting, InvAddToNew, InvRemove, InvCreateItem, InvFinalize,
     InvPay
     DEF SomeCall, handleAddItem
<1>5. CASE UNCHANGED vars
  BY <1>1, <1>5, InvUnchanged DEF vars
<1> QED
  BY <1>2, <1>3, <1>4, <1>5 DEF Next

LEMMA InvAlways == Spec => []StripeInv
<1>1. Init => StripeInv
  BY InvInit
<1>2. StripeInv /\ [Next]_vars => StripeInv'
  BY InvStep
<1> QED
  BY <1>1, <1>2, PTL DEF Spec

(* No call, in any order, leaves an empty container without the final      *)
(* invoice that will drop it.                                              *)
THEOREM EmptyContainersAreClosed == Spec => []EmptyContainerAwaitsFinal
<1>1. StripeInv => EmptyContainerAwaitsFinal
  BY DEF StripeInv
<1> QED
  BY <1>1, InvAlways, PTL

(* The customer index is never dangling, whatever finalizations overlap.   *)
THEOREM IndexIsSound == Spec => []IndexLeadsHome
<1>1. StripeInv => IndexLeadsHome
  BY DEF StripeInv
<1> QED
  BY <1>1, InvAlways, PTL

-----------------------------------------------------------------------------
(* Billing periods: the regular invoices bill each once and skip none.     *)

PeriodsAbut ==
    \A s \in 1 .. created : \A i, j \in RegularBills(s) :
        /\ BillOf(i).end = BillOf(i).start + Period
        /\ BillOf(i).period = BillOf(j).period => i = j
        /\ BillOf(j).period = BillOf(i).period + 1 =>
               BillOf(j).start = BillOf(i).end

PeriodInv == PeriodsAbut /\ NoPeriodSkipped

(* A step that opens no regular invoice and rolls no container keeps them. *)
SameWindows ==
    \A s \in Nat : /\ RegularBills(s)' = RegularBills(s)
                   /\ \A i \in RegularBills(s) :
                         /\ BillOf(i)'.period = BillOf(i).period
                         /\ BillOf(i)'.start = BillOf(i).start
                         /\ BillOf(i)'.end = BillOf(i).end

SamePeriods ==
    \A s \in DOMAIN subs' : /\ s \in DOMAIN subs
                            /\ subs'[s].start = subs[s].start
                            /\ subs'[s].period = subs[s].period

LEMMA PeriodFrame ==
    ASSUME TypeOK, PeriodInv, SameWindows, SamePeriods, created' = created
    PROVE  PeriodInv'
<1>1. \A s \in 1 .. created : s \in Nat
  BY DEF TypeOK
<1>2. PeriodsAbut'
  BY <1>1 DEF PeriodInv, PeriodsAbut, SameWindows
<1>3. NoPeriodSkipped'
  <2> SUFFICES ASSUME NEW s \in DOMAIN subs'
               PROVE  /\ {BillOf(i)'.period : i \in RegularBills(s)'}
                            = 1 .. subs'[s].period - 1
                      /\ \A i \in RegularBills(s)' :
                            BillOf(i)'.period = subs'[s].period - 1
                              => BillOf(i)'.end = subs'[s].start
    BY DEF NoPeriodSkipped
  <2>1. s \in DOMAIN subs /\ s \in Nat /\ subs'[s].start = subs[s].start
          /\ subs'[s].period = subs[s].period
    BY DEF SamePeriods, TypeOK
  <2>2. RegularBills(s)' = RegularBills(s)
          /\ \A i \in RegularBills(s) : /\ BillOf(i)'.period = BillOf(i).period
                                       /\ BillOf(i)'.end = BillOf(i).end
    BY <2>1 DEF SameWindows
  <2>3. /\ {BillOf(i).period : i \in RegularBills(s)} = 1 .. subs[s].period - 1
        /\ \A i \in RegularBills(s) :
              BillOf(i).period = subs[s].period - 1 => BillOf(i).end = subs[s].start
    BY <2>1 DEF PeriodInv, NoPeriodSkipped
  <2>4. {BillOf(i)'.period : i \in RegularBills(s)'}
          = {BillOf(i).period : i \in RegularBills(s)}
    BY <2>2
  <2> QED
    BY <2>1, <2>2, <2>3, <2>4
<1> QED
  BY <1>2, <1>3 DEF PeriodInv

LEMMA SameBillsSameWindows ==
    ASSUME Bills' = Bills, \A i \in Bills : BillOf(i)' = BillOf(i)
    PROVE  SameWindows
  BY DEF SameWindows, RegularBills

LEMMA PeriodUnchanged ==
    ASSUME TypeOK, PeriodInv, UNCHANGED <<created, subs, drafts, invoice>>
    PROVE  PeriodInv'
<1>1. SameWindows
  BY SameBills, SameBillsSameWindows
<1>2. SamePeriods
  BY DEF SamePeriods
<1> QED
  BY <1>1, <1>2, PeriodFrame

LEMMA PeriodAddToExisting ==
    ASSUME StripeInv, PeriodInv, NEW c \in Customers, NEW t \in ItemTypes,
           NEW k \in Keys \cup {NoKey}, NEW meta \in Metas \cup {NoMeta},
           NEW at \in Readings, AddToExisting(c, t, k, meta, at)
    PROVE  PeriodInv'
<1>1. TypeOK
  BY DEF StripeInv
<1>2. /\ DOMAIN subs' = DOMAIN subs
      /\ \A s \in DOMAIN subs : /\ subs'[s].start = subs[s].start
                               /\ subs'[s].period = subs[s].period
      /\ UNCHANGED <<created, drafts, invoice>>
  BY <1>1, AddToExistingFacts
<1>3. SameWindows
  BY <1>2, SameBills, SameBillsSameWindows
<1>4. SamePeriods
  BY <1>2 DEF SamePeriods
<1> QED
  BY <1>1, <1>2, <1>3, <1>4, PeriodFrame

LEMMA PeriodCreateItem ==
    ASSUME StripeInv, PeriodInv, NEW i \in DOMAIN drafts, NEW micros \in ItemMicros,
           handleCreateItem(i, micros)
    PROVE  PeriodInv'
<1>1. TypeOK
  BY DEF StripeInv
<1>2. /\ Bills' = Bills
      /\ \A j \in Bills : /\ BillOf(j)'.sub = BillOf(j).sub
                         /\ BillOf(j)'.final = BillOf(j).final
                         /\ BillOf(j)'.period = BillOf(j).period
                         /\ BillOf(j)'.start = BillOf(j).start
                         /\ BillOf(j)'.end = BillOf(j).end
      /\ UNCHANGED <<created, subs>>
  BY <1>1, CreateItemFacts
<1>3. SameWindows
  BY <1>2 DEF SameWindows, RegularBills
<1>4. SamePeriods
  BY <1>2 DEF SamePeriods
<1> QED
  BY <1>1, <1>2, <1>3, <1>4, PeriodFrame

LEMMA PeriodFinalize ==
    ASSUME StripeInv, PeriodInv, NEW i \in DOMAIN drafts, handleFinalizeInvoice(i)
    PROVE  PeriodInv'
<1>1. TypeOK /\ FinalizedOnce
  BY DEF StripeInv
<1>2. Bills' = Bills /\ (\A j \in Bills : BillOf(j)' = BillOf(j)) /\ created' = created
  BY <1>1, FinalizeFacts
<1>3. \A s \in DOMAIN subs' : s \in DOMAIN subs /\ subs'[s] = subs[s]
  BY <1>1, FinalizeFacts
<1>4. SameWindows
  BY <1>2, SameBillsSameWindows
<1>5. SamePeriods
  BY <1>3 DEF SamePeriods
<1> QED
  BY <1>1, <1>2, <1>4, <1>5, PeriodFrame

LEMMA PeriodPay ==
    ASSUME StripeInv, PeriodInv, NEW i \in open, handlePayInvoice(i)
    PROVE  PeriodInv'
<1>1. TypeOK
  BY DEF StripeInv
<1>2. Bills' = Bills /\ (\A j \in Bills : BillOf(j)' = BillOf(j))
        /\ UNCHANGED <<created, subs>>
  BY <1>1, PayFacts
<1>3. SameWindows
  BY <1>2, SameBillsSameWindows
<1>4. SamePeriods
  BY <1>2 DEF SamePeriods
<1> QED
  BY <1>1, <1>2, <1>3, <1>4, PeriodFrame

(* A container that does not exist yet has no invoice.                     *)
LEMMA PeriodAddToNew ==
    ASSUME StripeInv, PeriodInv, NEW c \in Customers, NEW t \in ItemTypes,
           NEW k \in Keys \cup {NoKey}, NEW meta \in Metas \cup {NoMeta},
           NEW at \in Readings, AddToNew(c, t, k, meta, at)
    PROVE  PeriodInv'
<1>a. TypeOK /\ BillsBelong
  BY DEF StripeInv
<1> DEFINE new == created + 1
<1>b. /\ created' = new
      /\ DOMAIN subs' = DOMAIN subs \cup {new}
      /\ \A s \in DOMAIN subs : subs'[s] = subs[s]
      /\ subs'[new].period = 1
      /\ UNCHANGED <<drafts, invoice>>
  BY <1>a, AddToNewFacts
<1>c. Bills' = Bills /\ \A i \in Bills : BillOf(i)' = BillOf(i)
  BY <1>b, SameBills
<1>d. created \in Nat /\ \A s \in 1 .. created' : s \in 1 .. created \/ s = new
  BY <1>a, <1>b DEF TypeOK
<1>e. RegularBills(new) = {}
  <2>1. \A i \in Bills : BillOf(i).sub \in 1 .. created
    BY <1>a DEF BillsBelong
  <2>2. new \notin 1 .. created
    BY <1>d
  <2> QED
    BY <2>1, <2>2 DEF RegularBills
<1>f. \A s : RegularBills(s)' = RegularBills(s)
  BY <1>c DEF RegularBills
<1>g. \A s : \A i \in RegularBills(s) : BillOf(i)' = BillOf(i)
  BY <1>c DEF RegularBills
<1> HIDE DEF new
<1>1. PeriodsAbut'
  <2> SUFFICES ASSUME NEW s \in 1 .. created',
                      NEW i \in RegularBills(s)', NEW j \in RegularBills(s)'
               PROVE  /\ BillOf(i)'.end = BillOf(i)'.start + Period
                      /\ BillOf(i)'.period = BillOf(j)'.period => i = j
                      /\ BillOf(j)'.period = BillOf(i)'.period + 1 =>
                            BillOf(j)'.start = BillOf(i)'.end
    BY DEF PeriodsAbut
  <2>1. s \in 1 .. created /\ i \in RegularBills(s) /\ j \in RegularBills(s)
    BY <1>d, <1>e, <1>f
  <2>2. BillOf(i)' = BillOf(i) /\ BillOf(j)' = BillOf(j)
    BY <1>g, <2>1
  <2> QED
    BY <2>1, <2>2 DEF PeriodInv, PeriodsAbut
<1>2. NoPeriodSkipped'
  <2> SUFFICES ASSUME NEW s \in DOMAIN subs'
               PROVE  /\ {BillOf(i)'.period : i \in RegularBills(s)'}
                            = 1 .. subs'[s].period - 1
                      /\ \A i \in RegularBills(s)' :
                            BillOf(i)'.period = subs'[s].period - 1
                              => BillOf(i)'.end = subs'[s].start
    BY DEF NoPeriodSkipped
  <2>1. CASE s = new
    <3>1. RegularBills(s)' = {}
      BY <1>e, <1>f, <2>1
    <3>2. 1 .. subs'[s].period - 1 = {}
      BY <1>b, <2>1
    <3> QED
      BY <3>1, <3>2
  <2>2. CASE s \in DOMAIN subs
    <3>1. /\ {BillOf(i).period : i \in RegularBills(s)} = 1 .. subs[s].period - 1
          /\ \A i \in RegularBills(s) :
                BillOf(i).period = subs[s].period - 1 => BillOf(i).end = subs[s].start
      BY <2>2 DEF PeriodInv, NoPeriodSkipped
    <3>2. subs'[s] = subs[s] /\ RegularBills(s)' = RegularBills(s)
            /\ \A i \in RegularBills(s) : BillOf(i)' = BillOf(i)
      BY <1>b, <1>f, <1>g, <2>2
    <3>3. {BillOf(i)'.period : i \in RegularBills(s)'}
            = {BillOf(i).period : i \in RegularBills(s)}
      BY <3>2
    <3> QED
      BY <3>1, <3>2, <3>3
  <2> QED
    BY <1>b, <2>1, <2>2
<1> QED
  BY <1>1, <1>2 DEF PeriodInv

(* A final invoice is no regular one.                                      *)
LEMMA PeriodRemove ==
    ASSUME StripeInv, PeriodInv, NEW s \in DOMAIN subs, NEW t \in ItemTypes,
           NEW at \in Readings, handleRemoveItem(s, t, at)
    PROVE  PeriodInv'
<1>a. TypeOK /\ BillsBelong
  BY DEF StripeInv
<1>b. /\ DOMAIN subs' = DOMAIN subs
      /\ \A x \in DOMAIN subs : /\ subs'[x].start = subs[x].start
                               /\ subs'[x].period = subs[x].period
      /\ UNCHANGED <<created, invoice>>
  BY <1>a, RemoveFacts
<1>2. SameWindows
  <2>1. CASE drafts' = drafts
    BY <1>b, <2>1, SameBills, SameBillsSameWindows
  <2>2. CASE drafts' # drafts
    <3>0. PICK i \in InvoiceIds :
                /\ i \notin Bills
                /\ DOMAIN drafts' = DOMAIN drafts \cup {i}
                /\ \A j \in DOMAIN drafts : drafts'[j] = drafts[j]
                /\ drafts'[i].final
      BY <1>a, <2>2, RemoveFacts
    <3>1. {i} \cap Bills = {} /\ invoice' = invoice
      BY <1>b, <3>0
    <3>2. /\ Bills' = Bills \cup {i}
          /\ \A j \in Bills : BillOf(j)' = BillOf(j)
          /\ BillOf(i)'.final
      BY <3>0, <3>1, NewDrafts
    <3>3. \A x : RegularBills(x)' = RegularBills(x)
      BY <3>2 DEF RegularBills
    <3>4. \A x : \A j \in RegularBills(x) : BillOf(j)' = BillOf(j)
      BY <3>2 DEF RegularBills
    <3> QED
      BY <3>3, <3>4 DEF SameWindows
  <2> QED
    BY <2>1, <2>2
<1>3. SamePeriods
  BY <1>b DEF SamePeriods
<1> QED
  BY <1>a, <1>b, <1>2, <1>3, PeriodFrame

(* The heart of it: the n invoices a container is given when n of its      *)
(* periods are over carry on from where its invoices ended.                *)
LEMMA WindowsCarryOn ==
    ASSUME NEW start \in Nat, NEW k \in Nat
    PROVE  /\ start + (k + 1) * Period = start + k * Period + Period
           /\ k * Period \in Nat
           /\ start + 0 * Period = start
<1>1. Period \in Nat
  BY PeriodIsPositive
<1>2. (k + 1) * Period = k * Period + Period /\ k * Period \in Nat /\ 0 * Period = 0
  BY <1>1
<1> QED
  BY <1>1, <1>2

LEMMA PeriodScheduler ==
    ASSUME StripeInv, PeriodInv, NEW at \in Readings, advancePeriods(at)
    PROVE  PeriodInv'
<1>a. TypeOK /\ BillsBelong /\ PeriodsAbut /\ NoPeriodSkipped
  BY DEF StripeInv, PeriodInv
<1>b. \A s \in Due(at) : /\ s \in DOMAIN subs /\ subs[s] \in Container
                        /\ Elapsed(subs[s], at) \in Nat \ {0}
                        /\ subs'[s] = Rolled(subs[s], Elapsed(subs[s], at))
  BY <1>a, SchedulerFacts
<1>c. DOMAIN subs' = DOMAIN subs /\ \A s \in DOMAIN subs \ Due(at) : subs'[s] = subs[s]
  BY <1>a, SchedulerFacts
<1>d. /\ RolledIds(at) \cap Bills = {}
      /\ DOMAIN drafts' = DOMAIN drafts \cup RolledIds(at)
      /\ \A i \in DOMAIN drafts : drafts'[i] = drafts[i]
  BY <1>a, SchedulerFacts
<1>e. created' = created /\ invoice' = invoice
  BY <1>a, SchedulerFacts
<1>f. /\ Bills' = Bills \cup RolledIds(at)
      /\ \A i \in Bills : BillOf(i)' = BillOf(i)
      /\ \A i \in RolledIds(at) : BillOf(i)' = drafts'[i]
  BY <1>d, <1>e, NewDrafts
<1> DEFINE K(i) == i[2] - subs[i[1]].opened - 1
           N(s) == Elapsed(subs[s], at)
(* Each new invoice is the K(i)-th window of its container.                *)
<1>1. \A i \in RolledIds(at) :
        /\ i[1] \in Due(at) /\ i[1] \in Nat /\ subs[i[1]] \in Container
        /\ i = <<i[1], i[2]>> /\ subs[i[1]].opened \in Nat
        /\ i[2] \in subs[i[1]].opened + 1 .. subs[i[1]].opened + N(i[1])
        /\ K(i) \in 0 .. N(i[1]) - 1
        /\ BillOf(i)' = ElapsedDraft(i[1], subs[i[1]], K(i))
  <2> SUFFICES ASSUME NEW i \in RolledIds(at)
               PROVE  /\ i[1] \in Due(at) /\ i[1] \in Nat /\ subs[i[1]] \in Container
                      /\ i = <<i[1], i[2]>> /\ subs[i[1]].opened \in Nat
                      /\ i[2] \in subs[i[1]].opened + 1 .. subs[i[1]].opened + N(i[1])
                      /\ K(i) \in 0 .. N(i[1]) - 1
                      /\ BillOf(i)' = ElapsedDraft(i[1], subs[i[1]], K(i))
    OBVIOUS
  <2>1. /\ i[1] \in Due(at) /\ i = <<i[1], i[2]>>
        /\ i[2] \in subs[i[1]].opened + 1 .. subs[i[1]].opened + N(i[1])
        /\ drafts'[i] = ElapsedDraft(i[1], subs[i[1]], K(i))
    BY <1>a, SchedulerFacts
  <2>2. i[1] \in Nat /\ subs[i[1]] \in Container /\ subs[i[1]].opened \in Nat
          /\ N(i[1]) \in Nat
    BY <1>a, <1>b, <2>1 DEF TypeOK, Container
  <2>3. K(i) \in 0 .. N(i[1]) - 1
    BY <2>1, <2>2
  <2> QED
    BY <1>f, <2>1, <2>2, <2>3
<1> DEFINE fresh(s) == {i \in RolledIds(at) : i[1] = s}
<1>2. \A s : RegularBills(s)' = RegularBills(s) \cup fresh(s)
  <2>1. \A i \in RolledIds(at) : BillOf(i)'.sub = i[1] /\ ~BillOf(i)'.final
    <3> SUFFICES ASSUME NEW i \in RolledIds(at)
                 PROVE  BillOf(i)'.sub = i[1] /\ ~BillOf(i)'.final
      OBVIOUS
    <3>1. /\ i[1] \in Nat /\ subs[i[1]] \in Container /\ K(i) \in Nat
          /\ BillOf(i)' = ElapsedDraft(i[1], subs[i[1]], K(i))
      BY <1>1
    <3> HIDE DEF K
    <3> QED
      BY <3>1, ElapsedDraftFields
  <2> QED
    BY <1>f, <2>1 DEF RegularBills
(* The invoices a container already had end where its period starts.       *)
<1>3. ASSUME NEW s \in DOMAIN subs, NEW i \in RegularBills(s)
      PROVE  /\ BillOf(i)' = BillOf(i)
             /\ BillOf(i).period \in 1 .. subs[s].period - 1
             /\ BillOf(i).period = subs[s].period - 1 => BillOf(i).end = subs[s].start
  <2>1. BillOf(i)' = BillOf(i)
    BY <1>f DEF RegularBills
  <2>2. BillOf(i).period \in {BillOf(j).period : j \in RegularBills(s)}
    OBVIOUS
  <2> QED
    BY <1>a, <2>1, <2>2 DEF NoPeriodSkipped
(* The new ones are its next windows, in order.                            *)
<1>4. ASSUME NEW s, NEW i \in fresh(s)
      PROVE  /\ s \in Due(at) /\ s \in Nat
             /\ K(i) \in 0 .. N(s) - 1
             /\ BillOf(i)'.period = subs[s].period + K(i)
             /\ BillOf(i)'.start = subs[s].start + K(i) * Period
             /\ BillOf(i)'.end = subs[s].start + K(i) * Period + Period
  <2>1. /\ s \in Due(at) /\ s \in Nat /\ subs[s] \in Container
        /\ K(i) \in 0 .. N(s) - 1 /\ BillOf(i)' = ElapsedDraft(s, subs[s], K(i))
    BY <1>1
  <2>2. K(i) \in Nat
    BY <2>1, <1>b
  <2> HIDE DEF K
  <2> QED
    BY <2>1, <2>2, ElapsedDraftFields
<1>5. ASSUME NEW s, NEW i \in fresh(s), NEW j \in fresh(s), K(i) = K(j)
      PROVE  i = j
  <2>1. /\ i = <<s, i[2]>> /\ j = <<s, j[2]>>
        /\ i[2] \in Int /\ j[2] \in Int /\ subs[s].opened \in Nat
        /\ i[2] - subs[s].opened - 1 = j[2] - subs[s].opened - 1
    BY <1>1, <1>5
  <2> QED
    BY <2>1
<1>6. ASSUME NEW s \in Due(at), NEW k \in 0 .. N(s) - 1
      PROVE  \E i \in fresh(s) : K(i) = k
  <2> DEFINE w == <<s, subs[s].opened + 1 + k>>
  <2>1. subs[s].opened \in Nat /\ N(s) \in Nat
    BY <1>b DEF Container
  <2>2. subs[s].opened + 1 + k \in subs[s].opened + 1 .. subs[s].opened + N(s)
    BY <2>1
  <2>3. w \in ElapsedIds(s, subs[s], at)
    BY <2>2 DEF ElapsedIds
  <2>4. w \in fresh(s)
    BY <2>3 DEF RolledIds
  <2>5. K(w) = k
    BY <2>1
  <2> QED
    BY <2>4, <2>5
<1> HIDE DEF K, N, fresh
<1>7. PeriodsAbut'
  <2> SUFFICES ASSUME NEW s \in 1 .. created',
                      NEW i \in RegularBills(s)', NEW j \in RegularBills(s)'
               PROVE  /\ BillOf(i)'.end = BillOf(i)'.start + Period
                      /\ BillOf(i)'.period = BillOf(j)'.period => i = j
                      /\ BillOf(j)'.period = BillOf(i)'.period + 1 =>
                            BillOf(j)'.start = BillOf(i)'.end
    BY DEF PeriodsAbut
  <2>0. s \in 1 .. created
    BY <1>e
  <2>1. CASE i \in RegularBills(s) /\ j \in RegularBills(s)
    <3>1. BillOf(i)' = BillOf(i) /\ BillOf(j)' = BillOf(j)
      BY <1>f, <2>1 DEF RegularBills
    <3> QED
      BY <1>a, <2>0, <2>1, <3>1 DEF PeriodsAbut
  <2>2. CASE i \in fresh(s) /\ j \in fresh(s)
    <3>1. /\ BillOf(i)'.period = subs[s].period + K(i)
          /\ BillOf(i)'.start = subs[s].start + K(i) * Period
          /\ BillOf(i)'.end = subs[s].start + K(i) * Period + Period
          /\ s \in Due(at)
      BY <1>4, <2>2
    <3>2. /\ BillOf(j)'.period = subs[s].period + K(j)
          /\ BillOf(j)'.start = subs[s].start + K(j) * Period
      BY <1>4, <2>2
    <3>3. subs[s].start \in Nat /\ subs[s].period \in Nat /\ K(i) \in Nat /\ K(j) \in Nat
      <4>1. N(s) \in Nat
        BY <1>b, <3>1 DEF N
      <4>2. K(i) \in 0 .. N(s) - 1 /\ K(j) \in 0 .. N(s) - 1
        BY <1>4, <2>2
      <4> QED
        BY <1>b, <3>1, <4>1, <4>2 DEF Container
    <3>4. K(i) = K(j) => i = j
      BY <1>5, <2>2
    <3>5. subs[s].start + (K(i) + 1) * Period = subs[s].start + K(i) * Period + Period
      BY <3>3, WindowsCarryOn
    <3>6. BillOf(i)'.period = BillOf(j)'.period => i = j
      BY <3>1, <3>2, <3>3, <3>4
    <3>7. BillOf(j)'.period = BillOf(i)'.period + 1 => K(j) = K(i) + 1
      BY <3>1, <3>2, <3>3
    <3> QED
      BY <3>1, <3>2, <3>5, <3>6, <3>7
  <2>3. CASE i \in RegularBills(s) /\ j \in fresh(s)
    <3>1. /\ s \in Due(at) /\ s \in DOMAIN subs /\ N(s) \in Nat
          /\ subs[s].start \in Nat /\ subs[s].period \in Nat
      BY <1>b, <1>4, <2>3 DEF Container, N
    <3>2. /\ BillOf(i)' = BillOf(i)
          /\ BillOf(i).period \in 1 .. subs[s].period - 1
          /\ BillOf(i).period = subs[s].period - 1 => BillOf(i).end = subs[s].start
      BY <1>3, <2>3, <3>1
    <3>3. /\ K(j) \in 0 .. N(s) - 1
          /\ BillOf(j)'.period = subs[s].period + K(j)
          /\ BillOf(j)'.start = subs[s].start + K(j) * Period
      BY <1>4, <2>3
    <3>4. BillOf(i).end = BillOf(i).start + Period
      BY <1>a, <2>0, <2>3 DEF PeriodsAbut
    <3>5. BillOf(i).period # BillOf(j)'.period
      BY <3>1, <3>2, <3>3
    <3>6. BillOf(j)'.period = BillOf(i).period + 1
            => K(j) = 0 /\ BillOf(i).period = subs[s].period - 1
      BY <3>1, <3>2, <3>3
    <3>7. subs[s].start + 0 * Period = subs[s].start
      BY <3>1, WindowsCarryOn
    <3> QED
      BY <3>2, <3>3, <3>4, <3>5, <3>6, <3>7
  <2>4. CASE i \in fresh(s) /\ j \in RegularBills(s)
    <3>1. /\ s \in Due(at) /\ s \in DOMAIN subs /\ N(s) \in Nat
          /\ subs[s].start \in Nat /\ subs[s].period \in Nat
      BY <1>b, <1>4, <2>4 DEF Container, N
    <3>2. BillOf(j)' = BillOf(j) /\ BillOf(j).period \in 1 .. subs[s].period - 1
      BY <1>3, <2>4, <3>1
    <3>3. /\ K(i) \in 0 .. N(s) - 1
          /\ BillOf(i)'.period = subs[s].period + K(i)
          /\ BillOf(i)'.end = BillOf(i)'.start + Period
      BY <1>4, <2>4
    <3>4. BillOf(i)'.period # BillOf(j).period
            /\ BillOf(j).period # BillOf(i)'.period + 1
      BY <3>1, <3>2, <3>3
    <3> QED
      BY <3>2, <3>3, <3>4
  <2> QED
    BY <1>2, <2>1, <2>2, <2>3, <2>4
<1>8. NoPeriodSkipped'
  <2> SUFFICES ASSUME NEW s \in DOMAIN subs'
               PROVE  /\ {BillOf(i)'.period : i \in RegularBills(s)'}
                            = 1 .. subs'[s].period - 1
                      /\ \A i \in RegularBills(s)' :
                            BillOf(i)'.period = subs'[s].period - 1
                              => BillOf(i)'.end = subs'[s].start
    BY DEF NoPeriodSkipped
  <2>0. s \in DOMAIN subs /\ subs[s] \in Container
          /\ subs[s].start \in Nat /\ subs[s].period \in Nat \ {0}
    BY <1>a, <1>c DEF TypeOK, Container
  <2>1. {BillOf(i).period : i \in RegularBills(s)} = 1 .. subs[s].period - 1
    BY <1>a, <2>0 DEF NoPeriodSkipped
  <2>2. {BillOf(i)'.period : i \in RegularBills(s)} = 1 .. subs[s].period - 1
    <3>1. \A i \in RegularBills(s) : BillOf(i)' = BillOf(i)
      BY <1>3, <2>0
    <3> QED
      BY <2>1, <3>1
  <2>3. CASE s \notin Due(at)
    <3>1. fresh(s) = {}
      BY <1>4, <2>3
    <3>2. subs'[s] = subs[s] /\ RegularBills(s)' = RegularBills(s)
      BY <1>2, <1>c, <2>0, <2>3, <3>1
    <3> QED
      BY <1>3, <2>0, <2>2, <3>2
  <2>4. CASE s \in Due(at)
    <3>1. N(s) \in Nat \ {0}
      BY <1>b, <2>4 DEF N
    <3>2. subs'[s] = Rolled(subs[s], N(s))
      BY <1>b, <2>4 DEF N
    <3>3. /\ subs'[s].period = subs[s].period + N(s)
          /\ subs'[s].start = subs[s].start + N(s) * Period
      BY <2>0, <3>1, <3>2, RolledKeeps
    <3>4. {BillOf(i)'.period : i \in fresh(s)}
            = subs[s].period .. subs[s].period + N(s) - 1
      <4>1. \A i \in fresh(s) : BillOf(i)'.period \in subs[s].period .. subs[s].period + N(s) - 1
        <5> SUFFICES ASSUME NEW i \in fresh(s)
                     PROVE  BillOf(i)'.period \in subs[s].period .. subs[s].period + N(s) - 1
          OBVIOUS
        <5>1. K(i) \in 0 .. N(s) - 1 /\ BillOf(i)'.period = subs[s].period + K(i)
          BY <1>4
        <5> QED
          BY <2>0, <3>1, <5>1
      <4>2. ASSUME NEW p \in subs[s].period .. subs[s].period + N(s) - 1
            PROVE  \E i \in fresh(s) : BillOf(i)'.period = p
        <5>1. p - subs[s].period \in 0 .. N(s) - 1
          BY <2>0, <3>1
        <5>2. PICK i \in fresh(s) : K(i) = p - subs[s].period
          BY <1>6, <2>4, <5>1
        <5>3. BillOf(i)'.period = subs[s].period + K(i)
          BY <1>4
        <5> QED
          BY <2>0, <5>1, <5>2, <5>3
      <4> QED
        BY <4>1, <4>2
    <3>5. {BillOf(i)'.period : i \in RegularBills(s)'}
            = (1 .. subs[s].period - 1)
                 \cup (subs[s].period .. subs[s].period + N(s) - 1)
      BY <1>2, <2>2, <3>4
    <3>6. {BillOf(i)'.period : i \in RegularBills(s)'} = 1 .. subs'[s].period - 1
      BY <2>0, <3>1, <3>3, <3>5
    <3>7. ASSUME NEW i \in RegularBills(s)', BillOf(i)'.period = subs'[s].period - 1
          PROVE  BillOf(i)'.end = subs'[s].start
      <4>1. i \in fresh(s)
        <5>1. i \in RegularBills(s) => BillOf(i)'.period \in 1 .. subs[s].period - 1
          BY <1>3, <2>0
        <5> QED
          BY <1>2, <2>0, <3>1, <3>3, <3>7, <5>1
      <4>2. /\ BillOf(i)'.period = subs[s].period + K(i)
            /\ BillOf(i)'.end = subs[s].start + K(i) * Period + Period
            /\ K(i) \in 0 .. N(s) - 1
        BY <1>4, <4>1
      <4>3. K(i) \in Nat /\ K(i) + 1 = N(s)
        BY <2>0, <3>1, <3>3, <3>7, <4>2
      <4>4. subs[s].start + (K(i) + 1) * Period = subs[s].start + K(i) * Period + Period
        BY <2>0, <4>3, WindowsCarryOn
      <4> QED
        BY <3>3, <4>2, <4>3, <4>4
    <3> QED
      BY <3>6, <3>7
  <2> QED
    BY <2>3, <2>4
<1> QED
  BY <1>7, <1>8 DEF PeriodInv

LEMMA PeriodInit == Init => PeriodInv
<1> SUFFICES ASSUME Init
             PROVE  PeriodInv
  OBVIOUS
<1>1. created = 0 /\ DOMAIN subs = {}
  BY DEF Init
<1> QED
  BY <1>1 DEF PeriodInv, PeriodsAbut, NoPeriodSkipped

LEMMA PeriodStep == StripeInv /\ PeriodInv /\ [Next]_vars => PeriodInv'
<1> SUFFICES ASSUME StripeInv, PeriodInv, [Next]_vars
             PROVE  PeriodInv'
  OBVIOUS
<1>1. TypeOK
  BY DEF StripeInv
<1>2. CASE Tick
  BY <1>1, <1>2, PeriodUnchanged DEF Tick
<1>3. CASE Scheduler
  BY <1>3, PeriodScheduler DEF Scheduler
<1>4. CASE SomeCall
  BY <1>4, PeriodAddToExisting, PeriodAddToNew, PeriodRemove, PeriodCreateItem,
     PeriodFinalize, PeriodPay
     DEF SomeCall, handleAddItem
<1>5. CASE UNCHANGED vars
  BY <1>1, <1>5, PeriodUnchanged DEF vars
<1> QED
  BY <1>2, <1>3, <1>4, <1>5 DEF Next

LEMMA PeriodAlways == Spec => []PeriodInv
<1>1. Init => PeriodInv
  BY PeriodInit
<1>2. StripeInv /\ PeriodInv /\ [Next]_vars => PeriodInv'
  BY PeriodStep
<1> QED
  BY <1>1, <1>2, InvAlways, PTL DEF Spec

-----------------------------------------------------------------------------
(* All the invoices of a container, in the order in which they were opened.*)

(* A live container has moved on from every period it was invoiced for,    *)
(* unless a final invoice is all there is for that period.                 *)
BillsBehind ==
    \A i \in Bills : i[1] \in DOMAIN subs /\ ~BillOf(i).final =>
        /\ BillOf(i).end <= subs[i[1]].start
        /\ BillOf(i).period < subs[i[1]].period

BillsInOrder ==
    \A i, j \in Bills : i[1] = j[1] /\ i[2] < j[2] =>
        \/ BillOf(i).final
        \/ BillOf(i).end <= BillOf(j).start /\ BillOf(i).period < BillOf(j).period

OrderInv == BillsBehind /\ BillsInOrder

(* Most steps leave invoices' windows and containers' periods alone.       *)
SameBillWindows ==
    /\ Bills' = Bills
    /\ \A i \in Bills : /\ BillOf(i)'.final = BillOf(i).final
                       /\ BillOf(i)'.period = BillOf(i).period
                       /\ BillOf(i)'.start = BillOf(i).start
                       /\ BillOf(i)'.end = BillOf(i).end

LEMMA OrderFrame ==
    ASSUME OrderInv, SameBillWindows, SamePeriods
    PROVE  OrderInv'
<1>1. BillsBehind'
  BY DEF OrderInv, BillsBehind, SameBillWindows, SamePeriods
<1>2. BillsInOrder'
  BY DEF OrderInv, BillsInOrder, SameBillWindows
<1> QED
  BY <1>1, <1>2 DEF OrderInv

LEMMA OrderUnchanged ==
    ASSUME OrderInv, UNCHANGED <<subs, drafts, invoice>>
    PROVE  OrderInv'
<1>1. SameBillWindows
  BY SameBills DEF SameBillWindows
<1> QED
  BY <1>1, OrderFrame DEF SamePeriods

LEMMA OrderAddToExisting ==
    ASSUME StripeInv, OrderInv, NEW c \in Customers, NEW t \in ItemTypes,
           NEW k \in Keys \cup {NoKey}, NEW meta \in Metas \cup {NoMeta},
           NEW at \in Readings, AddToExisting(c, t, k, meta, at)
    PROVE  OrderInv'
<1>1. /\ DOMAIN subs' = DOMAIN subs
      /\ \A s \in DOMAIN subs : /\ subs'[s].start = subs[s].start
                               /\ subs'[s].period = subs[s].period
      /\ UNCHANGED <<drafts, invoice>>
  BY AddToExistingFacts DEF StripeInv
<1>2. SameBillWindows
  BY <1>1, SameBills DEF SameBillWindows
<1> QED
  BY <1>1, <1>2, OrderFrame DEF SamePeriods

LEMMA OrderAddToNew ==
    ASSUME StripeInv, OrderInv, NEW c \in Customers, NEW t \in ItemTypes,
           NEW k \in Keys \cup {NoKey}, NEW meta \in Metas \cup {NoMeta},
           NEW at \in Readings, AddToNew(c, t, k, meta, at)
    PROVE  OrderInv'
<1>a. TypeOK /\ BillsBelong
  BY DEF StripeInv
<1>1. /\ DOMAIN subs' = DOMAIN subs \cup {created + 1}
      /\ \A s \in DOMAIN subs : subs'[s] = subs[s]
      /\ UNCHANGED <<drafts, invoice>>
  BY <1>a, AddToNewFacts
<1>2. Bills' = Bills /\ \A i \in Bills : BillOf(i)' = BillOf(i)
  BY <1>1, SameBills
<1>3. \A i \in Bills : i[1] # created + 1
  BY <1>a DEF BillsBelong, TypeOK
<1>4. BillsBehind'
  BY <1>1, <1>2, <1>3 DEF OrderInv, BillsBehind
<1>5. BillsInOrder'
  BY <1>2 DEF OrderInv, BillsInOrder
<1> QED
  BY <1>4, <1>5 DEF OrderInv

LEMMA OrderCreateItem ==
    ASSUME StripeInv, OrderInv, NEW i \in DOMAIN drafts, NEW micros \in ItemMicros,
           handleCreateItem(i, micros)
    PROVE  OrderInv'
<1>1. SameBillWindows /\ subs' = subs
  BY CreateItemFacts DEF StripeInv, SameBillWindows
<1> QED
  BY <1>1, OrderFrame DEF SamePeriods

LEMMA OrderFinalize ==
    ASSUME StripeInv, OrderInv, NEW i \in DOMAIN drafts, handleFinalizeInvoice(i)
    PROVE  OrderInv'
<1>1. SameBillWindows /\ \A s \in DOMAIN subs' : s \in DOMAIN subs /\ subs'[s] = subs[s]
  BY FinalizeFacts DEF StripeInv, SameBillWindows
<1> QED
  BY <1>1, OrderFrame DEF SamePeriods

LEMMA OrderPay ==
    ASSUME StripeInv, OrderInv, NEW i \in open, handlePayInvoice(i)
    PROVE  OrderInv'
<1>1. SameBillWindows /\ subs' = subs
  BY PayFacts DEF StripeInv, SameBillWindows
<1> QED
  BY <1>1, OrderFrame DEF SamePeriods

(* A final invoice begins where its container's period does.               *)
LEMMA OrderRemove ==
    ASSUME StripeInv, OrderInv, NEW s \in DOMAIN subs, NEW t \in ItemTypes,
           NEW at \in Readings, handleRemoveItem(s, t, at)
    PROVE  OrderInv'
<1>a. TypeOK /\ BillsBelong
  BY DEF StripeInv
<1>b. /\ DOMAIN subs' = DOMAIN subs
      /\ \A x \in DOMAIN subs : /\ subs'[x].start = subs[x].start
                               /\ subs'[x].period = subs[x].period
      /\ UNCHANGED <<created, invoice>>
  BY <1>a, RemoveFacts
<1>1. CASE drafts' = drafts
  <2>1. SameBillWindows
    BY <1>b, <1>1, SameBills DEF SameBillWindows
  <2> QED
    BY <1>b, <2>1, OrderFrame DEF SamePeriods
<1>2. CASE drafts' # drafts
  <2>1. PICK i \in InvoiceIds :
               /\ i[1] = s /\ i[2] = subs[s].opened + 1
               /\ i \notin Bills
               /\ DOMAIN drafts' = DOMAIN drafts \cup {i}
               /\ \A j \in DOMAIN drafts : drafts'[j] = drafts[j]
               /\ drafts'[i].final
               /\ drafts'[i].start = subs[s].start
               /\ drafts'[i].period = subs[s].period
    BY <1>a, <1>2, RemoveFacts
  <2>2. /\ Bills' = Bills \cup {i}
        /\ \A j \in Bills : BillOf(j)' = BillOf(j)
        /\ BillOf(i)' = drafts'[i]
    <3>1. {i} \cap Bills = {} /\ invoice' = invoice
      BY <1>b, <2>1
    <3> QED
      BY <2>1, <3>1, NewDrafts
  <2>3. \A j \in Bills : j[1] = s => ~(i[2] < j[2])
    <3>1. subs[s].opened \in Nat /\ \A j \in Bills : j[2] \in Nat
      BY <1>a DEF TypeOK, Container, Bills, InvoiceIds
    <3> QED
      BY <1>a, <2>1, <3>1 DEF BillsBelong
  <2>4. BillsBehind'
    BY <1>b, <2>1, <2>2 DEF OrderInv, BillsBehind
  <2>5. BillsInOrder'
    <3> SUFFICES ASSUME NEW j \in Bills \cup {i}, NEW k \in Bills \cup {i},
                        j[1] = k[1], j[2] < k[2], ~BillOf(j)'.final
                 PROVE  BillOf(j)'.end <= BillOf(k)'.start
                          /\ BillOf(j)'.period < BillOf(k)'.period
      BY <2>2 DEF BillsInOrder
    <3>1. j \in Bills
      BY <2>1, <2>2
    <3>2. CASE k = i
      BY <2>1, <2>2, <3>1, <3>2 DEF OrderInv, BillsBehind
    <3>3. CASE k \in Bills
      BY <2>2, <3>1, <3>3 DEF OrderInv, BillsInOrder
    <3> QED
      BY <3>2, <3>3
  <2> QED
    BY <2>4, <2>5 DEF OrderInv
<1> QED
  BY <1>1, <1>2

(* The windows of later periods lie later.                                 *)
LEMMA LaterWindows ==
    ASSUME NEW start \in Nat, NEW k \in Nat, NEW m \in Nat, k < m
    PROVE  /\ start + k * Period + Period <= start + m * Period
           /\ start <= start + k * Period
<1>1. PICK P \in Nat : P = Period
  BY PeriodIsPositive
<1>2. (m - k - 1) * P >= 0 /\ m * P = (m - k - 1) * P + k * P + P /\ k * P >= 0
  <2>1. m - k - 1 \in Nat
    OBVIOUS
  <2>2. PICK d \in Nat : d = m - k - 1 /\ m = d + k + 1
    BY <2>1
  <2>3. (d + k + 1) * P = d * P + k * P + P /\ d * P \in Nat /\ k * P \in Nat
    OBVIOUS
  <2> QED
    BY <2>2, <2>3
<1>3. k * P \in Int /\ m * P \in Int
  OBVIOUS
<1> QED
  BY <1>1, <1>2, <1>3

LEMMA OrderScheduler ==
    ASSUME StripeInv, OrderInv, NEW at \in Readings, advancePeriods(at)
    PROVE  OrderInv'
<1>a. TypeOK /\ BillsBelong
  BY DEF StripeInv
<1> DEFINE N(s) == Elapsed(subs[s], at)
           K(i) == i[2] - subs[i[1]].opened - 1
<1>1. \A s \in Due(at) : /\ s \in DOMAIN subs /\ s \in Nat /\ subs[s] \in Container
                        /\ N(s) \in Nat \ {0}
                        /\ subs[s].start \in Nat /\ subs[s].period \in Nat
                        /\ subs[s].opened \in Nat
                        /\ subs'[s].start = subs[s].start + N(s) * Period
                        /\ subs'[s].period = subs[s].period + N(s)
  <2>1. \A s \in Due(at) : /\ s \in DOMAIN subs /\ subs[s] \in Container
                          /\ N(s) \in Nat \ {0}
                          /\ subs'[s] = Rolled(subs[s], N(s))
    BY <1>a, SchedulerFacts
  <2> HIDE DEF N
  <2>2. \A s \in Due(at) : /\ subs'[s].start = subs[s].start + N(s) * Period
                          /\ subs'[s].period = subs[s].period + N(s)
    BY <2>1, RolledKeeps
  <2> QED
    BY <1>a, <2>1, <2>2 DEF TypeOK, Container
<1>2. DOMAIN subs' = DOMAIN subs /\ \A s \in DOMAIN subs \ Due(at) : subs'[s] = subs[s]
  BY <1>a, SchedulerFacts
<1>3. /\ Bills' = Bills \cup RolledIds(at)
      /\ \A i \in Bills : BillOf(i)' = BillOf(i)
      /\ \A i \in RolledIds(at) : BillOf(i)' = drafts'[i]
  <2>1. /\ RolledIds(at) \cap Bills = {} /\ invoice' = invoice
        /\ DOMAIN drafts' = DOMAIN drafts \cup RolledIds(at)
        /\ \A i \in DOMAIN drafts : drafts'[i] = drafts[i]
    BY <1>a, SchedulerFacts
  <2> QED
    BY <2>1, NewDrafts
<1>4. ASSUME NEW i \in RolledIds(at)
      PROVE  /\ i[1] \in Due(at) /\ i[2] \in Int /\ K(i) \in Nat /\ K(i) < N(i[1])
             /\ i[2] = subs[i[1]].opened + 1 + K(i)
             /\ ~BillOf(i)'.final
             /\ BillOf(i)'.period = subs[i[1]].period + K(i)
             /\ BillOf(i)'.start = subs[i[1]].start + K(i) * Period
             /\ BillOf(i)'.end = subs[i[1]].start + K(i) * Period + Period
  <2>1. /\ i[1] \in Due(at)
        /\ i[2] \in subs[i[1]].opened + 1 .. subs[i[1]].opened + N(i[1])
        /\ drafts'[i] = ElapsedDraft(i[1], subs[i[1]], K(i))
    BY <1>a, SchedulerFacts
  <2>2. /\ i[1] \in Nat /\ subs[i[1]] \in Container /\ subs[i[1]].opened \in Nat
        /\ N(i[1]) \in Nat
    BY <1>1, <2>1
  <2>3. K(i) \in Nat /\ K(i) < N(i[1]) /\ i[2] \in Int /\ i[2] = subs[i[1]].opened + 1 + K(i)
    BY <2>1, <2>2
  <2> HIDE DEF K, N
  <2> QED
    BY <1>3, <2>1, <2>2, <2>3, ElapsedDraftFields
<1> HIDE DEF K, N
(* An invoice a container already had lies before the new ones.            *)
<1>5. ASSUME NEW i \in Bills, NEW j \in RolledIds(at), i[1] = j[1], ~BillOf(i).final
      PROVE  /\ BillOf(i).end <= BillOf(j)'.start
             /\ BillOf(i).period < BillOf(j)'.period
             /\ BillOf(i).end <= subs'[i[1]].start
             /\ BillOf(i).period < subs'[i[1]].period
  <2>1. BillOf(i) \in Bill
    BY <1>a DEF TypeOK, Bills, BillOf, Finalized
  <2>2. BillOf(i).end \in Nat /\ BillOf(i).period \in Nat
    BY <2>1 DEF Bill
  <2>3. i[1] \in Due(at) /\ K(j) \in Nat /\ K(j) < N(i[1])
    BY <1>4, <1>5
  <2>4. /\ BillOf(i).end <= subs[i[1]].start /\ BillOf(i).period < subs[i[1]].period
    BY <1>1, <1>5, <2>3 DEF OrderInv, BillsBehind
  <2>5. /\ subs[i[1]].start \in Nat /\ subs[i[1]].period \in Nat /\ N(i[1]) \in Nat
        /\ N(i[1]) > 0
        /\ subs'[i[1]].start = subs[i[1]].start + N(i[1]) * Period
        /\ subs'[i[1]].period = subs[i[1]].period + N(i[1])
    BY <1>1, <2>3
  <2>6. /\ K(j) * Period \in Nat /\ N(i[1]) * Period \in Nat
    BY <2>3, <2>5, PeriodIsPositive
  <2>7. /\ BillOf(j)'.start = subs[i[1]].start + K(j) * Period
        /\ BillOf(j)'.period = subs[i[1]].period + K(j)
    BY <1>4, <1>5
  <2> QED
    BY <2>2, <2>3, <2>4, <2>5, <2>6, <2>7
<1>6. \A i \in RolledIds(at) : \A j \in Bills : i[1] = j[1] => ~(i[2] < j[2])
  <2>1. \A j \in Bills : j[2] \in Nat
    BY <1>a DEF TypeOK, Bills, InvoiceIds
  <2> QED
    BY <1>a, <1>1, <1>4, <2>1 DEF BillsBelong
<1>7. BillsBehind'
  <2> SUFFICES ASSUME NEW i \in Bills', i[1] \in DOMAIN subs', ~BillOf(i)'.final
               PROVE  BillOf(i)'.end <= subs'[i[1]].start
                        /\ BillOf(i)'.period < subs'[i[1]].period
    BY DEF BillsBehind
  <2>1. CASE i \in RolledIds(at)
    <3>1. /\ i[1] \in Due(at) /\ K(i) \in Nat /\ K(i) < N(i[1])
          /\ BillOf(i)'.period = subs[i[1]].period + K(i)
          /\ BillOf(i)'.end = subs[i[1]].start + K(i) * Period + Period
      BY <1>4, <2>1
    <3>2. /\ subs[i[1]].start \in Nat /\ subs[i[1]].period \in Nat /\ N(i[1]) \in Nat
          /\ subs'[i[1]].start = subs[i[1]].start + N(i[1]) * Period
          /\ subs'[i[1]].period = subs[i[1]].period + N(i[1])
      BY <1>1, <3>1
    <3>3. subs[i[1]].start + K(i) * Period + Period <= subs[i[1]].start + N(i[1]) * Period
      BY <3>1, <3>2, LaterWindows
    <3> QED
      BY <3>1, <3>2, <3>3
  <2>2. CASE i \in Bills
    <3>1. BillOf(i)' = BillOf(i) /\ i[1] \in DOMAIN subs
      BY <1>2, <1>3, <2>2
    <3>2. CASE i[1] \in Due(at)
      <4>1. /\ subs[i[1]].opened \in Nat /\ N(i[1]) \in Nat \ {0}
        BY <1>1, <3>2
      <4>2. PICK j \in RolledIds(at) : j[1] = i[1]
        <5> DEFINE w == <<i[1], subs[i[1]].opened + 1>>
        <5>1. w \in ElapsedIds(i[1], subs[i[1]], at)
          BY <4>1 DEF ElapsedIds, N
        <5>2. w \in RolledIds(at) /\ w[1] = i[1]
          BY <3>2, <5>1 DEF RolledIds
        <5> QED
          BY <5>2
      <4> QED
        BY <1>5, <2>2, <3>1, <4>2
    <3>3. CASE i[1] \notin Due(at)
      BY <1>2, <2>2, <3>1, <3>3 DEF OrderInv, BillsBehind
    <3> QED
      BY <3>2, <3>3
  <2> QED
    BY <1>3, <2>1, <2>2
<1>8. BillsInOrder'
  <2> SUFFICES ASSUME NEW i \in Bills', NEW j \in Bills',
                      i[1] = j[1], i[2] < j[2], ~BillOf(i)'.final
               PROVE  BillOf(i)'.end <= BillOf(j)'.start
                        /\ BillOf(i)'.period < BillOf(j)'.period
    BY DEF BillsInOrder
  <2>1. CASE i \in Bills /\ j \in Bills
    BY <1>3, <2>1 DEF OrderInv, BillsInOrder
  <2>2. CASE i \in Bills /\ j \in RolledIds(at)
    BY <1>3, <1>5, <2>2
  <2>3. CASE i \in RolledIds(at) /\ j \in Bills
    BY <1>6, <2>3
  <2>4. CASE i \in RolledIds(at) /\ j \in RolledIds(at)
    <3>1. /\ i[1] \in Due(at) /\ K(i) \in Nat /\ K(j) \in Nat
          /\ i[2] = subs[i[1]].opened + 1 + K(i)
          /\ j[2] = subs[i[1]].opened + 1 + K(j)
          /\ BillOf(i)'.period = subs[i[1]].period + K(i)
          /\ BillOf(j)'.period = subs[i[1]].period + K(j)
          /\ BillOf(i)'.end = subs[i[1]].start + K(i) * Period + Period
          /\ BillOf(j)'.start = subs[i[1]].start + K(j) * Period
      BY <1>4, <2>4
    <3>2. /\ subs[i[1]].start \in Nat /\ subs[i[1]].period \in Nat
          /\ subs[i[1]].opened \in Nat
      BY <1>1, <3>1
    <3>3. K(i) < K(j)
      BY <3>1, <3>2
    <3>4. subs[i[1]].start + K(i) * Period + Period <= subs[i[1]].start + K(j) * Period
      BY <3>1, <3>2, <3>3, LaterWindows
    <3> QED
      BY <3>1, <3>2, <3>3, <3>4
  <2> QED
    BY <1>3, <2>1, <2>2, <2>3, <2>4
<1> QED
  BY <1>7, <1>8 DEF OrderInv

LEMMA OrderInit == Init => OrderInv
  BY DEF Init, OrderInv, BillsBehind, BillsInOrder, Bills

LEMMA OrderStep == StripeInv /\ OrderInv /\ [Next]_vars => OrderInv'
<1> SUFFICES ASSUME StripeInv, OrderInv, [Next]_vars
             PROVE  OrderInv'
  OBVIOUS
<1>1. CASE Tick
  BY <1>1, OrderUnchanged DEF Tick
<1>2. CASE Scheduler
  BY <1>2, OrderScheduler DEF Scheduler
<1>3. CASE SomeCall
  BY <1>3, OrderAddToExisting, OrderAddToNew, OrderRemove, OrderCreateItem,
     OrderFinalize, OrderPay
     DEF SomeCall, handleAddItem
<1>4. CASE UNCHANGED vars
  BY <1>4, OrderUnchanged DEF vars
<1> QED
  BY <1>1, <1>2, <1>3, <1>4 DEF Next

LEMMA TilesInOrder == PeriodInv /\ OrderInv => PeriodsTile
  BY DEF PeriodInv, OrderInv, PeriodsAbut, BillsInOrder, PeriodsTile

(* However late the scheduler runs and whatever is added and removed: the  *)
(* windows of a container's invoices follow one another, in the order in   *)
(* which they were opened, and only a final invoice's may be gone over     *)
(* again; regular ones are for whole periods and abut.                     *)
THEOREM WindowsTile == Spec => []PeriodsTile
<1>1. StripeInv /\ OrderInv /\ [Next]_vars => OrderInv'
  BY OrderStep
<1> QED
  BY <1>1, OrderInit, InvAlways, PeriodAlways, TilesInOrder, PTL DEF Spec

(* Every period a live container has left behind was invoiced.             *)
THEOREM EveryPeriodIsInvoiced == Spec => []NoPeriodSkipped
<1>1. PeriodInv => NoPeriodSkipped
  BY DEF PeriodInv
<1> QED
  BY <1>1, PeriodAlways, PTL

-----------------------------------------------------------------------------
(* Rounding.                                                               *)

(* What is due was computed once, from the bill as it was finalized, and   *)
(* what is due was shown to the customer.                                  *)
DueAsBilled ==
    \A i \in DOMAIN invoice :
        /\ invoice[i].due = AmountDue(invoice[i].bill)
        /\ invoice[i].due > 0 => i \in listed[invoice[i].bill.customer]

(* Rounding to the nearest cent is off by half a cent at most, and up only *)
(* by as much: an amount that rounds to nothing is less than half a cent.  *)
LEMMA AmountDueIsNear ==
    ASSUME NEW d \in Bill
    PROVE  LET off == 2 * (TotalMicros(d) - AmountDue(d) * MicrosPerCent) IN
           /\ off < MicrosPerCent /\ -off <= MicrosPerCent
           /\ AmountDue(d) = 0 => 2 * TotalMicros(d) < MicrosPerCent
<1> DEFINE T == TotalMicros(d)
           M == MicrosPerCent
           q == AmountDue(d)
<1>1. T \in Nat /\ M \in Nat /\ M > 0
  <2>1. d.fee \in Nat /\ d.usage \in Nat
    BY DEF Bill
  <2>2. FeeMicros \in Nat /\ M \in Nat /\ M > 0
    BY FakeStripeAssumption
  <2>3. d.fee * FeeMicros \in Nat
    BY <2>1, <2>2
  <2> QED
    BY <2>1, <2>2, <2>3 DEF TotalMicros
<1> HIDE DEF T, M
<1>2. q \in Nat /\ q * (2 * M) <= 2 * T + M /\ 2 * T + M < (q + 1) * (2 * M)
  <2>1. q = (2 * T + M) \div (2 * M)
    BY DEF AmountDue, T, M
  <2> HIDE DEF q
  <2>2. 2 * T + M \in Nat /\ 2 * M \in Nat /\ 2 * M > 0
    BY <1>1
  <2> QED
    BY <2>1, <2>2, WholeQuotient
<1> HIDE DEF q
<1>3. /\ q * M \in Int
      /\ q * (2 * M) = 2 * (q * M)
      /\ (q + 1) * (2 * M) = 2 * (q * M) + 2 * M
      /\ q = 0 => q * M = 0
  BY <1>1, <1>2
<1> DEFINE c == q * M
<1>4. /\ c \in Int /\ 2 * c <= 2 * T + M /\ 2 * T + M < 2 * c + 2 * M
      /\ q = 0 => c = 0
  BY <1>2, <1>3
<1> HIDE DEF c
<1>5. /\ 2 * (T - c) < M /\ -(2 * (T - c)) <= M
      /\ q = 0 => 2 * T < M
  BY <1>1, <1>4
<1> QED
  BY <1>5 DEF T, M, q, c

LEMMA DueStep ==
    ASSUME StripeInv, DueAsBilled, [Next]_vars
    PROVE  DueAsBilled'
<1>1. TypeOK /\ FinalizedOnce
  BY DEF StripeInv
<1>2. CASE UNCHANGED <<invoice, listed>>
  BY <1>2 DEF DueAsBilled
<1>3. ASSUME NEW i \in DOMAIN drafts, handleFinalizeInvoice(i)
      PROVE  DueAsBilled'
  <2> DEFINE d == drafts[i]
             inv == [bill |-> d, due |-> AmountDue(d), paid |-> FALSE]
             c == d.customer
  <2>1. invoice' = Put(invoice, i, inv) /\ listed' = Shown(i, inv)
    BY <1>3 DEF handleFinalizeInvoice
  <2>2. c \in Customers /\ inv.bill = d /\ inv.due = AmountDue(d)
    BY <1>1 DEF TypeOK, Bill
  <2>3. listed' = IF inv.due > 0 THEN [listed EXCEPT ![c] = listed[c] \cup {i}] ELSE listed
    BY <2>1, <2>2 DEF Shown
  <2>4. listed \in [Customers -> SUBSET DOMAIN invoice]
    BY <1>1 DEF TypeOK
  <2>5. i \notin DOMAIN invoice
    BY <1>1 DEF FinalizedOnce
  <2> HIDE DEF inv
  <2>6. /\ DOMAIN invoice' = DOMAIN invoice \cup {i} /\ invoice'[i] = inv
        /\ \A j \in DOMAIN invoice : invoice'[j] = invoice[j]
    BY <2>1, <2>5 DEF Put
  <2> HIDE DEF d, c
  <2>7. /\ \A x \in Customers : listed[x] \subseteq listed'[x]
        /\ inv.due > 0 => i \in listed'[c]
    BY <2>2, <2>3, <2>4
  <2>8. \A j \in DOMAIN invoice : invoice[j].bill.customer \in Customers
    BY <1>1 DEF TypeOK, Finalized, Bill
  <2> QED
    BY <2>2, <2>6, <2>7, <2>8 DEF DueAsBilled, c
<1>4. ASSUME NEW i \in open, handlePayInvoice(i)
      PROVE  DueAsBilled'
  <2>1. /\ DOMAIN invoice' = DOMAIN invoice /\ listed' = listed
        /\ \A j \in DOMAIN invoice : /\ invoice'[j].bill = invoice[j].bill
                                    /\ invoice'[j].due = invoice[j].due
    BY <1>1, <1>4, PayFacts
  <2> QED
    BY <2>1 DEF DueAsBilled
<1>5. CASE Tick
  BY <1>2, <1>5 DEF Tick
<1>6. CASE Scheduler
  BY <1>2, <1>6 DEF Scheduler, advancePeriods
<1>7. CASE SomeCall
  <2>1. ASSUME NEW c, NEW t, NEW k, NEW meta, NEW at, handleAddItem(c, t, k, meta, at)
        PROVE  UNCHANGED <<invoice, listed>>
    BY <2>1 DEF handleAddItem, AddToExisting, AddToNew, StoreContainer
  <2>2. ASSUME NEW s, NEW t, NEW at, handleRemoveItem(s, t, at)
        PROVE  UNCHANGED <<invoice, listed>>
    BY <2>2 DEF handleRemoveItem
  <2>3. ASSUME NEW i, NEW micros, handleCreateItem(i, micros)
        PROVE  UNCHANGED <<invoice, listed>>
    BY <2>3 DEF handleCreateItem
  <2> QED
    BY <1>2, <1>3, <1>4, <1>7, <2>1, <2>2, <2>3 DEF SomeCall
<1>8. CASE UNCHANGED vars
  BY <1>2, <1>8 DEF vars
<1> QED
  BY <1>5, <1>6, <1>7, <1>8 DEF Next

(* However many items are attached to an invoice, what is collected for it *)
(* is off by half a cent at most, and what is never shown is worth less.   *)
THEOREM RoundingIsBounded == Spec => []RoundingErrorIsBounded
<1>1. Init => DueAsBilled
  BY DEF Init, DueAsBilled
<1>2. StripeInv /\ DueAsBilled /\ [Next]_vars => DueAsBilled'
  BY DueStep
<1>3. StripeInv /\ DueAsBilled => RoundingErrorIsBounded
  <2> SUFFICES ASSUME StripeInv, DueAsBilled, NEW i \in DOMAIN invoice
               PROVE  LET bill == invoice[i].bill
                          off == 2 * (TotalMicros(bill) - invoice[i].due * MicrosPerCent)
                      IN  /\ off < MicrosPerCent /\ -off <= MicrosPerCent
                          /\ i \notin listed[bill.customer]
                                => 2 * TotalMicros(bill) < MicrosPerCent
    BY DEF RoundingErrorIsBounded
  <2> DEFINE bill == invoice[i].bill
  <2>1. bill \in Bill
    BY DEF StripeInv, TypeOK, Finalized
  <2>2. /\ invoice[i].due = AmountDue(bill)
        /\ i \notin listed[bill.customer] => ~(AmountDue(bill) > 0)
    BY DEF DueAsBilled
  <2> HIDE DEF bill
  <2>3. AmountDue(bill) \in Nat
    BY <2>1, AmountDueIsNat
  <2> QED
    BY <2>1, <2>2, <2>3, AmountDueIsNear DEF bill
<1> QED
  BY <1>1, <1>2, <1>3, InvAlways, PTL DEF Spec

-----------------------------------------------------------------------------
(* Live containers the index no longer leads to.                           *)

(* A container goes with a final invoice of its own, which stays.          *)
GoneByFinal ==
    \A s \in 1 .. created : s \notin DOMAIN subs =>
        \E i \in DOMAIN invoice : invoice[i].bill.sub = s /\ invoice[i].bill.final

StrandInv == GoneByFinal /\ StrandedByLateFinalOnly

(* What most steps leave as it is.                                         *)
LEMMA StrandFrame ==
    ASSUME StrandInv, created' = created, byCustomer' = byCustomer,
           DOMAIN subs' = DOMAIN subs,
           \A s \in DOMAIN subs : subs'[s].customer = subs[s].customer,
           DOMAIN invoice' = DOMAIN invoice,
           \A i \in DOMAIN invoice : invoice'[i].bill = invoice[i].bill
    PROVE  StrandInv'
<1>1. GoneByFinal'
  BY DEF StrandInv, GoneByFinal
<1>2. \A c : TwoFinals(c) => TwoFinals(c)'
  BY DEF TwoFinals
<1> QED
  BY <1>1, <1>2 DEF StrandInv, StrandedByLateFinalOnly

LEMMA StrandAddToNew ==
    ASSUME StripeInv, StrandInv, NEW c \in Customers, NEW t \in ItemTypes,
           NEW k \in Keys \cup {NoKey}, NEW meta \in Metas \cup {NoMeta},
           NEW at \in Readings, AddToNew(c, t, k, meta, at)
    PROVE  StrandInv'
<1>1. TypeOK
  BY DEF StripeInv
<1>2. created \in Nat /\ byCustomer \in [Customers -> 0 .. created]
        /\ \A s \in DOMAIN subs : subs[s].customer \in Customers
  BY <1>1 DEF TypeOK, Container
<1>3. /\ created' = created + 1
      /\ DOMAIN subs' = DOMAIN subs \cup {created + 1}
      /\ \A s \in DOMAIN subs : subs'[s] = subs[s]
      /\ subs'[created + 1].customer = c
      /\ created + 1 \notin DOMAIN subs
      /\ byCustomer' = [byCustomer EXCEPT ![c] = created + 1]
      /\ invoice' = invoice
  BY <1>1, AddToNewFacts
<1>4. byCustomer[c] \notin DOMAIN subs
  BY DEF AddToNew
<1>5. GoneByFinal'
  <2>1. \A s \in 1 .. created' : s \in 1 .. created \/ s = created + 1
    BY <1>2, <1>3
  <2> QED
    BY <1>3, <2>1 DEF StrandInv, GoneByFinal
<1>6. \A x : TwoFinals(x) => TwoFinals(x)'
  BY <1>3 DEF TwoFinals
<1>7. ASSUME NEW s \in DOMAIN subs
      PROVE  byCustomer'[subs[s].customer] = s \/ TwoFinals(subs[s].customer)
  <2>1. byCustomer[subs[s].customer] = s \/ TwoFinals(subs[s].customer)
    BY DEF StrandInv, StrandedByLateFinalOnly
  <2>2. CASE subs[s].customer = c
    BY <1>4, <2>1, <2>2
  <2>3. CASE subs[s].customer # c
    BY <1>2, <1>3, <2>1, <2>3
  <2> QED
    BY <2>2, <2>3
<1>8. byCustomer'[c] = created + 1
  BY <1>2, <1>3
<1>9. StrandedByLateFinalOnly'
  BY <1>3, <1>6, <1>7, <1>8 DEF StrandedByLateFinalOnly
<1> QED
  BY <1>5, <1>9 DEF StrandInv

(* A final invoice that finds its container gone is not the first one of   *)
(* that container; one that does not, takes it along.                      *)
LEMMA StrandFinalize ==
    ASSUME StripeInv, StrandInv, NEW i \in DOMAIN drafts, handleFinalizeInvoice(i)
    PROVE  StrandInv'
<1> DEFINE d == drafts[i]
<1>1. TypeOK /\ BillsBelong /\ FinalizedOnce
  BY DEF StripeInv
<1>2. /\ i \notin DOMAIN invoice
      /\ DOMAIN invoice' = DOMAIN invoice \cup {i}
      /\ \A j \in DOMAIN invoice : invoice'[j] = invoice[j]
      /\ invoice'[i].bill = d
      /\ created' = created
      /\ \A s \in DOMAIN subs' : s \in DOMAIN subs /\ subs'[s] = subs[s]
  BY <1>1, FinalizeFacts
<1>3. \/ d.final /\ DOMAIN subs' = DOMAIN subs \ {d.sub}
           /\ byCustomer' = [byCustomer EXCEPT ![d.customer] = Absent]
      \/ ~d.final /\ UNCHANGED <<subs, byCustomer>>
  BY <1>1, FinalizeFacts
<1>4. /\ d.sub \in 1 .. created
      /\ d.sub \in DOMAIN subs => d.customer = subs[d.sub].customer
  <2>1. i \in Bills /\ BillOf(i) = d
    BY DEF Bills, BillOf
  <2> HIDE DEF d
  <2>2. d.sub = i[1] /\ i[1] \in 1 .. created
        /\ (i[1] \in DOMAIN subs => d.customer = subs[i[1]].customer)
    BY <1>1, <2>1 DEF BillsBelong
  <2> QED
    BY <2>2
<1>5. byCustomer \in [Customers -> 0 .. created] /\ d.customer \in Customers
        /\ \A s \in DOMAIN subs : subs[s].customer \in Customers
  BY <1>1 DEF TypeOK, Container, Bill
<1> HIDE DEF d
<1>6. GoneByFinal'
  BY <1>2, <1>3 DEF StrandInv, GoneByFinal
<1>7. \A x : TwoFinals(x) => TwoFinals(x)'
  BY <1>2 DEF TwoFinals
<1>8. ASSUME NEW c, c = d.customer, d.final, d.sub \notin DOMAIN subs
      PROVE  TwoFinals(c)'
  <2>1. PICK j \in DOMAIN invoice : invoice[j].bill.sub = d.sub /\ invoice[j].bill.final
    BY <1>4, <1>8 DEF StrandInv, GoneByFinal
  <2>2. j \in DOMAIN invoice' /\ i \in DOMAIN invoice' /\ j # i
        /\ invoice'[j].bill = invoice[j].bill
    BY <1>2, <2>1
  <2> QED
    BY <1>2, <1>8, <2>1, <2>2 DEF TwoFinals
<1>9. ASSUME NEW s \in DOMAIN subs', NEW c, c = subs[s].customer
      PROVE  byCustomer'[c] = s \/ TwoFinals(c)'
  <2>1. s \in DOMAIN subs /\ c \in Customers
    BY <1>2, <1>5, <1>9
  <2>2. byCustomer[c] = s \/ TwoFinals(c)
    BY <1>9, <2>1 DEF StrandInv, StrandedByLateFinalOnly
  <2>3. CASE ~d.final \/ c # d.customer
    <3>1. byCustomer'[c] = byCustomer[c]
      BY <1>3, <1>5, <2>1, <2>3
    <3> QED
      BY <1>7, <2>2, <3>1
  <2>4. CASE d.final /\ c = d.customer /\ d.sub \notin DOMAIN subs
    BY <1>8, <2>4
  <2>5. CASE d.final /\ c = d.customer /\ d.sub \in DOMAIN subs
    <3>1. s # d.sub /\ subs[d.sub].customer = c
      BY <1>3, <1>4, <2>5
    <3>2. byCustomer[c] = d.sub \/ TwoFinals(c)
      BY <2>5, <3>1 DEF StrandInv, StrandedByLateFinalOnly
    <3>3. TwoFinals(c)
      BY <2>2, <3>1, <3>2
    <3> QED
      BY <1>7, <3>3
  <2> QED
    BY <2>3, <2>4, <2>5
<1>10. StrandedByLateFinalOnly'
  BY <1>2, <1>9 DEF StrandedByLateFinalOnly
<1> QED
  BY <1>6, <1>10 DEF StrandInv

LEMMA StrandInit == Init => StrandInv
<1>1. Init => 1 .. created = {} /\ DOMAIN subs = {}
  BY DEF Init
<1> QED
  BY <1>1 DEF StrandInv, GoneByFinal, StrandedByLateFinalOnly

LEMMA StrandStep == StripeInv /\ StrandInv /\ [Next]_vars => StrandInv'
<1> SUFFICES ASSUME StripeInv, StrandInv, [Next]_vars
             PROVE  StrandInv'
  OBVIOUS
<1>1. TypeOK /\ BillsBelong
  BY DEF StripeInv
<1>2. CASE UNCHANGED <<created, byCustomer, subs, invoice>>
  BY <1>2, StrandFrame
<1>3. CASE Scheduler
  <2>1. PICK at \in Readings : advancePeriods(at)
    BY <1>3 DEF Scheduler
  <2>2. /\ \A s \in Due(at) : subs'[s] = Rolled(subs[s], Elapsed(subs[s], at))
        /\ \A s \in DOMAIN subs \ Due(at) : subs'[s] = subs[s]
        /\ DOMAIN subs' = DOMAIN subs
        /\ UNCHANGED <<created, byCustomer, invoice>>
    BY <1>1, <2>1, SchedulerFacts
  <2>3. \A s \in Due(at) : /\ s \in DOMAIN subs /\ subs[s] \in Container
                           /\ Elapsed(subs[s], at) \in Nat \ {0}
    BY <1>1, <2>1, SchedulerFacts
  <2>4. \A s \in Due(at) : subs'[s].customer = subs[s].customer
    BY <2>2, <2>3, RolledKeeps
  <2> QED
    BY <2>2, <2>4, StrandFrame
<1>4. CASE SomeCall
  <2>1. ASSUME NEW c \in Customers, NEW t \in ItemTypes, NEW k \in Keys \cup {NoKey},
               NEW meta \in Metas \cup {NoMeta}, NEW at \in Readings,
               handleAddItem(c, t, k, meta, at)
        PROVE  StrandInv'
    <3>1. CASE AddToExisting(c, t, k, meta, at)
      BY <1>1, <3>1, AddToExistingFacts, StrandFrame
    <3>2. CASE AddToNew(c, t, k, meta, at)
      BY <3>2, StrandAddToNew
    <3> QED
      BY <2>1, <3>1, <3>2 DEF handleAddItem
  <2>2. ASSUME NEW s \in DOMAIN subs, NEW t \in ItemTypes, NEW at \in Readings,
               handleRemoveItem(s, t, at)
        PROVE  StrandInv'
    <3>1. /\ DOMAIN subs' = DOMAIN subs
          /\ \A x \in DOMAIN subs : subs'[x].customer = subs[x].customer
      BY <1>1, <2>2, RemoveFacts
    <3>2. UNCHANGED <<created, byCustomer, invoice>>
      BY <2>2 DEF handleRemoveItem
    <3> QED
      BY <3>1, <3>2, StrandFrame
  <2>3. ASSUME NEW i \in DOMAIN drafts, NEW micros \in ItemMicros,
               handleCreateItem(i, micros)
        PROVE  StrandInv'
    BY <1>2, <2>3 DEF handleCreateItem
  <2>4. ASSUME NEW i \in DOMAIN drafts, handleFinalizeInvoice(i)
        PROVE  StrandInv'
    BY <2>4, StrandFinalize
  <2>5. ASSUME NEW i \in open, handlePayInvoice(i)
        PROVE  StrandInv'
    <3>1. /\ DOMAIN invoice' = DOMAIN invoice
          /\ \A j \in DOMAIN invoice : invoice'[j].bill = invoice[j].bill
          /\ UNCHANGED <<created, subs, byCustomer>>
      BY <1>1, <2>5, PayFacts
    <3> QED
      BY <3>1, StrandFrame
  <2> QED
    BY <1>4, <2>1, <2>2, <2>3, <2>4, <2>5 DEF SomeCall
<1>5. CASE Tick
  BY <1>2, <1>5 DEF Tick
<1>6. CASE UNCHANGED vars
  BY <1>2, <1>6 DEF vars
<1> QED
  BY <1>3, <1>4, <1>5, <1>6 DEF Next

(* A customer's index entry is lost to a live container in one way only:   *)
(* by the second final invoice of an earlier one.                          *)
THEOREM OnlyLateFinalsStrand == Spec => []StrandedByLateFinalOnly
<1>1. StripeInv /\ StrandInv /\ [Next]_vars => StrandInv'
  BY StrandStep
<1>2. StrandInv => StrandedByLateFinalOnly
  BY DEF StrandInv
<1> QED
  BY <1>1, <1>2, StrandInit, InvAlways, PTL DEF Spec
=============================================================================
