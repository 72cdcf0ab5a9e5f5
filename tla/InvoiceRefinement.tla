------------------------- MODULE InvoiceRefinement -------------------------
(***************************************************************************)
(* FakeStripe implements InvoiceLifecycle: its initial state maps to the   *)
(* abstract initial state, and every step maps to an abstract step or to   *)
(* a stutter.  The mapping is the one of FakeStripe!Lifecycle.             *)
(***************************************************************************)
EXTENDS FakeStripeProofs

abstract == <<Status, Amount, Statement>>

LEMMA MapInit == Init => Lifecycle!Init
<1> SUFFICES ASSUME Init
             PROVE  Lifecycle!Init
  OBVIOUS
<1>1. DOMAIN drafts = {} /\ DOMAIN invoice = {}
  BY DEF Init
<1>2. Bills = {}
  BY <1>1 DEF Bills
<1>3. Statement = {}
  BY DEF Init, Statement
<1> QED
  BY <1>1, <1>2, <1>3 DEF Lifecycle!Init, Status, Amount

(* A step that keeps the invoices' states, whatever it does to the drafts. *)
LEMMA MapStutter ==
    ASSUME DOMAIN drafts' = DOMAIN drafts, invoice' = invoice, listed' = listed
    PROVE  abstract' = abstract
<1>1. Bills' = Bills
  BY DEF Bills
<1> QED
  BY <1>1 DEF abstract, Status, Amount, Statement

LEMMA MapNewDrafts ==
    ASSUME NEW ids, ids # {}, ids \subseteq InvoiceIds, ids \cap Bills = {},
           DOMAIN drafts' = DOMAIN drafts \cup ids,
           invoice' = invoice, listed' = listed
    PROVE  Lifecycle!OpenDrafts
<1>1. Bills' = Bills \cup ids
  BY DEF Bills
<1>2. DOMAIN Status = Bills /\ DOMAIN Status' = Bills'
  BY DEF Status
<1>3. DOMAIN Status' \ DOMAIN Status = ids
  BY <1>1, <1>2
<1>4. Status' = [i \in Bills \cup ids |-> IF i \in ids THEN "draft" ELSE Status[i]]
  <2>1. \A i \in Bills \cup ids :
           Status'[i] = IF i \in ids THEN "draft" ELSE Status[i]
    BY <1>1 DEF Status, Bills
  <2> QED
    BY <1>1, <2>1 DEF Status
<1>5. Amount' = Amount /\ Statement' = Statement
  BY DEF Amount, Statement
<1> QED
  BY <1>2, <1>3, <1>4, <1>5 DEF Lifecycle!OpenDrafts, Lifecycle!Issued

LEMMA MapScheduler ==
    ASSUME StripeInv, NEW at \in Readings, advancePeriods(at)
    PROVE  Lifecycle!OpenDrafts
<1>1. TypeOK /\ BillsBelong
  BY DEF StripeInv
<1>2. /\ RolledIds(at) \cap Bills = {}
      /\ DOMAIN drafts' = DOMAIN drafts \cup RolledIds(at)
      /\ UNCHANGED <<invoice, listed>>
  BY <1>1, SchedulerFacts
<1>3. RolledIds(at) \subseteq InvoiceIds
  <2> SUFFICES ASSUME NEW s \in Due(at), NEW i \in ElapsedIds(s, subs[s], at)
               PROVE  i \in InvoiceIds
    BY DEF RolledIds
  <2>1. s \in Nat /\ subs[s].opened \in Nat
    BY <1>1 DEF Due, TypeOK, Container
  <2>2. Elapsed(subs[s], at) \in Nat
    BY <1>1, SchedulerFacts
  <2> QED
    BY <2>1, <2>2 DEF ElapsedIds, InvoiceIds
<1>4. RolledIds(at) # {}
  <2>1. PICK s \in DOMAIN subs : s \in Due(at)
    BY DEF advancePeriods, Due
  <2>2. subs[s].opened \in Nat /\ Elapsed(subs[s], at) \in Nat \ {0}
    BY <1>1, <2>1, SchedulerFacts DEF Container
  <2>3. <<s, subs[s].opened + 1>> \in ElapsedIds(s, subs[s], at)
    BY <2>2 DEF ElapsedIds
  <2> QED
    BY <2>1, <2>3 DEF RolledIds
<1> QED
  BY <1>2, <1>3, <1>4, MapNewDrafts

LEMMA MapRemove ==
    ASSUME StripeInv, NEW s \in DOMAIN subs, NEW t \in ItemTypes,
           NEW at \in Readings, handleRemoveItem(s, t, at)
    PROVE  Lifecycle!OpenDrafts \/ abstract' = abstract
<1>1. TypeOK /\ BillsBelong
  BY DEF StripeInv
<1>2. UNCHANGED <<invoice, listed>>
  BY <1>1, RemoveFacts
<1>3. CASE drafts' = drafts
  BY <1>2, <1>3, MapStutter
<1>4. CASE drafts' # drafts
  <2>1. PICK i \in InvoiceIds : /\ i \notin Bills
                               /\ DOMAIN drafts' = DOMAIN drafts \cup {i}
    BY <1>1, <1>4, RemoveFacts
  <2>2. {i} # {} /\ {i} \subseteq InvoiceIds /\ {i} \cap Bills = {}
    BY <2>1
  <2> QED
    BY <1>2, <2>1, <2>2, MapNewDrafts
<1> QED
  BY <1>3, <1>4

LEMMA MapAdd ==
    ASSUME StripeInv, NEW c \in Customers, NEW t \in ItemTypes,
           NEW k \in Keys \cup {NoKey}, NEW meta \in Metas \cup {NoMeta},
           NEW at \in Readings, handleAddItem(c, t, k, meta, at)
    PROVE  abstract' = abstract
<1>1. UNCHANGED <<drafts, invoice, listed>>
  BY DEF handleAddItem, AddToExisting, AddToNew, StoreContainer
<1> QED
  BY <1>1, MapStutter

LEMMA MapCreateItem ==
    ASSUME StripeInv, NEW i \in DOMAIN drafts, NEW micros \in ItemMicros,
           handleCreateItem(i, micros)
    PROVE  abstract' = abstract
<1>1. TypeOK
  BY DEF StripeInv
<1>2. DOMAIN drafts' = DOMAIN drafts
  BY <1>1, CreateItemFacts
<1>3. UNCHANGED <<invoice, listed>>
  BY DEF handleCreateItem
<1> QED
  BY <1>2, <1>3, MapStutter

LEMMA MapFinalize ==
    ASSUME StripeInv, NEW i \in DOMAIN drafts, handleFinalizeInvoice(i)
    PROVE  Lifecycle!Finalize(i)
<1> DEFINE d   == drafts[i]
           inv == [bill |-> d, due |-> AmountDue(d), paid |-> FALSE]
<1>1. TypeOK /\ FinalizedOnce
  BY DEF StripeInv
<1>2. /\ invoice' = Put(invoice, i, inv)
      /\ listed' = Shown(i, inv)
  BY DEF handleFinalizeInvoice
<1>3. d \in Bill /\ d.customer \in Customers /\ AmountDue(d) \in Nat
  BY <1>1, AmountDueIsNat DEF TypeOK, Bill
<1>4. /\ DOMAIN drafts' = DOMAIN drafts \ {i}
      /\ i \notin DOMAIN invoice
      /\ DOMAIN invoice' = DOMAIN invoice \cup {i}
      /\ \A j \in DOMAIN invoice : invoice'[j] = invoice[j]
      /\ ~invoice'[i].paid
      /\ Bills' = Bills
  BY <1>1, FinalizeFacts
<1>5. invoice'[i].due = AmountDue(d)
  BY <1>2 DEF Put
<1>6. inv.due = AmountDue(d) /\ inv.bill.customer = d.customer
  OBVIOUS
<1> DEFINE due == AmountDue(d)
<1>7. /\ DOMAIN Amount' = DOMAIN Amount \cup {i}
      /\ Amount'[i] = due
      /\ Amount' = [j \in DOMAIN Amount \cup {i} |->
                      IF j = i THEN Amount'[i] ELSE Amount[j]]
  BY <1>4, <1>5 DEF Amount
<1>8. Statement' = IF due > 0 THEN Statement \cup {i} ELSE Statement
  <2>1. CASE due > 0
    <3>1. listed' = [listed EXCEPT ![d.customer] = @ \cup {i}]
      BY <1>2, <1>6, <2>1 DEF Shown
    <3>2. \A c \in Customers : listed'[c] = IF c = d.customer THEN listed[c] \cup {i}
                                                             ELSE listed[c]
      BY <1>1, <3>1 DEF TypeOK
    <3>3. Statement' = Statement \cup {i}
      <4>1. \A x : x \in Statement' <=> x \in Statement \/ x = i
        <5> HIDE DEF d
        <5>1. ASSUME NEW x \in Statement'
              PROVE  x \in Statement \/ x = i
          <6>1. PICK c \in Customers : x \in listed'[c]
            BY DEF Statement
          <6> QED
            BY <3>2, <6>1 DEF Statement
        <5>2. ASSUME NEW x \in Statement
              PROVE  x \in Statement'
          <6>1. PICK c \in Customers : x \in listed[c]
            BY DEF Statement
          <6> QED
            BY <3>2, <6>1 DEF Statement
        <5>3. i \in Statement'
          <6>1. i \in listed'[d.customer]
            BY <1>3, <3>2
          <6> QED
            BY <1>3, <6>1 DEF Statement
        <5> QED
          BY <5>1, <5>2, <5>3
      <4> QED
        BY <4>1
    <3> QED
      BY <2>1, <3>3
  <2>2. CASE ~(due > 0)
    <3>1. listed' = listed
      BY <1>2, <1>6, <2>2 DEF Shown
    <3> QED
      BY <2>2, <3>1 DEF Statement
  <2> QED
    BY <2>1, <2>2
<1>9. Status[i] = "draft" /\ DOMAIN Status = Bills
  BY DEF Status, Bills
<1>10. Status' = [Status EXCEPT ![i] = "open"]
  <2>1. \A j \in Bills : Status'[j] = IF j = i THEN "open" ELSE Status[j]
    BY <1>4 DEF Status, Bills
  <2> QED
    BY <1>4, <2>1 DEF Status
<1>11. Amount'[i] \in Nat
  BY <1>3, <1>7
<1>12. Statement' = IF Amount'[i] > 0 THEN Statement \cup {i} ELSE Statement
  BY <1>7, <1>8
<1> HIDE DEF d, inv, due
<1> QED
  BY <1>7, <1>9, <1>10, <1>11, <1>12 DEF Lifecycle!Finalize

LEMMA MapPay ==
    ASSUME StripeInv, NEW i \in open, handlePayInvoice(i)
    PROVE  Lifecycle!Collect(i) \/ abstract' = abstract
<1>1. TypeOK /\ FinalizedOnce
  BY DEF StripeInv
<1>2. /\ DOMAIN invoice' = DOMAIN invoice
      /\ i \in DOMAIN invoice
      /\ \A j \in DOMAIN invoice : invoice'[j].due = invoice[j].due
      /\ \A j \in DOMAIN invoice \ {i} : invoice'[j] = invoice[j]
      /\ Bills' = Bills
      /\ UNCHANGED <<drafts, listed>>
  BY <1>1, PayFacts
<1>3. ~invoice[i].paid /\ i \notin DOMAIN drafts
  BY <1>1, <1>2 DEF FinalizedOnce
<1>4. Amount' = Amount /\ Statement' = Statement
  BY <1>2 DEF Amount, Statement
<1>5. Status[i] = "open" /\ i \in DOMAIN Status
  BY <1>2, <1>3 DEF Status, Bills
<1>6. CASE invoice'[i].paid
  <2>1. \A j \in Bills : Status'[j] = IF j = i THEN "paid" ELSE Status[j]
    BY <1>2, <1>3, <1>6 DEF Status, Bills
  <2>2. Status' = [Status EXCEPT ![i] = "paid"]
    BY <1>2, <2>1 DEF Status
  <2> QED
    BY <1>4, <1>5, <2>2 DEF Lifecycle!Collect
<1>7. CASE ~invoice'[i].paid
  <2>1. \A j \in Bills : Status'[j] = Status[j]
    BY <1>2, <1>3, <1>7 DEF Status, Bills
  <2>2. Status' = Status
    BY <1>2, <2>1 DEF Status
  <2> QED
    BY <1>4, <2>2 DEF abstract
<1> QED
  BY <1>6, <1>7

LEMMA MapStep ==
    StripeInv /\ [Next]_vars => [Lifecycle!Next]_(Lifecycle!lifecycle)
<1> SUFFICES ASSUME StripeInv, [Next]_vars
             PROVE  Lifecycle!Next \/ abstract' = abstract
  BY DEF abstract, Lifecycle!lifecycle
<1>1. CASE Tick
  BY <1>1, MapStutter DEF Tick
<1>2. CASE Scheduler
  BY <1>2, MapScheduler DEF Scheduler, Lifecycle!Next
<1>3. CASE SomeCall
  <2>1. ASSUME NEW c \in Customers, NEW t \in ItemTypes, NEW k \in Keys \cup {NoKey},
               NEW meta \in Metas \cup {NoMeta}, NEW at \in Readings,
               handleAddItem(c, t, k, meta, at)
        PROVE  abstract' = abstract
    BY <2>1, MapAdd
  <2>2. ASSUME NEW s \in DOMAIN subs, NEW t \in ItemTypes, NEW at \in Readings,
               handleRemoveItem(s, t, at)
        PROVE  Lifecycle!Next \/ abstract' = abstract
    BY <2>2, MapRemove DEF Lifecycle!Next
  <2>3. ASSUME NEW i \in DOMAIN drafts, NEW micros \in ItemMicros,
               handleCreateItem(i, micros)
        PROVE  abstract' = abstract
    BY <2>3, MapCreateItem
  <2>4. ASSUME NEW i \in DOMAIN drafts, handleFinalizeInvoice(i)
        PROVE  Lifecycle!Next
    <3>1. i \in Lifecycle!Issued
      BY DEF Lifecycle!Issued, Status, Bills
    <3> QED
      BY <2>4, <3>1, MapFinalize DEF Lifecycle!Next
  <2>5. ASSUME NEW i \in open, handlePayInvoice(i)
        PROVE  Lifecycle!Next \/ abstract' = abstract
    <3>1. i \in Lifecycle!Issued
      BY DEF Lifecycle!Issued, Status, Bills, StripeInv, TypeOK
    <3> QED
      BY <2>5, <3>1, MapPay DEF Lifecycle!Next
  <2> QED
    BY <1>3, <2>1, <2>2, <2>3, <2>4, <2>5 DEF SomeCall
<1>4. CASE UNCHANGED vars
  BY <1>4, MapStutter DEF vars
<1> QED
  BY <1>1, <1>2, <1>3, <1>4 DEF Next

(* Invoices behave as InvoiceLifecycle says, for every number of           *)
(* customers, periods and calls: drafted once, priced once, paid at most   *)
(* once, and shown exactly when something is due.                          *)
THEOREM InvoicesImplementLifecycle == Spec => InvoicesFollowLifecycle
<1>1. Init => Lifecycle!Init
  BY MapInit
<1>2. StripeInv /\ [Next]_vars => [Lifecycle!Next]_(Lifecycle!lifecycle)
  BY MapStep
<1> QED
  BY <1>1, <1>2, InvAlways, PTL
     DEF Spec, InvoicesFollowLifecycle, Lifecycle!Spec
=============================================================================
