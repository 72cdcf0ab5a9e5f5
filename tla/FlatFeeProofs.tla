--------------------------- MODULE FlatFeeProofs ---------------------------
(***************************************************************************)
(* NoSecondChargedTwice of FakeStripe, for every value of the constants:   *)
(* whatever the handlers' readings of the clock are, what a container has  *)
(* been charged fits into the seconds up to the later of its period's      *)
(* start and the last whole second the flat fee was worked with.           *)
(***************************************************************************)
EXTENDS FakeStripeProofs, Counting

(* The instant up to which a container's flat fee can have been charged:   *)
(* while the item is there it was added then or the period began then, and *)
(* when it went it was prorated up to then.                                *)
ChargedUpTo(s) ==
    IF Trunc(subs[s].flatAt) < subs[s].start THEN subs[s].start
                                             ELSE Trunc(subs[s].flatAt)

(* A container is opened on a whole second, so its periods begin on one.   *)
OnTheSecond(s) == \E n \in 0 .. now : Anchor(s) = n * Second

ChargesFit(s) ==
    /\ IsFiniteSet(SecondsBilled(s))
    /\ SecondsCharged(s) * Second <= ChargedUpTo(s) - Anchor(s)
    /\ subs[s].start <= now
    /\ subs[s].flatAt <= now
    /\ OnTheSecond(s)

ChargeInv == \A s \in DOMAIN subs : subs[s].backdated \/ ChargesFit(s)

-----------------------------------------------------------------------------
(* Arithmetic of whole seconds.                                            *)

LEMMA SecondIsPositive == Second \in Nat \ {0} /\ PeriodSecs \in Nat \ {0}
  BY FakeStripeAssumption

LEMMA TimesSecond ==
    ASSUME NEW m \in Int, NEW n \in Int
    PROVE  /\ m * Second \in Int
           /\ m <= n => m * Second <= n * Second
           /\ m * Second < n * Second => m < n
           /\ (m + n) * Second = m * Second + n * Second
           /\ (m - n) * Second = m * Second - n * Second
<1>1. Second \in Nat /\ Second > 0
  BY SecondIsPositive
<1>2. /\ m * Second \in Int /\ n * Second \in Int
      /\ (m + n) * Second = m * Second + n * Second
      /\ (m - n) * Second = m * Second - n * Second
  BY <1>1
<1>3. m <= n => m * Second <= n * Second
  <2>1. m <= n => (n - m) * Second >= 0
    BY <1>1
  <2>2. (n - m) * Second = n * Second - m * Second
    BY <1>1
  <2> QED
    BY <1>2, <2>1, <2>2
<1>4. m * Second < n * Second => m < n
  <2>1. n <= m => (m - n) * Second >= 0
    BY <1>1
  <2> QED
    BY <1>2, <2>1
<1> QED
  BY <1>2, <1>3, <1>4

(* Whole seconds up to t are whole seconds up to t truncated.              *)
LEMMA TruncKeepsSeconds ==
    ASSUME NEW t \in Nat, NEW n \in Int, n * Second <= t
    PROVE  n * Second <= Trunc(t)
<1> DEFINE q == t \div Second
<1>1. Second \in Nat /\ Second > 0
  BY SecondIsPositive
<1>2. q \in Nat /\ t < (q + 1) * Second
  BY <1>1, WholeQuotient
<1>3. Trunc(t) = q * Second
  <2>1. t = Second * q + (t % Second) /\ t % Second \in Int
    BY <1>1
  <2>2. Second * q = q * Second /\ q * Second \in Int
    BY <1>1, <1>2
  <2> HIDE DEF q
  <2> QED
    BY <2>1, <2>2 DEF Trunc
<1> HIDE DEF q
<1>4. n < q + 1
  <2>1. n * Second \in Int /\ (q + 1) * Second \in Int
    BY <1>1, <1>2
  <2>2. n * Second < (q + 1) * Second
    BY <1>2, <2>1
  <2> QED
    BY <1>2, <2>2, TimesSecond
<1> QED
  BY <1>2, <1>3, <1>4, TimesSecond

LEMMA TruncIsOnTheSecond ==
    ASSUME NEW t \in Nat
    PROVE  \E n \in 0 .. t : Trunc(t) = n * Second
<1> DEFINE q == t \div Second
<1>1. Second \in Nat /\ Second > 0
  BY SecondIsPositive
<1>2. q \in Nat
  BY <1>1, WholeQuotient
<1>3. t = Second * q + (t % Second) /\ t % Second \in Nat
  BY <1>1
<1> HIDE DEF q
<1>4. Second * q = q * Second /\ q * Second \in Nat /\ q <= q * Second
  BY <1>1, <1>2
<1>5. Trunc(t) = q * Second /\ q <= t
  BY <1>2, <1>3, <1>4 DEF Trunc
<1> QED
  BY <1>2, <1>5

LEMMA TruncTwice ==
    ASSUME NEW t \in Nat
    PROVE  Trunc(t) \in Nat /\ Trunc(t) <= t /\ Trunc(Trunc(t)) = Trunc(t)
<1>1. PICK n \in 0 .. t : Trunc(t) = n * Second
  BY TruncIsOnTheSecond
<1>2. /\ Trunc(t) \in Nat /\ Trunc(t) <= t
      /\ Trunc(Trunc(t)) \in Nat /\ Trunc(Trunc(t)) <= Trunc(t)
  BY TruncIsNat
<1>3. n * Second <= Trunc(Trunc(t))
  BY <1>1, <1>2, TruncKeepsSeconds
<1> QED
  BY <1>1, <1>2, <1>3

LEMMA TruncGrows ==
    ASSUME NEW t \in Nat, NEW u \in Nat, t <= u
    PROVE  Trunc(t) <= Trunc(u)
<1>1. PICK n \in 0 .. t : Trunc(t) = n * Second
  BY TruncIsOnTheSecond
<1>2. n * Second <= u
  BY <1>1, TruncIsNat
<1> QED
  BY <1>1, <1>2, TruncKeepsSeconds

LEMMA TruncatedQuotient ==
    ASSUME NEW d \in Int
    PROVE  d \div Second \in Int /\ (d \div Second) * Second <= d
<1>1. Second \in Nat /\ Second > 0
  BY SecondIsPositive
<1>2. /\ d \div Second \in Int
      /\ d = Second * (d \div Second) + (d % Second) /\ d % Second \in 0 .. Second - 1
  BY <1>1
<1>3. Second * (d \div Second) = (d \div Second) * Second
  BY <1>1, <1>2
<1> QED
  BY <1>1, <1>2, <1>3

(* The seconds of a flat fee fit between the later of its two beginnings   *)
(* and its end, and are no more than a period's.                           *)
LEMMA FeeFits ==
    ASSUME NEW a \in Nat, NEW b \in Nat, NEW e \in Nat,
           NEW n \in 1 .. FlatFeeForWindow(a, b, e)
    PROVE  n <= PeriodSecs /\ n * Second <= e - a /\ n * Second <= e - b
<1> DEFINE from == IF a < b THEN b ELSE a
           secs == (e - from) \div Second
<1>1. from \in Nat /\ a <= from /\ b <= from
  OBVIOUS
<1>2. secs \in Int /\ secs * Second <= e - from
  BY <1>1, TruncatedQuotient
<1>3. FlatFeeForWindow(a, b, e) = IF secs < 0 THEN 0 ELSE IF secs > PeriodSecs THEN PeriodSecs ELSE secs
  BY DEF FlatFeeForWindow
<1> HIDE DEF from, secs
<1>4. n \in Nat /\ n <= PeriodSecs /\ n <= secs
  BY <1>2, <1>3, SecondIsPositive
<1>5. n * Second <= secs * Second /\ n * Second \in Int /\ secs * Second \in Int
  BY <1>2, <1>4, TimesSecond
<1> QED
  BY <1>1, <1>2, <1>4, <1>5

-----------------------------------------------------------------------------
(* Steps that charge nothing.                                              *)

LEMMA ChargesTyped ==
    ASSUME TypeOK, NEW s \in DOMAIN subs, ChargesFit(s)
    PROVE  /\ s \in Nat /\ now \in Nat /\ subs[s] \in Container
           /\ subs[s].start \in Nat /\ subs[s].flatAt \in Nat
           /\ subs[s].proration \in Nat /\ subs[s].opened \in Nat
           /\ subs[s].period \in Nat
           /\ Cardinality(SecondsBilled(s)) \in Nat
           /\ SecondsCharged(s) \in Nat
           /\ Anchor(s) \in Nat
           /\ SecondsCharged(s) * Second \in Nat
           /\ ChargedUpTo(s) \in Nat /\ ChargedUpTo(s) <= now
<1>1. s \in Nat /\ now \in Nat /\ subs[s] \in Container
  BY DEF TypeOK
<1>2. /\ subs[s].start \in Nat /\ subs[s].flatAt \in Nat
      /\ subs[s].proration \in Nat /\ subs[s].opened \in Nat /\ subs[s].period \in Nat
  BY <1>1 DEF Container
<1>3. Cardinality(SecondsBilled(s)) \in Nat
  BY FS_CardinalityType DEF ChargesFit
<1>4. SecondsCharged(s) \in Nat
  BY <1>2, <1>3 DEF SecondsCharged
<1>5. Anchor(s) \in Nat
  BY SecondIsPositive DEF ChargesFit, OnTheSecond
<1>6. SecondsCharged(s) * Second \in Nat
  BY <1>4, SecondIsPositive
<1>7. ChargedUpTo(s) \in Nat /\ ChargedUpTo(s) <= now
  BY <1>1, <1>2, TruncIsNat DEF ChargedUpTo, ChargesFit
<1> QED
  BY <1>1, <1>2, <1>3, <1>4, <1>5, <1>6, <1>7

(* A container that stays as it is, and is billed no more.                 *)
LEMMA ChargesKept ==
    ASSUME TypeOK, NEW s \in DOMAIN subs, ChargesFit(s), subs'[s] = subs[s],
           SecondsBilled(s)' = SecondsBilled(s), now' \in Nat, now <= now'
    PROVE  ChargesFit(s)'
<1>1. now \in Nat /\ subs[s].start \in Nat /\ subs[s].flatAt \in Nat
  BY ChargesTyped
<1>2. Anchor(s)' = Anchor(s) /\ SecondsCharged(s)' = SecondsCharged(s)
  BY DEF Anchor, SecondsCharged
<1>3. OnTheSecond(s)'
  BY <1>1, <1>2 DEF ChargesFit, OnTheSecond
<1>4. ChargedUpTo(s)' = ChargedUpTo(s)
  BY DEF ChargedUpTo
<1>5. SecondsCharged(s)' * Second <= ChargedUpTo(s)' - Anchor(s)'
  BY <1>2, <1>4 DEF ChargesFit
<1>6. subs'[s].start <= now' /\ subs'[s].flatAt <= now'
  BY <1>1 DEF ChargesFit
<1> QED
  BY <1>3, <1>5, <1>6 DEF ChargesFit

LEMMA SameBilled ==
    ASSUME Bills' = Bills, NEW s,
           \A i \in Bills : /\ BillOf(i)'.sub = BillOf(i).sub
                            /\ BillOf(i)'.fee = BillOf(i).fee
    PROVE  SecondsBilled(s)' = SecondsBilled(s)
<1>1. {j \in Bills' : BillOf(j)'.sub = s} = {j \in Bills : BillOf(j).sub = s}
  OBVIOUS
<1>2. \A j \in Bills : {j} \X (1 .. BillOf(j)'.fee) = {j} \X (1 .. BillOf(j).fee)
  OBVIOUS
<1> QED
  BY <1>1, <1>2 DEF SecondsBilled

(* Steps that leave every invoice's fee alone and touch no container but   *)
(* those they drop.                                                        *)
LEMMA ChargeFrame ==
    ASSUME TypeOK, ChargeInv, Bills' = Bills,
           \A i \in Bills : /\ BillOf(i)'.sub = BillOf(i).sub
                            /\ BillOf(i)'.fee = BillOf(i).fee,
           \A s \in DOMAIN subs' : s \in DOMAIN subs /\ subs'[s] = subs[s],
           now' \in Nat, now <= now'
    PROVE  ChargeInv'
<1> SUFFICES ASSUME NEW s \in DOMAIN subs', ~subs'[s].backdated
             PROVE  ChargesFit(s)'
  BY DEF ChargeInv
<1>1. s \in DOMAIN subs /\ subs'[s] = subs[s] /\ ChargesFit(s)
  BY DEF ChargeInv
<1>2. SecondsBilled(s)' = SecondsBilled(s)
  BY SameBilled
<1> QED
  BY <1>1, <1>2, ChargesKept

LEMMA ChargeUnchanged ==
    ASSUME TypeOK, ChargeInv, UNCHANGED <<subs, drafts, invoice>>,
           now' = now \/ now' = now + 1
    PROVE  ChargeInv'
<1>1. Bills' = Bills /\ \A i \in Bills : BillOf(i)' = BillOf(i)
  BY SameBills
<1>2. now' \in Nat /\ now <= now'
  BY DEF TypeOK
<1> QED
  BY <1>1, <1>2, ChargeFrame

LEMMA ChargeCreateItem ==
    ASSUME TypeOK, ChargeInv, NEW i \in DOMAIN drafts, NEW micros \in ItemMicros,
           handleCreateItem(i, micros)
    PROVE  ChargeInv'
<1>1. Bills' = Bills /\ \A j \in Bills : BillOf(j)'.sub = BillOf(j).sub
  BY CreateItemFacts
<1>2. /\ drafts' = [drafts EXCEPT ![i].usage = @ + micros]
      /\ UNCHANGED <<now, subs, invoice>>
  BY DEF handleCreateItem
<1>3. \A j \in DOMAIN drafts : drafts'[j].fee = drafts[j].fee
  BY <1>2 DEF TypeOK, Bill
<1>4. \A j \in Bills : BillOf(j)'.fee = BillOf(j).fee
  BY <1>2, <1>3 DEF BillOf
<1>5. now' \in Nat /\ now <= now'
  BY <1>2 DEF TypeOK
<1> QED
  BY <1>1, <1>2, <1>4, <1>5, ChargeFrame

LEMMA ChargeFinalize ==
    ASSUME StripeInv, ChargeInv, NEW i \in DOMAIN drafts, handleFinalizeInvoice(i)
    PROVE  ChargeInv'
<1>1. TypeOK /\ FinalizedOnce
  BY DEF StripeInv
<1>2. Bills' = Bills /\ (\A j \in Bills : BillOf(j)' = BillOf(j)) /\ now' = now
  BY <1>1, FinalizeFacts
<1>3. \A s \in DOMAIN subs' : s \in DOMAIN subs /\ subs'[s] = subs[s]
  BY <1>1, FinalizeFacts
<1>4. now' \in Nat /\ now <= now'
  BY <1>1, <1>2 DEF TypeOK
<1> QED
  BY <1>1, <1>2, <1>3, <1>4, ChargeFrame

LEMMA ChargePay ==
    ASSUME TypeOK, ChargeInv, NEW i \in open, handlePayInvoice(i)
    PROVE  ChargeInv'
<1>1. Bills' = Bills /\ (\A j \in Bills : BillOf(j)' = BillOf(j))
        /\ UNCHANGED <<now, subs>>
  BY PayFacts
<1>2. now' \in Nat /\ now <= now'
  BY <1>1 DEF TypeOK
<1> QED
  BY <1>1, <1>2, ChargeFrame

-----------------------------------------------------------------------------
(* Adding an item.                                                         *)

LEMMA ReadingIsPast ==
    ASSUME TypeOK, NEW at \in Readings
    PROVE  /\ at \in Nat /\ at <= now /\ now \in Nat
           /\ Trunc(at) \in Nat /\ Trunc(at) <= now
<1>1. at \in Nat /\ at <= now /\ now \in Nat
  BY FakeStripeAssumption DEF Readings, TypeOK
<1> QED
  BY <1>1, TruncIsNat

(* Seconds that fit into a container's life up to t fit into its life up   *)
(* to the last whole second before t.                                      *)
LEMMA ChargedToTrunc ==
    ASSUME TypeOK, NEW s \in DOMAIN subs, ChargesFit(s), NEW c \in Nat, NEW t \in Nat,
           c * Second + Anchor(s) <= t
    PROVE  c * Second + Anchor(s) <= Trunc(t)
<1>1. PICK n \in 0 .. now : Anchor(s) = n * Second
  BY DEF ChargesFit, OnTheSecond
<1>2. n \in Nat
  BY <1>1 DEF TypeOK
<1>3. (c + n) * Second = c * Second + n * Second /\ c + n \in Int
  BY <1>2, TimesSecond
<1>4. (c + n) * Second <= Trunc(t)
  BY <1>1, <1>3, TruncKeepsSeconds
<1> QED
  BY <1>1, <1>3, <1>4

LEMMA ItemAdded ==
    ASSUME NEW st \in Container, NEW t \in ItemTypes,
           NEW meta \in Metas \cup {NoMeta}, NEW at \in Nat
    PROVE  LET new == WithItem(WithMetadata(st, meta), t, at)
           IN  /\ new.start = st.start /\ new.period = st.period
               /\ new.proration = st.proration
               /\ new.items = st.items \cup {t}
               /\ new.flatAt = IF AddsFlatFee(st, t) THEN at ELSE st.flatAt
               /\ ~new.backdated => /\ ~st.backdated
                                    /\ AddsFlatFee(st, t) => Trunc(st.flatAt) <= at
<1> DEFINE tagged == WithMetadata(st, meta)
<1>1. tagged \in Container
  BY WithMetadataIsContainer
<1>2. /\ tagged.start = st.start /\ tagged.period = st.period
      /\ tagged.proration = st.proration /\ tagged.items = st.items
      /\ tagged.flatAt = st.flatAt /\ tagged.backdated = st.backdated
  BY DEF WithMetadata, Container
<1> HIDE DEF tagged
<1>3. LET new == WithItem(tagged, t, at)
      IN  /\ new.start = tagged.start /\ new.period = tagged.period
          /\ new.proration = tagged.proration
          /\ new.items = tagged.items \cup {t}
          /\ new.flatAt = IF AddsFlatFee(tagged, t) THEN at ELSE tagged.flatAt
          /\ ~new.backdated => /\ ~tagged.backdated
                               /\ AddsFlatFee(tagged, t) => ~(at < Trunc(tagged.flatAt))
  BY <1>1 DEF WithItem, Container
<1>4. st.flatAt \in Nat /\ Trunc(st.flatAt) \in Nat
  BY TruncIsNat DEF Container
<1> QED
  BY <1>2, <1>3, <1>4 DEF tagged, AddsFlatFee

LEMMA ChargeAddToExisting ==
    ASSUME TypeOK, ChargeInv, NEW c \in Customers, NEW t \in ItemTypes,
           NEW k \in Keys \cup {NoKey}, NEW meta \in Metas \cup {NoMeta},
           NEW at \in Readings, AddToExisting(c, t, k, meta, at)
    PROVE  ChargeInv'
<1> PICK h : h = byCustomer[c]
  OBVIOUS
<1> DEFINE st == subs[h]
           new == WithItem(WithMetadata(st, meta), t, Trunc(at))
<1>1. at \in Nat /\ Trunc(at) \in Nat /\ Trunc(at) <= now /\ now \in Nat
  BY ReadingIsPast
<1>2. /\ h \in DOMAIN subs
      /\ subs' = Put(subs, h, new)
      /\ UNCHANGED <<now, drafts, invoice>>
  BY DEF AddToExisting, StoreContainer
<1>3. st \in Container /\ (st.backdated \/ ChargesFit(h))
  BY <1>2 DEF TypeOK, ChargeInv
<1>4. /\ new.start = st.start /\ new.period = st.period /\ new.proration = st.proration
      /\ new.items = st.items \cup {t}
      /\ new.flatAt = IF AddsFlatFee(st, t) THEN Trunc(at) ELSE st.flatAt
      /\ ~new.backdated => /\ ~st.backdated
                           /\ AddsFlatFee(st, t) => Trunc(st.flatAt) <= Trunc(at)
  BY <1>1, <1>3, ItemAdded
<1> HIDE DEF new
<1>5. /\ DOMAIN subs' = DOMAIN subs /\ subs'[h] = new
      /\ \A s \in DOMAIN subs : s # h => subs'[s] = subs[s]
  BY <1>2 DEF Put
<1>6. \A s : SecondsBilled(s)' = SecondsBilled(s)
  BY <1>2, SameBills, SameBilled
<1>7. ASSUME NEW s \in DOMAIN subs', s # h, ~subs'[s].backdated
      PROVE  ChargesFit(s)'
  BY <1>2, <1>5, <1>6, <1>7, ChargesKept DEF ChargeInv, TypeOK
<1>8. ASSUME ~subs'[h].backdated
      PROVE  ChargesFit(h)'
  <2>0. /\ ChargesFit(h)
        /\ AddsFlatFee(st, t) => Trunc(st.flatAt) <= Trunc(at)
    BY <1>3, <1>4, <1>5, <1>8
  <2>1. Anchor(h)' = Anchor(h) /\ SecondsCharged(h)' = SecondsCharged(h)
    BY <1>4, <1>5, <1>6 DEF Anchor, SecondsCharged
  <2>2. OnTheSecond(h)'
    BY <1>2, <2>0, <2>1 DEF ChargesFit, OnTheSecond
  <2>3. subs'[h].start <= now' /\ subs'[h].flatAt <= now'
    BY <1>1, <1>2, <1>4, <1>5, <2>0 DEF ChargesFit
  <2>4. ChargedUpTo(h) <= ChargedUpTo(h)' /\ ChargedUpTo(h)' \in Nat
    <3>1. /\ st.start \in Nat /\ st.flatAt \in Nat /\ Trunc(st.flatAt) \in Nat
          /\ Trunc(Trunc(at)) = Trunc(at)
      BY <1>1, <1>3, TruncIsNat, TruncTwice DEF Container
    <3> QED
      BY <1>1, <1>4, <1>5, <2>0, <3>1 DEF ChargedUpTo
  <2>5. SecondsCharged(h) * Second <= ChargedUpTo(h)' - Anchor(h)
    BY <1>2, <2>0, <2>4, ChargesTyped DEF ChargesFit
  <2> QED
    BY <1>6, <2>0, <2>1, <2>2, <2>3, <2>5 DEF ChargesFit
<1> QED
  BY <1>7, <1>8 DEF ChargeInv

LEMMA ChargeAddToNew ==
    ASSUME StripeInv, ChargeInv, NEW c \in Customers, NEW t \in ItemTypes,
           NEW k \in Keys \cup {NoKey}, NEW meta \in Metas \cup {NoMeta},
           NEW at \in Readings, AddToNew(c, t, k, meta, at)
    PROVE  ChargeInv'
<1> PICK h : h = created + 1
  OBVIOUS
<1> DEFINE st == NewContainer(c, meta, Trunc(at))
           new == WithItem(st, t, Trunc(at))
<1>a. TypeOK /\ BillsBelong
  BY DEF StripeInv
<1>1. at \in Nat /\ Trunc(at) \in Nat /\ Trunc(at) <= now /\ now \in Nat
  BY <1>a, ReadingIsPast
<1>2. /\ subs' = Put(subs, h, new)
      /\ UNCHANGED <<now, drafts, invoice>>
  BY DEF AddToNew, StoreContainer
<1>3. /\ st \in Container /\ st.start = Trunc(at) /\ st.period = 1
      /\ st.proration = 0 /\ st.items = {} /\ st.flatAt = 0
  BY <1>1, NewContainerIsContainer DEF NewContainer
<1> HIDE DEF st
<1>4. /\ new.start = Trunc(at) /\ new.period = 1 /\ new.proration = 0
      /\ new.flatAt = IF t = "flat_fee" THEN Trunc(at) ELSE 0
  BY <1>1, <1>3 DEF WithItem, AddsFlatFee, Container
<1> HIDE DEF new
<1>5. h \notin DOMAIN subs /\ DOMAIN subs' = DOMAIN subs \cup {h} /\ subs'[h] = new
        /\ \A s \in DOMAIN subs : subs'[s] = subs[s]
  BY <1>a, <1>2 DEF Put, TypeOK
<1>6. \A s : SecondsBilled(s)' = SecondsBilled(s)
  BY <1>2, SameBills, SameBilled
<1>7. ASSUME NEW s \in DOMAIN subs' \ {h}, ~subs'[s].backdated
      PROVE  ChargesFit(s)'
  <2>1. s \in DOMAIN subs /\ subs'[s] = subs[s]
    BY <1>5
  <2>2. ChargesFit(s)
    BY <1>7, <2>1 DEF ChargeInv
  <2>3. SecondsBilled(s)' = SecondsBilled(s)
    BY <1>6
  <2>4. now' \in Nat /\ now <= now'
    BY <1>1, <1>2
  <2> QED
    BY <1>a, <2>1, <2>2, <2>3, <2>4, ChargesKept
<1>8. ChargesFit(h)'
  <2>1. SecondsBilled(h)' = {}
    <3>1. \A i \in Bills : BillOf(i).sub # h
      BY <1>a DEF BillsBelong, TypeOK
    <3> QED
      BY <1>6, <3>1 DEF SecondsBilled
  <2>2. IsFiniteSet({}) /\ Cardinality({}) = 0
    BY FS_EmptySet
  <2>3. SecondsCharged(h)' = 0
    BY <1>4, <1>5, <2>1, <2>2 DEF SecondsCharged
  <2>4. Anchor(h)' = Trunc(at)
    <3>1. (1 - 1) * Period = 0
      BY PeriodIsPositive
    <3> QED
      BY <1>1, <1>4, <1>5, <3>1 DEF Anchor
  <2>5. OnTheSecond(h)'
    <3>1. PICK n \in 0 .. at : Trunc(at) = n * Second
      BY <1>1, TruncIsOnTheSecond
    <3>2. n \in 0 .. now
      <4>1. at <= now
        BY <1>a, ReadingIsPast
      <4> QED
        BY <1>1, <4>1
    <3> QED
      BY <1>2, <2>4, <3>1, <3>2 DEF OnTheSecond
  <2>6. Trunc(at) <= ChargedUpTo(h)' /\ ChargedUpTo(h)' \in Nat
    <3>1. Trunc(Trunc(at)) = Trunc(at) /\ Trunc(0) \in Nat /\ Trunc(0) <= 0
      BY <1>1, TruncTwice
    <3> QED
      BY <1>1, <1>4, <1>5, <3>1 DEF ChargedUpTo
  <2>7. SecondsCharged(h)' * Second <= ChargedUpTo(h)' - Anchor(h)'
    BY <1>1, <2>3, <2>4, <2>6, SecondIsPositive
  <2>8. subs'[h].start <= now' /\ subs'[h].flatAt <= now'
    BY <1>1, <1>2, <1>4, <1>5
  <2> QED
    BY <2>1, <2>2, <2>5, <2>7, <2>8 DEF ChargesFit
<1> QED
  BY <1>7, <1>8 DEF ChargeInv

-----------------------------------------------------------------------------
(* New invoices add their seconds to what was billed before.               *)
NewlyBilled(ids, s) ==
    UNION {{i} \X (1 .. drafts[i].fee) : i \in {j \in ids : drafts[j].sub = s}}

LEMMA MoreBilled ==
    ASSUME NEW ids, NEW s, ids \cap Bills = {}, invoice' = invoice,
           DOMAIN drafts' = DOMAIN drafts \cup ids,
           \A i \in DOMAIN drafts : drafts'[i] = drafts[i]
    PROVE  /\ SecondsBilled(s)' = SecondsBilled(s) \cup NewlyBilled(ids, s)'
           /\ SecondsBilled(s) \cap NewlyBilled(ids, s)' = {}
<1>1. /\ Bills' = Bills \cup ids
      /\ \A i \in Bills : BillOf(i)' = BillOf(i)
      /\ \A i \in ids : BillOf(i)' = drafts'[i]
  BY NewDrafts
<1> DEFINE old == {j \in Bills : BillOf(j).sub = s}
           new == {j \in ids : drafts'[j].sub = s}
<1>2. {j \in Bills' : BillOf(j)'.sub = s} = old \cup new
  BY <1>1
<1>3. SecondsBilled(s)' = UNION {{i} \X (1 .. BillOf(i)'.fee) : i \in old \cup new}
  BY <1>2 DEF SecondsBilled
<1>4. /\ \A i \in old : {i} \X (1 .. BillOf(i)'.fee) = {i} \X (1 .. BillOf(i).fee)
      /\ \A i \in new : {i} \X (1 .. BillOf(i)'.fee) = {i} \X (1 .. drafts'[i].fee)
  BY <1>1
<1>5. /\ SecondsBilled(s) = UNION {{i} \X (1 .. BillOf(i).fee) : i \in old}
      /\ NewlyBilled(ids, s)' = UNION {{i} \X (1 .. drafts'[i].fee) : i \in new}
  BY DEF SecondsBilled, NewlyBilled
<1>6. SecondsBilled(s)' = SecondsBilled(s) \cup NewlyBilled(ids, s)'
  BY <1>3, <1>4, <1>5
<1>7. old \cap new = {}
  OBVIOUS
<1>8. SecondsBilled(s) \cap NewlyBilled(ids, s)' = {}
  BY <1>5, <1>7
<1> QED
  BY <1>6, <1>8

(* Removing an item.                                                       *)

LEMMA ItemRemoved ==
    ASSUME NEW st \in Container, NEW t \in ItemTypes, NEW at \in Nat
    PROVE  LET left == WithoutItem(st, t, at)
               fee == IF t = "flat_fee"
                      THEN FlatFeeForWindow(st.flatAt, st.start, at) ELSE 0
           IN  /\ fee \in Nat
               /\ left.start = st.start /\ left.period = st.period
               /\ left.flatAt = IF t = "flat_fee" /\ st.flatAt < at
                                THEN at ELSE st.flatAt
               /\ left.backdated = st.backdated /\ left.opened = st.opened
               /\ left.items = st.items \ {t}
               /\ left.proration = st.proration + fee
<1>1. FlatFeeForWindow(st.flatAt, st.start, at) \in Nat
  BY FeeIsNat DEF Container
<1> QED
  BY <1>1 DEF WithoutItem, Container

(* What the removal charges fits after what was charged before.            *)
LEMMA RemovalFits ==
    ASSUME TypeOK, NEW s \in DOMAIN subs, ChargesFit(s), NEW t, NEW at \in Nat,
           NEW fee \in Nat,
           fee = IF t = "flat_fee"
                 THEN FlatFeeForWindow(subs[s].flatAt, subs[s].start, at) ELSE 0,
           subs'[s].start = subs[s].start,
           subs'[s].flatAt = IF t = "flat_fee" /\ subs[s].flatAt < at
                             THEN at ELSE subs[s].flatAt
    PROVE  (SecondsCharged(s) + fee) * Second <= ChargedUpTo(s)' - Anchor(s)
<1> DEFINE c == SecondsCharged(s)
           st == subs[s]
<1>1. /\ c \in Nat /\ Anchor(s) \in Nat /\ c * Second \in Nat
      /\ ChargedUpTo(s) \in Nat
      /\ st.start \in Nat /\ st.flatAt \in Nat
  BY ChargesTyped
<1>2. c * Second <= ChargedUpTo(s) - Anchor(s)
  BY DEF ChargesFit
<1>3. /\ Trunc(st.flatAt) \in Nat /\ Trunc(st.flatAt) <= st.flatAt
      /\ Trunc(at) \in Nat /\ Trunc(at) <= at
  BY <1>1, TruncIsNat
<1>4. ChargedUpTo(s) <= ChargedUpTo(s)' /\ ChargedUpTo(s)' \in Nat
  <2>1. st.flatAt < at => Trunc(st.flatAt) <= Trunc(at)
    BY <1>1, TruncGrows
  <2> QED
    BY <1>1, <1>3, <2>1 DEF ChargedUpTo
<1> HIDE DEF c
<1>5. (c + fee) * Second = c * Second + fee * Second /\ fee * Second \in Int
  <2>1. c \in Int /\ fee \in Int
    BY <1>1
  <2> QED
    BY <2>1, TimesSecond
<1>6. CASE fee = 0
  <2>1. fee * Second = 0
    BY <1>6, SecondIsPositive
  <2> QED
    BY <1>1, <1>2, <1>4, <1>5, <2>1 DEF c
<1>7. CASE fee # 0
  <2>1. t = "flat_fee" /\ fee \in 1 .. FlatFeeForWindow(st.flatAt, st.start, at)
    BY <1>7
  <2>2. fee * Second <= at - st.flatAt /\ fee * Second <= at - st.start
    BY <1>1, <2>1, FeeFits
  <2>3. fee * Second > 0
    BY <1>7, SecondIsPositive
  <2>4. ChargedUpTo(s)' = IF Trunc(at) < st.start THEN st.start ELSE Trunc(at)
    BY <1>1, <1>5, <2>1, <2>2, <2>3 DEF ChargedUpTo
  <2>5. ChargedUpTo(s) <= at - fee * Second
    BY <1>1, <1>3, <1>5, <2>2 DEF ChargedUpTo
  <2>6. (c + fee) * Second + Anchor(s) <= at /\ c + fee \in Nat
    BY <1>1, <1>2, <1>5, <2>5
  <2>7. (c + fee) * Second + Anchor(s) <= Trunc(at)
    BY <2>6, ChargedToTrunc
  <2> QED
    BY <1>1, <1>3, <1>5, <2>4, <2>7 DEF c
<1> QED
  BY <1>6, <1>7

LEMMA ChargeRemove ==
    ASSUME StripeInv, ChargeInv, NEW s \in DOMAIN subs,
           NEW t \in ItemTypes, NEW at \in Readings, handleRemoveItem(s, t, at)
    PROVE  ChargeInv'
<1> DEFINE st == subs[s]
           left == WithoutItem(st, t, at)
           fee == IF t = "flat_fee"
                  THEN FlatFeeForWindow(st.flatAt, st.start, at) ELSE 0
           charged == IF t = "flat_fee" /\ st.flatAt < at THEN at ELSE st.flatAt
<1>a. TypeOK /\ BillsBelong
  BY DEF StripeInv
<1>1. at \in Nat /\ at <= now /\ now \in Nat /\ st \in Container
  BY <1>a, ReadingIsPast DEF TypeOK
<1>2. /\ t \in st.items
      /\ RemoveOneOfTwo(s, t, at) \/ RemoveLast(s, t, at)
      /\ UNCHANGED <<now, invoice>>
  BY DEF handleRemoveItem
<1>3. /\ fee \in Nat
      /\ left.start = st.start /\ left.period = st.period
      /\ left.flatAt = charged /\ left.opened = st.opened
      /\ left.backdated = st.backdated
      /\ left.items = st.items \ {t} /\ left.proration = st.proration + fee
  BY <1>1, ItemRemoved
<1>4. left \in Container
  BY <1>1, WithoutItemIsContainer
<1>5. ChargesFit(s) =>
         /\ SecondsCharged(s) \in Nat /\ Cardinality(SecondsBilled(s)) \in Nat
         /\ st.proration \in Nat
         /\ SecondsCharged(s) = st.proration + Cardinality(SecondsBilled(s))
  BY <1>a, ChargesTyped DEF SecondsCharged
<1> HIDE DEF left
(* It is enough that the fee, and no more, is charged.                     *)
<1>6. ASSUME ChargesFit(s), subs'[s].start = st.start, subs'[s].period = st.period,
             subs'[s].flatAt = charged,
             IsFiniteSet(SecondsBilled(s)'),
             SecondsCharged(s)' = SecondsCharged(s) + fee
      PROVE  ChargesFit(s)'
  <2>1. Anchor(s)' = Anchor(s)
    BY <1>6 DEF Anchor
  <2>2. OnTheSecond(s)'
    BY <1>2, <1>6, <2>1 DEF ChargesFit, OnTheSecond
  <2>3. subs'[s].start <= now' /\ subs'[s].flatAt <= now'
    BY <1>1, <1>2, <1>6 DEF ChargesFit
  <2>4. fee = IF t = "flat_fee" THEN FlatFeeForWindow(st.flatAt, st.start, at) ELSE 0
    OBVIOUS
  <2> HIDE DEF fee
  <2>5. (SecondsCharged(s) + fee) * Second <= ChargedUpTo(s)' - Anchor(s)
    BY <1>a, <1>1, <1>3, <1>6, <2>4, RemovalFits
  <2> QED
    BY <1>6, <2>1, <2>2, <2>3, <2>5 DEF ChargesFit
<1> HIDE DEF fee, charged
<1>7. CASE RemoveOneOfTwo(s, t, at)
  <2>1. subs' = [subs EXCEPT ![s] = left] /\ drafts' = drafts
    BY <1>7 DEF RemoveOneOfTwo, left
  <2>2. /\ DOMAIN subs' = DOMAIN subs /\ subs'[s] = left
        /\ \A x \in DOMAIN subs : x # s => subs'[x] = subs[x]
    BY <2>1
  <2>3. \A x : SecondsBilled(x)' = SecondsBilled(x)
    BY <1>2, <2>1, SameBills, SameBilled
  <2>4. ASSUME NEW x \in DOMAIN subs', x # s, ~subs'[x].backdated
        PROVE  ChargesFit(x)'
    BY <1>a, <1>1, <1>2, <2>2, <2>3, <2>4, ChargesKept DEF ChargeInv
  <2>5. ChargesFit(s) => SecondsCharged(s)' = SecondsCharged(s) + fee
    BY <1>3, <1>5, <2>2, <2>3 DEF SecondsCharged
  <2>6. ASSUME ~subs'[s].backdated
        PROVE  ChargesFit(s)'
    <3>1. ChargesFit(s)
      BY <1>3, <2>2, <2>6 DEF ChargeInv
    <3> QED
      BY <1>3, <1>6, <2>2, <2>3, <2>5, <3>1 DEF ChargesFit
  <2> QED
    BY <2>4, <2>6 DEF ChargeInv
<1>8. CASE RemoveLast(s, t, at)
  <2> PICK i : i = <<s, left.opened + 1>>
    OBVIOUS
  <2> DEFINE d == OpenDraft(s, left, left.start, at, left.period, TRUE, t = "usage")
             owes == left.proration
  <2>1. /\ left.items = {}
        /\ subs' = [subs EXCEPT ![s] = [left EXCEPT !.proration = 0, !.opened = @ + 1]]
        /\ drafts' = Put(drafts, i, d)
    BY <1>8 DEF RemoveLast, left
  <2>2. d.sub = s /\ d.fee = owes
    <3>1. FlatLine(left, left.start, at) = 0 /\ owes \in Nat
      BY <1>4, <2>1 DEF FlatLine, Container
    <3> QED
      BY <3>1 DEF OpenDraft
  <2>3. /\ subs'[s].start = left.start /\ subs'[s].period = left.period
        /\ subs'[s].flatAt = left.flatAt /\ subs'[s].backdated = left.backdated
        /\ subs'[s].proration = 0
    BY <1>4, <2>1 DEF Container
  <2>4. DOMAIN subs' = DOMAIN subs /\ \A x \in DOMAIN subs : x # s => subs'[x] = subs[x]
    BY <2>1
  <2>5. i \notin Bills
    <3>1. i[1] = s /\ i[2] = st.opened + 1 /\ st.opened \in Nat
      BY <1>1, <1>3 DEF Container
    <3> QED
      BY <1>a, <3>1 DEF BillsBelong
  <2>6. /\ DOMAIN drafts' = DOMAIN drafts \cup {i} /\ drafts'[i] = d
        /\ \A j \in DOMAIN drafts : drafts'[j] = drafts[j]
    BY <2>1, <2>5 DEF Put, Bills
  <2> HIDE DEF d
  <2>7. \A x : /\ SecondsBilled(x)' = SecondsBilled(x) \cup NewlyBilled({i}, x)'
               /\ SecondsBilled(x) \cap NewlyBilled({i}, x)' = {}
    BY <1>2, <2>5, <2>6, MoreBilled
  <2>8. /\ NewlyBilled({i}, s)' = {i} \X (1 .. owes)
        /\ \A x : x # s => NewlyBilled({i}, x)' = {}
    BY <2>2, <2>6 DEF NewlyBilled
  <2>9. ASSUME NEW x \in DOMAIN subs', x # s, ~subs'[x].backdated
        PROVE  ChargesFit(x)'
    <3>1. SecondsBilled(x)' = SecondsBilled(x)
      BY <2>7, <2>8, <2>9
    <3> QED
      BY <1>a, <1>1, <1>2, <2>4, <2>9, <3>1, ChargesKept DEF ChargeInv
  <2>10. owes \in Nat /\ owes = st.proration + fee
    BY <1>3, <1>4 DEF Container
  <2>11. ASSUME ~subs'[s].backdated
         PROVE  ChargesFit(s)'
    <3>0. ChargesFit(s)
      BY <1>3, <2>3, <2>11 DEF ChargeInv
    <3>1. IsFiniteSet(SecondsBilled(s))
      BY <3>0 DEF ChargesFit
    <3>2. /\ SecondsBilled(s)' = SecondsBilled(s) \cup ({i} \X (1 .. owes))
          /\ SecondsBilled(s) \cap ({i} \X (1 .. owes)) = {}
      BY <2>7, <2>8
    <3>3. SecondsCharged(s)' = 0 + Cardinality(SecondsBilled(s)')
      BY <2>3 DEF SecondsCharged
    <3> HIDE DEF owes
    <3>4. /\ IsFiniteSet(SecondsBilled(s) \cup ({i} \X (1 .. owes)))
          /\ Cardinality(SecondsBilled(s) \cup ({i} \X (1 .. owes)))
               = Cardinality(SecondsBilled(s)) + owes
      BY <2>10, <3>1, <3>2, UnitsAdded
    <3>5. SecondsCharged(s)' = SecondsCharged(s) + fee
      <4> PICK c \in Nat : c = Cardinality(SecondsBilled(s))
        BY <3>1, FS_CardinalityType
      <4>1. SecondsCharged(s)' = 0 + (c + owes)
        BY <3>2, <3>3, <3>4
      <4>2. SecondsCharged(s) = st.proration + c
        BY DEF SecondsCharged
      <4>3. st.proration \in Nat /\ fee \in Nat
        BY <1>3, <1>5, <3>0
      <4> HIDE DEF st
      <4> QED
        BY <2>10, <4>1, <4>2, <4>3
    <3> QED
      BY <1>3, <1>6, <2>3, <3>0, <3>2, <3>4, <3>5
  <2> QED
    BY <2>9, <2>11 DEF ChargeInv
<1> QED
  BY <1>2, <1>7, <1>8

-----------------------------------------------------------------------------
(* A pass of the scheduler.  The seconds of n successive windows are told  *)
(* apart by their distance from the end of the last one: the j-th second   *)
(* before the end of the k-th window, counted from 0, is number            *)
(* (n - k - 1) * PeriodSecs + j.                                           *)

LEMMA NumbersDiffer ==
    ASSUME NEW a \in Nat, NEW b \in Nat, NEW i \in 1 .. PeriodSecs,
           NEW j \in 1 .. PeriodSecs, a * PeriodSecs + i = b * PeriodSecs + j
    PROVE  a = b /\ i = j
<1>1. PeriodSecs \in Nat /\ PeriodSecs > 0
  BY SecondIsPositive
<1>2. /\ (a - b) * PeriodSecs = a * PeriodSecs - b * PeriodSecs
      /\ a * PeriodSecs \in Int /\ b * PeriodSecs \in Int
      /\ (b - a) * PeriodSecs = b * PeriodSecs - a * PeriodSecs
  BY <1>1
<1>3. /\ a > b => (a - b) * PeriodSecs >= PeriodSecs
      /\ a < b => (b - a) * PeriodSecs >= PeriodSecs
  BY <1>1
<1>4. a = b
  BY <1>1, <1>2, <1>3
<1> QED
  BY <1>2, <1>4

(* U is made of flat[k] seconds for each window k, and p for the first.    *)
MadeOf(U, s, o, n, flat, p) ==
    \A u \in U : \E k \in 0 .. n - 1 :
        \E j \in 1 .. flat[k] + (IF k = 0 THEN p ELSE 0) : u = <<<<s, o + 1 + k>>, j>>

(* The windows' seconds, numbered row[k] + j, are told apart and all fit.  *)
Apart(n, flat, row, x) ==
    /\ \A k \in 0 .. n - 1 : \A j \in 1 .. flat[k] : row[k] + j <= x
    /\ \A k, m \in 0 .. n - 1 : \A i \in 1 .. flat[k], j \in 1 .. flat[m] :
          row[k] + i = row[m] + j => k = m /\ i = j

LEMMA WindowsFit ==
    ASSUME NEW U, NEW s, NEW o \in Nat, NEW n \in Nat, NEW p \in Nat, NEW x \in Nat,
           NEW flat \in [0 .. n - 1 -> Nat], NEW row \in [0 .. n - 1 -> Nat],
           MadeOf(U, s, o, n, flat, p), Apart(n, flat, row, x)
    PROVE  IsFiniteSet(U) /\ Cardinality(U) <= x + p
<1> DEFINE win(u) == u[1][2] - o - 1
           num(u) == IF u[2] <= flat[win(u)]
                     THEN row[win(u)] + u[2]
                     ELSE x + u[2] - flat[win(u)]
<1>1. ASSUME NEW u \in U
      PROVE  /\ win(u) \in 0 .. n - 1 /\ u[2] \in Nat \ {0}
             /\ u = <<<<s, o + 1 + win(u)>>, u[2]>>
             /\ u[2] <= flat[win(u)] + (IF win(u) = 0 THEN p ELSE 0)
             /\ flat[win(u)] \in Nat
  <2>1. PICK k \in 0 .. n - 1 :
               \E j \in 1 .. flat[k] + (IF k = 0 THEN p ELSE 0) :
                   u = <<<<s, o + 1 + k>>, j>>
    BY <1>1 DEF MadeOf
  <2>2. flat[k] \in Nat /\ k \in Nat
    OBVIOUS
  <2>3. PICK j \in 1 .. flat[k] + (IF k = 0 THEN p ELSE 0) : u = <<<<s, o + 1 + k>>, j>>
    BY <2>1
  <2>4. u[2] = j /\ win(u) = k
    BY <2>2, <2>3
  <2>5. j \in Nat \ {0} /\ j <= flat[k] + (IF k = 0 THEN p ELSE 0)
    BY <2>2, <2>3
  <2> HIDE DEF win
  <2> QED
    BY <2>2, <2>3, <2>4, <2>5
<1> HIDE DEF win
<1>a. \A k \in 0 .. n - 1 : \A j \in 1 .. flat[k] : row[k] + j <= x
  BY Zenon DEF Apart
<1>b. \A k, m \in 0 .. n - 1 : \A i \in 1 .. flat[k], j \in 1 .. flat[m] :
         row[k] + i = row[m] + j => k = m /\ i = j
  BY Zenon DEF Apart
<1>2. ASSUME NEW u \in U
      PROVE  num(u) \in 1 .. x + p
  <2>1. /\ win(u) \in 0 .. n - 1 /\ u[2] \in Nat \ {0} /\ flat[win(u)] \in Nat
        /\ u[2] <= flat[win(u)] + (IF win(u) = 0 THEN p ELSE 0)
    BY <1>1
  <2>2. CASE u[2] <= flat[win(u)]
    <3>1. u[2] \in 1 .. flat[win(u)]
      BY <2>1, <2>2
    <3>2. row[win(u)] + u[2] <= x
      BY <1>a, <2>1, <3>1, Zenon
    <3>3. row[win(u)] \in Nat
      BY <2>1
    <3>4. num(u) = row[win(u)] + u[2]
      BY <2>2, Zenon
    <3> HIDE DEF num
    <3>5. PICK j \in Nat \ {0}, r \in Nat : j = u[2] /\ r = row[win(u)]
      BY <2>1, <3>3
    <3>6. r + j \in 1 .. x + p
      <4>1. r + j <= x
        BY <3>2, <3>5
      <4> QED
        BY <4>1
    <3> QED
      BY <3>4, <3>5, <3>6, Zenon
  <2>3. CASE ~(u[2] <= flat[win(u)])
    <3>1. num(u) = x + u[2] - flat[win(u)]
      BY <2>3
    <3> HIDE DEF num
    <3>2. PICK j \in Nat, c \in Nat : j = u[2] /\ c = flat[win(u)]
      BY <2>1
    <3>3. ~(j <= c) /\ j <= c + (IF win(u) = 0 THEN p ELSE 0)
      BY <2>1, <2>3, <3>2, Zenon
    <3>4. x + j - c \in 1 .. x + p
      BY <3>3
    <3>5. num(u) = x + j - c
      BY <3>1, <3>2, Zenon
    <3> QED
      BY <3>4, <3>5, Zenon
  <2> QED
    BY <2>2, <2>3
<1>3. ASSUME NEW u \in U, NEW v \in U, num(u) = num(v)
      PROVE  u = v
  <2> DEFINE k == win(u)
             m == win(v)
  <2>1. /\ k \in 0 .. n - 1 /\ u[2] \in Nat \ {0} /\ flat[k] \in Nat
        /\ u[2] <= flat[k] + (IF k = 0 THEN p ELSE 0)
        /\ u = <<<<s, o + 1 + k>>, u[2]>>
    BY <1>1
  <2>2. /\ m \in 0 .. n - 1 /\ v[2] \in Nat \ {0} /\ flat[m] \in Nat
        /\ v[2] <= flat[m] + (IF m = 0 THEN p ELSE 0)
        /\ v = <<<<s, o + 1 + m>>, v[2]>>
    BY <1>1
  <2>a. \A i \in Nat \ {0}, c \in Nat : i <= c => i \in 1 .. c
    OBVIOUS
  <2>3. u[2] <= flat[k] => u[2] \in 1 .. flat[k] /\ row[k] + u[2] <= x
    BY <1>a, <2>1, <2>a, Zenon
  <2>4. v[2] <= flat[m] => v[2] \in 1 .. flat[m] /\ row[m] + v[2] <= x
    BY <1>a, <2>2, <2>a, Zenon
  <2>5. row[k] \in Nat /\ row[m] \in Nat
    BY <2>1, <2>2
  <2>6. /\ num(u) = IF u[2] <= flat[k] THEN row[k] + u[2]
                                      ELSE x + u[2] - flat[k]
        /\ num(v) = IF v[2] <= flat[m] THEN row[m] + v[2]
                                      ELSE x + v[2] - flat[m]
    OBVIOUS
  <2> HIDE DEF k, m, num
  <2>7. k = m /\ u[2] = v[2]
    <3>1. CASE u[2] <= flat[k] /\ v[2] <= flat[m]
      <4>1. row[k] + u[2] = row[m] + v[2]
        BY <1>3, <2>6, <3>1
      <4> QED
        <5>1. /\ k \in 0 .. n - 1 /\ m \in 0 .. n - 1
              /\ u[2] \in 1 .. flat[k] /\ v[2] \in 1 .. flat[m]
          BY <2>1, <2>2, <2>3, <2>4, <3>1, Zenon
        <5>2. \A i \in 1 .. flat[k], j \in 1 .. flat[m] :
                 row[k] + i = row[m] + j => k = m /\ i = j
          BY <1>b, <5>1, Zenon
        <5> QED
          BY <4>1, <5>1, <5>2, Zenon
    <3>2. CASE ~(u[2] <= flat[k]) /\ ~(v[2] <= flat[m])
      <4>1. k = 0 /\ m = 0
        BY <2>1, <2>2, <3>2
      <4>2. num(u) = x + u[2] - flat[k] /\ num(v) = x + v[2] - flat[m]
        BY <2>6, <3>2
      <4>3. PICK i \in Nat, j \in Nat, c \in Nat : i = u[2] /\ j = v[2] /\ c = flat[0]
        BY <2>1, <2>2, <4>1
      <4>4. x + i - c = x + j - c
        BY <1>3, <4>1, <4>2, <4>3
      <4>5. i = j
        BY <4>4
      <4> QED
        BY <4>1, <4>3, <4>5
    <3>3. CASE u[2] <= flat[k] /\ ~(v[2] <= flat[m])
      <4>1. num(u) <= x /\ num(v) > x
        BY <2>2, <2>3, <2>6, <3>3
      <4>2. num(u) \in Int
        BY <1>2
      <4> QED
        BY <1>3, <4>1, <4>2
    <3>4. CASE ~(u[2] <= flat[k]) /\ v[2] <= flat[m]
      <4>1. num(v) <= x /\ num(u) > x
        BY <2>1, <2>4, <2>6, <3>4
      <4>2. num(u) \in Int
        BY <1>2
      <4> QED
        BY <1>3, <4>1, <4>2
    <3> QED
      BY <3>1, <3>2, <3>3, <3>4
  <2> QED
    BY <2>1, <2>2, <2>7
<1> DEFINE f == [u \in U |-> num(u)]
<1>4. f \in Injection(U, 1 .. x + p)
  <2> HIDE DEF num
  <2>1. f \in [U -> 1 .. x + p]
    BY <1>2
  <2>2. \A u, v \in U : f[u] = f[v] => u = v
    BY <1>3
  <2> HIDE DEF f
  <2> QED
    BY <2>1, <2>2 DEF Injection, IsInjective
<1> HIDE DEF f
<1>5. IsFiniteSet(1 .. x + p) /\ Cardinality(1 .. x + p) = x + p
  <2>1. x + p \in Nat
    OBVIOUS
  <2> QED
    BY <2>1, CountUpTo
<1> QED
  BY <1>4, <1>5, FS_Injection

(* The flat fees of a container's next n windows, where they are numbered  *)
(* from, and how many seconds are still to be charged before they end.     *)
Windows(st, n) ==
    [k \in 0 .. n - 1 |->
        FlatLine(st, st.start + k * Period, st.start + k * Period + Period)]
Rows(n) == [k \in 0 .. n - 1 |-> (n - k - 1) * PeriodSecs]
ChargedFrom(st) == IF st.flatAt < st.start THEN st.start ELSE st.flatAt
Room(st, e) ==
    IF "flat_fee" \in st.items /\ ChargedFrom(st) < e
    THEN (e - ChargedFrom(st)) \div Second
    ELSE 0

LEMMA SecondsBetween ==
    ASSUME NEW d \in Nat, NEW e \in Nat, d < e
    PROVE  /\ (e - d) \div Second \in Nat
           /\ ((e - d) \div Second) * Second <= e - d
           /\ e - d < ((e - d) \div Second + 1) * Second
<1>1. e - d \in Nat /\ Second \in Nat /\ Second > 0
  BY SecondIsPositive
<1> QED
  BY <1>1, WholeQuotient

LEMMA RoomIsNat ==
    ASSUME NEW st \in Container, NEW e \in Nat
    PROVE  /\ Room(st, e) \in Nat
           /\ Room(st, e) # 0 =>
                 /\ "flat_fee" \in st.items
                 /\ ChargedFrom(st) < e
                 /\ Room(st, e) * Second <= e - ChargedFrom(st)
<1>1. PICK d \in Nat : d = ChargedFrom(st)
  BY DEF ChargedFrom, Container
<1>2. CASE "flat_fee" \in st.items /\ d < e
  <2>1. Room(st, e) = (e - d) \div Second
    BY <1>1, <1>2, SecondIsPositive DEF Room
  <2>2. Room(st, e) \in Nat /\ Room(st, e) * Second <= e - d
    BY <1>2, <2>1, SecondsBetween
  <2> QED
    BY <1>1, <1>2, <2>2
<1>3. CASE ~("flat_fee" \in st.items /\ d < e)
  BY <1>1, <1>3 DEF Room
<1> QED
  BY <1>2, <1>3

(* The j-th second before the end of the k-th window lies after what was   *)
(* charged already.                                                        *)
LEMMA SecondHasRoom ==
    ASSUME NEW st \in Container, NEW n \in Nat, NEW k \in 0 .. n - 1,
           NEW j \in 1 .. Windows(st, n)[k]
    PROVE  /\ j \in 1 .. PeriodSecs
           /\ Rows(n)[k] + j <= Room(st, st.start + n * Period)
<1> DEFINE b == st.start + k * Period
           e == b + Period
           r == n - k - 1
           d == ChargedFrom(st)
           fin == st.start + n * Period
<1>1. /\ st.start \in Nat /\ st.flatAt \in Nat /\ d \in Nat
      /\ Period \in Nat /\ PeriodSecs \in Nat /\ Second \in Nat /\ Second > 0
      /\ k \in Nat /\ r \in Nat
  BY PeriodIsPositive, SecondIsPositive DEF ChargedFrom, Container
<1>2. k * Period \in Nat /\ b \in Nat /\ e \in Nat /\ st.start <= b
  BY <1>1
<1>3. Windows(st, n)[k] = FlatLine(st, b, e)
  BY DEF Windows
<1>4. Rows(n)[k] = r * PeriodSecs /\ r * PeriodSecs \in Nat
  BY <1>1 DEF Rows
<1>5. fin = e + r * Period /\ fin \in Nat /\ r * Period \in Nat
  <2>1. n = k + 1 + r
    BY <1>1
  <2> HIDE DEF r
  <2>2. (k + 1 + r) * Period = k * Period + Period + r * Period /\ r * Period \in Nat
    BY <1>1
  <2> QED
    BY <1>1, <1>2, <2>1, <2>2
<1>6. (r * PeriodSecs) * Second = r * Period
  <2> HIDE DEF r
  <2> QED
    BY <1>1 DEF Period
<1> HIDE DEF b, e, r, fin
<1>7. "flat_fee" \in st.items /\ j \in 1 .. FlatFeeForWindow(st.flatAt, b, e)
  BY <1>3 DEF FlatLine
<1>8. /\ j <= PeriodSecs
      /\ j * Second <= e - st.flatAt /\ j * Second <= e - b
  BY <1>1, <1>2, <1>7, FeeFits
<1>9. j \in Nat /\ j >= 1
  BY <1>1, <1>2, <1>7, FeeIsNat
<1>10. j * Second \in Nat /\ j * Second > 0
  BY <1>1, <1>9
<1>11. j * Second <= e - d
  BY <1>1, <1>2, <1>8, <1>10 DEF ChargedFrom
<1> HIDE DEF d
<1> DEFINE m == r * PeriodSecs + j
<1>12. m \in Nat /\ m * Second = r * Period + j * Second
  <2>1. r * PeriodSecs \in Int /\ j \in Int
    BY <1>4, <1>9
  <2>2. (r * PeriodSecs + j) * Second = (r * PeriodSecs) * Second + j * Second
    BY <2>1, TimesSecond
  <2> QED
    BY <1>4, <1>6, <1>9, <2>2
<1>13. m * Second <= fin - d /\ d < fin
  BY <1>1, <1>2, <1>5, <1>10, <1>11, <1>12
<1>14. m <= Room(st, fin)
  <2> DEFINE q == (fin - d) \div Second
  <2>1. Room(st, fin) = q
    BY <1>1, <1>5, <1>7, <1>13, SecondIsPositive DEF Room, d
  <2>2. q \in Nat /\ fin - d < (q + 1) * Second
    BY <1>1, <1>5, <1>13, SecondsBetween
  <2> HIDE DEF q, m
  <2>3. m * Second \in Int /\ (q + 1) * Second \in Int
    BY <1>1, <1>12, <2>2
  <2>4. m * Second < (q + 1) * Second
    BY <1>1, <1>5, <1>13, <2>2, <2>3
  <2>5. m < q + 1
    BY <1>12, <2>2, <2>4, TimesSecond
  <2> QED
    BY <1>12, <2>1, <2>2, <2>5
<1> QED
  BY <1>4, <1>8, <1>9, <1>14 DEF fin

LEMMA WindowsApart ==
    ASSUME NEW st \in Container, NEW n \in Nat
    PROVE  /\ Windows(st, n) \in [0 .. n - 1 -> Nat]
           /\ Rows(n) \in [0 .. n - 1 -> Nat]
           /\ Apart(n, Windows(st, n), Rows(n), Room(st, st.start + n * Period))
<1>1. Windows(st, n) \in [0 .. n - 1 -> Nat]
  <2> SUFFICES ASSUME NEW k \in 0 .. n - 1
               PROVE  FlatLine(st, st.start + k * Period, st.start + k * Period + Period) \in Nat
    BY DEF Windows
  <2>1. /\ st.start + k * Period \in Nat /\ st.start + k * Period + Period \in Nat
        /\ st.flatAt \in Nat
    BY PeriodIsPositive DEF Container
  <2> QED
    BY <2>1, FeeIsNat DEF FlatLine
<1>2. ASSUME NEW k \in 0 .. n - 1 PROVE (n - k - 1) * PeriodSecs \in Nat
  <2>1. n - k - 1 \in Nat /\ PeriodSecs \in Nat
    BY SecondIsPositive
  <2> QED
    BY <2>1
<1>3. Rows(n) \in [0 .. n - 1 -> Nat]
  BY <1>2 DEF Rows
<1>4. ASSUME NEW k \in 0 .. n - 1, NEW m \in 0 .. n - 1,
             NEW i \in 1 .. Windows(st, n)[k], NEW j \in 1 .. Windows(st, n)[m],
             Rows(n)[k] + i = Rows(n)[m] + j
      PROVE  k = m /\ i = j
  <2>1. i \in 1 .. PeriodSecs /\ j \in 1 .. PeriodSecs
    BY SecondHasRoom
  <2>2. n - k - 1 \in Nat /\ n - m - 1 \in Nat
    OBVIOUS
  <2>3. (n - k - 1) * PeriodSecs + i = (n - m - 1) * PeriodSecs + j
    BY <1>4 DEF Rows
  <2>4. n - k - 1 = n - m - 1 /\ i = j
    BY <2>1, <2>2, <2>3, NumbersDiffer
  <2> QED
    BY <2>4
<1>5. Apart(n, Windows(st, n), Rows(n), Room(st, st.start + n * Period))
  BY <1>4, SecondHasRoom DEF Apart
<1> QED
  BY <1>1, <1>3, <1>5

LEMMA RolledOwesNothing ==
    ASSUME NEW st \in Container, NEW n \in Nat
    PROVE  /\ Rolled(st, n).proration = 0
           /\ Rolled(st, n).flatAt = st.flatAt
           /\ Rolled(st, n).backdated = st.backdated
<1>1. n * Period \in Nat
  BY PeriodIsPositive
<1> QED
  BY <1>1 DEF Rolled, Container

LEMMA ElapsedDraftFee ==
    ASSUME NEW s \in Nat, NEW st \in Container, NEW n \in Nat, NEW k \in 0 .. n - 1
    PROVE  ElapsedDraft(s, st, k).fee
               = Windows(st, n)[k] + (IF k = 0 THEN st.proration ELSE 0)
<1> DEFINE owing == IF k = 0 THEN st ELSE [st EXCEPT !.proration = 0]
           b == st.start + k * Period
           e == st.start + k * Period + Period
<1>1. /\ owing.items = st.items /\ owing.flatAt = st.flatAt
      /\ owing.proration = IF k = 0 THEN st.proration ELSE 0
  BY DEF Container
<1>2. ElapsedDraft(s, st, k)
        = OpenDraft(s, owing, b, e, st.period + k, FALSE, "usage" \in st.items)
  BY DEF ElapsedDraft
<1>3. Windows(st, n)[k] = FlatLine(st, b, e)
  BY DEF Windows
<1> HIDE DEF owing, b, e
<1>4. FlatLine(owing, b, e) = FlatLine(st, b, e)
  BY <1>1 DEF FlatLine
<1> QED
  BY <1>1, <1>2, <1>3, <1>4 DEF OpenDraft

(* What a pass bills a container that is due: its windows and what it owed.*)
LEMMA PassBills ==
    ASSUME TypeOK, BillsBelong, NEW at \in Readings, advancePeriods(at),
           NEW ids, ids = RolledIds(at), NEW s \in Due(at),
           NEW n, n = Elapsed(subs[s], at)
    PROVE  MadeOf(NewlyBilled(ids, s)', s, subs[s].opened, n,
                  Windows(subs[s], n), subs[s].proration)
<1> DEFINE st == subs[s]
<1>0. \A c \in Due(at) :
         /\ c \in Nat /\ subs[c] \in Container /\ subs[c].opened \in Nat
         /\ Elapsed(subs[c], at) \in Nat \ {0}
  <2>1. \A c \in Due(at) : /\ c \in DOMAIN subs /\ subs[c] \in Container
                           /\ Elapsed(subs[c], at) \in Nat \ {0}
    BY SchedulerFacts
  <2>2. \A c \in DOMAIN subs : c \in Nat
    BY DEF TypeOK
  <2> QED
    BY <2>1, <2>2 DEF Container
<1>1. s \in Nat /\ st \in Container /\ n \in Nat \ {0} /\ st.opened \in Nat
  BY <1>0
<1>2. \A i \in ids :
         /\ i[1] \in Due(at) /\ i = <<i[1], i[2]>>
         /\ i[2] \in subs[i[1]].opened + 1
                      .. subs[i[1]].opened + Elapsed(subs[i[1]], at)
         /\ drafts'[i] = ElapsedDraft(i[1], subs[i[1]], i[2] - subs[i[1]].opened - 1)
         /\ subs[i[1]].opened \in Nat /\ Elapsed(subs[i[1]], at) \in Nat
         /\ i[1] \in Nat /\ subs[i[1]] \in Container
  <2>1. \A i \in RolledIds(at) :
           /\ i[1] \in Due(at) /\ i = <<i[1], i[2]>>
           /\ i[2] \in subs[i[1]].opened + 1
                        .. subs[i[1]].opened + Elapsed(subs[i[1]], at)
           /\ drafts'[i] = ElapsedDraft(i[1], subs[i[1]], i[2] - subs[i[1]].opened - 1)
    BY SchedulerFacts
  <2> QED
    BY <1>0, <2>1
<1> SUFFICES ASSUME NEW u \in NewlyBilled(ids, s)'
             PROVE  \E k \in 0 .. n - 1 :
                       \E j \in 1 .. Windows(st, n)[k] + (IF k = 0 THEN st.proration ELSE 0) :
                           u = <<<<s, st.opened + 1 + k>>, j>>
  BY DEF MadeOf
<1>3. PICK i \in ids : drafts'[i].sub = s /\ u \in {i} \X (1 .. drafts'[i].fee)
  BY DEF NewlyBilled
<1>4. i[1] = s
  <2>1. /\ i[1] \in Nat /\ subs[i[1]] \in Container
        /\ i[2] - subs[i[1]].opened - 1 \in Nat
        /\ drafts'[i] = ElapsedDraft(i[1], subs[i[1]], i[2] - subs[i[1]].opened - 1)
    BY <1>2
  <2> QED
    BY <1>3, <2>1, ElapsedDraftFields
<1> DEFINE k == i[2] - st.opened - 1
<1>5. /\ k \in 0 .. n - 1 /\ i = <<s, st.opened + 1 + k>>
      /\ drafts'[i] = ElapsedDraft(s, st, k)
  BY <1>1, <1>2, <1>4
<1> HIDE DEF k
<1>6. drafts'[i].fee = Windows(st, n)[k] + (IF k = 0 THEN st.proration ELSE 0)
  <2>1. ElapsedDraft(s, st, k).fee
          = Windows(st, n)[k] + (IF k = 0 THEN st.proration ELSE 0)
    BY <1>0, <1>5, ElapsedDraftFee
  <2> QED
    BY <1>5, <2>1, Zenon
<1>7. PICK j \in 1 .. drafts'[i].fee : u = <<i, j>>
  BY <1>3
<1> QED
  BY <1>5, <1>6, <1>7

(* So a pass bills it no more than fits before the end of the last window. *)
LEMMA PassCounts ==
    ASSUME TypeOK, BillsBelong, NEW at \in Readings, advancePeriods(at),
           NEW s \in Due(at), ChargesFit(s), NEW n, n = Elapsed(subs[s], at),
           NEW x, x = Room(subs[s], subs[s].start + n * Period)
    PROVE  /\ IsFiniteSet(SecondsBilled(s)')
           /\ Cardinality(SecondsBilled(s)') \in Nat
           /\ Cardinality(SecondsBilled(s)')
                <= Cardinality(SecondsBilled(s)) + x + subs[s].proration
<1> PICK ids : ids = RolledIds(at)
  OBVIOUS
<1> PICK new : new = NewlyBilled(ids, s)'
  OBVIOUS
<1> DEFINE st == subs[s]
           old == SecondsBilled(s)
<1>1. /\ st \in Container /\ n \in Nat /\ st.opened \in Nat /\ st.proration \in Nat
      /\ st.start \in Nat
  BY SchedulerFacts DEF Container
<1>2. x \in Nat
  <2>1. st.start + n * Period \in Nat
    BY <1>1, PeriodIsPositive
  <2> QED
    BY <1>1, <2>1, RoomIsNat
<1>3. IsFiniteSet(new) /\ Cardinality(new) <= x + st.proration
  <2>1. MadeOf(new, s, st.opened, n, Windows(st, n), st.proration)
    BY PassBills
  <2>2. /\ Windows(st, n) \in [0 .. n - 1 -> Nat] /\ Rows(n) \in [0 .. n - 1 -> Nat]
        /\ Apart(n, Windows(st, n), Rows(n), x)
    BY <1>1, WindowsApart
  <2> QED
    BY <1>1, <1>2, <2>1, <2>2, WindowsFit
<1>4. SecondsBilled(s)' = old \cup new /\ old \cap new = {}
  <2>1. /\ ids \cap Bills = {} /\ invoice' = invoice
        /\ DOMAIN drafts' = DOMAIN drafts \cup ids
        /\ \A i \in DOMAIN drafts : drafts'[i] = drafts[i]
    BY SchedulerFacts
  <2> QED
    BY <2>1, MoreBilled
<1>5. IsFiniteSet(old) /\ Cardinality(old) \in Nat /\ Cardinality(new) \in Nat
  BY <1>3, FS_CardinalityType DEF ChargesFit
<1>6. Cardinality(old \cap new) = 0
  BY <1>4, FS_EmptySet
<1>7. /\ IsFiniteSet(old \cup new)
      /\ Cardinality(old \cup new)
           = Cardinality(old) + Cardinality(new) - Cardinality(old \cap new)
  BY <1>3, <1>5, FS_Union
<1> HIDE DEF old
<1>8. Cardinality(old \cup new) <= Cardinality(old) + x + st.proration
  BY <1>1, <1>2, <1>3, <1>5, <1>6, <1>7
<1> QED
  BY <1>1, <1>2, <1>4, <1>5, <1>6, <1>7, <1>8 DEF old

(* The room a container had before its periods were rolled on is what its  *)
(* charged time has moved by.                                              *)
LEMMA RoomCharged ==
    ASSUME NEW c \in Nat, NEW x \in Nat, NEW a \in Nat, NEW d \in Nat, NEW b \in Nat,
           c * Second <= d - a, d <= b, x # 0 => x * Second <= b - d
    PROVE  (c + x) * Second <= b - a
<1>1. (c + x) * Second = c * Second + x * Second
  BY TimesSecond
<1>2. c * Second \in Nat /\ x * Second \in Nat
  BY SecondIsPositive
<1>3. x = 0 => x * Second = 0
  BY SecondIsPositive
<1> QED
  BY <1>1, <1>2, <1>3

(* Rolling n periods on moves start and period together.                   *)
LEMMA AnchorStays ==
    ASSUME NEW s, subs[s].start \in Nat, subs[s].period \in Nat, NEW n \in Nat \ {0},
           subs'[s].start = subs[s].start + n * Period,
           subs'[s].period = subs[s].period + n
    PROVE  Anchor(s)' = Anchor(s)
<1> DEFINE before == (subs[s].period - 1) * Period
           after == (subs'[s].period - 1) * Period
           rolled == n * Period
<1>1. after = before + rolled /\ before \in Int /\ after \in Int /\ rolled \in Int
  <2>1. PICK p \in Nat, P \in Nat : p = subs[s].period /\ P = Period
    BY PeriodIsPositive
  <2>2. before = (p - 1) * P /\ after = (p + n - 1) * P /\ rolled = n * P
    BY <2>1
  <2> HIDE DEF before, after, rolled
  <2>3. (p + n - 1) * P = (p - 1) * P + n * P
    OBVIOUS
  <2>4. (p - 1) * P \in Int /\ n * P \in Int
    OBVIOUS
  <2> QED
    BY <2>2, <2>3, <2>4
<1>2. Anchor(s) = subs[s].start - before /\ Anchor(s)' = subs'[s].start - after
  BY Zenon DEF Anchor
<1>3. subs'[s].start = subs[s].start + rolled
  OBVIOUS
<1> HIDE DEF before, after, rolled
<1> QED
  BY <1>1, <1>2, <1>3

LEMMA ChargeDue ==
    ASSUME TypeOK, BillsBelong, NEW at \in Readings, advancePeriods(at),
           NEW s \in Due(at), ChargesFit(s)
    PROVE  ChargesFit(s)'
<1> PICK n : n = Elapsed(subs[s], at)
  OBVIOUS
<1> PICK e : e = subs[s].start + n * Period
  OBVIOUS
<1> PICK x : x = Room(subs[s], e)
  OBVIOUS
<1> DEFINE st == subs[s]
           b == IF Trunc(st.flatAt) < e THEN e ELSE Trunc(st.flatAt)
<1>1. /\ s \in DOMAIN subs /\ st \in Container /\ n \in Nat \ {0}
      /\ at \in Nat /\ at <= now /\ now' = now
      /\ subs'[s] = Rolled(st, n)
  BY SchedulerFacts
<1>2. /\ subs'[s].items = st.items /\ subs'[s].start = e
      /\ subs'[s].period = st.period + n
      /\ subs'[s].proration = 0 /\ subs'[s].flatAt = st.flatAt
  BY <1>1, RolledKeeps, RolledOwesNothing
<1>3. /\ SecondsCharged(s) \in Nat /\ Anchor(s) \in Nat /\ now \in Nat
      /\ ChargedUpTo(s) \in Nat /\ ChargedUpTo(s) <= now
      /\ st.start \in Nat /\ st.flatAt \in Nat /\ st.proration \in Nat
      /\ st.period \in Nat /\ Cardinality(SecondsBilled(s)) \in Nat
  BY <1>1, ChargesTyped
<1>4. n * Period \in Nat /\ e \in Nat /\ st.start <= e
  BY <1>1, <1>3, PeriodIsPositive
<1>5. e <= now
  BY <1>1, <1>3, <1>4, ElapsedFits
<1>6. x \in Nat /\ (x # 0 => /\ "flat_fee" \in st.items /\ ChargedFrom(st) < e
                             /\ x * Second <= e - ChargedFrom(st))
  BY <1>1, <1>4, RoomIsNat
<1>7. Anchor(s)' = Anchor(s)
  BY <1>1, <1>2, <1>3, AnchorStays
<1>8. /\ IsFiniteSet(SecondsBilled(s)')
      /\ SecondsCharged(s)' \in Nat
      /\ SecondsCharged(s)' <= SecondsCharged(s) + x
  <2>1. /\ IsFiniteSet(SecondsBilled(s)')
        /\ Cardinality(SecondsBilled(s)') \in Nat
        /\ Cardinality(SecondsBilled(s)')
             <= Cardinality(SecondsBilled(s)) + x + st.proration
    BY PassCounts
  <2>2. SecondsCharged(s)' = 0 + Cardinality(SecondsBilled(s)')
    BY <1>2 DEF SecondsCharged
  <2>3. SecondsCharged(s) = st.proration + Cardinality(SecondsBilled(s))
    BY DEF SecondsCharged
  <2> QED
    BY <1>3, <1>6, <2>1, <2>2, <2>3
<1>t. Trunc(st.flatAt) \in Nat /\ Trunc(st.flatAt) <= st.flatAt
  BY <1>3, TruncIsNat
<1>9. ChargedUpTo(s)' = b /\ b \in Nat
  BY <1>2, <1>4, <1>t DEF ChargedUpTo
<1>10. /\ ChargedUpTo(s) <= b
       /\ x # 0 => x * Second <= b - ChargedUpTo(s)
  <2>1. ChargedUpTo(s) <= b /\ ChargedUpTo(s) <= ChargedFrom(st)
    BY <1>3, <1>4, <1>t DEF ChargedUpTo, ChargedFrom
  <2>2. x # 0 => b = e
    BY <1>3, <1>4, <1>6, <1>t DEF ChargedFrom
  <2>3. ChargedFrom(st) \in Nat /\ (x # 0 => x * Second \in Nat)
    BY <1>3, <1>6, SecondIsPositive DEF ChargedFrom
  <2> HIDE DEF b
  <2> QED
    BY <1>3, <1>4, <1>6, <2>1, <2>2, <2>3
<1> HIDE DEF b
<1>11. (SecondsCharged(s) + x) * Second <= b - Anchor(s)
  <2>1. SecondsCharged(s) * Second <= ChargedUpTo(s) - Anchor(s)
    BY DEF ChargesFit
  <2> QED
    BY <1>3, <1>6, <1>9, <1>10, <2>1, RoomCharged
<1>12. SecondsCharged(s)' * Second <= ChargedUpTo(s)' - Anchor(s)'
  <2>1. PICK c \in Nat, m \in Nat : c = SecondsCharged(s)' /\ m = SecondsCharged(s) + x
    BY <1>3, <1>6, <1>8
  <2>2. c <= m
    BY <1>8, <2>1
  <2>3. c * Second <= m * Second /\ c * Second \in Int /\ m * Second \in Int
    <3>1. c \in Int /\ m \in Int
      OBVIOUS
    <3> QED
      BY <2>2, <3>1, TimesSecond, Zenon
  <2> QED
    BY <1>3, <1>7, <1>9, <1>11, <2>1, <2>3
<1>13. subs'[s].start <= now' /\ subs'[s].flatAt <= now'
  BY <1>1, <1>2, <1>5 DEF ChargesFit
<1>14. OnTheSecond(s)'
  BY <1>1, <1>7 DEF ChargesFit, OnTheSecond
<1> QED
  BY <1>8, <1>12, <1>13, <1>14 DEF ChargesFit

LEMMA ChargeScheduler ==
    ASSUME StripeInv, ChargeInv, NEW at \in Readings, advancePeriods(at)
    PROVE  ChargeInv'
<1>1. TypeOK /\ BillsBelong
  BY DEF StripeInv
<1> SUFFICES ASSUME NEW s \in DOMAIN subs', ~subs'[s].backdated
             PROVE  ChargesFit(s)'
  BY DEF ChargeInv
<1>0. s \in DOMAIN subs /\ now' = now /\ now \in Nat
  BY <1>1, SchedulerFacts DEF TypeOK
<1>r. subs[s].backdated = subs'[s].backdated
  <2>1. CASE s \in Due(at)
    <3>1. subs[s] \in Container /\ Elapsed(subs[s], at) \in Nat
      BY <1>0, <1>1, <2>1, SchedulerFacts DEF TypeOK
    <3>2. subs'[s] = Rolled(subs[s], Elapsed(subs[s], at))
      BY <1>1, <1>0, <2>1, SchedulerFacts
    <3> QED
      BY <3>1, <3>2, RolledOwesNothing
  <2>2. CASE s \notin Due(at)
    BY <1>0, <1>1, <2>2, SchedulerFacts
  <2> QED
    BY <2>1, <2>2
<1>2. s \in DOMAIN subs /\ ChargesFit(s) /\ now' = now /\ now \in Nat
  BY <1>0, <1>r DEF ChargeInv
<1>3. CASE s \in Due(at)
  BY <1>1, <1>2, <1>3, ChargeDue
<1>4. CASE s \notin Due(at)
  <2> PICK ids : ids = RolledIds(at)
    OBVIOUS
  <2>1. subs'[s] = subs[s]
    BY <1>1, <1>2, <1>4, SchedulerFacts
  <2>2. /\ ids \cap Bills = {} /\ invoice' = invoice
        /\ DOMAIN drafts' = DOMAIN drafts \cup ids
        /\ \A i \in DOMAIN drafts : drafts'[i] = drafts[i]
    BY <1>1, SchedulerFacts
  <2>3. \A i \in ids : drafts'[i].sub # s
    <3> SUFFICES ASSUME NEW i \in ids
                 PROVE  drafts'[i].sub # s
      OBVIOUS
    <3> DEFINE k == i[2] - subs[i[1]].opened - 1
    <3>1. /\ i[1] \in Due(at)
          /\ i[2] \in subs[i[1]].opened + 1
                       .. subs[i[1]].opened + Elapsed(subs[i[1]], at)
          /\ drafts'[i] = ElapsedDraft(i[1], subs[i[1]], k)
      BY <1>1, SchedulerFacts
    <3>2. /\ i[1] \in DOMAIN subs /\ subs[i[1]] \in Container
          /\ Elapsed(subs[i[1]], at) \in Nat
      BY <1>1, <3>1, SchedulerFacts
    <3>3. i[1] \in Nat /\ subs[i[1]].opened \in Nat
      BY <1>1, <3>2 DEF TypeOK, Container
    <3>4. k \in Nat
      BY <3>1, <3>2, <3>3
    <3> HIDE DEF k
    <3>5. drafts'[i].sub = i[1]
      BY <3>1, <3>2, <3>3, <3>4, ElapsedDraftFields
    <3> QED
      BY <1>4, <3>1, <3>5
  <2>4. NewlyBilled(ids, s)' = {}
    BY <2>3 DEF NewlyBilled
  <2>5. SecondsBilled(s)' = SecondsBilled(s)
    BY <2>2, <2>4, MoreBilled
  <2> QED
    BY <1>1, <1>2, <2>1, <2>5, ChargesKept
<1> QED
  BY <1>3, <1>4

-----------------------------------------------------------------------------
LEMMA ChargeInit == Init => ChargeInv
  BY DEF Init, ChargeInv

LEMMA ChargeStep == StripeInv /\ ChargeInv /\ [Next]_vars => ChargeInv'
<1> SUFFICES ASSUME StripeInv, ChargeInv, [Next]_vars
             PROVE  ChargeInv'
  OBVIOUS
<1>1. TypeOK
  BY DEF StripeInv
<1>2. CASE Tick
  BY <1>1, <1>2, ChargeUnchanged DEF Tick
<1>3. CASE Scheduler
  BY <1>3, ChargeScheduler DEF Scheduler
<1>4. CASE SomeCall
  BY <1>1, <1>4, ChargeAddToExisting, ChargeAddToNew, ChargeRemove,
     ChargeCreateItem, ChargeFinalize, ChargePay DEF SomeCall, handleAddItem
<1>5. CASE UNCHANGED vars
  BY <1>1, <1>5, ChargeUnchanged DEF vars
<1> QED
  BY <1>2, <1>3, <1>4, <1>5 DEF Next

LEMMA ChargedByNow ==
    ASSUME TypeOK, ChargeInv
    PROVE  NoSecondChargedTwice
<1> SUFFICES ASSUME NEW s \in DOMAIN subs, ~subs[s].backdated
             PROVE  SecondsCharged(s) * Second <= now - Anchor(s)
  BY DEF NoSecondChargedTwice
<1>1. ChargesFit(s)
  BY DEF ChargeInv
<1>2. SecondsCharged(s) * Second <= ChargedUpTo(s) - Anchor(s)
  BY <1>1 DEF ChargesFit
<1>3. /\ SecondsCharged(s) * Second \in Nat /\ Anchor(s) \in Nat /\ now \in Nat
      /\ ChargedUpTo(s) \in Nat /\ ChargedUpTo(s) <= now
  BY <1>1, ChargesTyped
<1> QED
  BY <1>2, <1>3

(* Whatever the customers, periods and prices, however often the flat fee  *)
(* is removed, prorated and put back, and however old the readings of the  *)
(* clock that handlers and scheduler work with: what flatFeeForWindow      *)
(* bills a container never exceeds the seconds it has lived, unless a late *)
(* add put the item back as of a second before it had been taken away.     *)
THEOREM FeesAreChargedOnce == Spec => []NoSecondChargedTwice
<1>1. StripeInv /\ ChargeInv => NoSecondChargedTwice
  BY ChargedByNow DEF StripeInv
<1> QED
  BY <1>1, ChargeStep, ChargeInit, InvAlways, PTL DEF Spec
=============================================================================
