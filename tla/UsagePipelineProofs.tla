------------------------ MODULE UsagePipelineProofs ------------------------
(***************************************************************************)
(* What holds of UsagePipeline for any customers, events, flushers, batch  *)
(* size, period and clock lag: its types, that no event vanishes or is     *)
(* refused, that each is billed once at most as long as its customer did   *)
(* not cross, and that it implements UsageLedger.                          *)
(***************************************************************************)
EXTENDS UsagePipeline, TLAPS

-----------------------------------------------------------------------------
(* The clock.                                                              *)

LEMMA Sizes ==
  /\ ingestBatchMax \in Nat /\ ingestBatchMax > 0
  /\ Second \in Nat /\ Second > 0
  /\ Period \in Nat /\ Period > 0
  BY UsageAssumption

LEMMA Quotient ==
  ASSUME NEW t \in Nat, NEW b \in Nat, b > 0, NEW r, r = t % b
  PROVE  \E q \in Nat : t = q * b + r /\ r \in Nat /\ r < b
  <1> DEFINE q == t \div b
  <1>1. q \in Nat
    OBVIOUS
  <1>2. t = b * q + r /\ r \in 0 .. b - 1
    OBVIOUS
  <1>3. b * q = q * b
    <2> HIDE DEF q
    <2> QED  BY <1>1
  <1> HIDE DEF q
  <1>4. t = q * b + r /\ r \in Nat /\ r < b
    BY <1>2, <1>3
  <1> QED  BY <1>1, <1>4

LEMMA TruncIsTime ==
  ASSUME NEW t \in Nat PROVE Trunc(t) \in Nat
  <1> DEFINE r == t % Second
  <1>1. PICK q \in Nat : t = q * Second + r /\ r \in Nat /\ r < Second
    BY Quotient, Sizes
  <1>2. Trunc(t) = t - r
    BY DEF Trunc
  <1> HIDE DEF r
  <1>3. q * Second \in Nat
    BY <1>1, Sizes
  <1> QED  BY <1>1, <1>2, <1>3

LEMMA ReadingsAreTimes ==
  ASSUME now \in Nat, NEW at \in Readings PROVE at \in Nat /\ Trunc(at) \in Nat
  <1>1. at \in Nat
    BY UsageAssumption DEF Readings
  <1> QED  BY <1>1, TruncIsTime

-----------------------------------------------------------------------------
(* Chunks.                                                                 *)

LEMMA ChunkAndRest ==
  ASSUME NEW s \in Seq(Record)
  PROVE  /\ Chunk(s) \in Seq(Record) /\ Rest(s) \in Seq(Record)
         /\ Len(Chunk(s)) <= ingestBatchMax
         /\ Elements(s) = Elements(Chunk(s)) \cup Elements(Rest(s))
  <1> DEFINE size == IF Len(s) < ingestBatchMax THEN Len(s) ELSE ingestBatchMax
  <1>1. Len(s) \in Nat /\ ingestBatchMax \in Nat
    BY Sizes
  <1>2. size \in Nat /\ size <= Len(s) /\ size <= ingestBatchMax
    BY <1>1
  <1>3. Chunk(s) = SubSeq(s, 1, size)
    BY DEF Chunk
  <1> HIDE DEF size
  <1>4. /\ Chunk(s) \in Seq(Record) /\ Len(Chunk(s)) = size
        /\ \A n \in 1 .. size : Chunk(s)[n] = s[n]
    BY <1>1, <1>2, <1>3
  <1>5. Rest(s) = SubSeq(s, size + 1, Len(s))
    BY <1>4 DEF Rest
  <1>6. /\ Rest(s) \in Seq(Record) /\ Len(Rest(s)) = Len(s) - size
        /\ \A n \in 1 .. Len(s) - size : Rest(s)[n] = s[n + size]
    BY <1>1, <1>2, <1>5
  <1>7. Elements(s) \subseteq Elements(Chunk(s)) \cup Elements(Rest(s))
    <2> SUFFICES ASSUME NEW n \in 1 .. Len(s)
                 PROVE  s[n] \in Elements(Chunk(s)) \cup Elements(Rest(s))
      BY DEF Elements
    <2>1. CASE n <= size
      BY <1>2, <1>4, <2>1 DEF Elements
    <2>2. CASE ~(n <= size)
      <3> DEFINE m == n - size
      <3>1. m \in 1 .. Len(s) - size /\ m + size = n
        BY <1>1, <1>2, <2>2
      <3> HIDE DEF m
      <3>2. Rest(s)[m] = s[n] /\ m \in DOMAIN Rest(s)
        BY <1>6, <3>1
      <3> QED  BY <3>2 DEF Elements
    <2> QED  BY <2>1, <2>2
  <1>8. Elements(Chunk(s)) \cup Elements(Rest(s)) \subseteq Elements(s)
    <2>1. ASSUME NEW n \in DOMAIN Chunk(s) PROVE Chunk(s)[n] \in Elements(s)
      BY <1>1, <1>2, <1>4 DEF Elements
    <2>2. ASSUME NEW n \in DOMAIN Rest(s) PROVE Rest(s)[n] \in Elements(s)
      <3>1. n \in 1 .. Len(s) - size /\ n + size \in 1 .. Len(s)
        BY <1>1, <1>2, <1>6
      <3>2. n + size \in DOMAIN s /\ Rest(s)[n] = s[n + size]
        BY <1>6, <3>1
      <3> QED  BY <3>2 DEF Elements
    <2> QED  BY <2>1, <2>2 DEF Elements
  <1> QED  BY <1>2, <1>4, <1>6, <1>7, <1>8

LEMMA ElementsAreRecords ==
  ASSUME NEW s \in Seq(Record) PROVE Elements(s) \subseteq Record
  BY DEF Elements

LEMMA RecordFields ==
  ASSUME NEW r \in Record PROVE r.id \in Events /\ r.at \in Nat
  BY DEF Record

LEMMA IdsAreEvents ==
  ASSUME NEW S, S \subseteq Record PROVE Ids(S) \subseteq Events
  BY RecordFields DEF Ids

LEMMA Appended ==
  ASSUME NEW s \in Seq(Record), NEW r \in Record
  PROVE  Append(s, r) \in Seq(Record) /\ Elements(Append(s, r)) = Elements(s) \cup {r}
  <1> DEFINE a == Append(s, r)
  <1>1. /\ a \in Seq(Record) /\ Len(a) = Len(s) + 1 /\ Len(s) \in Nat
        /\ \A n \in 1 .. Len(s) : a[n] = s[n]
        /\ a[Len(s) + 1] = r
    OBVIOUS
  <1> HIDE DEF a
  <1>2. Elements(a) \subseteq Elements(s) \cup {r}
    <2> SUFFICES ASSUME NEW n \in 1 .. Len(s) + 1 PROVE a[n] \in Elements(s) \cup {r}
      BY <1>1 DEF Elements
    <2> QED  BY <1>1 DEF Elements
  <1>3. Elements(s) \subseteq Elements(a)
    <2> SUFFICES ASSUME NEW n \in 1 .. Len(s) PROVE s[n] \in Elements(a)
      BY DEF Elements
    <2>1. n \in DOMAIN a /\ a[n] = s[n]
      BY <1>1
    <2> QED  BY <2>1 DEF Elements
  <1>4. r \in Elements(a)
    <2>1. Len(s) + 1 \in DOMAIN a
      BY <1>1
    <2> QED  BY <1>1, <2>1 DEF Elements
  <1> QED  BY <1>1, <1>2, <1>3, <1>4 DEF a

-----------------------------------------------------------------------------
(* Metering: types, and where every event is.                              *)

IdleHoldsNothing == \A f \in Flushers : stage[f] # "posting" => batch[f] = <<>>

IngestInv == TypeOK /\ IdleHoldsNothing /\ NothingVanishes /\ NothingRefused

(* What is left of the types when time, the buffers or the windows change. *)
MeteringTypes ==
    /\ times \in [Events -> Nat]
    /\ buf \in Seq(Record)
    /\ stage \in [Flushers -> {"idle", "flushing", "posting"}]
    /\ batch \in [Flushers -> Seq(Record)]
    /\ restarts \in Nat
    /\ forgotten \cup dropped \cup refused \subseteq Events
MetronomeTypes ==
    /\ seen \subseteq Events
    /\ events \subseteq Record
    /\ billedThrough \in [Customers -> Nat]
StripeTypes ==
    /\ created \in Nat
    /\ DOMAIN containers \subseteq 1 .. created
    /\ \A s \in DOMAIN containers : containers[s] \in Container
    /\ byCustomer \in [Customers -> 0 .. created]
WindowTypes ==
    /\ opened \in Nat
    /\ windows \cup closing \subseteq Window
    /\ pulled \subseteq [window : Window, usage : SUBSET Record]
    /\ crossed \subseteq Customers
BillingTypes == StripeTypes /\ WindowTypes

LEMMA TypeParts == TypeOK <=> now \in Nat /\ MeteringTypes /\ MetronomeTypes /\ BillingTypes
  BY DEF TypeOK, MeteringTypes, MetronomeTypes, BillingTypes, StripeTypes, WindowTypes

(* The containers and windows are as they were.                            *)
billingVars == <<created, containers, byCustomer, opened, windows, closing, pulled, crossed>>

LEMMA TypePartsNext ==
  now' \in Nat /\ MeteringTypes' /\ MetronomeTypes' /\ BillingTypes' => TypeOK'
  BY DEF TypeOK, MeteringTypes, MetronomeTypes, BillingTypes, StripeTypes, WindowTypes

LEMMA TimerFlushes == Timer \in Flushers /\ Deliverers \subseteq Flushers
  BY DEF Flushers

LEMMA HeldOf ==
  ASSUME NEW e
  PROVE  e \in Held <=> \/ e \in Ids(Elements(buf))
                        \/ \E f \in Flushers : e \in Ids(Elements(batch[f]))
  BY DEF Held

LEMMA IdsOfUnion == ASSUME NEW S, NEW T PROVE Ids(S \cup T) = Ids(S) \cup Ids(T)
  BY DEF Ids

LEMMA NothingInNothing == Elements(<<>>) = {} /\ Ids({}) = {}
  BY DEF Elements, Ids

LEMMA IngestInit == Init => IngestInv
  <1> SUFFICES ASSUME Init PROVE IngestInv
    OBVIOUS
  <1>1. MeteringTypes
    BY DEF Init, MeteringTypes
  <1>2. MetronomeTypes /\ BillingTypes /\ now \in Nat
    BY DEF Init, MetronomeTypes, BillingTypes, StripeTypes, WindowTypes, Absent
  <1>3. IdleHoldsNothing
    BY DEF Init, IdleHoldsNothing
  <1>4. NothingVanishes /\ NothingRefused
    BY DEF Init, NothingVanishes, NothingRefused
  <1> QED  BY <1>1, <1>2, <1>3, <1>4, TypeParts DEF IngestInv

LEMMA IngestDelivered ==
  ASSUME IngestInv, NEW d \in Deliverers, NEW e \in Events, onUsageIngested(d, e)
  PROVE  IngestInv'
  <1> DEFINE r == [id |-> e, at |-> Trunc(now)]
             full == IF Len(buf') >= ingestBatchMax THEN "flushing" ELSE "idle"
  <1>1. MeteringTypes /\ MetronomeTypes /\ BillingTypes /\ now \in Nat
    BY TypeParts DEF IngestInv
  <1>2. /\ times' = [times EXCEPT ![e] = @ + 1]
        /\ buf' = Append(buf, r)
        /\ stage' = [stage EXCEPT ![d] = full]
        /\ stage[d] = "idle"
        /\ UNCHANGED <<now, batch, restarts, forgotten, dropped, refused,
                       seen, events, billedThrough, billingVars>>
    BY DEF onUsageIngested, lost, metronome, billing, stripe, billingVars
  <1>3. r \in Record
    BY <1>1, TruncIsTime DEF Record
  <1>4. full \in {"idle", "flushing"} /\ full # "posting"
    OBVIOUS
  <1>5. d \in Flushers
    BY TimerFlushes
  <1> HIDE DEF full
  <1>6. buf' \in Seq(Record) /\ Elements(buf') = Elements(buf) \cup {r}
    BY <1>1, <1>2, <1>3, Appended DEF MeteringTypes
  <1>7. MeteringTypes'
    <2>1. times' \in [Events -> Nat]
      BY <1>1, <1>2 DEF MeteringTypes
    <2>2. stage' \in [Flushers -> {"idle", "flushing", "posting"}]
      BY <1>1, <1>2, <1>4 DEF MeteringTypes
    <2> QED  BY <1>1, <1>2, <1>6, <2>1, <2>2 DEF MeteringTypes
  <1>8. MetronomeTypes' /\ BillingTypes' /\ now' \in Nat
    BY <1>1, <1>2 DEF MetronomeTypes, BillingTypes, StripeTypes, WindowTypes, billingVars
  <1>9. IdleHoldsNothing'
    BY <1>1, <1>2, <1>4, <1>5 DEF IdleHoldsNothing, MeteringTypes, IngestInv
  <1>10. NothingVanishes'
    <2> SUFFICES ASSUME NEW x \in Events, times'[x] > 0
                 PROVE  x \in Held' \/ Settled(x)'
      BY DEF NothingVanishes
    <2>1. Ids(Elements(buf')) = Ids(Elements(buf)) \cup {e}
      <3>1. Ids({r}) = {e}
        BY DEF Ids
      <3> QED  BY <1>6, <3>1, IdsOfUnion
    <2>2. CASE x = e
      BY <2>1, <2>2 DEF Held
    <2>3. CASE x # e
      <3>1. times[x] > 0
        BY <1>1, <1>2, <2>3 DEF MeteringTypes
      <3>2. x \in Held \/ Settled(x)
        BY <3>1 DEF IngestInv, NothingVanishes
      <3>3. Held \subseteq Held'
        BY <1>2, <2>1 DEF Held
      <3>4. Settled(x)' <=> Settled(x)
        BY <1>2 DEF Settled
      <3> QED  BY <3>2, <3>3, <3>4
    <2> QED  BY <2>2, <2>3
  <1>11. NothingRefused'
    BY <1>2 DEF NothingRefused, IngestInv
  <1>12. TypeOK'
    BY <1>7, <1>8, TypePartsNext
  <1> QED  BY <1>9, <1>10, <1>11, <1>12 DEF IngestInv

LEMMA IngestTaken ==
  ASSUME IngestInv, NEW f \in Flushers, takeBuffer(f)
  PROVE  IngestInv'
  <1> DEFINE goal == IF buf = <<>> THEN "idle" ELSE "posting"
  <1>1. MeteringTypes /\ MetronomeTypes /\ BillingTypes /\ now \in Nat
    BY TypeParts DEF IngestInv
  <1>2. /\ batch' = [batch EXCEPT ![f] = buf]
        /\ buf' = <<>>
        /\ stage' = [stage EXCEPT ![f] = goal]
        /\ UNCHANGED <<now, times, restarts, forgotten, dropped, refused,
                       seen, events, billedThrough, billingVars>>
    BY DEF takeBuffer, lost, metronome, billing, stripe, billingVars
  <1>3. batch[f] = <<>>
    <2>1. stage[f] # "posting"
      BY DEF takeBuffer
    <2> QED  BY <2>1 DEF IdleHoldsNothing, IngestInv
  <1>4. goal \in {"idle", "posting"} /\ (goal # "posting" => buf = <<>>)
    OBVIOUS
  <1> HIDE DEF goal
  <1>5. MeteringTypes'
    BY <1>1, <1>2, <1>4 DEF MeteringTypes
  <1>6. MetronomeTypes' /\ BillingTypes' /\ now' \in Nat
    BY <1>1, <1>2 DEF MetronomeTypes, BillingTypes, StripeTypes, WindowTypes, billingVars
  <1>7. IdleHoldsNothing'
    BY <1>1, <1>2, <1>4 DEF IdleHoldsNothing, MeteringTypes, IngestInv
  <1>8. Held \subseteq Held'
    <2> SUFFICES ASSUME NEW x \in Held PROVE x \in Held'
      OBVIOUS
    <2>1. batch'[f] = buf /\ \A g \in Flushers : g # f => batch'[g] = batch[g]
      BY <1>1, <1>2 DEF MeteringTypes
    <2>2. x \in Ids(Elements(buf)) \/ \E g \in Flushers : x \in Ids(Elements(batch[g]))
      BY HeldOf
    <2>3. CASE x \in Ids(Elements(buf))
      BY <2>1, <2>3 DEF Held
    <2>4. CASE \E g \in Flushers : x \in Ids(Elements(batch[g]))
      <3>1. PICK g \in Flushers : x \in Ids(Elements(batch[g]))
        BY <2>4
      <3>2. g # f
        BY <1>3, <3>1, NothingInNothing
      <3> QED  BY <2>1, <3>1, <3>2 DEF Held
    <2> QED  BY <2>2, <2>3, <2>4
  <1>9. NothingVanishes' /\ NothingRefused'
    BY <1>2, <1>8 DEF NothingVanishes, NothingRefused, Settled, IngestInv
  <1>10. TypeOK'
    BY <1>5, <1>6, TypePartsNext
  <1> QED  BY <1>7, <1>9, <1>10 DEF IngestInv

(* A chunk that is posted settles what was in it, and is never too large.  *)
LEMMA PostedChunk ==
  ASSUME IngestInv, NEW f \in Flushers, postChunk(f)
  PROVE  /\ MetronomeTypes' /\ refused' = {} /\ dropped' \subseteq Events
         /\ \A x : Settled(x) \/ x \in Ids(Elements(Chunk(batch[f]))) => Settled(x)'
         /\ restarts' = restarts /\ forgotten' = forgotten
         /\ billedThrough' = billedThrough
         /\ \/ events' = events /\ seen' = seen
            \/ /\ events' = events \cup Fresh(Chunk(batch[f]))
               /\ seen' = seen \cup Ids(Elements(Chunk(batch[f])))
  <1> DEFINE c == Chunk(batch[f])
  <1>1. MeteringTypes /\ MetronomeTypes
    BY TypeParts DEF IngestInv
  <1>2. c \in Seq(Record) /\ Len(c) <= ingestBatchMax
    BY <1>1, ChunkAndRest DEF MeteringTypes
  <1>3. Elements(c) \subseteq Record /\ Ids(Elements(c)) \subseteq Events
    BY <1>2, ElementsAreRecords, IdsAreEvents
  <1>4. Fresh(c) \subseteq Elements(c)
    BY DEF Fresh, Elements
  <1>5. refused = {} /\ dropped \subseteq Events
    BY <1>1 DEF IngestInv, NothingRefused, MeteringTypes
  <1>6. handleIngest(c) \/ refuse(c) \/ giveUp(c)
    BY DEF postChunk
  <1> HIDE DEF c
  <1>7. CASE handleIngest(c)
    <2>1. /\ events' = events \cup Fresh(c) /\ seen' = seen \cup Ids(Elements(c))
          /\ UNCHANGED <<billedThrough, restarts, forgotten, dropped, refused>>
      BY <1>7 DEF handleIngest, lost
    <2>2. MetronomeTypes'
      BY <1>1, <1>3, <1>4, <2>1 DEF MetronomeTypes
    <2> QED  BY <1>5, <2>1, <2>2 DEF Settled, c
  <1>8. CASE refuse(c)
    <2>1. Len(c) > ingestBatchMax /\ Len(c) \in Nat /\ ingestBatchMax \in Nat
      BY <1>2, <1>8, Sizes DEF refuse
    <2> QED  BY <1>2, <2>1
  <1>9. CASE giveUp(c)
    <2>1. /\ dropped' = dropped \cup Ids(Elements(c))
          /\ UNCHANGED <<seen, events, billedThrough, restarts, forgotten, refused>>
      BY <1>9 DEF giveUp, metronome
    <2>2. MetronomeTypes'
      BY <1>1, <2>1 DEF MetronomeTypes
    <2> QED  BY <1>3, <1>5, <2>1, <2>2 DEF Settled, c
  <1> QED  BY <1>6, <1>7, <1>8, <1>9

LEMMA IngestPosted ==
  ASSUME IngestInv, NEW f \in Flushers, postChunk(f)
  PROVE  IngestInv'
  <1> DEFINE goal == IF Rest(batch[f]) = <<>> THEN "idle" ELSE stage[f]
  <1>1. MeteringTypes /\ MetronomeTypes /\ BillingTypes /\ now \in Nat
    BY TypeParts DEF IngestInv
  <1>2. /\ batch' = [batch EXCEPT ![f] = Rest(batch[f])]
        /\ stage' = [stage EXCEPT ![f] = goal]
        /\ stage[f] = "posting"
        /\ UNCHANGED <<now, times, buf, billingVars>>
    BY DEF postChunk, billing, stripe, billingVars
  <1>3. /\ MetronomeTypes' /\ refused' = {} /\ dropped' \subseteq Events
        /\ \A x : Settled(x) \/ x \in Ids(Elements(Chunk(batch[f]))) => Settled(x)'
        /\ restarts' = restarts /\ forgotten' = forgotten
    BY PostedChunk
  <1>4. batch[f] \in Seq(Record)
    BY <1>1 DEF MeteringTypes
  <1>5. /\ Rest(batch[f]) \in Seq(Record)
        /\ Elements(batch[f]) = Elements(Chunk(batch[f])) \cup Elements(Rest(batch[f]))
    BY <1>4, ChunkAndRest
  <1>6. /\ goal \in {"idle", "posting"}
        /\ goal # "posting" => Rest(batch[f]) = <<>>
    BY <1>2
  <1> HIDE DEF goal
  <1>7. MeteringTypes'
    <2>1. forgotten' \cup dropped' \cup refused' \subseteq Events
      BY <1>1, <1>3 DEF MeteringTypes
    <2>2. batch' \in [Flushers -> Seq(Record)]
      BY <1>1, <1>2, <1>5 DEF MeteringTypes
    <2>3. stage' \in [Flushers -> {"idle", "flushing", "posting"}]
      BY <1>1, <1>2, <1>6 DEF MeteringTypes
    <2> QED  BY <1>1, <1>2, <1>3, <2>1, <2>2, <2>3 DEF MeteringTypes
  <1>8. BillingTypes' /\ now' \in Nat
    BY <1>1, <1>2 DEF BillingTypes, StripeTypes, WindowTypes, billingVars
  <1>9. /\ batch'[f] = Rest(batch[f]) /\ stage'[f] = goal
        /\ \A g \in Flushers : g # f => batch'[g] = batch[g] /\ stage'[g] = stage[g]
    BY <1>1, <1>2 DEF MeteringTypes
  <1>10. IdleHoldsNothing'
    BY <1>6, <1>9 DEF IdleHoldsNothing, IngestInv
  <1>11. ASSUME NEW x \in Held PROVE x \in Held' \/ Settled(x)'
    <2>1. CASE x \in Ids(Elements(buf))
      BY <1>2, <2>1 DEF Held
    <2>2. CASE \E g \in Flushers : x \in Ids(Elements(batch[g]))
      <3>1. PICK g \in Flushers : x \in Ids(Elements(batch[g]))
        BY <2>2
      <3>2. CASE g # f
        BY <1>9, <3>1, <3>2 DEF Held
      <3>3. CASE g = f
        <4>1. x \in Ids(Elements(Chunk(batch[f]))) \/ x \in Ids(Elements(Rest(batch[f])))
          BY <1>5, <3>1, <3>3, IdsOfUnion
        <4> QED  BY <1>3, <1>9, <4>1 DEF Held
      <3> QED  BY <3>2, <3>3
    <2> QED  BY <1>11, <2>1, <2>2, HeldOf
  <1>12. NothingVanishes'
    BY <1>2, <1>3, <1>11 DEF NothingVanishes, IngestInv
  <1>13. TypeOK'
    BY <1>3, <1>7, <1>8, TypePartsNext
  <1> QED  BY <1>3, <1>10, <1>12, <1>13 DEF IngestInv, NothingRefused

LEMMA IngestRestarted ==
  ASSUME IngestInv, restart
  PROVE  IngestInv'
  <1>1. MeteringTypes /\ MetronomeTypes /\ BillingTypes /\ now \in Nat
    BY TypeParts DEF IngestInv
  <1>2. /\ restarts' = restarts + 1
        /\ forgotten' = forgotten \cup Held
        /\ buf' = <<>>
        /\ batch' = [f \in Flushers |-> <<>>]
        /\ stage' = [f \in Flushers |-> "idle"]
        /\ UNCHANGED <<now, times, dropped, refused, seen, events, billedThrough,
                       billingVars>>
    BY DEF restart, metronome, billing, stripe, billingVars
  <1>3. Held \subseteq Events
    <2>1. ASSUME NEW s \in Seq(Record) PROVE Ids(Elements(s)) \subseteq Events
      BY ElementsAreRecords, IdsAreEvents
    <2>2. buf \in Seq(Record) /\ \A f \in Flushers : batch[f] \in Seq(Record)
      BY <1>1 DEF MeteringTypes
    <2> QED  BY <2>1, <2>2, HeldOf
  <1>4. MeteringTypes'
    <2>1. forgotten' \cup dropped' \cup refused' \subseteq Events
      BY <1>1, <1>2, <1>3 DEF MeteringTypes
    <2>2. batch' \in [Flushers -> Seq(Record)] /\ buf' \in Seq(Record)
      BY <1>2
    <2> QED  BY <1>1, <1>2, <2>1, <2>2 DEF MeteringTypes
  <1>5. MetronomeTypes' /\ BillingTypes' /\ now' \in Nat
    BY <1>1, <1>2 DEF MetronomeTypes, BillingTypes, StripeTypes, WindowTypes, billingVars
  <1>6. IdleHoldsNothing'
    BY <1>2 DEF IdleHoldsNothing
  <1>7. NothingVanishes' /\ NothingRefused'
    BY <1>2 DEF NothingVanishes, NothingRefused, Settled, IngestInv
  <1>8. TypeOK'
    BY <1>4, <1>5, TypePartsNext
  <1> QED  BY <1>6, <1>7, <1>8 DEF IngestInv

(* The window a container opens.                                           *)
Opened(s, end, final) ==
    [id |-> opened + 1, sub |-> s, customer |-> containers[s].customer,
     start |-> containers[s].start, end |-> end, final |-> final]

LEMMA ContainerFields ==
  ASSUME StripeTypes, NEW s \in DOMAIN containers
  PROVE  /\ containers[s].customer \in Customers /\ containers[s].start \in Nat
         /\ containers[s].metered \in BOOLEAN /\ s \in Nat
  <1>1. containers[s] \in Container /\ s \in 1 .. created /\ created \in Nat
    BY DEF StripeTypes
  <1> QED  BY <1>1 DEF Container

LEMMA WindowFields ==
  ASSUME WindowTypes, NEW w \in windows \cup closing \cup Priced
  PROVE  w \in Window /\ w.customer \in Customers /\ w.start \in Nat /\ w.end \in Nat
         /\ w.id \in Nat /\ w.sub \in Nat /\ w.final \in BOOLEAN
  <1>1. w \in Window
    BY DEF Priced, WindowTypes
  <1> QED  BY <1>1 DEF Window

LEMMA OpenedTyped ==
  ASSUME StripeTypes, WindowTypes, NEW s \in DOMAIN containers, NEW end \in Nat,
         NEW final \in BOOLEAN, openWindow(s, end, final)
  PROVE  /\ Opened(s, end, final) \in Window /\ opened' = opened + 1
         /\ windows' = windows \cup {Opened(s, end, final)}
  <1>1. opened + 1 \in Nat
    BY DEF WindowTypes
  <1> QED  BY <1>1, ContainerFields DEF openWindow, Opened, Window

(* Replacing a container by another with its customer.                     *)
LEMMA ContainerReplaced ==
  ASSUME StripeTypes, NEW s \in DOMAIN containers, NEW new \in Container,
         new.customer = containers[s].customer,
         containers' = [containers EXCEPT ![s] = new],
         UNCHANGED <<created, byCustomer>>
  PROVE  StripeTypes'
  BY DEF StripeTypes

LEMMA TypesSubscribe ==
  ASSUME BillingTypes, now \in Nat, NEW c \in Customers, NEW at \in Readings, subscribe(c, at)
  PROVE  /\ BillingTypes' /\ created + 1 \notin DOMAIN containers
         /\ containers' = [s \in DOMAIN containers \cup {created + 1} |->
                             IF s = created + 1
                             THEN [customer |-> c, start |-> Trunc(at), metered |-> TRUE]
                             ELSE containers[s]]
  <1> DEFINE n == created + 1
             new == [customer |-> c, start |-> Trunc(at), metered |-> TRUE]
  <1>1. created \in Nat /\ DOMAIN containers \subseteq 1 .. created
    BY DEF BillingTypes, StripeTypes
  <1>2. n \in Nat /\ n \in 1 .. n /\ 1 .. created \subseteq 1 .. n /\ n \notin DOMAIN containers
        /\ 0 .. created \subseteq 0 .. n /\ n \in 0 .. n
    BY <1>1
  <1>3. /\ created' = n /\ containers' = Put(containers, n, new)
        /\ byCustomer' = [byCustomer EXCEPT ![c] = n]
        /\ crossed' \subseteq crossed \cup {c}
        /\ UNCHANGED <<opened, windows, closing, pulled>>
    BY DEF subscribe
  <1>4. new \in Container
    BY ReadingsAreTimes DEF Container
  <1> HIDE DEF n, new
  <1>5. containers' = [s \in DOMAIN containers \cup {n} |->
                         IF s = n THEN new ELSE containers[s]]
    BY <1>3 DEF Put
  <1>6. StripeTypes'
    <2>1. DOMAIN containers' \subseteq 1 .. n
      BY <1>1, <1>2, <1>5
    <2>2. \A s \in DOMAIN containers' : containers'[s] \in Container
      BY <1>4, <1>5 DEF BillingTypes, StripeTypes
    <2>3. byCustomer' \in [Customers -> 0 .. n]
      BY <1>2, <1>3 DEF BillingTypes, StripeTypes
    <2> QED  BY <1>2, <1>3, <2>1, <2>2, <2>3 DEF StripeTypes
  <1>7. WindowTypes'
    BY <1>3 DEF BillingTypes, WindowTypes
  <1> QED  BY <1>2, <1>5, <1>6, <1>7 DEF BillingTypes, n, new

LEMMA TypesResubscribe ==
  ASSUME BillingTypes, NEW c \in Customers, resubscribe(c)
  PROVE  BillingTypes'
  <1> DEFINE s == byCustomer[c]
             new == [containers[s] EXCEPT !.metered = TRUE]
  <1>1. s \in DOMAIN containers /\ containers[s] \in Container
    BY DEF resubscribe, BillingTypes, StripeTypes
  <1>2. new \in Container /\ new.customer = containers[s].customer
    BY <1>1 DEF Container
  <1>3. /\ containers' = [containers EXCEPT ![s] = new]
        /\ crossed' = crossed \cup {c}
        /\ UNCHANGED <<created, byCustomer, opened, windows, closing, pulled>>
    BY DEF resubscribe
  <1> HIDE DEF s, new
  <1>4. StripeTypes'
    BY <1>1, <1>2, <1>3, ContainerReplaced DEF BillingTypes
  <1>5. WindowTypes'
    BY <1>3 DEF BillingTypes, WindowTypes
  <1> QED  BY <1>4, <1>5 DEF BillingTypes

(* The scheduler's windows and the final ones.                             *)
LEMMA TypesOpened ==
  ASSUME BillingTypes, NEW s \in DOMAIN containers, NEW end \in Nat, NEW final \in BOOLEAN,
         NEW new \in Container, new.customer = containers[s].customer,
         openWindow(s, end, final), containers' = [containers EXCEPT ![s] = new],
         UNCHANGED <<created, byCustomer, closing, pulled, crossed>>
  PROVE  BillingTypes'
  <1>1. StripeTypes'
    BY ContainerReplaced DEF BillingTypes
  <1>2. WindowTypes'
    BY OpenedTyped DEF BillingTypes, WindowTypes
  <1> QED  BY <1>1, <1>2 DEF BillingTypes

LEMMA PeriodEndsOpens ==
  ASSUME BillingTypes, NEW s \in DOMAIN containers, periodEnds(s)
  PROVE  \E end \in Nat, new \in Container :
           /\ end = containers[s].start + Period /\ containers[s].start <= end
           /\ containers[s].metered
           /\ new = [containers[s] EXCEPT !.start = end]
           /\ openWindow(s, end, FALSE) /\ containers' = [containers EXCEPT ![s] = new]
           /\ UNCHANGED <<now, created, byCustomer, closing, pulled, crossed, seen,
                          events, billedThrough>>
  <1> DEFINE end == containers[s].start + Period
             new == [containers[s] EXCEPT !.start = end]
  <1>1. containers[s].start \in Nat /\ containers[s] \in Container
    BY ContainerFields DEF BillingTypes, StripeTypes
  <1>2. end \in Nat /\ containers[s].start <= end
    BY <1>1, Sizes
  <1>3. new \in Container
    <2> HIDE DEF end
    <2> QED  BY <1>1, <1>2 DEF Container
  <1>4. /\ containers[s].metered /\ openWindow(s, end, FALSE)
        /\ containers' = [containers EXCEPT ![s] = new]
        /\ UNCHANGED <<now, created, byCustomer, closing, pulled, crossed, seen,
                       events, billedThrough>>
    BY DEF periodEnds, metronome
  <1> HIDE DEF end, new
  <1> QED  BY <1>2, <1>3, <1>4 DEF end, new

LEMMA CancelOpens ==
  ASSUME BillingTypes, now \in Nat, NEW s \in DOMAIN containers, NEW at \in Readings,
         cancel(s, at)
  PROVE  \E end \in Nat, new \in Container :
           /\ containers[s].metered
           /\ new = [containers[s] EXCEPT !.metered = FALSE]
           /\ openWindow(s, end, TRUE) /\ containers' = [containers EXCEPT ![s] = new]
           /\ UNCHANGED <<now, created, byCustomer, closing, pulled, crossed, seen,
                          events, billedThrough>>
  <1> DEFINE new == [containers[s] EXCEPT !.metered = FALSE]
  <1>1. containers[s] \in Container
    BY DEF BillingTypes, StripeTypes
  <1>2. new \in Container
    BY <1>1 DEF Container
  <1>3. /\ containers[s].metered /\ openWindow(s, Trunc(at), TRUE)
        /\ containers' = [containers EXCEPT ![s] = new]
        /\ UNCHANGED <<now, created, byCustomer, closing, pulled, crossed, seen,
                       events, billedThrough>>
    BY DEF cancel, metronome
  <1> HIDE DEF new
  <1> QED  BY <1>2, <1>3, ReadingsAreTimes DEF new

LEMMA TypesPulled ==
  ASSUME BillingTypes, MetronomeTypes, NEW w \in windows, pullUsage(w)
  PROVE  BillingTypes' /\ billedThrough' \in [Customers -> Nat]
  <1>1. /\ pulled' = pulled \cup {[window |-> w, usage |-> Costs(w)]}
        /\ billedThrough' = [billedThrough EXCEPT ![w.customer] = w.end]
        /\ windows' \subseteq windows /\ closing' \subseteq closing \cup {w}
        /\ UNCHANGED <<created, containers, byCustomer, opened, crossed>>
    BY DEF pullUsage, stripe
  <1>2. w \in Window /\ w.end \in Nat
    BY WindowFields DEF BillingTypes
  <1>3. Costs(w) \in SUBSET Record
    BY DEF Costs, MetronomeTypes
  <1>4. StripeTypes'
    BY <1>1 DEF BillingTypes, StripeTypes
  <1>5. WindowTypes'
    BY <1>1, <1>2, <1>3 DEF BillingTypes, WindowTypes
  <1> QED  BY <1>1, <1>2, <1>4, <1>5 DEF BillingTypes, MetronomeTypes

LEMMA TypesFinalized ==
  ASSUME BillingTypes, NEW w \in closing, finalize(w)
  PROVE  BillingTypes'
  <1>1. /\ closing' \subseteq closing
        /\ containers' = Restrict(containers, DOMAIN containers \ {w.sub})
        /\ byCustomer' = [byCustomer EXCEPT ![w.customer] = Absent]
        /\ UNCHANGED <<created, opened, windows, pulled, crossed>>
    BY DEF finalize
  <1>2. StripeTypes'
    <2>1. Absent \in 0 .. created
      BY DEF BillingTypes, StripeTypes, Absent
    <2>2. byCustomer' \in [Customers -> 0 .. created]
      BY <1>1, <2>1 DEF BillingTypes, StripeTypes
    <2>3. /\ DOMAIN containers' \subseteq DOMAIN containers
          /\ \A s \in DOMAIN containers' : containers'[s] = containers[s]
      BY <1>1 DEF Restrict
    <2> QED  BY <1>1, <2>2, <2>3 DEF BillingTypes, StripeTypes
  <1>3. WindowTypes'
    BY <1>1 DEF BillingTypes, WindowTypes
  <1> QED  BY <1>2, <1>3 DEF BillingTypes

(* Time, and what becomes of containers and windows, leaves metering alone. *)
LEMMA IngestElsewhere ==
  ASSUME IngestInv, Tick \/ Billing \/ UNCHANGED vars
  PROVE  IngestInv'
  <1>1. MeteringTypes /\ MetronomeTypes /\ BillingTypes /\ now \in Nat
    BY TypeParts DEF IngestInv
  <1>2. UNCHANGED <<times, buf, stage, batch, restarts, forgotten, dropped, refused,
                    seen, events>>
    BY DEF Tick, Billing, subscribe, resubscribe, periodEnds, cancel, pullUsage, finalize,
           vars, metering, metronome, lost
  <1>3. MeteringTypes'
    BY <1>1, <1>2 DEF MeteringTypes
  <1>4. IdleHoldsNothing'
    BY <1>2 DEF IdleHoldsNothing, IngestInv
  <1>5. NothingVanishes' /\ NothingRefused'
    BY <1>2 DEF NothingVanishes, NothingRefused, Settled, Held, IngestInv
  <1>6. billedThrough \in [Customers -> Nat]
    BY <1>1 DEF MetronomeTypes
  <1>7. ASSUME Tick \/ UNCHANGED vars
        PROVE  now' \in Nat /\ billedThrough' \in [Customers -> Nat] /\ BillingTypes'
    <2>1. now' \in Nat /\ billedThrough' = billedThrough /\ UNCHANGED billingVars
      BY <1>1, <1>7 DEF Tick, vars, metronome, billing, stripe, billingVars
    <2>2. StripeTypes'
      BY <1>1, <2>1 DEF BillingTypes, StripeTypes, billingVars
    <2>3. WindowTypes'
      BY <1>1, <2>1 DEF BillingTypes, WindowTypes, billingVars
    <2> QED  BY <1>6, <2>1, <2>2, <2>3 DEF BillingTypes
  <1>8. ASSUME NEW c \in Customers, NEW at \in Readings, subscribe(c, at)
        PROVE  now' \in Nat /\ billedThrough' \in [Customers -> Nat] /\ BillingTypes'
    BY <1>1, <1>6, <1>8, TypesSubscribe DEF subscribe, metronome
  <1>9. ASSUME NEW c \in Customers, resubscribe(c)
        PROVE  now' \in Nat /\ billedThrough' \in [Customers -> Nat] /\ BillingTypes'
    BY <1>1, <1>6, <1>9, TypesResubscribe DEF resubscribe, metronome
  <1>10. ASSUME NEW s \in DOMAIN containers, periodEnds(s)
        PROVE  now' \in Nat /\ billedThrough' \in [Customers -> Nat] /\ BillingTypes'
    <2>1. PICK end \in Nat, new \in Container :
            /\ new = [containers[s] EXCEPT !.start = end]
            /\ openWindow(s, end, FALSE) /\ containers' = [containers EXCEPT ![s] = new]
            /\ UNCHANGED <<now, created, byCustomer, closing, pulled, crossed, billedThrough>>
      BY <1>1, <1>10, PeriodEndsOpens
    <2>2. new.customer = containers[s].customer
      BY <1>1, <2>1 DEF BillingTypes, StripeTypes, Container
    <2> QED  BY <1>1, <1>6, <2>1, <2>2, TypesOpened
  <1>11. ASSUME NEW s \in DOMAIN containers, NEW at \in Readings, cancel(s, at)
        PROVE  now' \in Nat /\ billedThrough' \in [Customers -> Nat] /\ BillingTypes'
    <2>1. PICK end \in Nat, new \in Container :
            /\ new = [containers[s] EXCEPT !.metered = FALSE]
            /\ openWindow(s, end, TRUE) /\ containers' = [containers EXCEPT ![s] = new]
            /\ UNCHANGED <<now, created, byCustomer, closing, pulled, crossed, billedThrough>>
      BY <1>1, <1>11, CancelOpens
    <2>2. new.customer = containers[s].customer
      BY <1>1, <2>1 DEF BillingTypes, StripeTypes, Container
    <2> QED  BY <1>1, <1>6, <2>1, <2>2, TypesOpened
  <1>12. ASSUME NEW w \in windows, pullUsage(w)
        PROVE  now' \in Nat /\ billedThrough' \in [Customers -> Nat] /\ BillingTypes'
    BY <1>1, <1>12, TypesPulled DEF pullUsage
  <1>13. ASSUME NEW w \in closing, finalize(w)
        PROVE  now' \in Nat /\ billedThrough' \in [Customers -> Nat] /\ BillingTypes'
    BY <1>1, <1>6, <1>13, TypesFinalized DEF finalize, metronome
  <1>14. now' \in Nat /\ billedThrough' \in [Customers -> Nat] /\ BillingTypes'
    <2>1. CASE Billing
      BY <1>8, <1>9, <1>10, <1>11, <1>12, <1>13, <2>1 DEF Billing
    <2> QED  BY <1>7, <2>1
  <1>15. MetronomeTypes' /\ BillingTypes' /\ now' \in Nat
    BY <1>1, <1>2, <1>14 DEF MetronomeTypes
  <1>16. TypeOK'
    BY <1>3, <1>15, TypePartsNext
  <1> QED  BY <1>4, <1>5, <1>16 DEF IngestInv

LEMMA IngestStep == IngestInv /\ [Next]_vars => IngestInv'
  <1> SUFFICES ASSUME IngestInv, [Next]_vars PROVE IngestInv'
    OBVIOUS
  <1>1. CASE Tick \/ Billing \/ UNCHANGED vars
    BY <1>1, IngestElsewhere
  <1>2. CASE Ingestion
    BY <1>2, IngestDelivered, IngestTaken, IngestPosted, IngestRestarted DEF Ingestion
  <1> QED  BY <1>1, <1>2 DEF Next

LEMMA IngestAlways == Spec => []IngestInv
  BY IngestInit, IngestStep, PTL DEF Spec

(* The state of the pipeline has its types for any customers, events,      *)
(* batch size and period, and however often metering restarts.             *)
THEOREM PipelineTypeCorrect == Spec => []TypeOK
  <1>1. IngestInv => TypeOK
    BY DEF IngestInv
  <1> QED  BY <1>1, IngestAlways, PTL

(* onUsageIngested, flush and the restart never lose an event silently.    *)
THEOREM NoEventVanishes == Spec => []NothingVanishes
  <1>1. IngestInv => NothingVanishes
    BY DEF IngestInv
  <1> QED  BY <1>1, IngestAlways, PTL

(* Chunks of ingestBatchMax are small enough, however long the buffer got. *)
THEOREM NoChunkIsRefused == Spec => []NothingRefused
  <1>1. IngestInv => NothingRefused
    BY DEF IngestInv
  <1> QED  BY <1>1, IngestAlways, PTL

-----------------------------------------------------------------------------
(* Metronome: a transaction id has one record, and what a window is billed *)
(* lies in it.                                                             *)

RecordsAreSeen == Ids(events) \subseteq seen
RecordPerId == \A r1, r2 \in events : r1.id = r2.id => r1 = r2
UsageInWindow ==
    \A p \in pulled : \A r \in p.usage :
        /\ r \in events
        /\ CustomerOf[r.id] = p.window.customer
        /\ p.window.start <= r.at /\ r.at < p.window.end

RecordsInv == RecordsAreSeen /\ RecordPerId /\ UsageInWindow

(* Stripe: a window is numbered, priced once, and belongs to its           *)
(* container's customer, whom the index leads to that container.           *)
AllWindows == windows \cup Priced

WindowsKnown ==
    \A w \in AllWindows :
        /\ w.id <= opened /\ w.sub <= created
        /\ w.sub \in DOMAIN containers => containers[w.sub].customer = w.customer
ClosingPriced == closing \subseteq Priced /\ \A w \in closing : w.final
PricedOnce ==
    /\ windows \cap Priced = {}
    /\ \A p, q \in pulled : p.window = q.window => p = q

IndexOwn ==
    \A c \in Customers :
        byCustomer[c] \in DOMAIN containers => containers[byCustomer[c]].customer = c

NumberedInv == WindowsKnown /\ ClosingPriced /\ PricedOnce /\ IndexOwn

(* A customer who never crossed has one live container at most, the one    *)
(* the index leads to; it is not metered while a final window of theirs is *)
(* pending, of which there is one at most; a metered one has left all      *)
(* their windows behind, and no two of those overlap.                      *)
Straight == Customers \ crossed

ContainerIndexed ==
    \A s \in DOMAIN containers :
        containers[s].customer \in Straight => byCustomer[containers[s].customer] = s

Pending == {w \in windows \cup closing : w.final /\ w.customer \in Straight}

PendingStopped ==
    \A w \in Pending : w.sub \in DOMAIN containers /\ ~containers[w.sub].metered
PendingAlone == \A v, w \in Pending : v.customer = w.customer => v = w

WindowsBehind ==
    \A s \in DOMAIN containers, w \in AllWindows :
        /\ containers[s].customer \in Straight /\ containers[s].metered
        /\ w.customer = containers[s].customer
        => w.end <= containers[s].start
WindowsApart ==
    \A v, w \in AllWindows :
        v.customer = w.customer /\ v.customer \in Straight =>
            v = w \/ v.end <= w.start \/ w.end <= v.start

StraightInv ==
    ContainerIndexed /\ PendingStopped /\ PendingAlone /\ WindowsBehind /\ WindowsApart

BillingInv == IngestInv /\ RecordsInv /\ NumberedInv /\ StraightInv

LEMMA BillingInit == Init => BillingInv
  <1> SUFFICES ASSUME Init PROVE BillingInv
    OBVIOUS
  <1>1. /\ AllWindows = {} /\ pulled = {} /\ events = {} /\ closing = {} /\ windows = {}
        /\ DOMAIN containers = {}
    BY DEF Init, AllWindows, Priced
  <1>2. RecordsInv
    BY <1>1, NothingInNothing DEF RecordsInv, RecordsAreSeen, RecordPerId, UsageInWindow
  <1>3. NumberedInv
    BY <1>1 DEF NumberedInv, WindowsKnown, ClosingPriced, PricedOnce, IndexOwn
  <1>4. StraightInv
    BY <1>1 DEF StraightInv, ContainerIndexed, Pending, PendingStopped, PendingAlone,
                WindowsBehind, WindowsApart
  <1> QED  BY <1>2, <1>3, <1>4, IngestInit DEF BillingInv

-----------------------------------------------------------------------------
(* The records Metronome stores.                                           *)

(* A request stores one record for each id that is new to it.              *)
LEMMA FreshRecords ==
  ASSUME NEW c \in Seq(Record)
  PROVE  /\ Fresh(c) \subseteq Elements(c)
         /\ \A r \in Fresh(c) : r.id \notin seen
         /\ \A r1, r2 \in Fresh(c) : r1.id = r2.id => r1 = r2
  <1>1. Fresh(c) \subseteq Elements(c)
    BY DEF Fresh, Elements
  <1>2. \A r \in Fresh(c) : r.id \notin seen
    BY DEF Fresh
  <1>3. ASSUME NEW r1 \in Fresh(c), NEW r2 \in Fresh(c), r1.id = r2.id PROVE r1 = r2
    <2>1. PICK m \in DOMAIN c : /\ r1 = c[m]
                                /\ \A k \in 1 .. m - 1 : c[k].id # c[m].id
      BY DEF Fresh
    <2>2. PICK n \in DOMAIN c : /\ r2 = c[n]
                                /\ \A k \in 1 .. n - 1 : c[k].id # c[n].id
      BY DEF Fresh
    <2>3. m \in 1 .. Len(c) /\ n \in 1 .. Len(c) /\ Len(c) \in Nat
      OBVIOUS
    <2>4. CASE m < n
      <3>1. m \in 1 .. n - 1
        BY <2>3, <2>4
      <3> QED  BY <1>3, <2>1, <2>2, <3>1
    <2>5. CASE n < m
      <3>1. n \in 1 .. m - 1
        BY <2>3, <2>5
      <3> QED  BY <1>3, <2>1, <2>2, <3>1
    <2>6. CASE m = n
      BY <2>1, <2>2, <2>6
    <2> QED  BY <2>3, <2>4, <2>5, <2>6
  <1> QED  BY <1>1, <1>2, <1>3

LEMMA RecordsKept ==
  ASSUME IngestInv, RecordsAreSeen, RecordPerId, [Next]_vars
  PROVE  RecordsAreSeen' /\ RecordPerId' /\ events \subseteq events'
  <1>1. CASE UNCHANGED <<events, seen>>
    BY <1>1 DEF RecordsAreSeen, RecordPerId
  <1>2. ASSUME NEW f \in Flushers, postChunk(f)
        PROVE  RecordsAreSeen' /\ RecordPerId' /\ events \subseteq events'
    <2> DEFINE c == Chunk(batch[f])
    <2>1. CASE events' = events /\ seen' = seen
      BY <1>1, <2>1
    <2>2. CASE events' = events \cup Fresh(c) /\ seen' = seen \cup Ids(Elements(c))
      <3>1. c \in Seq(Record)
        <4>1. batch[f] \in Seq(Record)
          BY DEF IngestInv, TypeOK
        <4> QED  BY <4>1, ChunkAndRest
      <3> HIDE DEF c
      <3>2. /\ Fresh(c) \subseteq Elements(c)
            /\ \A r \in Fresh(c) : r.id \notin seen
            /\ \A r1, r2 \in Fresh(c) : r1.id = r2.id => r1 = r2
        BY <3>1, FreshRecords
      <3>5. RecordsAreSeen'
        BY <2>2, <3>2 DEF RecordsAreSeen, Ids
      <3>6. \A r \in events : r.id \in seen
        BY DEF RecordsAreSeen, Ids
      <3>7. RecordPerId'
        <4> SUFFICES ASSUME NEW r1 \in events', NEW r2 \in events', r1.id = r2.id
                     PROVE  r1 = r2
          BY DEF RecordPerId
        <4>1. CASE r1 \in events /\ r2 \in events
          BY <4>1 DEF RecordPerId
        <4>2. CASE r1 \in Fresh(c) /\ r2 \in Fresh(c)
          BY <3>2, <4>2
        <4>3. CASE (r1 \in events /\ r2 \in Fresh(c)) \/ (r1 \in Fresh(c) /\ r2 \in events)
          BY <3>2, <3>6, <4>3
        <4> QED  BY <2>2, <4>1, <4>2, <4>3
      <3> QED  BY <2>2, <3>5, <3>7
    <2> HIDE DEF c
    <2> QED  BY <1>2, <2>1, <2>2, PostedChunk DEF c
  <1>3. CASE Tick \/ Billing \/ UNCHANGED vars
    <2>1. UNCHANGED <<events, seen>>
      BY <1>3 DEF Tick, Billing, subscribe, resubscribe, periodEnds, cancel, pullUsage,
                  finalize, metronome, vars
    <2> QED  BY <1>1, <2>1
  <1>4. CASE (\E d \in Deliverers, e \in Events : onUsageIngested(d, e))
             \/ (\E f \in Flushers : takeBuffer(f)) \/ restart
    <2>1. UNCHANGED <<events, seen>>
      BY <1>4 DEF onUsageIngested, takeBuffer, restart, metronome
    <2> QED  BY <1>1, <2>1
  <1> QED  BY <1>2, <1>3, <1>4 DEF Next, Ingestion

(* Costs takes the records of the window's customer in the window.         *)
LEMMA UsageKept ==
  ASSUME UsageInWindow, events \subseteq events', [Next]_vars
  PROVE  UsageInWindow'
  <1>1. CASE pulled' = pulled
    BY <1>1 DEF UsageInWindow
  <1>2. ASSUME NEW w \in windows, pullUsage(w) PROVE UsageInWindow'
    <2>1. pulled' = pulled \cup {[window |-> w, usage |-> Costs(w)]}
      BY <1>2 DEF pullUsage
    <2>2. \A r \in Costs(w) : r \in events /\ CustomerOf[r.id] = w.customer
                              /\ w.start <= r.at /\ r.at < w.end
      BY DEF Costs
    <2> QED  BY <2>1, <2>2 DEF UsageInWindow
  <1>3. CASE Tick \/ Ingestion \/ UNCHANGED vars
    <2>1. pulled' = pulled
      BY <1>3 DEF Tick, Ingestion, onUsageIngested, takeBuffer, postChunk, restart, billing, vars
    <2> QED  BY <1>1, <2>1
  <1>4. CASE Billing
    <2>1. pulled' = pulled \/ \E w \in windows : pullUsage(w)
      BY <1>4 DEF Billing, subscribe, resubscribe, periodEnds, cancel, finalize
    <2> QED  BY <1>1, <1>2, <2>1
  <1> QED  BY <1>3, <1>4 DEF Next

-----------------------------------------------------------------------------
(* Containers and windows.                                                 *)

LEMMA TypesOfBilling ==
  ASSUME IngestInv PROVE BillingTypes /\ StripeTypes /\ WindowTypes /\ now \in Nat
  BY TypeParts DEF IngestInv, BillingTypes

(* What stays of the invariants when no container and no window changes.   *)
LEMMA BillingStill ==
  ASSUME NumberedInv, StraightInv, UNCHANGED billingVars
  PROVE  NumberedInv' /\ StraightInv'
  <1>1. /\ AllWindows' = AllWindows /\ Pending' = Pending /\ Straight' = Straight
        /\ Priced' = Priced
        /\ UNCHANGED <<created, containers, byCustomer, opened, windows, closing, pulled>>
    BY DEF AllWindows, Pending, Straight, Priced, billingVars
  <1>2. NumberedInv'
    BY <1>1 DEF NumberedInv, WindowsKnown, ClosingPriced, PricedOnce, IndexOwn
  <1>3. StraightInv'
    BY <1>1 DEF StraightInv, ContainerIndexed, PendingStopped, PendingAlone,
                WindowsBehind, WindowsApart
  <1> QED  BY <1>2, <1>3

LEMMA IndexTyped ==
  ASSUME StripeTypes, NEW c \in Customers
  PROVE  byCustomer[c] \in Nat /\ byCustomer[c] <= created /\ created \in Nat
  BY DEF StripeTypes

LEMMA SubscribeKeeps ==
  ASSUME IngestInv, NumberedInv, StraightInv, NEW c \in Customers, NEW at \in Readings,
         subscribe(c, at)
  PROVE  NumberedInv' /\ StraightInv'
  <1> DEFINE n == created + 1
             new == [customer |-> c, start |-> Trunc(at), metered |-> TRUE]
  <1>1. BillingTypes /\ StripeTypes /\ WindowTypes /\ now \in Nat
    BY TypesOfBilling
  <1>2. /\ n \notin DOMAIN containers
        /\ containers' = [s \in DOMAIN containers \cup {n} |->
                            IF s = n THEN new ELSE containers[s]]
    BY <1>1, TypesSubscribe
  <1>3. /\ created' = n /\ byCustomer' = [byCustomer EXCEPT ![c] = n]
        /\ byCustomer[c] \notin DOMAIN containers
        /\ crossed \subseteq crossed'
        /\ UNCHANGED <<opened, windows, closing, pulled>>
        /\ c \in crossed' \/ \A w \in AllWindows : w.customer = c => ~(Trunc(at) < w.end)
    BY DEF subscribe, AllWindows
  <1>4. new.customer = c /\ new.start = Trunc(at) /\ Trunc(at) \in Nat
    BY <1>1, ReadingsAreTimes
  <1>5. created \in Nat /\ n \in Nat /\ created < n
    BY <1>1 DEF StripeTypes
  <1> HIDE DEF n, new
  <1>6. /\ AllWindows' = AllWindows /\ Priced' = Priced /\ Straight' \subseteq Straight
        /\ Pending' \subseteq Pending
    BY <1>3 DEF AllWindows, Priced, Straight, Pending
  <1>7. \A s \in DOMAIN containers : s \in DOMAIN containers' /\ containers'[s] = containers[s]
    BY <1>2
  <1>8. \A d \in Customers : byCustomer[d] # n
    BY <1>1, <1>5, IndexTyped
  <1>9. byCustomer'[c] = n /\ \A d \in Customers : d # c => byCustomer'[d] = byCustomer[d]
    BY <1>1, <1>3 DEF StripeTypes
  <1>10. \A w \in AllWindows : w.sub \in Nat /\ w.end \in Nat
    BY <1>1, WindowFields DEF AllWindows
  <1>11. NumberedInv'
    <2>1. WindowsKnown'
      <3> SUFFICES ASSUME NEW w \in AllWindows
                   PROVE  /\ w.id <= opened /\ w.sub <= n
                          /\ w.sub \in DOMAIN containers' => containers'[w.sub].customer = w.customer
        BY <1>3, <1>6 DEF WindowsKnown
      <3>1. w.id <= opened /\ w.sub <= created /\ w.sub \in Nat
            /\ (w.sub \in DOMAIN containers => containers[w.sub].customer = w.customer)
        BY <1>10 DEF NumberedInv, WindowsKnown
      <3>2. w.sub <= n /\ w.sub # n
        BY <1>5, <3>1
      <3> QED  BY <1>2, <3>1, <3>2
    <2>2. ClosingPriced' /\ PricedOnce'
      BY <1>3, <1>6 DEF NumberedInv, ClosingPriced, PricedOnce
    <2>3. IndexOwn'
      BY <1>2, <1>4, <1>8, <1>9 DEF NumberedInv, IndexOwn
    <2> QED  BY <2>1, <2>2, <2>3 DEF NumberedInv
  <1>12. ContainerIndexed'
    <2> SUFFICES ASSUME NEW s \in DOMAIN containers', containers'[s].customer \in Straight'
                 PROVE  byCustomer'[containers'[s].customer] = s
      BY DEF ContainerIndexed
    <2>1. CASE s = n
      BY <1>2, <1>4, <1>9, <2>1
    <2>2. CASE s # n
      <3>1. s \in DOMAIN containers /\ containers'[s] = containers[s]
        BY <1>2, <2>2
      <3>2. byCustomer[containers[s].customer] = s /\ containers[s].customer \in Customers
        BY <1>1, <1>6, <3>1, ContainerFields DEF StraightInv, ContainerIndexed
      <3>3. containers[s].customer # c
        BY <1>3, <3>1, <3>2
      <3> QED  BY <1>9, <3>1, <3>2, <3>3
    <2> QED  BY <2>1, <2>2
  <1>13. PendingStopped' /\ PendingAlone'
    BY <1>6, <1>7 DEF StraightInv, PendingStopped, PendingAlone
  <1>14. WindowsBehind'
    <2> SUFFICES ASSUME NEW s \in DOMAIN containers', NEW w \in AllWindows,
                        containers'[s].customer \in Straight', containers'[s].metered,
                        w.customer = containers'[s].customer
                 PROVE  w.end <= containers'[s].start
      BY <1>6 DEF WindowsBehind
    <2>1. CASE s = n
      <3>1. containers'[s] = new /\ w.customer = c /\ c \notin crossed'
        BY <1>2, <1>4, <2>1 DEF Straight
      <3> QED  BY <1>3, <1>4, <1>10, <3>1
    <2>2. CASE s # n
      BY <1>2, <1>6, <2>2 DEF StraightInv, WindowsBehind
    <2> QED  BY <2>1, <2>2
  <1>15. WindowsApart'
    BY <1>6 DEF StraightInv, WindowsApart
  <1> QED  BY <1>11, <1>12, <1>13, <1>14, <1>15 DEF StraightInv

LEMMA ResubscribeKeeps ==
  ASSUME IngestInv, NumberedInv, StraightInv, NEW c \in Customers, resubscribe(c)
  PROVE  NumberedInv' /\ StraightInv'
  <1> DEFINE s == byCustomer[c]
             new == [containers[s] EXCEPT !.metered = TRUE]
  <1>1. BillingTypes /\ StripeTypes /\ WindowTypes /\ now \in Nat
    BY TypesOfBilling
  <1>2. /\ s \in DOMAIN containers /\ containers' = [containers EXCEPT ![s] = new]
        /\ crossed' = crossed \cup {c}
        /\ UNCHANGED <<created, byCustomer, opened, windows, closing, pulled>>
    BY DEF resubscribe
  <1>3. new.customer = containers[s].customer /\ containers[s].customer = c
    BY <1>1, <1>2 DEF StripeTypes, Container, NumberedInv, IndexOwn
  <1> HIDE DEF s, new
  <1>4. /\ AllWindows' = AllWindows /\ Priced' = Priced
        /\ Straight' = Straight \ {c} /\ Pending' = {w \in Pending : w.customer # c}
    BY <1>2 DEF AllWindows, Priced, Straight, Pending
  <1>5. /\ DOMAIN containers' = DOMAIN containers
        /\ \A t \in DOMAIN containers : /\ containers'[t].customer = containers[t].customer
                                        /\ containers[t].customer # c => containers'[t] = containers[t]
    BY <1>2, <1>3
  <1>6. NumberedInv'
    BY <1>2, <1>4, <1>5 DEF NumberedInv, WindowsKnown, ClosingPriced, PricedOnce, IndexOwn
  <1>7. ContainerIndexed'
    BY <1>2, <1>4, <1>5 DEF StraightInv, ContainerIndexed
  <1>8. PendingStopped' /\ PendingAlone'
    <2>1. \A w \in Pending : w \in AllWindows
      BY DEF Pending, AllWindows, NumberedInv, ClosingPriced
    <2>2. \A w \in Pending' : containers[w.sub].customer # c
      BY <1>4, <2>1 DEF StraightInv, PendingStopped, NumberedInv, WindowsKnown
    <2> QED  BY <1>4, <1>5, <2>2 DEF StraightInv, PendingStopped, PendingAlone
  <1>9. WindowsBehind'
    BY <1>4, <1>5 DEF StraightInv, WindowsBehind
  <1>10. WindowsApart'
    BY <1>4 DEF StraightInv, WindowsApart
  <1> QED  BY <1>6, <1>7, <1>8, <1>9, <1>10 DEF StraightInv

(* A window opens behind its container, which stays behind it or stops.    *)
LEMMA OpenKeeps ==
  ASSUME IngestInv, NumberedInv, StraightInv, NEW s \in DOMAIN containers,
         containers[s].metered, NEW end \in Nat, NEW final \in BOOLEAN,
         NEW new \in Container, new.customer = containers[s].customer,
         new.metered => end <= new.start /\ containers[s].start <= new.start,
         final => ~new.metered,
         openWindow(s, end, final), containers' = [containers EXCEPT ![s] = new],
         UNCHANGED <<created, byCustomer, closing, pulled, crossed>>
  PROVE  NumberedInv' /\ StraightInv'
  <1> DEFINE o == Opened(s, end, final)
             c == containers[s].customer
  <1>1. BillingTypes /\ StripeTypes /\ WindowTypes /\ now \in Nat
    BY TypesOfBilling
  <1>2. o \in Window /\ opened' = opened + 1 /\ windows' = windows \cup {o}
    BY <1>1, OpenedTyped
  <1>3. /\ o.id = opened + 1 /\ o.sub = s /\ o.customer = c /\ o.start = containers[s].start
        /\ o.end = end /\ o.final = final
    BY DEF Opened
  <1>4. opened \in Nat /\ s <= created /\ new.start \in Nat /\ containers[s].start \in Nat
    BY <1>1, ContainerFields DEF WindowTypes, StripeTypes, Container
  <1> HIDE DEF o, c
  <1>5. AllWindows' = AllWindows \cup {o} /\ Priced' = Priced /\ Straight' = Straight
        /\ Pending' \subseteq Pending \cup {o} /\ (o \in Pending' => o \in Pending \/ final)
    BY <1>2, <1>3 DEF AllWindows, Priced, Straight, Pending
  <1>6. /\ DOMAIN containers' = DOMAIN containers /\ containers'[s] = new /\ new.customer = c
        /\ \A t \in DOMAIN containers : /\ containers'[t].customer = containers[t].customer
                                        /\ t # s => containers'[t] = containers[t]
    BY DEF c
  <1>7. \A w \in AllWindows : w.id \in Nat /\ w.end \in Nat /\ w.start \in Nat
    BY <1>1, WindowFields DEF AllWindows
  <1>8. NumberedInv'
    <2>1. WindowsKnown'
      BY <1>2, <1>3, <1>4, <1>5, <1>6, <1>7 DEF NumberedInv, WindowsKnown
    <2>2. o \notin Priced
      <3>1. \A w \in Priced : w.id <= opened /\ w.id \in Nat
        BY <1>7 DEF NumberedInv, WindowsKnown, AllWindows
      <3> QED  BY <1>3, <1>4, <3>1
    <2>3. ClosingPriced' /\ PricedOnce'
      BY <1>2, <1>5, <2>2 DEF NumberedInv, ClosingPriced, PricedOnce
    <2>4. IndexOwn'
      BY <1>6 DEF NumberedInv, IndexOwn
    <2> QED  BY <2>1, <2>3, <2>4 DEF NumberedInv
  <1>9. ContainerIndexed'
    BY <1>5, <1>6 DEF StraightInv, ContainerIndexed
  <1>10. \A t \in DOMAIN containers : containers[t].customer = c /\ c \in Straight => t = s
    BY DEF StraightInv, ContainerIndexed, c
  <1>11. \A w \in Pending : w.sub \in DOMAIN containers /\ ~containers[w.sub].metered
                            /\ containers[w.sub].customer = w.customer
    <2>1. \A w \in Pending : w \in AllWindows
      BY DEF Pending, AllWindows, NumberedInv, ClosingPriced
    <2> QED  BY <2>1 DEF StraightInv, PendingStopped, NumberedInv, WindowsKnown
  <1>12. \A w \in Pending : w.customer # c /\ w.sub # s
    BY <1>10, <1>11 DEF Pending
  <1>13. PendingStopped'
    BY <1>3, <1>5, <1>6, <1>11, <1>12 DEF PendingStopped
  <1>14. PendingAlone'
    BY <1>3, <1>5, <1>12 DEF PendingAlone, StraightInv
  <1>15. \A w \in AllWindows : w.customer = c /\ c \in Straight => w.end <= containers[s].start
    BY DEF StraightInv, WindowsBehind, c
  <1>16. WindowsBehind'
    <2> SUFFICES ASSUME NEW t \in DOMAIN containers, NEW w \in AllWindows \cup {o},
                        containers[t].customer \in Straight, containers'[t].metered,
                        w.customer = containers[t].customer
                 PROVE  w.end <= containers'[t].start
      BY <1>5, <1>6 DEF WindowsBehind
    <2>1. CASE t = s
      <3>1. new.metered /\ containers[t].customer = c /\ containers'[t].start = new.start
        BY <1>6, <2>1 DEF c
      <3>2. CASE w = o
        BY <1>3, <3>1, <3>2
      <3>3. CASE w \in AllWindows
        BY <1>4, <1>7, <1>15, <3>1, <3>3
      <3> QED  BY <3>2, <3>3
    <2>2. CASE t # s
      <3>1. containers'[t] = containers[t] /\ w # o
        BY <1>3, <1>6, <1>10, <2>2
      <3> QED  BY <3>1 DEF StraightInv, WindowsBehind
    <2> QED  BY <2>1, <2>2
  <1>17. WindowsApart'
    <2> SUFFICES ASSUME NEW v \in AllWindows \cup {o}, NEW w \in AllWindows \cup {o},
                        v.customer = w.customer, v.customer \in Straight
                 PROVE  v = w \/ v.end <= w.start \/ w.end <= v.start
      BY <1>5 DEF WindowsApart
    <2>1. CASE v \in AllWindows /\ w \in AllWindows
      BY <2>1 DEF StraightInv, WindowsApart
    <2>2. CASE v = o \/ w = o
      BY <1>3, <1>15, <2>2
    <2> QED  BY <2>1, <2>2
  <1> QED  BY <1>8, <1>9, <1>13, <1>14, <1>16, <1>17 DEF StraightInv

LEMMA PeriodEndsKeeps ==
  ASSUME IngestInv, NumberedInv, StraightInv, NEW s \in DOMAIN containers, periodEnds(s)
  PROVE  NumberedInv' /\ StraightInv'
  <1>1. BillingTypes /\ StripeTypes
    BY TypesOfBilling
  <1>2. PICK end \in Nat, new \in Container :
          /\ end = containers[s].start + Period /\ containers[s].start <= end
          /\ containers[s].metered
          /\ new = [containers[s] EXCEPT !.start = end]
          /\ openWindow(s, end, FALSE) /\ containers' = [containers EXCEPT ![s] = new]
          /\ UNCHANGED <<created, byCustomer, closing, pulled, crossed>>
    BY <1>1, PeriodEndsOpens
  <1>3. new.customer = containers[s].customer /\ new.start = end
    BY <1>1, <1>2 DEF StripeTypes, Container
  <1>4. containers[s].start <= new.start /\ end <= new.start /\ FALSE \in BOOLEAN
    BY <1>2, <1>3
  <1>5. UNCHANGED <<created, byCustomer, closing, pulled, crossed>>
    BY <1>2
  <1>6. openWindow(s, end, FALSE) /\ containers' = [containers EXCEPT ![s] = new]
    BY <1>2
  <1> QED  BY <1>2, <1>3, <1>4, <1>5, <1>6, OpenKeeps

LEMMA CancelKeeps ==
  ASSUME IngestInv, NumberedInv, StraightInv, NEW s \in DOMAIN containers,
         NEW at \in Readings, cancel(s, at)
  PROVE  NumberedInv' /\ StraightInv'
  <1>1. BillingTypes /\ StripeTypes /\ now \in Nat
    BY TypesOfBilling
  <1>2. PICK end \in Nat, new \in Container :
          /\ containers[s].metered
          /\ new = [containers[s] EXCEPT !.metered = FALSE]
          /\ openWindow(s, end, TRUE) /\ containers' = [containers EXCEPT ![s] = new]
          /\ UNCHANGED <<created, byCustomer, closing, pulled, crossed>>
    BY <1>1, CancelOpens
  <1>3. new.customer = containers[s].customer /\ ~new.metered
    BY <1>1, <1>2 DEF StripeTypes, Container
  <1> QED  BY <1>2, <1>3, OpenKeeps

LEMMA PullKeeps ==
  ASSUME IngestInv, NumberedInv, StraightInv, NEW w \in windows, pullUsage(w)
  PROVE  NumberedInv' /\ StraightInv'
  <1> DEFINE b == [window |-> w, usage |-> Costs(w)]
  <1>1. /\ pulled' = pulled \cup {b} /\ b.window = w
        /\ windows' = windows \ {w}
        /\ closing' = IF w.final THEN closing \cup {w} ELSE closing
        /\ UNCHANGED <<created, containers, byCustomer, opened, crossed>>
    BY DEF pullUsage, stripe
  <1> HIDE DEF b
  <1>2. Priced' = Priced \cup {w} /\ AllWindows' = AllWindows /\ Straight' = Straight
        /\ Pending' \subseteq Pending /\ w \notin Priced
    BY <1>1 DEF Priced, AllWindows, Straight, Pending, NumberedInv, PricedOnce
  <1>3. WindowsKnown' /\ IndexOwn'
    BY <1>1, <1>2 DEF NumberedInv, WindowsKnown, IndexOwn
  <1>4. ClosingPriced'
    BY <1>1, <1>2 DEF NumberedInv, ClosingPriced
  <1>5. PricedOnce'
    <2>1. \A p \in pulled : p.window # w
      BY <1>2 DEF Priced
    <2>2. \A p, q \in pulled' : p.window = q.window => p = q
      BY <1>1, <2>1 DEF NumberedInv, PricedOnce
    <2>3. windows' \cap Priced' = {}
      BY <1>1, <1>2 DEF NumberedInv, PricedOnce
    <2> QED  BY <2>2, <2>3 DEF PricedOnce
  <1>6. StraightInv'
    BY <1>1, <1>2 DEF StraightInv, ContainerIndexed, PendingStopped, PendingAlone,
                      WindowsBehind, WindowsApart
  <1> QED  BY <1>3, <1>4, <1>5, <1>6 DEF NumberedInv

LEMMA FinalizeKeeps ==
  ASSUME IngestInv, NumberedInv, StraightInv, NEW w \in closing, finalize(w)
  PROVE  NumberedInv' /\ StraightInv'
  <1>1. BillingTypes /\ StripeTypes /\ WindowTypes
    BY TypesOfBilling
  <1>2. /\ closing' = closing \ {w}
        /\ containers' = Restrict(containers, DOMAIN containers \ {w.sub})
        /\ byCustomer' = [byCustomer EXCEPT ![w.customer] = Absent]
        /\ UNCHANGED <<created, opened, windows, pulled, crossed>>
    BY DEF finalize
  <1>3. /\ DOMAIN containers' = DOMAIN containers \ {w.sub}
        /\ \A s \in DOMAIN containers' : containers'[s] = containers[s]
    BY <1>2 DEF Restrict
  <1>4. w.customer \in Customers /\ w.final /\ w \in AllWindows
    BY <1>1, WindowFields DEF NumberedInv, ClosingPriced, AllWindows
  <1>5. /\ AllWindows' = AllWindows /\ Priced' = Priced /\ Straight' = Straight
        /\ Pending' \subseteq Pending
    BY <1>2 DEF AllWindows, Priced, Straight, Pending
  <1>6. \A c \in Customers : byCustomer'[c] = IF c = w.customer THEN Absent ELSE byCustomer[c]
    BY <1>1, <1>2 DEF StripeTypes
  <1>7. Absent \notin DOMAIN containers
    BY <1>1 DEF StripeTypes, Absent
  <1>8. NumberedInv'
    <2>1. WindowsKnown' /\ ClosingPriced' /\ PricedOnce'
      BY <1>2, <1>3, <1>5 DEF NumberedInv, WindowsKnown, ClosingPriced, PricedOnce
    <2>2. IndexOwn'
      BY <1>3, <1>6, <1>7 DEF NumberedInv, IndexOwn
    <2> QED  BY <2>1, <2>2 DEF NumberedInv
  <1>9. w.customer \in Straight =>
          /\ w \in Pending /\ w.sub \in DOMAIN containers
          /\ containers[w.sub].customer = w.customer
          /\ byCustomer[w.customer] = w.sub
    <2> SUFFICES ASSUME w.customer \in Straight
                 PROVE  /\ w \in Pending /\ w.sub \in DOMAIN containers
                        /\ containers[w.sub].customer = w.customer
                        /\ byCustomer[w.customer] = w.sub
      OBVIOUS
    <2>1. w \in Pending
      BY <1>4 DEF Pending
    <2>2. w.sub \in DOMAIN containers /\ containers[w.sub].customer = w.customer
      BY <1>4, <2>1 DEF StraightInv, PendingStopped, NumberedInv, WindowsKnown
    <2> QED  BY <2>1, <2>2 DEF StraightInv, ContainerIndexed
  <1>10. ContainerIndexed'
    <2> SUFFICES ASSUME NEW s \in DOMAIN containers', containers[s].customer \in Straight
                 PROVE  byCustomer'[containers[s].customer] = s
      BY <1>3, <1>5 DEF ContainerIndexed
    <2>1. s \in DOMAIN containers /\ s # w.sub /\ byCustomer[containers[s].customer] = s
      BY <1>3 DEF StraightInv, ContainerIndexed
    <2>2. containers[s].customer # w.customer /\ containers[s].customer \in Customers
      BY <1>1, <1>9, <2>1, ContainerFields
    <2> QED  BY <1>6, <2>1, <2>2
  <1>11. PendingStopped'
    <2> SUFFICES ASSUME NEW v \in Pending'
                 PROVE  v.sub \in DOMAIN containers' /\ ~containers'[v.sub].metered
      BY DEF PendingStopped
    <2>1. v \in Pending /\ v.sub \in DOMAIN containers /\ ~containers[v.sub].metered
      BY <1>5 DEF StraightInv, PendingStopped
    <2>2. v \in AllWindows /\ v \in windows \cup closing
      BY <2>1 DEF Pending, AllWindows, NumberedInv, ClosingPriced
    <2>3. v # w
      <3>1. w \notin windows
        BY DEF NumberedInv, ClosingPriced, PricedOnce
      <3> QED  BY <1>2, <3>1 DEF Pending
    <2>4. v.sub # w.sub
      <3> SUFFICES ASSUME v.sub = w.sub PROVE FALSE
        OBVIOUS
      <3>1. v.customer = w.customer
        BY <1>4, <2>1, <2>2 DEF NumberedInv, WindowsKnown
      <3>2. v.customer \in Straight
        BY <2>1 DEF Pending
      <3> QED  BY <1>9, <2>1, <2>3, <3>1, <3>2 DEF StraightInv, PendingAlone
    <2> QED  BY <1>3, <2>1, <2>4
  <1>12. PendingAlone' /\ WindowsApart'
    BY <1>5 DEF StraightInv, PendingAlone, WindowsApart
  <1>13. WindowsBehind'
    BY <1>3, <1>5 DEF StraightInv, WindowsBehind
  <1> QED  BY <1>8, <1>10, <1>11, <1>12, <1>13 DEF StraightInv

LEMMA WindowsKept ==
  ASSUME IngestInv, NumberedInv, StraightInv, [Next]_vars
  PROVE  NumberedInv' /\ StraightInv'
  <1>1. CASE Tick \/ Ingestion \/ UNCHANGED vars
    <2>1. UNCHANGED billingVars
      BY <1>1 DEF Tick, Ingestion, onUsageIngested, takeBuffer, postChunk, restart, billing,
                  stripe, vars, billingVars
    <2> QED  BY <2>1, BillingStill
  <1>2. CASE Billing
    BY <1>2, SubscribeKeeps, ResubscribeKeeps, PeriodEndsKeeps, CancelKeeps, PullKeeps,
       FinalizeKeeps DEF Billing
  <1> QED  BY <1>1, <1>2 DEF Next

LEMMA BillingStep == BillingInv /\ [Next]_vars => BillingInv'
  <1> SUFFICES ASSUME BillingInv, [Next]_vars PROVE BillingInv'
    OBVIOUS
  <1>1. IngestInv'
    BY IngestStep DEF BillingInv
  <1>2. NumberedInv' /\ StraightInv'
    BY WindowsKept DEF BillingInv
  <1>3. RecordsAreSeen' /\ RecordPerId' /\ events \subseteq events'
    BY RecordsKept DEF BillingInv, RecordsInv
  <1>4. UsageInWindow'
    BY <1>3, UsageKept DEF BillingInv, RecordsInv
  <1> QED  BY <1>1, <1>2, <1>3, <1>4 DEF BillingInv, RecordsInv

LEMMA BillingAlways == Spec => []BillingInv
  BY BillingInit, BillingStep, PTL DEF Spec

LEMMA BilledOnceHolds == BillingInv => BilledTwiceIfCrossedOnly
  <1> SUFFICES ASSUME BillingInv, NEW p \in pulled, NEW q \in pulled,
                      Ids(p.usage) \cap Ids(q.usage) # {},
                      p.window.customer \notin crossed
               PROVE  p = q
    BY DEF BilledTwiceIfCrossedOnly
  <1>1. PICK e : e \in Ids(p.usage) /\ e \in Ids(q.usage)
    OBVIOUS
  <1>2. PICK r1 \in p.usage : r1.id = e
    BY <1>1 DEF Ids
  <1>3. PICK r2 \in q.usage : r2.id = e
    BY <1>1 DEF Ids
  <1>4. /\ r1 \in events /\ CustomerOf[r1.id] = p.window.customer
        /\ p.window.start <= r1.at /\ r1.at < p.window.end
    BY <1>2 DEF BillingInv, RecordsInv, UsageInWindow
  <1>5. /\ r2 \in events /\ CustomerOf[r2.id] = q.window.customer
        /\ q.window.start <= r2.at /\ r2.at < q.window.end
    BY <1>3 DEF BillingInv, RecordsInv, UsageInWindow
  <1>6. r1 = r2
    BY <1>2, <1>3, <1>4, <1>5 DEF BillingInv, RecordsInv, RecordPerId
  <1>7. p.window \in Priced /\ q.window \in Priced
    BY DEF Priced
  <1>8. WindowTypes /\ r1.at \in Nat
    <2>1. WindowTypes /\ events \subseteq Record
      BY TypesOfBilling, TypeParts DEF BillingInv, IngestInv, MetronomeTypes
    <2> QED  BY <1>4, <2>1, RecordFields
  <1>9. /\ p.window.start \in Nat /\ p.window.end \in Nat /\ p.window.customer \in Customers
        /\ q.window.start \in Nat /\ q.window.end \in Nat
    BY <1>7, <1>8, WindowFields
  <1>10. \/ p.window = q.window
         \/ p.window.end <= q.window.start
         \/ q.window.end <= p.window.start
    BY <1>4, <1>5, <1>6, <1>7, <1>9
       DEF BillingInv, StraightInv, WindowsApart, AllWindows, Straight
  <1>11. p.window = q.window
    BY <1>4, <1>5, <1>6, <1>8, <1>9, <1>10
  <1> QED  BY <1>11 DEF BillingInv, NumberedInv, PricedOnce

(* handleIngest's transaction ids and handleCosts' half-open windows bill  *)
(* an event once, however often it is delivered, through restarts, late    *)
(* passes, cancellations and new containers: only a customer who adds to a *)
(* container that awaits its final invoice, or whose new container starts  *)
(* before an earlier window's end, can have it on two bills.               *)
THEOREM EventsAreBilledOnce == Spec => []BilledTwiceIfCrossedOnly
  BY BillingAlways, BilledOnceHolds, PTL

-----------------------------------------------------------------------------
(* UsagePipeline implements UsageLedger: posting a chunk stores the        *)
(* records that are new, pricing a window draws up its bill, and nothing   *)
(* else shows.                                                             *)

LEMMA LedgerInit == Init => Ledger!Init
  BY DEF Init, Ledger!Init

LEMMA PostedIsStored ==
  ASSUME BillingInv, NEW f \in Flushers, postChunk(f)
  PROVE  Ledger!Store \/ UNCHANGED <<events, pulled>>
  <1> DEFINE c == Chunk(batch[f])
  <1>1. c \in Seq(Record)
    <2>1. batch[f] \in Seq(Record)
      BY DEF BillingInv, IngestInv, TypeOK
    <2> QED  BY <2>1, ChunkAndRest
  <1>2. pulled' = pulled
    BY DEF postChunk, billing
  <1>3. events' = events \/ events' = events \cup Fresh(c)
    BY PostedChunk DEF BillingInv
  <1> HIDE DEF c
  <1>4. CASE events' = events
    BY <1>2, <1>4
  <1>5. CASE events' = events \cup Fresh(c) /\ events' # events
    <2> DEFINE new == events' \ events
    <2>1. /\ Fresh(c) \subseteq Elements(c)
          /\ \A r \in Fresh(c) : r.id \notin seen
          /\ \A r1, r2 \in Fresh(c) : r1.id = r2.id => r1 = r2
      BY <1>1, FreshRecords
    <2>2. \A r \in events : r.id \in seen
      BY DEF BillingInv, RecordsInv, RecordsAreSeen, Ids
    <2>3. new # {} /\ events' = events \cup new /\ new \subseteq Fresh(c)
      BY <1>5
    <2> HIDE DEF new
    <2>4. \A r \in new : r.id \in Events
      BY <1>1, <2>1, <2>3, ElementsAreRecords, RecordFields
    <2>5. \A r \in new : r.id \notin Ledger!Recorded
      BY <2>1, <2>2, <2>3 DEF Ledger!Recorded
    <2>6. \A r, q \in new : r.id = q.id => r = q
      BY <2>1, <2>3
    <2> QED  BY <1>2, <2>3, <2>4, <2>5, <2>6 DEF Ledger!Store, new
  <1> QED  BY <1>3, <1>4, <1>5

LEMMA PulledIsDrawnUp ==
  ASSUME BillingInv, NEW w \in windows, pullUsage(w)
  PROVE  Ledger!DrawUp
  <1> DEFINE b == [window |-> w, usage |-> Costs(w)]
  <1>1. pulled' = pulled \cup {b} /\ events' = events
    BY DEF pullUsage
  <1>2. b.window = w /\ b.usage = Ledger!Within(w)
    BY DEF Costs, Ledger!Within
  <1> HIDE DEF b
  <1>3. \A a \in pulled : a.window # w
    BY DEF BillingInv, NumberedInv, PricedOnce, Priced
  <1> QED  BY <1>1, <1>2, <1>3 DEF Ledger!DrawUp

LEMMA LedgerStep == BillingInv /\ [Next]_vars => [Ledger!Next]_(Ledger!usageLedger)
  <1> SUFFICES ASSUME BillingInv, [Next]_vars
               PROVE  Ledger!Next \/ UNCHANGED <<events, pulled>>
    BY DEF Ledger!usageLedger
  <1>1. ASSUME NEW f \in Flushers, postChunk(f)
        PROVE  Ledger!Next \/ UNCHANGED <<events, pulled>>
    BY <1>1, PostedIsStored DEF Ledger!Next
  <1>2. ASSUME NEW w \in windows, pullUsage(w) PROVE Ledger!Next
    BY <1>2, PulledIsDrawnUp DEF Ledger!Next
  <1>3. CASE (\E d \in Deliverers, e \in Events : onUsageIngested(d, e))
             \/ (\E f \in Flushers : takeBuffer(f)) \/ restart
    BY <1>3 DEF onUsageIngested, takeBuffer, restart, metronome, billing
  <1>4. CASE Billing
    <2>1. UNCHANGED <<events, pulled>> \/ \E w \in windows : pullUsage(w)
      BY <1>4 DEF Billing, subscribe, resubscribe, periodEnds, cancel, finalize, metronome
    <2> QED  BY <1>2, <2>1
  <1>5. CASE Tick \/ UNCHANGED vars
    BY <1>5 DEF Tick, metronome, billing, vars
  <1> QED  BY <1>1, <1>3, <1>4, <1>5 DEF Next, Ingestion

(* For any customers, flushers, batch size, period and clock lag: records  *)
(* are kept once and for good, and a window is billed once, with all that  *)
(* was recorded in it by then.                                             *)
THEOREM PipelineImplementsLedger == Spec => UsageFollowsLedger
  BY BillingAlways, LedgerInit, LedgerStep, PTL
     DEF Spec, UsageFollowsLedger, Ledger!Spec
=============================================================================
