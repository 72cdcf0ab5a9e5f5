-------------------------- MODULE EventFeedProofs --------------------------
(***************************************************************************)
(* What holds of EventFeed for any topics, polls and sizes: its types, the *)
(* shape of the ring, and that a panel which polls it skips nothing.       *)
(***************************************************************************)
EXTENDS EventFeed, TLAPS

(* An answer under way holds whatever the ring still has of what it        *)
(* claims to bring the panel up to.                                        *)
AnswersAreComplete ==
    \A p \in Polls : poll[p].stage = "answered" =>
        \A n \in DOMAIN ring :
            blind < ring[n].seq /\ poll[p].since < ring[n].seq
                                /\ ring[n].seq <= poll[p].last_seq
                => ring[n] \in Range(poll[p].events)

(* Polls start from where the panel was, and nobody is ahead of the feed,  *)
(* except by what an earlier life of it gave.                              *)
PollsLagBehind ==
    \A p \in Polls :
        /\ poll[p].stage # "none" => poll[p].since <= lastSeq
        /\ poll[p].stage = "answered" =>
               poll[p].last_seq <= seq \/ poll[p].last_seq <= blind

PanelLagsBehind == lastSeq <= seq \/ lastSeq <= blind

(* Entries numbered above low, up to high, oldest first.                   *)
RisesFrom(s, low, high) ==
    \A n \in DOMAIN s :
        /\ low < s[n].seq /\ s[n].seq <= high
        /\ \A m \in 1 .. n - 1 : s[m].seq < s[n].seq

AnswersRise ==
    \A p \in Polls : poll[p].stage = "answered" =>
        RisesFrom(poll[p].events, poll[p].since, poll[p].last_seq)

RowsLagBehind == \A n \in DOMAIN rows : rows[n].seq <= lastSeq

(* As long as no two polls overlapped, there is one at most, and it asked  *)
(* from where the panel still is.                                          *)
OnePollAtATime ==
    ~overlapped => \A p \in Polls : poll[p].stage # "none" =>
        /\ poll[p].since = lastSeq
        /\ \A q \in Polls : poll[q].stage # "none" => p = q

FeedInv ==
    TypeOK /\ RingIsTheTail /\ AnswersAreComplete /\ PollsLagBehind
           /\ PanelLagsBehind /\ NothingSkipped

PanelInv == FeedInv /\ AnswersRise /\ RowsLagBehind /\ OnePollAtATime /\ RowsNewestFirst

-----------------------------------------------------------------------------
LEMMA Sizes == maxBuffered \in Nat /\ maxBuffered > 0 /\ MAX_ROWS \in Nat
  BY EventFeedAssumption

LEMMA EntryFields ==
  ASSUME NEW e \in Entry
  PROVE  e.seq \in Nat \ {0} /\ e.topic \in Topics /\ e.offset \in Nat
  BY DEF Entry

(* The newest entries of a sequence, one by one.                           *)
LEMMA LastEntriesOf ==
  ASSUME NEW s \in Seq(Entry), Len(s) <= maxBuffered + 1
  PROVE  \E k \in {0, 1} :
            /\ k = 1 <=> Len(s) > maxBuffered
            /\ LastEntries(s) \in Seq(Entry)
            /\ Len(LastEntries(s)) = Len(s) - k
            /\ Len(LastEntries(s)) <= maxBuffered
            /\ \A n \in 1 .. Len(s) - k : LastEntries(s)[n] = s[n + k]
  <1> USE EventFeedAssumption
  <1>1. Len(s) \in Nat /\ maxBuffered \in Nat
    OBVIOUS
  <1>2. CASE Len(s) > maxBuffered
    <2>1. Len(s) = maxBuffered + 1
      BY <1>1, <1>2
    <2>2. LastEntries(s) = SubSeq(s, 2, Len(s))
      BY <1>1, <1>2, <2>1 DEF LastEntries
    <2> QED  BY <1>1, <1>2, <2>1, <2>2
  <1>3. CASE ~(Len(s) > maxBuffered)
    BY <1>1, <1>3 DEF LastEntries
  <1> QED  BY <1>2, <1>3

(* The entries numbered above since are the last ones of the ring.         *)
LEMMA NewerEntries ==
  ASSUME TypeOK, RingIsTheTail, NEW since \in Nat
  PROVE  /\ Newer(since) \in Seq(Entry)
         /\ \A n \in DOMAIN ring : ring[n].seq > since => ring[n] \in Range(Newer(since))
         /\ RisesFrom(Newer(since), since, seq)
  <1> USE EventFeedAssumption
  <1> DEFINE Suits(k) == \A m \in 1 .. Len(ring) : ring[m].seq > since <=> m >= k
             first == CHOOSE k \in 1 .. Len(ring) + 1 : Suits(k)
             d == seq - Len(ring)
  <1>1. /\ ring \in Seq(Entry) /\ Len(ring) \in Nat /\ seq \in Nat
        /\ DOMAIN ring = 1 .. Len(ring)
        /\ \A m \in 1 .. Len(ring) : ring[m].seq = d + m
        /\ d \in Nat
    <2>1. ring \in Seq(Entry) /\ Len(ring) \in Nat /\ seq \in Nat
      BY DEF TypeOK
    <2>2. \A m \in DOMAIN ring : ring[m].seq = seq - Len(ring) + m
      BY DEF RingIsTheTail
    <2>3. Len(ring) <= seq
      BY <2>1 DEF RingIsTheTail
    <2> QED  BY <2>1, <2>2, <2>3
  <1> HIDE DEF d
  <1>2. \E k \in 1 .. Len(ring) + 1 : Suits(k)
    <2> DEFINE k == IF since < d THEN 1
                    ELSE IF since - d >= Len(ring) THEN Len(ring) + 1 ELSE since - d + 1
    <2>1. k \in 1 .. Len(ring) + 1
      BY <1>1
    <2>2. Suits(k)
      BY <1>1
    <2> QED  BY <2>1, <2>2
  <1>3. first \in 1 .. Len(ring) + 1 /\ Suits(first)
    BY <1>2
  <1>4. Newer(since) = SubSeq(ring, first, Len(ring))
    BY DEF Newer
  <1> HIDE DEF first
  <1>5. Newer(since) \in Seq(Entry)
    BY <1>1, <1>3, <1>4
  <1>6. ASSUME NEW n \in DOMAIN ring, ring[n].seq > since
        PROVE  ring[n] \in Range(Newer(since))
    <2>1. n \in first .. Len(ring)
      BY <1>1, <1>3, <1>6
    <2>2. /\ DOMAIN Newer(since) = 1 .. Len(ring) - first + 1
          /\ \A m \in 1 .. Len(ring) - first + 1 : Newer(since)[m] = ring[first + m - 1]
      BY <1>1, <1>3, <1>4
    <2>3. n - first + 1 \in DOMAIN Newer(since)
      BY <1>1, <1>3, <2>1, <2>2
    <2> DEFINE m == n - first + 1
    <2>4. m \in 1 .. Len(ring) - first + 1 /\ first + m - 1 = n
      BY <1>1, <1>3, <2>1
    <2> HIDE DEF m
    <2>5. Newer(since)[m] = ring[n]
      BY <2>2, <2>4
    <2> QED  BY <2>2, <2>4, <2>5 DEF Range
  <1>7. RisesFrom(Newer(since), since, seq)
    <2>1. /\ DOMAIN Newer(since) = 1 .. Len(ring) - first + 1
          /\ \A m \in 1 .. Len(ring) - first + 1 : Newer(since)[m] = ring[first + m - 1]
      BY <1>1, <1>3, <1>4
    <2>2. ASSUME NEW m \in 1 .. Len(ring) - first + 1
          PROVE  Newer(since)[m].seq = d + first + m - 1
      <3> DEFINE n == first + m - 1
      <3>1. n \in 1 .. Len(ring) /\ d + n = d + first + m - 1
        BY <1>1, <1>3
      <3> HIDE DEF n
      <3>2. Newer(since)[m] = ring[n]
        BY <2>1 DEF n
      <3> QED  BY <1>1, <3>1, <3>2
    <2>3. first <= Len(ring) => d + first > since
      BY <1>1, <1>3
    <2>4. d + Len(ring) = seq
      BY <1>1 DEF d
    <2>5. first \in Nat /\ d \in Nat /\ Len(ring) \in Nat
      BY <1>1, <1>3
    <2> HIDE DEF d
    <2>6. ASSUME NEW n \in DOMAIN Newer(since)
          PROVE  /\ since < Newer(since)[n].seq /\ Newer(since)[n].seq <= seq
                 /\ \A m \in 1 .. n - 1 : Newer(since)[m].seq < Newer(since)[n].seq
      <3>1. n \in 1 .. Len(ring) - first + 1 /\ first <= Len(ring)
        BY <2>1, <2>5
      <3>2. Newer(since)[n].seq = d + first + n - 1
        BY <2>2, <3>1
      <3>3. \A m \in 1 .. n - 1 : Newer(since)[m].seq = d + first + m - 1
        BY <2>2, <2>5, <3>1
      <3> QED  BY <1>1, <2>3, <2>4, <2>5, <3>1, <3>2, <3>3
    <2> QED  BY <2>6 DEF RisesFrom
  <1> QED  BY <1>5, <1>6, <1>7

(* The panel never holds more rows than it may.                            *)
LEMMA RowsStayWithin ==
  ASSUME TypeOK, NEW events \in Seq(Entry)
  PROVE  RowsWith(events) \in Seq(Entry) /\ Len(RowsWith(events)) <= MAX_ROWS
  <1> USE EventFeedAssumption
  <1> DEFINE k == Len(events)
             all == k + Len(rows)
             size == IF all > MAX_ROWS THEN MAX_ROWS ELSE all
             row(n) == IF n <= k THEN events[k + 1 - n] ELSE rows[n - k]
  <1>1. /\ k \in Nat /\ Len(rows) \in Nat /\ rows \in Seq(Entry)
        /\ MAX_ROWS \in Nat
    BY DEF TypeOK
  <1>2. size \in Nat /\ size <= all /\ size <= MAX_ROWS
    BY <1>1
  <1>3. ASSUME NEW n \in 1 .. size PROVE row(n) \in Entry
    BY <1>1, <1>2
  <1>4. RowsWith(events) = [n \in 1 .. size |-> row(n)]
    BY DEF RowsWith
  <1> HIDE DEF size, row
  <1> QED  BY <1>2, <1>3, <1>4

-----------------------------------------------------------------------------
LEMMA PollFields ==
  ASSUME TypeOK, NEW p \in Polls
  PROVE  /\ poll[p].stage \in {"none", "sent", "answered"}
         /\ poll[p].stage = "none" <=> poll[p] = NoPoll
         /\ poll[p].stage # "none" => poll[p].since \in Nat
         /\ poll[p].stage = "answered" =>
                poll[p].last_seq \in Nat /\ poll[p].events \in Seq(Entry)
  <1>1. poll[p] \in Poll
    BY DEF TypeOK
  <1> DEFINE Sent == [stage : {"sent"}, since : Nat]
             Answered == [stage : {"answered"}, since : Nat, events : Seq(Entry),
                          last_seq : Nat]
  <1>2. CASE poll[p] = NoPoll
    BY <1>2 DEF NoPoll
  <1>3. CASE poll[p] \in Sent
    BY <1>3 DEF NoPoll
  <1>4. CASE poll[p] \in Answered
    BY <1>4 DEF NoPoll
  <1> QED  BY <1>1, <1>2, <1>3, <1>4 DEF Poll

LEMMA InitEstablishes == Init => PanelInv
  <1> SUFFICES ASSUME Init PROVE PanelInv
    OBVIOUS
  <1>1. TypeOK
    <2>1. poll \in [Polls -> Poll]
      BY DEF Init, Poll
    <2>2. ring \in Seq(Entry) /\ Len(ring) = 0 /\ rows \in Seq(Entry) /\ Len(rows) = 0
      BY DEF Init
    <2>3. log \in [Topics -> Nat] /\ position \in [Topics -> Nat]
      BY DEF Init
    <2>4. seq \in Nat /\ lastSeq \in Nat /\ restarts \in Nat /\ blind \in Nat
      BY DEF Init
    <2>5. paused \in BOOLEAN /\ overlapped \in BOOLEAN /\ received \subseteq Record
      BY DEF Init
    <2>6. Len(ring) <= maxBuffered /\ Len(rows) <= MAX_ROWS
      BY <2>2, Sizes
    <2> QED  BY <2>1, <2>2, <2>3, <2>4, <2>5, <2>6 DEF TypeOK
  <1>2. RingIsTheTail /\ NothingSkipped /\ PanelLagsBehind
    BY Sizes DEF Init, RingIsTheTail, NothingSkipped, PanelLagsBehind
  <1>3. AnswersAreComplete /\ PollsLagBehind /\ AnswersRise /\ OnePollAtATime
    BY DEF Init, AnswersAreComplete, PollsLagBehind, AnswersRise, OnePollAtATime, NoPoll
  <1>4. RowsLagBehind /\ RowsNewestFirst
    BY DEF Init, RowsLagBehind, RowsNewestFirst
  <1> QED  BY <1>1, <1>2, <1>3, <1>4 DEF PanelInv, FeedInv

-----------------------------------------------------------------------------
(* The ring after one more entry: k old ones fell out, the new one is last. *)
LEMMA GrownRing ==
  ASSUME TypeOK, NEW t \in Topics, append(t),
         NEW e, e = [seq |-> seq + 1, topic |-> t, offset |-> position[t]]
  PROVE  \E k \in {0, 1} :
            /\ k = 1 <=> Len(ring) = maxBuffered
            /\ ring' \in Seq(Entry)
            /\ Len(ring') = Len(ring) + 1 - k
            /\ Len(ring') <= maxBuffered
            /\ \A n \in 1 .. Len(ring') :
                  \/ n + k \in 1 .. Len(ring) /\ ring'[n] = ring[n + k]
                  \/ n + k = Len(ring) + 1 /\ ring'[n] = e
  <1> DEFINE s == Append(ring, e)
  <1>1. /\ ring \in Seq(Entry) /\ Len(ring) \in Nat /\ Len(ring) <= maxBuffered
        /\ maxBuffered \in Nat
    BY Sizes DEF TypeOK
  <1>2. e \in Entry
    <2>1. seq + 1 \in Nat \ {0} /\ position[t] \in Nat
      BY DEF TypeOK
    <2> QED  BY <2>1 DEF Entry
  <1>3. ring' = LastEntries(s)
    BY DEF append
  <1>4. /\ s \in Seq(Entry) /\ Len(s) = Len(ring) + 1
        /\ \A n \in 1 .. Len(ring) : s[n] = ring[n]
        /\ s[Len(ring) + 1] = e
    BY <1>1, <1>2
  <1> HIDE DEF s
  <1>5. Len(s) <= maxBuffered + 1
    BY <1>1, <1>4
  <1>6. PICK k \in {0, 1} :
            /\ k = 1 <=> Len(s) > maxBuffered
            /\ LastEntries(s) \in Seq(Entry)
            /\ Len(LastEntries(s)) = Len(s) - k
            /\ Len(LastEntries(s)) <= maxBuffered
            /\ \A n \in 1 .. Len(s) - k : LastEntries(s)[n] = s[n + k]
    BY <1>4, <1>5, LastEntriesOf, Zenon
  <1>7. k = 1 <=> Len(ring) = maxBuffered
    BY <1>1, <1>4, <1>6
  <1>8. /\ ring' \in Seq(Entry) /\ Len(ring') = Len(ring) + 1 - k
        /\ Len(ring') <= maxBuffered
    BY <1>1, <1>3, <1>4, <1>6
  <1>9. ASSUME NEW n \in 1 .. Len(ring')
        PROVE  \/ n + k \in 1 .. Len(ring) /\ ring'[n] = ring[n + k]
               \/ n + k = Len(ring) + 1 /\ ring'[n] = e
    <2>1. n \in 1 .. Len(s) - k
      BY <1>1, <1>4, <1>8
    <2>2. ring'[n] = s[n + k]
      BY <1>3, <1>6, <2>1
    <2>3. n + k \in 1 .. Len(ring) \/ n + k = Len(ring) + 1
      BY <1>1, <1>8
    <2> QED  BY <1>4, <2>2, <2>3
  <1> QED  BY <1>7, <1>8, <1>9

LEMMA AppendedRing ==
  ASSUME TypeOK, RingIsTheTail, NEW t \in Topics, append(t)
  PROVE  /\ ring' \in Seq(Entry) /\ Len(ring') <= maxBuffered
         /\ RingIsTheTail'
         /\ \A n \in DOMAIN ring' :
                \/ ring'[n].seq = seq + 1
                \/ \E m \in DOMAIN ring : ring'[n] = ring[m]
  <1> DEFINE e == [seq |-> seq + 1, topic |-> t, offset |-> position[t]]
             old(n, k) == n + k \in 1 .. Len(ring) /\ ring'[n] = ring[n + k]
             new(n, k) == n + k = Len(ring) + 1 /\ ring'[n] = e
  <1>1. PICK k \in {0, 1} :
            /\ k = 1 <=> Len(ring) = maxBuffered
            /\ ring' \in Seq(Entry)
            /\ Len(ring') = Len(ring) + 1 - k
            /\ Len(ring') <= maxBuffered
            /\ \A n \in 1 .. Len(ring') : old(n, k) \/ new(n, k)
    BY GrownRing
  <1>2. e.seq = seq + 1 /\ e.topic = t /\ e.offset = position[t]
    OBVIOUS
  <1> HIDE DEF e
  <1>3. /\ ring \in Seq(Entry) /\ Len(ring) \in Nat /\ Len(ring) <= maxBuffered
        /\ maxBuffered \in Nat /\ seq \in Nat
    BY Sizes DEF TypeOK
  <1>4. seq' = seq + 1 /\ position' = [position EXCEPT ![t] = @ + 1]
    BY DEF append
  <1>5. Len(ring') = IF seq' > maxBuffered THEN maxBuffered ELSE seq'
    <2>1. Len(ring) = IF seq > maxBuffered THEN maxBuffered ELSE seq
      BY DEF RingIsTheTail
    <2> QED  BY <1>1, <1>3, <1>4, <2>1
  <1>6. ASSUME NEW n \in 1 .. Len(ring)
        PROVE  /\ ring[n].seq = seq - Len(ring) + n
               /\ ring[n].topic \in Topics
               /\ ring[n].offset < position'[ring[n].topic]
               /\ ring[n].topic = t => ring[n].offset < position[t]
    <2>1. n \in DOMAIN ring /\ ring[n] \in Entry
      BY <1>3
    <2>2. ring[n].seq = seq - Len(ring) + n /\ ring[n].offset < position[ring[n].topic]
      BY <2>1 DEF RingIsTheTail
    <2>3. ring[n].topic \in Topics /\ ring[n].offset \in Nat
      BY <2>1, EntryFields
    <2>4. \A u \in Topics : position[u] \in Nat /\ position'[u] \in Nat
                            /\ position[u] <= position'[u]
      BY <1>4 DEF TypeOK
    <2> QED  BY <2>2, <2>3, <2>4
  <1>7. position'[t] = position[t] + 1 /\ position[t] \in Nat
    BY <1>4 DEF TypeOK
  <1>8. ASSUME NEW n \in 1 .. Len(ring')
        PROVE  /\ ring'[n].seq = seq' - Len(ring') + n
               /\ ring'[n].offset < position'[ring'[n].topic]
    <2>1. CASE old(n, k)
      BY <1>1, <1>3, <1>4, <1>6, <2>1
    <2>2. CASE new(n, k)
      <3>1. n = Len(ring') /\ ring'[n] = e
        BY <1>1, <1>3, <2>2
      <3>2. ring'[n].seq = seq' /\ Len(ring') \in Nat /\ seq' \in Nat
        BY <1>1, <1>2, <1>3, <1>4, <3>1
      <3>3. ring'[n].offset = position[t] /\ ring'[n].topic = t
        BY <1>2, <3>1
      <3> HIDE DEF old, new
      <3>4. ring'[n].seq = seq' - Len(ring') + n
        BY <3>1, <3>2
      <3>5. ring'[n].offset < position'[ring'[n].topic]
        BY <1>7, <3>3
      <3> QED  BY <3>4, <3>5
    <2> QED  BY <1>1, <2>1, <2>2
  <1>9. ASSUME NEW n \in 1 .. Len(ring'), NEW m \in 1 .. n - 1,
               ring'[m].topic = ring'[n].topic
        PROVE  ring'[m].offset < ring'[n].offset
    <2>1. m \in 1 .. Len(ring') /\ n \in Nat /\ m \in Nat /\ m < n
      BY <1>1, <1>3
    <2>2. old(m, k)
      BY <1>1, <1>3, <2>1
    <2>3. CASE old(n, k)
      <3>1. n + k \in DOMAIN ring /\ m + k \in 1 .. (n + k) - 1
        BY <1>3, <2>1, <2>2, <2>3
      <3>2. ring[m + k].topic = ring[n + k].topic => ring[m + k].offset < ring[n + k].offset
        BY <3>1 DEF RingIsTheTail
      <3> QED  BY <1>9, <2>2, <2>3, <3>2
    <2>4. CASE new(n, k)
      BY <1>2, <1>6, <1>9, <2>2, <2>4
    <2> QED  BY <1>1, <2>3, <2>4
  <1>10. ASSUME NEW n \in 1 .. Len(ring')
         PROVE  \/ ring'[n].seq = seq + 1
                \/ \E m \in DOMAIN ring : ring'[n] = ring[m]
    <2>1. CASE old(n, k)
      <3>1. n + k \in DOMAIN ring
        BY <1>3, <2>1
      <3> QED  BY <2>1, <3>1
    <2>2. CASE new(n, k)
      BY <1>2, <2>2
    <2> QED  BY <1>1, <2>1, <2>2
  <1>11. DOMAIN ring' = 1 .. Len(ring')
    BY <1>1
  <1>12. RingIsTheTail'
    <2>1. Len(ring)' = Len(ring') /\ (DOMAIN ring)' = 1 .. Len(ring')
      BY <1>11
    <2> QED  BY <1>5, <1>8, <1>9, <2>1 DEF RingIsTheTail
  <1> QED  BY <1>1, <1>10, <1>11, <1>12

LEMMA AppendPreserves ==
  ASSUME PanelInv, NEW t \in Topics, append(t)
  PROVE  PanelInv'
  <1> USE DEF PanelInv, FeedInv
  <1>1. /\ ring' \in Seq(Entry) /\ Len(ring') <= maxBuffered
        /\ RingIsTheTail'
        /\ \A n \in DOMAIN ring' :
               \/ ring'[n].seq = seq + 1
               \/ \E m \in DOMAIN ring : ring'[n] = ring[m]
    BY AppendedRing
  <1>2. /\ seq' = seq + 1 /\ position' = [position EXCEPT ![t] = @ + 1]
        /\ UNCHANGED <<log, restarts, blind, lastSeq, paused, rows, received, overlapped, poll>>
    BY DEF append, broker, panel
  <1>3. TypeOK'
    BY <1>1, <1>2 DEF TypeOK
  <1>4. seq \in Nat /\ lastSeq \in Nat /\ blind \in Nat
    BY DEF TypeOK
  <1>5. PanelLagsBehind'
    BY <1>2, <1>4 DEF PanelLagsBehind
  <1>6. PollsLagBehind'
    BY <1>2, <1>4, PollFields DEF PollsLagBehind
  <1>7. NothingSkipped'
    <2> SUFFICES ASSUME NEW n \in DOMAIN ring', blind < ring'[n].seq, ring'[n].seq <= lastSeq
                 PROVE  RecordOf(ring'[n]) \in received
      BY <1>2 DEF NothingSkipped
    <2>1. ring'[n].seq # seq + 1
      BY <1>4 DEF PanelLagsBehind
    <2>2. PICK m \in DOMAIN ring : ring'[n] = ring[m]
      BY <1>1, <2>1
    <2> QED  BY <2>2 DEF NothingSkipped
  <1>8. AnswersAreComplete'
    <2> SUFFICES ASSUME NEW p \in Polls, poll[p].stage = "answered", NEW n \in DOMAIN ring',
                        blind < ring'[n].seq, poll[p].since < ring'[n].seq,
                        ring'[n].seq <= poll[p].last_seq
                 PROVE  ring'[n] \in Range(poll[p].events)
      BY <1>2 DEF AnswersAreComplete
    <2>1. poll[p].last_seq \in Nat
      BY PollFields
    <2>2. ring'[n].seq # seq + 1
      BY <1>4, <2>1 DEF PollsLagBehind
    <2>3. PICK m \in DOMAIN ring : ring'[n] = ring[m]
      BY <1>1, <2>2
    <2> QED  BY <2>3 DEF AnswersAreComplete
  <1>9. AnswersRise' /\ RowsLagBehind' /\ OnePollAtATime' /\ RowsNewestFirst'
    BY <1>2 DEF AnswersRise, RisesFrom, RowsLagBehind, OnePollAtATime, RowsNewestFirst
  <1> QED  BY <1>1, <1>3, <1>5, <1>6, <1>7, <1>8, <1>9

LEMMA RestartPreserves == ASSUME PanelInv, restart PROVE PanelInv'
  <1> USE DEF PanelInv, FeedInv
  <1>1. /\ seq' = 0 /\ position' = log /\ ring' = <<>> /\ restarts' = restarts + 1
        /\ blind' = IF seq > blind THEN seq ELSE blind
        /\ UNCHANGED <<log, lastSeq, paused, rows, received, overlapped, poll>>
    BY DEF restart, broker, panel
  <1>2. /\ seq \in Nat /\ lastSeq \in Nat /\ blind \in Nat /\ restarts \in Nat
        /\ maxBuffered \in Nat
    BY Sizes DEF TypeOK
  <1>3. TypeOK'
    <2>1. ring' \in Seq(Entry) /\ Len(ring') <= maxBuffered
      BY <1>1, <1>2
    <2>2. seq' \in Nat /\ blind' \in Nat /\ restarts' \in Nat
      BY <1>1, <1>2
    <2>3. position' \in [Topics -> Nat]
      BY <1>1 DEF TypeOK
    <2> QED  BY <1>1, <2>1, <2>2, <2>3 DEF TypeOK
  <1>4. PanelLagsBehind'
    BY <1>1, <1>2 DEF PanelLagsBehind
  <1>5. PollsLagBehind'
    BY <1>1, <1>2, PollFields DEF PollsLagBehind
  <1>6. RingIsTheTail' /\ NothingSkipped' /\ AnswersAreComplete'
    <2>1. DOMAIN ring' = {} /\ Len(ring') = 0
      BY <1>1
    <2> QED  BY <1>1, <1>2, <2>1 DEF RingIsTheTail, NothingSkipped, AnswersAreComplete
  <1>7. AnswersRise' /\ RowsLagBehind' /\ OnePollAtATime' /\ RowsNewestFirst'
    BY <1>1 DEF AnswersRise, RisesFrom, RowsLagBehind, OnePollAtATime, RowsNewestFirst
  <1> QED  BY <1>3, <1>4, <1>5, <1>6, <1>7

LEMMA TickPreserves == ASSUME PanelInv, NEW p \in Polls, tick(p) PROVE PanelInv'
  <1> USE DEF PanelInv, FeedInv
  <1> DEFINE sent == [stage |-> "sent", since |-> lastSeq]
  <1>1. /\ poll' = [poll EXCEPT ![p] = sent] /\ poll[p] = NoPoll
        /\ UNCHANGED <<log, position, ring, seq, restarts, blind, lastSeq, paused, rows,
                       received>>
    BY DEF tick, broker, feed
  <1>2. lastSeq \in Nat /\ poll \in [Polls -> Poll]
    BY DEF TypeOK
  <1>3. /\ poll'[p].stage = "sent" /\ poll'[p].since = lastSeq
        /\ \A q \in Polls : q # p => poll'[q] = poll[q]
    BY <1>1, <1>2
  <1>4. TypeOK'
    <2>1. sent \in Poll
      BY <1>2 DEF Poll
    <2>2. poll' \in [Polls -> Poll]
      BY <1>1, <1>2, <2>1
    <2>3. overlapped' \in BOOLEAN
      BY DEF tick, TypeOK
    <2> QED  BY <1>1, <2>2, <2>3 DEF TypeOK
  <1>5. PollsLagBehind'
    BY <1>1, <1>2, <1>3 DEF PollsLagBehind
  <1>6. AnswersAreComplete' /\ AnswersRise'
    BY <1>1, <1>3 DEF AnswersAreComplete, AnswersRise, RisesFrom
  <1>7. RingIsTheTail' /\ PanelLagsBehind' /\ NothingSkipped' /\ RowsLagBehind'
    BY <1>1 DEF RingIsTheTail, PanelLagsBehind, NothingSkipped, RowsLagBehind
  <1>8. ~overlapped' => ~overlapped /\ \A q \in Polls : poll[q] = NoPoll
    BY DEF tick
  <1>9. OnePollAtATime'
    BY <1>1, <1>3, <1>8 DEF OnePollAtATime, NoPoll
  <1>10. RowsNewestFirst'
    BY <1>1, <1>8 DEF RowsNewestFirst
  <1> QED  BY <1>4, <1>5, <1>6, <1>7, <1>9, <1>10

LEMMA HandleListPreserves == ASSUME PanelInv, NEW p \in Polls, handleList(p) PROVE PanelInv'
  <1> USE DEF PanelInv, FeedInv
  <1> DEFINE since == poll[p].since
             answered == [stage |-> "answered", since |-> since,
                          events |-> Newer(since), last_seq |-> seq]
  <1>1. /\ poll' = [poll EXCEPT ![p] = answered] /\ poll[p].stage = "sent"
        /\ UNCHANGED <<log, position, ring, seq, restarts, blind, lastSeq, paused, rows,
                       received, overlapped>>
    BY DEF handleList, broker, feed, panel
  <1>2. seq \in Nat /\ poll \in [Polls -> Poll]
    BY DEF TypeOK
  <1>3. since \in Nat
    BY <1>1, PollFields
  <1>4. /\ Newer(since) \in Seq(Entry)
        /\ \A n \in DOMAIN ring : ring[n].seq > since => ring[n] \in Range(Newer(since))
        /\ RisesFrom(Newer(since), since, seq)
    BY <1>3, NewerEntries
  <1>5. /\ poll'[p].stage = "answered" /\ poll'[p].since = since
        /\ poll'[p].events = Newer(since) /\ poll'[p].last_seq = seq
        /\ \A q \in Polls : q # p => poll'[q] = poll[q]
    BY <1>1, <1>2
  <1>6. answered \in Poll
    BY <1>2, <1>3, <1>4 DEF Poll
  <1> HIDE DEF answered, since
  <1>7. TypeOK'
    <2>1. poll' \in [Polls -> Poll]
      BY <1>1, <1>2, <1>6
    <2> QED  BY <1>1, <2>1 DEF TypeOK
  <1>8. PollsLagBehind'
    BY <1>1, <1>2, <1>5 DEF PollsLagBehind, since
  <1>9. AnswersAreComplete'
    <2> SUFFICES ASSUME NEW q \in Polls, poll'[q].stage = "answered", NEW n \in DOMAIN ring,
                        blind < ring[n].seq, poll'[q].since < ring[n].seq,
                        ring[n].seq <= poll'[q].last_seq
                 PROVE  ring[n] \in Range(poll'[q].events)
      BY <1>1 DEF AnswersAreComplete
    <2>1. CASE q = p
      <3>1. ring[n].seq \in Nat
        BY EntryFields DEF TypeOK
      <3> QED  BY <1>3, <1>4, <1>5, <2>1, <3>1
    <2>2. CASE q # p
      BY <1>5, <2>2 DEF AnswersAreComplete
    <2> QED  BY <2>1, <2>2
  <1>10. AnswersRise'
    BY <1>4, <1>5 DEF AnswersRise
  <1>11. RingIsTheTail' /\ PanelLagsBehind' /\ NothingSkipped' /\ RowsLagBehind'
         /\ RowsNewestFirst'
    BY <1>1 DEF RingIsTheTail, PanelLagsBehind, NothingSkipped, RowsLagBehind, RowsNewestFirst
  <1>12. OnePollAtATime'
    BY <1>1, <1>5 DEF OnePollAtATime, since
  <1> QED  BY <1>7, <1>8, <1>9, <1>10, <1>11, <1>12

(* A row is one of the answer's, newest first, or one that was there.      *)
LEMMA RowsOf ==
  ASSUME TypeOK, NEW events \in Seq(Entry), NEW n \in DOMAIN RowsWith(events)
  PROVE  /\ n \in Nat \ {0}
         /\ \/ /\ n <= Len(events)
               /\ Len(events) + 1 - n \in DOMAIN events
               /\ RowsWith(events)[n] = events[Len(events) + 1 - n]
            \/ /\ n > Len(events)
               /\ n - Len(events) \in DOMAIN rows
               /\ RowsWith(events)[n] = rows[n - Len(events)]
  <1> DEFINE k == Len(events)
             all == k + Len(rows)
             size == IF all > MAX_ROWS THEN MAX_ROWS ELSE all
             row(l) == IF l <= k THEN events[k + 1 - l] ELSE rows[l - k]
  <1>1. k \in Nat /\ Len(rows) \in Nat /\ rows \in Seq(Entry) /\ MAX_ROWS \in Nat
    BY Sizes DEF TypeOK
  <1>2. size \in Nat /\ size <= all
    BY <1>1
  <1>3. RowsWith(events) = [l \in 1 .. size |-> row(l)]
    BY DEF RowsWith
  <1> HIDE DEF size
  <1>4. n \in 1 .. size /\ RowsWith(events)[n] = row(n)
    BY <1>3
  <1> QED  BY <1>1, <1>2, <1>4

LEMMA ReceivePreserves == ASSUME PanelInv, NEW p \in Polls, receive(p) PROVE PanelInv'
  <1> USE DEF PanelInv, FeedInv
  <1> DEFINE since == poll[p].since
             events == poll[p].events
             last_seq == poll[p].last_seq
  <1>1. /\ poll' = [poll EXCEPT ![p] = NoPoll] /\ poll[p].stage = "answered"
        /\ lastSeq' = IF last_seq > lastSeq THEN last_seq ELSE lastSeq
        /\ rows' = RowsWith(events)
        /\ received' = received \cup {RecordOf(e) : e \in Range(events)}
        /\ UNCHANGED <<log, position, ring, seq, restarts, blind, paused, overlapped>>
    BY DEF receive, broker, feed
  <1>2. seq \in Nat /\ blind \in Nat /\ lastSeq \in Nat /\ poll \in [Polls -> Poll]
    BY DEF TypeOK
  <1>3. since \in Nat /\ last_seq \in Nat /\ events \in Seq(Entry)
    BY <1>1, PollFields
  <1>4. /\ poll'[p].stage = "none"
        /\ \A q \in Polls : q # p => poll'[q] = poll[q]
    BY <1>1, <1>2 DEF NoPoll
  <1>5. lastSeq' \in Nat /\ lastSeq <= lastSeq' /\ last_seq <= lastSeq'
    BY <1>1, <1>2, <1>3
  <1>6. since <= lastSeq /\ (last_seq <= seq \/ last_seq <= blind)
    BY <1>1 DEF PollsLagBehind
  <1>7. RisesFrom(events, since, last_seq)
    BY <1>1 DEF AnswersRise
  <1> HIDE DEF since, events, last_seq
  <1>8. TypeOK'
    <2>1. poll' \in [Polls -> Poll]
      BY <1>1, <1>2 DEF Poll
    <2>2. rows' \in Seq(Entry) /\ Len(rows') <= MAX_ROWS
      BY <1>1, <1>3, RowsStayWithin
    <2>3. received' \subseteq Record
      <3>1. ASSUME NEW e \in Range(events) PROVE RecordOf(e) \in Record
        <4>1. e \in Entry
          BY <1>3 DEF Range
        <4> QED  BY <4>1, EntryFields DEF RecordOf, Record
      <3> QED  BY <1>1, <3>1 DEF TypeOK
    <2> QED  BY <1>1, <1>5, <2>1, <2>2, <2>3 DEF TypeOK
  <1>9. PollsLagBehind'
    <2> SUFFICES ASSUME NEW q \in Polls, poll'[q].stage # "none"
                 PROVE  /\ poll'[q].since <= lastSeq'
                        /\ poll'[q].stage = "answered" =>
                               poll'[q].last_seq <= seq \/ poll'[q].last_seq <= blind
      BY <1>1, <1>4 DEF PollsLagBehind
    <2>1. q # p /\ poll'[q] = poll[q]
      BY <1>4
    <2>2. poll[q].since \in Nat
      BY <2>1, PollFields
    <2> QED  BY <1>2, <1>5, <2>1, <2>2 DEF PollsLagBehind
  <1>10. PanelLagsBehind'
    BY <1>1, <1>2, <1>3, <1>6 DEF PanelLagsBehind
  <1>11. NothingSkipped'
    <2> SUFFICES ASSUME NEW n \in DOMAIN ring, blind < ring[n].seq, ring[n].seq <= lastSeq'
                 PROVE  RecordOf(ring[n]) \in received'
      BY <1>1 DEF NothingSkipped
    <2>1. ring[n].seq \in Nat
      BY EntryFields DEF TypeOK
    <2>2. CASE ring[n].seq <= lastSeq
      BY <1>1, <2>2 DEF NothingSkipped
    <2>3. CASE ~(ring[n].seq <= lastSeq)
      <3>1. since < ring[n].seq /\ ring[n].seq <= last_seq
        BY <1>1, <1>2, <1>3, <1>6, <2>1, <2>3
      <3>2. ring[n] \in Range(events)
        BY <1>1, <3>1 DEF AnswersAreComplete, since, last_seq, events
      <3> QED  BY <1>1, <3>2
    <2> QED  BY <2>2, <2>3
  <1>12. AnswersAreComplete' /\ AnswersRise'
    BY <1>1, <1>4 DEF AnswersAreComplete, AnswersRise
  <1>13. RingIsTheTail'
    BY <1>1 DEF RingIsTheTail
  <1>14. ASSUME NEW n \in DOMAIN events PROVE events[n].seq \in Nat
    BY <1>3, EntryFields
  <1>15. ASSUME NEW n \in DOMAIN rows PROVE rows[n].seq \in Nat
    BY EntryFields DEF TypeOK
  <1>16. RowsLagBehind'
    <2> SUFFICES ASSUME NEW n \in DOMAIN RowsWith(events)
                 PROVE  RowsWith(events)[n].seq <= lastSeq'
      BY <1>1 DEF RowsLagBehind
    <2>1. CASE n <= Len(events)
      <3>1. /\ Len(events) + 1 - n \in DOMAIN events
            /\ RowsWith(events)[n] = events[Len(events) + 1 - n]
        BY <1>3, <2>1, RowsOf
      <3>2. events[Len(events) + 1 - n].seq <= last_seq
        BY <1>7, <3>1 DEF RisesFrom
      <3> QED  BY <1>3, <1>5, <1>14, <3>1, <3>2
    <2>2. CASE ~(n <= Len(events))
      <3>1. n - Len(events) \in DOMAIN rows /\ RowsWith(events)[n] = rows[n - Len(events)]
        BY <1>3, <2>2, RowsOf
      <3>2. rows[n - Len(events)].seq <= lastSeq
        BY <3>1 DEF RowsLagBehind
      <3> QED  BY <1>2, <1>5, <1>15, <3>1, <3>2
    <2> QED  BY <2>1, <2>2
  <1>17. OnePollAtATime'
    <2> SUFFICES ASSUME ~overlapped, NEW q \in Polls, poll'[q].stage # "none" PROVE FALSE
      BY <1>1 DEF OnePollAtATime
    <2>1. q # p /\ poll[q].stage # "none"
      BY <1>4
    <2> QED  BY <1>1, <2>1 DEF OnePollAtATime
  <1>18. RowsNewestFirst'
    <2> SUFFICES ASSUME ~overlapped, NEW m \in DOMAIN RowsWith(events),
                        NEW n \in DOMAIN RowsWith(events), m < n
                 PROVE  RowsWith(events)[m].seq > RowsWith(events)[n].seq
      BY <1>1 DEF RowsNewestFirst
    <2> DEFINE k == Len(events)
               bm == k + 1 - m
               bn == k + 1 - n
    <2>1. m \in Nat \ {0} /\ n \in Nat \ {0} /\ k \in Nat
      BY <1>3, RowsOf
    <2>2. since = lastSeq
      BY <1>1 DEF OnePollAtATime, since
    <2>3. CASE n <= k
      <3>1. /\ bn \in DOMAIN events /\ RowsWith(events)[n] = events[bn]
            /\ bm \in DOMAIN events /\ RowsWith(events)[m] = events[bm]
        BY <1>3, <2>1, <2>3, RowsOf
      <3>2. bn \in 1 .. bm - 1
        BY <1>3, <2>1, <3>1
      <3>3. events[bn].seq < events[bm].seq
        BY <1>7, <3>1, <3>2 DEF RisesFrom
      <3> QED  BY <1>14, <3>1, <3>3
    <2>4. CASE m <= k /\ ~(n <= k)
      <3>1. bm \in DOMAIN events /\ RowsWith(events)[m] = events[bm]
        BY <1>3, <2>1, <2>4, RowsOf
      <3>2. n - k \in DOMAIN rows /\ RowsWith(events)[n] = rows[n - k]
        BY <1>3, <2>1, <2>4, RowsOf
      <3>3. since < events[bm].seq
        BY <1>7, <3>1 DEF RisesFrom
      <3>4. rows[n - k].seq <= lastSeq
        BY <3>2 DEF RowsLagBehind
      <3>5. events[bm].seq \in Nat /\ rows[n - k].seq \in Nat
        BY <1>14, <1>15, <3>1, <3>2
      <3> QED  BY <1>2, <2>2, <3>1, <3>2, <3>3, <3>4, <3>5
    <2>5. CASE ~(m <= k)
      <3>1. /\ n - k \in DOMAIN rows /\ RowsWith(events)[n] = rows[n - k]
            /\ m - k \in DOMAIN rows /\ RowsWith(events)[m] = rows[m - k]
        BY <1>3, <2>1, <2>5, RowsOf
      <3>2. m - k < n - k
        BY <2>1
      <3> QED  BY <3>1, <3>2 DEF RowsNewestFirst
    <2> QED  BY <2>3, <2>4, <2>5
  <1> QED  BY <1>8, <1>9, <1>10, <1>11, <1>12, <1>13, <1>16, <1>17, <1>18

LEMMA FailPreserves == ASSUME PanelInv, NEW p \in Polls, fail(p) PROVE PanelInv'
  <1> USE DEF PanelInv, FeedInv
  <1>1. /\ poll' = [poll EXCEPT ![p] = NoPoll]
        /\ UNCHANGED <<log, position, ring, seq, restarts, blind, lastSeq, paused, rows,
                       received, overlapped>>
    BY DEF fail, broker, feed, panel
  <1>2. poll \in [Polls -> Poll]
    BY DEF TypeOK
  <1>3. /\ poll'[p].stage = "none"
        /\ \A q \in Polls : q # p => poll'[q] = poll[q]
    BY <1>1, <1>2 DEF NoPoll
  <1>4. TypeOK'
    <2>1. poll' \in [Polls -> Poll]
      BY <1>1, <1>2 DEF Poll
    <2> QED  BY <1>1, <2>1 DEF TypeOK
  <1>5. PollsLagBehind' /\ AnswersAreComplete' /\ AnswersRise' /\ OnePollAtATime'
    BY <1>1, <1>3 DEF PollsLagBehind, AnswersAreComplete, AnswersRise, OnePollAtATime
  <1>6. RingIsTheTail' /\ PanelLagsBehind' /\ NothingSkipped' /\ RowsLagBehind'
         /\ RowsNewestFirst'
    BY <1>1 DEF RingIsTheTail, PanelLagsBehind, NothingSkipped, RowsLagBehind, RowsNewestFirst
  <1> QED  BY <1>4, <1>5, <1>6

(* The steps that touch neither feed nor polls nor what the panel holds.   *)
LEMMA OthersPreserve ==
  ASSUME PanelInv, (\E t \in Topics : produce(t)) \/ togglePause \/ UNCHANGED vars
  PROVE  PanelInv'
  <1> USE DEF PanelInv, FeedInv
  <1>1. UNCHANGED <<position, ring, seq, restarts, blind, lastSeq, rows, received,
                    overlapped, poll>>
    BY DEF produce, togglePause, broker, feed, panel, vars
  <1>2. log' \in [Topics -> Nat] /\ paused' \in BOOLEAN
    <2>1. CASE \E t \in Topics : produce(t)
      BY <2>1 DEF produce, panel, TypeOK
    <2>2. CASE togglePause \/ UNCHANGED vars
      BY <2>2 DEF togglePause, vars, broker, panel, TypeOK
    <2> QED  BY <2>1, <2>2
  <1>3. TypeOK'
    BY <1>1, <1>2 DEF TypeOK
  <1>4. PollsLagBehind' /\ AnswersAreComplete' /\ AnswersRise' /\ OnePollAtATime'
    BY <1>1 DEF PollsLagBehind, AnswersAreComplete, AnswersRise, OnePollAtATime
  <1>5. RingIsTheTail' /\ PanelLagsBehind' /\ NothingSkipped' /\ RowsLagBehind'
         /\ RowsNewestFirst'
    BY <1>1 DEF RingIsTheTail, PanelLagsBehind, NothingSkipped, RowsLagBehind, RowsNewestFirst
  <1> QED  BY <1>3, <1>4, <1>5

LEMMA PanelInvHolds == Spec => []PanelInv
  <1>1. PanelInv /\ [Next]_vars => PanelInv'
    <2> SUFFICES ASSUME PanelInv, [Next]_vars PROVE PanelInv'
      OBVIOUS
    <2>1. CASE \E t \in Topics : append(t)
      BY <2>1, AppendPreserves
    <2>2. CASE restart
      BY <2>2, RestartPreserves
    <2>3. CASE \E p \in Polls : tick(p)
      BY <2>3, TickPreserves
    <2>4. CASE \E p \in Polls : handleList(p)
      BY <2>4, HandleListPreserves
    <2>5. CASE \E p \in Polls : receive(p)
      BY <2>5, ReceivePreserves
    <2>6. CASE \E p \in Polls : fail(p)
      BY <2>6, FailPreserves
    <2>7. CASE (\E t \in Topics : produce(t)) \/ togglePause \/ UNCHANGED vars
      BY <2>7, OthersPreserve
    <2> QED  BY <2>1, <2>2, <2>3, <2>4, <2>5, <2>6, <2>7 DEF Next
  <1> QED  BY <1>1, InitEstablishes, PTL DEF Spec

-----------------------------------------------------------------------------
(* Feed, panel and polls keep their types; ring and rows their bounds.     *)
THEOREM FeedTypeCorrect == Spec => []TypeOK
  <1>1. PanelInv => TypeOK
    BY DEF PanelInv, FeedInv
  <1> QED  BY <1>1, PanelInvHolds, PTL

(* Whatever its size, the ring holds the newest entries, numbered without  *)
(* a gap, each topic's records in the order of its log (append, 109-131).  *)
THEOREM RingKeepsTheTail == Spec => []RingIsTheTail
  <1>1. PanelInv => RingIsTheTail
    BY DEF PanelInv, FeedInv
  <1> QED  BY <1>1, PanelInvHolds, PTL

(* Any number of polls may overlap, fail or be answered out of order: the  *)
(* panel is never past an entry of this life's ring that it was not sent.  *)
THEOREM PanelSkipsNothing == Spec => []NothingSkipped
  <1>1. PanelInv => NothingSkipped
    BY DEF PanelInv, FeedInv
  <1> QED  BY <1>1, PanelInvHolds, PTL

(* As long as no polls overlapped, the rows' numbers fall from the top, so *)
(* that they can key the rows (App.tsx:181).                               *)
THEOREM RowsFallFromTheTop == Spec => []RowsNewestFirst
  <1>1. PanelInv => RowsNewestFirst
    BY DEF PanelInv
  <1> QED  BY <1>1, PanelInvHolds, PTL
=============================================================================
