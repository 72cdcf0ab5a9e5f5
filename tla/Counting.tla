------------------------------ MODULE Counting ------------------------------
(***************************************************************************)
(* How the proofs count.  A sum over the batches of a generator or over    *)
(* the invoices of a subscription is the cardinality of a set of pairs     *)
(* <<e, k>>, the k-th unit of the term e, for k in 1 .. n: a term enters   *)
(* or leaves the sum as its units enter or leave the set.                  *)
(***************************************************************************)
EXTENDS Integers, FiniteSets, FiniteSetTheorems, TLAPS

LEMMA CountUpTo ==
  ASSUME NEW n \in Nat
  PROVE  IsFiniteSet(1 .. n) /\ Cardinality(1 .. n) = n
  BY FS_Interval

(* A term of n units is added to what was counted so far.                  *)
LEMMA UnitsAdded ==
  ASSUME NEW S, IsFiniteSet(S), NEW e, NEW n \in Nat, S \cap ({e} \X (1 .. n)) = {}
  PROVE  /\ IsFiniteSet(S \cup ({e} \X (1 .. n)))
         /\ Cardinality(S \cup ({e} \X (1 .. n))) = Cardinality(S) + n
         /\ Cardinality(S) \in Nat
  <1>1. IsFiniteSet({e}) /\ Cardinality({e}) = 1
    BY FS_Singleton
  <1>2. IsFiniteSet(1 .. n) /\ Cardinality(1 .. n) = n
    BY CountUpTo
  <1>3. /\ IsFiniteSet({e} \X (1 .. n))
        /\ Cardinality({e} \X (1 .. n)) = Cardinality({e}) * Cardinality(1 .. n)
    BY <1>1, <1>2, FS_Product
  <1>4. Cardinality({e} \X (1 .. n)) = n
    BY <1>1, <1>2, <1>3
  <1>5. Cardinality(S) \in Nat
    BY FS_CardinalityType
  <1>6. /\ IsFiniteSet(S \cup ({e} \X (1 .. n)))
        /\ Cardinality(S \cup ({e} \X (1 .. n)))
             = Cardinality(S) + Cardinality({e} \X (1 .. n)) - Cardinality({})
    BY <1>3, FS_Union
  <1>7. Cardinality({}) = 0
    BY FS_EmptySet
  <1> QED  BY <1>4, <1>5, <1>6, <1>7
=============================================================================
