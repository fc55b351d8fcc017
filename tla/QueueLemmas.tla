----------------------------- MODULE QueueLemmas -----------------------------
(***************************************************************************)
(* Facts about sequences that the proofs of several components cite.       *)
(***************************************************************************)
EXTENDS Integers, Sequences, FiniteSets, FiniteSetTheorems, SequenceTheorems, TLAPS

\* A new last element.
LEMMA AppendSeq ==
    ASSUME NEW S, NEW q \in Seq(S), NEW e \in S
    PROVE  /\ Append(q, e) \in Seq(S) /\ Append(q, e) # <<>>
           /\ Len(Append(q, e)) = Len(q) + 1 /\ Len(q) \in Nat
           /\ Append(q, e)[Len(q) + 1] = e
           /\ \A i \in 1..Len(q) : Append(q, e)[i] = q[i]
           /\ DOMAIN Append(q, e) = 1..(Len(q) + 1) /\ DOMAIN q = 1..Len(q)
  BY SMT

\* The tail, and the index shift in it.
LEMMA TailSeq ==
    ASSUME NEW S, NEW q \in Seq(S), q # <<>>
    PROVE  /\ Tail(q) \in Seq(S) /\ Len(Tail(q)) = Len(q) - 1 /\ Head(q) = q[1] /\ Head(q) \in S
           /\ Len(q) \in Nat /\ Len(q) >= 1
           /\ DOMAIN Tail(q) = 1..(Len(q) - 1) /\ DOMAIN q = 1..Len(q)
           /\ \A i \in 1..Len(Tail(q)) : i + 1 \in 1..Len(q) /\ Tail(q)[i] = q[i + 1]
  BY SMT

\* One element is replaced.
LEMMA ReplacedSeq ==
    ASSUME NEW S, NEW q \in Seq(S), NEW i \in 1..Len(q), NEW e \in S
    PROVE  /\ [q EXCEPT ![i] = e] \in Seq(S) /\ Len([q EXCEPT ![i] = e]) = Len(q)
           /\ [q EXCEPT ![i] = e][i] = e
           /\ \A j \in 1..Len(q) : j # i => [q EXCEPT ![i] = e][j] = q[j]
  BY SMT

\* An injective sequence as long as a finite set is large has all its members.
LEMMA OrdersAreComplete ==
    ASSUME NEW S, IsFiniteSet(S), NEW q \in Injection(1..Cardinality(S), S)
    PROVE  /\ q \in Seq(S) /\ Len(q) \in Nat
           /\ \A i, j \in 1..Len(q) : q[i] = q[j] => i = j
           /\ \A e \in S : \E i \in 1..Len(q) : q[i] = e
<1> DEFINE n == Cardinality(S)
<1>1. n \in Nat BY FS_CardinalityType
<1>2. q \in [1..n -> S] /\ \A i, j \in 1..n : q[i] = q[j] => i = j
  BY DEF Injection, IsInjective
<1>3. q \in Seq(S) /\ Len(q) = n
  BY <1>1, <1>2
<1>4. q \in Surjection(1..n, S)
  <2>1. Cardinality(1..n) = n BY <1>1, FS_Interval
  <2> QED BY <2>1, FS_Injection
<1> QED BY <1>1, <1>2, <1>3, <1>4 DEF Surjection
==============================================================================
