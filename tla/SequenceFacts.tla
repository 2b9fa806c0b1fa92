---------------------------- MODULE SequenceFacts ----------------------------
(***************************************************************************)
(* Queues: what a sequence is after something is taken from its front or   *)
(* put to its end.                                                         *)
(***************************************************************************)
EXTENDS Integers, SequenceTheorems, TLAPS

(* What is taken from a sequence's front, or put to its end.               *)
LEMMA Taking ==
  ASSUME NEW S, NEW s \in Seq(S), s # <<>>
  PROVE  /\ Head(s) \in S /\ Head(s) = s[1] /\ Len(s) \in Nat \ {0}
         /\ Tail(s) \in Seq(S) /\ Len(Tail(s)) = Len(s) - 1
         /\ \A i \in 1 .. Len(Tail(s)) : i + 1 \in 1 .. Len(s) /\ Tail(s)[i] = s[i + 1]
<1>1. Len(s) \in Nat \ {0} /\ Tail(s) \in Seq(S) /\ Len(Tail(s)) = Len(s) - 1
  BY HeadTailProperties, EmptySeq, LenProperties
<1>2. Head(s) = s[1] /\ s[1] \in S
  BY <1>1, ElementOfSeq
<1>3. ASSUME NEW i \in 1 .. Len(Tail(s))
      PROVE  i + 1 \in 1 .. Len(s) /\ Tail(s)[i] = s[i + 1]
  BY <1>1, <1>3
<1> QED
  BY <1>1, <1>2, <1>3

LEMMA Adding ==
  ASSUME NEW S, NEW s \in Seq(S), NEW e \in S
  PROVE  /\ Append(s, e) \in Seq(S) /\ Len(s) \in Nat /\ Len(Append(s, e)) = Len(s) + 1
         /\ \A i \in 1 .. Len(s) : Append(s, e)[i] = s[i]
         /\ Append(s, e)[Len(s) + 1] = e
  BY AppendProperties, LenProperties

(* A queue given by its elements.                                          *)
LEMMA Listing ==
  ASSUME NEW n \in Nat, NEW q, q = [i \in 1 .. n |-> q[i]]
  PROVE  /\ n = 0 => q = <<>>
         /\ n > 0 => /\ q # <<>> /\ Head(q) = q[1]
                     /\ Tail(q) = [i \in 1 .. n - 1 |-> q[i + 1]]
         /\ \A e : q \o <<e>> = [i \in 1 .. n + 1 |-> IF i = n + 1 THEN e ELSE q[i]]
         /\ q \o <<>> = q /\ <<>> \o q = q
<1> DEFINE S == {q[i] : i \in 1 .. n}
<1>1. q \in Seq(S) /\ Len(q) = n
  <2>1. \A i \in 1 .. n : q[i] \in S
    OBVIOUS
  <2>2. q \in [1 .. n -> S]
    BY <2>1, Zenon
  <2>. HIDE DEF S
  <2>. QED BY <2>2, SeqDef, LenProperties
<1>. HIDE DEF S
<1>2. n = 0 => q = <<>>
  BY <1>1, EmptySeq
<1>3. ASSUME n > 0
      PROVE  /\ q # <<>> /\ Head(q) = q[1]
             /\ Tail(q) = [i \in 1 .. n - 1 |-> q[i + 1]]
  <2>1. q # <<>>
    BY <1>1, <1>3, EmptySeq
  <2>2. /\ Head(q) = q[1] /\ Tail(q) \in Seq(S) /\ Len(Tail(q)) = n - 1
        /\ \A i \in 1 .. n - 1 : Tail(q)[i] = q[i + 1]
    BY <1>1, <2>1, Taking
  <2>3. Tail(q) \in [1 .. n - 1 -> S]
    BY <2>2, SeqDef, LenProperties
  <2>. QED BY <2>1, <2>2, <2>3
<1>4. ASSUME NEW e
      PROVE  q \o <<e>> = [i \in 1 .. n + 1 |-> IF i = n + 1 THEN e ELSE q[i]]
  <2>1. q \in Seq(S \union {e}) /\ <<e>> \in Seq(S \union {e}) /\ Len(<<e>>) = 1
    BY <1>1
  <2>2. /\ q \o <<e>> \in Seq(S \union {e}) /\ Len(q \o <<e>>) = n + 1
        /\ \A i \in 1 .. n + 1 : (q \o <<e>>)[i] = IF i = n + 1 THEN e ELSE q[i]
    BY <1>1, <2>1, ConcatProperties
  <2>3. q \o <<e>> \in [1 .. n + 1 -> S \union {e}]
    BY <2>2, SeqDef, LenProperties
  <2>. QED BY <2>2, <2>3
<1>. QED BY <1>1, <1>2, <1>3, <1>4, ConcatEmptySeq
=============================================================================
