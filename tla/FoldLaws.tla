------------------------------ MODULE FoldLaws ------------------------------
(***************************************************************************)
(* FoldLeft of SequencesExt for an arbitrary step op: the loops of the     *)
(* source that run over a sequence are folds in the models, and what such  *)
(* a loop keeps is proved from the laws below.  A module that reasons      *)
(* about a loop takes them with INSTANCE FoldLaws WITH op <- <its body>.   *)
(*                                                                         *)
(* A fold is defined by recursion over sets, so the laws need induction.   *)
(* The induction theorems of the library take the induction predicate as   *)
(* an operator; SetInduction takes it as a set of numbers, and so needs no *)
(* operator.                                                               *)
(***************************************************************************)
EXTENDS SequencesExt, WellFoundedInduction, TLAPS

CONSTANT op(_, _)  \* the body of the loop: the new accumulator

(* Induction *)

(* The order of the natural numbers, as a set of pairs, is well-founded. *)
LEMMA NatRelation ==
  \E R : IsWellFoundedOn(R, Nat) /\ \A x, y \in Nat : <<x, y>> \in R <=> x < y
<1>1. \A x, y \in Nat : <<x, y>> \in OpToRel(<, Nat) <=> x < y
  BY Zenon DEF OpToRel
<1> QED
  BY <1>1, NatLessThanWellFounded, Zenon

(* A well-founded relation on the naturals has a least element in every set. *)
LEMMA LeastOf ==
  ASSUME NEW R, IsWellFoundedOn(R, Nat), NEW U, U \subseteq Nat, U # {}
  PROVE  \E x \in U : \A y \in U : ~(<<y, x>> \in R)
BY WFMin

(* A set of naturals that has 0 and the successor of each of its elements has
   them all. *)
LEMMA SetInduction ==
  ASSUME NEW T \in SUBSET Nat, 0 \in T, \A n \in T : n + 1 \in T
  PROVE  T = Nat
<1> SUFFICES ASSUME Nat \ T # {} PROVE FALSE
  OBVIOUS
<1> DEFINE Rest == Nat \ T
<1>1. PICK R : IsWellFoundedOn(R, Nat) /\ \A x, y \in Nat : <<x, y>> \in R <=> x < y
  BY NatRelation
<1>2. PICK x \in Rest : \A y \in Rest : ~(<<y, x>> \in R)
  <2>1. Rest \subseteq Nat /\ Rest # {}
    OBVIOUS
  <2> HIDE DEF Rest
  <2> QED
    BY <1>1, <2>1, LeastOf
<1>3. x # 0 /\ x - 1 \in Nat /\ x - 1 < x
  BY <1>2
<1>4. x - 1 \in T
  BY <1>1, <1>2, <1>3
<1> QED
  BY <1>2, <1>3, <1>4

-----------------------------------------------------------------------------
(* The recursion behind FoldLeft *)

(* Max of a non-empty set of positions is its largest element. *)
LEMMA MaxIsLargest ==
  ASSUME NEW n \in Nat, NEW s \in SUBSET (1 .. n), s # {}
  PROVE  Max(s) \in s /\ \A x \in s : x <= Max(s)
<1> DEFINE HasMax(k) == \A u \in SUBSET (1 .. k) :
                          u # {} => \E m \in u : \A x \in u : m >= x
<1> DEFINE T == {k \in Nat : HasMax(k)}
<1>1. 0 \in T
  <2>1. 1 .. 0 = {}
    OBVIOUS
  <2> QED
    BY <2>1
<1>2. ASSUME NEW k \in T PROVE k + 1 \in T
  <2> SUFFICES ASSUME NEW u \in SUBSET (1 .. k + 1), u # {}
               PROVE  \E m \in u : \A x \in u : m >= x
    OBVIOUS
  <2>1. CASE k + 1 \in u
    BY <2>1
  <2>2. CASE k + 1 \notin u
    <3>1. u \in SUBSET (1 .. k)
      BY <2>2
    <3> QED
      BY <3>1
  <2> QED
    BY <2>1, <2>2
<1>3. HasMax(n)
  <2>1. T \in SUBSET Nat /\ \A k \in T : k + 1 \in T
    BY <1>2
  <2> HIDE DEF T
  <2>2. T = Nat
    BY <1>1, <2>1, SetInduction
  <2> QED
    BY <2>2 DEF T
<1> QED
  BY <1>3 DEF Max

(* The positions 1 .. n without their Max are those before it. *)
LEMMA MaxOfInterval ==
  ASSUME NEW n \in Nat, n # 0
  PROVE  Max(1 .. n) = n /\ (1 .. n) \ {n} = 1 .. (n - 1)
<1>1. 1 .. n \in SUBSET (1 .. n) /\ n \in 1 .. n
  OBVIOUS
<1>2. Max(1 .. n) \in 1 .. n /\ n <= Max(1 .. n)
  BY <1>1, MaxIsLargest
<1> QED
  BY <1>2

\* What MapThenFoldSet makes of the positions s, given its results g on fewer.
Body(base, seq, g, s) ==
  IF s = {} THEN base ELSE op(g[s \ {Max(s)}], seq[Max(s)])

(* The function MapThenFoldSet chooses exists. *)
LEMMA FoldDefined ==
  ASSUME NEW base, NEW seq, NEW n \in Nat
  PROVE  \E g : g = [s \in SUBSET (1 .. n) |-> Body(base, seq, g, s)]
<1> DEFINE Upto(k, g) == g = [s \in SUBSET (1 .. k) |-> Body(base, seq, g, s)]
<1> DEFINE T == {k \in Nat : \E g : Upto(k, g)}
<1>1. 0 \in T
  <2>1. Upto(0, [s \in SUBSET (1 .. 0) |-> base])
    BY DEF Body
  <2> QED
    BY <2>1
<1>2. ASSUME NEW k \in T PROVE k + 1 \in T
  <2> PICK g : Upto(k, g)
    OBVIOUS
  <2> DEFINE h == [s \in SUBSET (1 .. k + 1) |->
                     IF k + 1 \in s THEN op(g[s \ {k + 1}], seq[k + 1]) ELSE g[s]]
  <2>1. ASSUME NEW s \in SUBSET (1 .. k + 1) PROVE h[s] = Body(base, seq, h, s)
    <3>1. CASE k + 1 \in s
      <4>1. Max(s) = k + 1
        <5>1. Max(s) \in s /\ \A x \in s : x <= Max(s)
          <6>1. k + 1 \in Nat /\ s # {}
            BY <3>1
          <6> QED
            BY <6>1, MaxIsLargest
        <5> QED
          <6>1. k \in Nat /\ Max(s) \in 1 .. (k + 1) /\ k + 1 <= Max(s)
            BY <3>1, <5>1
          <6> HIDE DEF Upto, h, T
          <6> QED
            BY <6>1
      <4>2. s \ {k + 1} \in SUBSET (1 .. k) /\ s \ {k + 1} \in SUBSET (1 .. k + 1)
        BY <3>1
      <4> QED
        BY <3>1, <4>1, <4>2 DEF Body
    <3>2. CASE k + 1 \notin s
      <4>1. s \in SUBSET (1 .. k)
        BY <3>2
      <4>2. h[s] = g[s] /\ g[s] = Body(base, seq, g, s)
        BY <3>2, <4>1
      <4>3. s # {} => s \ {Max(s)} \in SUBSET (1 .. k) /\ s \ {Max(s)} \in SUBSET (1 .. k + 1)
                      /\ k + 1 \notin s \ {Max(s)}
        BY <3>2, <4>1
      <4> QED
        BY <4>2, <4>3 DEF Body
    <3> QED
      BY <3>1, <3>2
  <2>2. h = [s \in SUBSET (1 .. k + 1) |-> Body(base, seq, h, s)]
    <3> DEFINE Dom == SUBSET (1 .. k + 1)
    <3>1. h = [s \in Dom |-> h[s]]
      OBVIOUS
    <3> HIDE DEF h
    <3> QED
      BY <2>1, <3>1
  <2>3. Upto(k + 1, h)
    BY <2>2
  <2>4. \E f : Upto(k + 1, f)
    <3> HIDE DEF Upto, h
    <3> QED
      BY <2>3
  <2> QED
    BY <2>4
<1> QED
  <2>1. T \in SUBSET Nat /\ \A k \in T : k + 1 \in T
    BY <1>2
  <2> HIDE DEF T
  <2>2. T = Nat
    BY <1>1, <2>1, SetInduction
  <2> QED
    BY <2>2 DEF T

-----------------------------------------------------------------------------
(* The laws *)

\* h: the states of a run of op over the n elements of seq, from base.
IsRun(h, base, n, seq) ==
  h[0] = base /\ \A i \in 1 .. n : h[i] = op(h[i - 1], seq[i])

(* A fold is the last state of a run of op over the sequence, from base. *)
LEMMA FoldTrace ==
  ASSUME NEW base, NEW n \in Nat, NEW seq, DOMAIN seq = 1 .. n
  PROVE  \E h : IsRun(h, base, n, seq) /\ FoldLeft(op, base, seq) = h[n]
<1> DEFINE Iter(g) == g = [s \in SUBSET (1 .. n) |-> Body(base, seq, g, s)]
           iter == CHOOSE g : Iter(g)
           h == [i \in 0 .. n |-> iter[1 .. i]]
<1>1. Iter(iter)
  <2>1. \E g : Iter(g)
    BY FoldDefined
  <2> HIDE DEF Iter
  <2> QED
    BY <2>1
<1>2. FoldLeft(op, base, seq) = iter[1 .. n]
  BY DEF FoldLeft, MapThenFoldSet, Body
<1> HIDE DEF iter
<1>3. h[0] = base
  <2>1. 1 .. 0 = {} /\ {} \in SUBSET (1 .. n)
    OBVIOUS
  <2> QED
    BY <1>1, <2>1 DEF Body
<1>4. ASSUME NEW i \in 1 .. n PROVE h[i] = op(h[i - 1], seq[i])
  <2>1. Max(1 .. i) = i /\ (1 .. i) \ {i} = 1 .. (i - 1)
    BY MaxOfInterval
  <2>2. 1 .. i \in SUBSET (1 .. n) /\ 1 .. i # {}
    OBVIOUS
  <2>3. iter[1 .. i] = op(iter[1 .. (i - 1)], seq[i])
    BY <1>1, <2>1, <2>2 DEF Body
  <2> QED
    BY <2>3
<1>5. h[n] = iter[1 .. n]
  OBVIOUS
<1> HIDE DEF h
<1> QED
  BY <1>2, <1>3, <1>4, <1>5 DEF IsRun

(* The loop over nothing. *)
LEMMA FoldEmpty ==
  ASSUME NEW base
  PROVE  FoldLeft(op, base, <<>>) = base
<1>1. DOMAIN <<>> = 1 .. 0 /\ 0 \in Nat
  OBVIOUS
<1>2. PICK h : IsRun(h, base, 0, <<>>) /\ FoldLeft(op, base, <<>>) = h[0]
  BY <1>1, FoldTrace
<1> QED
  BY <1>2 DEF IsRun

(* The loop over one element. *)
LEMMA FoldOne ==
  ASSUME NEW base, NEW e
  PROVE  FoldLeft(op, base, <<e>>) = op(base, e)
<1>1. DOMAIN <<e>> = 1 .. 1 /\ 1 \in Nat /\ <<e>>[1] = e
  OBVIOUS
<1>2. PICK h : IsRun(h, base, 1, <<e>>) /\ FoldLeft(op, base, <<e>>) = h[1]
  BY <1>1, FoldTrace
<1>3. h[1] = op(h[1 - 1], <<e>>[1]) /\ 1 - 1 = 0 /\ h[0] = base
  BY <1>2 DEF IsRun
<1> QED
  BY <1>1, <1>2, <1>3

(* The loop over two elements. *)
LEMMA FoldTwo ==
  ASSUME NEW base, NEW seq, DOMAIN seq = 1 .. 2
  PROVE  FoldLeft(op, base, seq) = op(op(base, seq[1]), seq[2])
<1>0. PICK n \in Nat : n = 2 /\ DOMAIN seq = 1 .. n
  OBVIOUS
<1>1. PICK h : IsRun(h, base, n, seq) /\ FoldLeft(op, base, seq) = h[n]
  <2>1. \A k \in Nat : DOMAIN seq = 1 .. k =>
          \E h : IsRun(h, base, k, seq) /\ FoldLeft(op, base, seq) = h[k]
    BY FoldTrace
  <2> QED
    BY <1>0, <2>1
<1>2. /\ h[1] = op(h[1 - 1], seq[1]) /\ 1 - 1 = 0 /\ h[0] = base
      /\ h[2] = op(h[2 - 1], seq[2]) /\ 2 - 1 = 1
  BY <1>0, <1>1 DEF IsRun
<1> QED
  BY <1>0, <1>1, <1>2

(* A set of states that has the first one and is closed under the loop's body,
   for the elements of the sequence, has the last one. *)
LEMMA FoldKeeps ==
  ASSUME NEW S, NEW base \in S, NEW n \in Nat, NEW seq, DOMAIN seq = 1 .. n,
         \A a \in S, i \in 1 .. n : op(a, seq[i]) \in S
  PROVE  FoldLeft(op, base, seq) \in S
<1> PICK h : IsRun(h, base, n, seq) /\ FoldLeft(op, base, seq) = h[n]
  BY FoldTrace
<1>0. h[0] = base /\ \A i \in 1 .. n : h[i] = op(h[i - 1], seq[i])
  BY DEF IsRun
<1> DEFINE T == {i \in Nat : i <= n => h[i] \in S}
<1>1. 0 \in T
  BY <1>0
<1>2. ASSUME NEW i \in T PROVE i + 1 \in T
  <2>1. CASE i + 1 <= n
    <3>1. i + 1 \in 1 .. n /\ (i + 1) - 1 = i /\ h[i] \in S
      BY <2>1
    <3>2. h[i + 1] = op(h[i], seq[i + 1])
      BY <1>0, <3>1
    <3> QED
      BY <3>1, <3>2
  <2> QED
    BY <2>1
<1>3. T = Nat
  <2>1. T \in SUBSET Nat
    OBVIOUS
  <2> HIDE DEF T
  <2> QED
    BY <1>1, <1>2, <2>1, SetInduction
<1> QED
  BY <1>3

(* The loop over two sequences, one after the other. *)
LEMMA FoldConcat ==
  ASSUME NEW E, NEW base, NEW s \in Seq(E), NEW t \in Seq(E)
  PROVE  FoldLeft(op, base, s \o t) = FoldLeft(op, FoldLeft(op, base, s), t)
<1> DEFINE m == Len(s)
           n == Len(t)
           st == s \o t
<1>0. /\ m \in Nat /\ DOMAIN s = 1 .. m
      /\ n \in Nat /\ DOMAIN t = 1 .. n
      /\ m + n \in Nat /\ DOMAIN st = 1 .. (m + n)
      /\ \A i \in 1 .. m : st[i] = s[i]
      /\ \A i \in 1 .. n : st[m + i] = t[i]
  OBVIOUS
<1> HIDE DEF m, n, st
<1>h. PICK h : /\ IsRun(h, base, m + n, st)
               /\ FoldLeft(op, base, st) = h[m + n]
  BY <1>0, FoldTrace
<1>f. PICK f : IsRun(f, base, m, s) /\ FoldLeft(op, base, s) = f[m]
  <2>1. m \in Nat /\ DOMAIN s = 1 .. m
    BY <1>0
  <2> QED
    BY <2>1, FoldTrace
<1>g. PICK g : IsRun(g, f[m], n, t) /\ FoldLeft(op, f[m], t) = g[n]
  <2>1. n \in Nat /\ DOMAIN t = 1 .. n
    BY <1>0
  <2> QED
    BY <2>1, FoldTrace
<1>1. h[m] = f[m]
  <2> DEFINE T == {i \in Nat : i <= m => h[i] = f[i]}
  <2>1. 0 \in T
    BY <1>h, <1>f DEF IsRun
  <2>2. ASSUME NEW i \in T PROVE i + 1 \in T
    <3>1. CASE i + 1 <= m
      <4>1. /\ i + 1 \in 1 .. m /\ i + 1 \in 1 .. m + n /\ (i + 1) - 1 = i
            /\ h[i] = f[i]
        BY <1>0, <3>1
      <4>2. h[i + 1] = op(h[i], s[i + 1]) /\ f[i + 1] = op(f[i], s[i + 1])
        BY <1>0, <1>h, <1>f, <4>1 DEF IsRun
      <4> QED
        BY <4>1, <4>2
    <3> QED
      BY <3>1
  <2>3. T = Nat
    <3>1. T \in SUBSET Nat
      OBVIOUS
    <3> HIDE DEF T
    <3> QED
      BY <2>1, <2>2, <3>1, SetInduction
  <2> QED
    BY <1>0, <2>3
<1>2. h[m + n] = g[n]
  <2> DEFINE T == {i \in Nat : i <= n => h[m + i] = g[i]}
  <2>1. 0 \in T
    BY <1>0, <1>1, <1>g DEF IsRun
  <2>2. ASSUME NEW i \in T PROVE i + 1 \in T
    <3>1. CASE i + 1 <= n
      <4> DEFINE j == m + (i + 1)
      <4>1. /\ i + 1 \in 1 .. n /\ j \in 1 .. m + n
            /\ (i + 1) - 1 = i /\ j - 1 = m + i /\ h[m + i] = g[i]
        BY <1>0, <3>1
      <4>2. st[j] = t[i + 1]
        BY <1>0, <4>1
      <4>3. g[i + 1] = op(g[i], t[i + 1])
        BY <1>g, <4>1 DEF IsRun
      <4> HIDE DEF j
      <4>4. h[j] = op(h[j - 1], st[j])
        BY <1>h, <4>1 DEF IsRun
      <4>5. h[j] = g[i + 1]
        BY <4>1, <4>2, <4>3, <4>4
      <4> QED
        BY <4>5 DEF j
    <3> QED
      BY <3>1
  <2>3. T = Nat
    <3>1. T \in SUBSET Nat
      OBVIOUS
    <3> HIDE DEF T
    <3> QED
      BY <2>1, <2>2, <3>1, SetInduction
  <2> QED
    BY <1>0, <2>3
<1> QED
  BY <1>h, <1>f, <1>g, <1>2 DEF st
=============================================================================
