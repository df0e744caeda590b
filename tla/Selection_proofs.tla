--------------------------- MODULE Selection_proofs ---------------------------
(* What proofs about sequences keep needing: induction over the natural       *)
(* numbers as a fact about sets (a set with 0 that is closed under successor   *)
(* has every number), from the library's theorem on minimal elements; that a   *)
(* recursion over 0..n has a function that runs through it; and from the two   *)
(* what `selected' returns.                                                    *)
EXTENDS Selection, SequencesExt, SequenceTheorems, FiniteSetTheorems, WellFoundedInduction, TLAPS

\* The order of the natural numbers as a set of pairs.
LEMMA LessThan == OpToRel(<, Nat) = {p \in Nat \X Nat : p[1] < p[2]}
BY Zenon DEF OpToRel

\* A set of natural numbers that is not empty has a least one.
LEMMA LeastNat ==
    ASSUME NEW T, T \subseteq Nat, T # {}
    PROVE  \E x \in T : \A y \in T : x <= y
<1> DEFINE R == {p \in Nat \X Nat : p[1] < p[2]}
<1>1. IsWellFoundedOn(R, Nat)
  BY LessThan, NatLessThanWellFounded, Zenon
<1>2. PICK x \in T : \A y \in T : ~(<<y, x>> \in R)
  <2> HIDE DEF R
  <2> QED BY <1>1, WFMin
<1>3. ASSUME NEW y \in T PROVE x <= y
  <2>1. <<y, x>> \in Nat \X Nat
    OBVIOUS
  <2>2. ~(y < x)
    BY <1>2, <2>1
  <2> QED BY <2>2
<1>4. QED BY <1>3

\* Mathematical induction, over a set instead of a predicate.
LEMMA Induction ==
    ASSUME NEW S, 0 \in S, \A n \in Nat : n \in S => n + 1 \in S
    PROVE  Nat \subseteq S
<1> SUFFICES ASSUME Nat \ S # {} PROVE FALSE
  OBVIOUS
<1>1. PICK x \in Nat \ S : \A y \in Nat \ S : x <= y
  BY LeastNat
<1>2. x - 1 \in Nat /\ ~(x <= x - 1) /\ x = (x - 1) + 1
  OBVIOUS
<1>3. x - 1 \in S
  BY <1>1, <1>2
<1> QED BY <1>2, <1>3

\* The same over the numbers up to n.
LEMMA InductionUpTo ==
    ASSUME NEW n \in Nat, NEW S, 0 \in S, \A i \in 1..n : i - 1 \in S => i \in S
    PROVE  0..n \subseteq S
<1> DEFINE T == {i \in Nat : i <= n => i \in S}
<1>1. 0 \in T
  OBVIOUS
<1>2. ASSUME NEW i \in Nat, i \in T PROVE i + 1 \in T
  <2> SUFFICES ASSUME i + 1 <= n PROVE i + 1 \in S
    OBVIOUS
  <2>1. i + 1 \in 1..n /\ i \in S /\ (i + 1) - 1 = i
    BY <1>2
  <2> QED BY <2>1
<1>3. Nat \subseteq T
  <2> HIDE DEF T
  <2> QED BY <1>1, <1>2, Induction
<1> QED BY <1>3

\* The values a recursion goes through that starts with base and takes n steps.
Runs(n, D, base, step) ==
    {f \in [0..n -> D] : f[0] = base /\ \A i \in 1..n : f[i] = step[<<i, f[i - 1]>>]}

\* A run of m steps can take one more.
LEMMA RunExtends ==
    ASSUME NEW n \in Nat, NEW D, NEW base \in D, NEW step \in [(1..n) \X D -> D],
           NEW m \in Nat, m + 1 <= n, NEW f \in Runs(m, D, base, step)
    PROVE  Runs(m + 1, D, base, step) # {}
<1>f. /\ f \in [0..m -> D] /\ f[0] = base
      /\ \A i \in 1..m : f[i] = step[<<i, f[i - 1]>>]
  BY DEF Runs
<1> DEFINE last == step[<<m + 1, f[m]>>]
           g == [i \in 0..(m + 1) |-> IF i = m + 1 THEN last ELSE f[i]]
<1>1. f[m] \in D /\ m + 1 \in 1..n
  BY <1>f
<1>2. last \in D
  <2>1. <<m + 1, f[m]>> \in (1..n) \X D
    BY <1>1
  <2> QED BY <2>1
<1> HIDE DEF last
<1>3. g \in [0..(m + 1) -> D]
  BY <1>2, <1>f
<1>4. g[0] = base
  BY <1>f
<1>5. ASSUME NEW i \in 1..(m + 1) PROVE g[i] = step[<<i, g[i - 1]>>]
  <2>1. i - 1 \in 0..m /\ i - 1 \in 0..(m + 1) /\ i - 1 # m + 1
    OBVIOUS
  <2>2. g[i - 1] = f[i - 1]
    BY <2>1
  <2>3. CASE i = m + 1
    <3>1. g[i] = last /\ i - 1 = m
      BY <2>3
    <3> QED BY <2>2, <2>3, <3>1 DEF last
  <2>4. CASE i # m + 1
    <3>1. i \in 1..m /\ g[i] = f[i]
      BY <2>4
    <3> HIDE DEF g
    <3> QED BY <3>1, <2>2, <1>f
  <2> QED BY <2>3, <2>4
<1> HIDE DEF g
<1>6. g \in Runs(m + 1, D, base, step)
  BY <1>3, <1>4, <1>5 DEF Runs
<1> QED BY <1>6

\* There is a run of any length.
LEMMA Recursion ==
    ASSUME NEW n \in Nat, NEW D, NEW base \in D, NEW step \in [(1..n) \X D -> D]
    PROVE  Runs(n, D, base, step) # {}
<1> DEFINE S == {m \in Nat : m <= n => Runs(m, D, base, step) # {}}
<1>1. 0 \in S
  <2> DEFINE f == [i \in 0..0 |-> base]
  <2>1. f \in [0..0 -> D] /\ f[0] = base /\ 1..0 = {}
    OBVIOUS
  <2> HIDE DEF f
  <2>2. f \in Runs(0, D, base, step)
    BY <2>1 DEF Runs
  <2> QED BY <2>2
<1>2. ASSUME NEW m \in Nat, m \in S PROVE m + 1 \in S
  <2> SUFFICES ASSUME m + 1 <= n PROVE Runs(m + 1, D, base, step) # {}
    OBVIOUS
  <2>1. PICK f \in Runs(m, D, base, step) : TRUE
    BY <1>2
  <2> HIDE DEF S
  <2> QED BY <1>2, RunExtends
<1>3. Nat \subseteq S
  <2> HIDE DEF S
  <2> QED BY <1>1, <1>2, Induction
<1> QED BY <1>3

\* What is kept of each prefix.
Selects(f, s, X) ==
    /\ f[0] = << >>
    /\ \A i \in 1..Len(s) : f[i] = IF s[i] \in X THEN Append(f[i - 1], s[i]) ELSE f[i - 1]

\* The last of these is the selection.
LEMMA SelectedChain ==
    ASSUME NEW S, NEW s \in Seq(S), NEW X
    PROVE  \E f \in [0..Len(s) -> Seq(S)] : Selects(f, s, X) /\ selected(s, X) = f[Len(s)]
<1> DEFINE n == Len(s)
           D == Seq(S)
           step == [p \in (1..n) \X D |->
                       IF s[p[1]] \in X THEN Append(p[2], s[p[1]]) ELSE p[2]]
<1>1. step \in [(1..n) \X D -> D]
  <2> SUFFICES ASSUME NEW p \in (1..n) \X D
               PROVE  (IF s[p[1]] \in X THEN Append(p[2], s[p[1]]) ELSE p[2]) \in D
    OBVIOUS
  <2>1. s[p[1]] \in S /\ p[2] \in Seq(S)
    OBVIOUS
  <2> QED BY <2>1, AppendProperties
<1>2. n \in Nat /\ << >> \in D
  OBVIOUS
<1>3. PICK f \in Runs(n, D, << >>, step) : TRUE
  <2> HIDE DEF D, step, n
  <2> QED BY <1>1, <1>2, Recursion
<1>4. /\ f \in [0..n -> D] /\ f[0] = << >>
      /\ \A i \in 1..n : f[i] = step[<<i, f[i - 1]>>]
  <2> HIDE DEF D, step, n
  <2> QED BY DEF Runs
<1>5. \A i \in 1..n : f[i] = IF s[i] \in X THEN Append(f[i - 1], s[i]) ELSE f[i - 1]
  <2> TAKE i \in 1..n
  <2>1. i - 1 \in 0..n
    OBVIOUS
  <2>2. f[i - 1] \in D
    BY <1>4, <2>1
  <2>3. <<i, f[i - 1]>> \in (1..n) \X D
    BY <2>2
  <2> HIDE DEF D, n
  <2> QED BY <1>4, <2>3
<1>6. f = [i \in 0..n |->
              IF i = 0 THEN << >>
              ELSE IF s[i] \in X THEN Append(f[i - 1], s[i]) ELSE f[i - 1]]
  <2> HIDE DEF D, step, n
  <2>1. ASSUME NEW i \in 0..n
        PROVE  f[i] = IF i = 0 THEN << >>
                      ELSE IF s[i] \in X THEN Append(f[i - 1], s[i]) ELSE f[i - 1]
    <3>1. i = 0 \/ i \in 1..n
      BY <1>2
    <3> QED BY <1>4, <1>5, <3>1
  <2> QED BY <1>4, <2>1
<1> DEFINE kept == CHOOSE h : h = [i \in 0..n |->
              IF i = 0 THEN << >>
              ELSE IF s[i] \in X THEN Append(h[i - 1], s[i]) ELSE h[i - 1]]
<1>7. kept = [i \in 0..n |->
              IF i = 0 THEN << >>
              ELSE IF s[i] \in X THEN Append(kept[i - 1], s[i]) ELSE kept[i - 1]]
  <2> HIDE DEF D, n
  <2> QED BY <1>6
<1>8. selected(s, X) = kept[n]
  BY DEF selected
<1> HIDE DEF kept
<1>9. kept[0] = << >>
  BY <1>2, <1>7
<1>10. \A i \in 1..n :
           kept[i] = IF s[i] \in X THEN Append(kept[i - 1], s[i]) ELSE kept[i - 1]
  <2> TAKE i \in 1..n
  <2>1. i \in 0..n /\ i # 0
    OBVIOUS
  <2> QED BY <1>7, <2>1
<1>11. kept \in [0..n -> D]
  <2> DEFINE G == {i \in 0..n : kept[i] \in D}
  <2>1. 0 \in G
    <3> HIDE DEF D, n
    <3> QED BY <1>2, <1>9
  <2>2. ASSUME NEW i \in 1..n, i - 1 \in G PROVE i \in G
    <3>1. s[i] \in S /\ kept[i - 1] \in Seq(S)
      BY <2>2
    <3>2. kept[i] \in D
      <4> HIDE DEF n
      <4>1. Append(kept[i - 1], s[i]) \in Seq(S)
        BY <3>1, AppendProperties
      <4> QED BY <1>10, <3>1, <4>1
    <3> QED BY <3>2
  <2>3. 0..n \subseteq G
    <3> HIDE DEF G, n
    <3> QED BY <1>2, <2>1, <2>2, InductionUpTo
  <2>4. \A i \in 0..n : kept[i] \in D
    BY <2>3
  <2>5. kept = [i \in 0..n |-> kept[i]]
    BY <1>7
  <2> HIDE DEF D, n
  <2> QED BY <2>4, <2>5
<1>12. Selects(kept, s, X)
  BY <1>9, <1>10 DEF Selects
<1>13. kept \in [0..Len(s) -> Seq(S)] /\ selected(s, X) = kept[Len(s)]
  BY <1>8, <1>11
<1> HIDE DEF D, n
<1> QED BY <1>12, <1>13

\* Where the elements t selected from the first n of s stand: at strictly increasing
\* places, which are all the places of elements of X.
StandAt(s, n, X, t) ==
    {p \in [1..Len(t) -> {i \in 1..n : s[i] \in X}] :
        /\ \A k \in 1..Len(t) : t[k] = s[p[k]]
        /\ \A k, l \in 1..Len(t) : k < l => p[k] < p[l]
        /\ \A i \in 1..n : s[i] \in X => \E k \in 1..Len(t) : p[k] = i}

\* An element that is not in X moves no place.
LEMMA StandAtSkip ==
    ASSUME NEW s, NEW X, NEW n \in Nat, NEW t, s[n + 1] \notin X,
           StandAt(s, n, X, t) # {}
    PROVE  StandAt(s, n + 1, X, t) # {}
<1>1. {i \in 1..(n + 1) : s[i] \in X} = {i \in 1..n : s[i] \in X}
  <2>1. 1..(n + 1) = (1..n) \cup {n + 1}
    OBVIOUS
  <2> QED BY <2>1
<1>2. \A i \in 1..(n + 1) : s[i] \in X => i \in 1..n
  OBVIOUS
<1> QED BY <1>1, <1>2 DEF StandAt

\* An element of X stands behind all the places so far.
LEMMA StandAtKeep ==
    ASSUME NEW S, NEW X, NEW s \in Seq(S), NEW n \in Nat, n + 1 <= Len(s),
           NEW t \in Seq(S), s[n + 1] \in X,
           StandAt(s, n, X, t) # {}
    PROVE  StandAt(s, n + 1, X, Append(t, s[n + 1])) # {}
<1> DEFINE u == Append(t, s[n + 1])
<1>1. PICK p \in StandAt(s, n, X, t) : TRUE
  OBVIOUS
<1>p. /\ p \in [1..Len(t) -> {i \in 1..n : s[i] \in X}]
      /\ \A k \in 1..Len(t) : t[k] = s[p[k]]
      /\ \A k, l \in 1..Len(t) : k < l => p[k] < p[l]
      /\ \A i \in 1..n : s[i] \in X => \E k \in 1..Len(t) : p[k] = i
  BY <1>1 DEF StandAt
<1> DEFINE m == Len(t)
<1>2. /\ m \in Nat /\ Len(u) = m + 1 /\ u[m + 1] = s[n + 1]
      /\ \A k \in 1..m : u[k] = t[k]
  <2>1. s[n + 1] \in S
    OBVIOUS
  <2> QED BY <2>1, AppendProperties
<1> HIDE DEF u, m
<1> DEFINE q == [k \in 1..(m + 1) |-> IF k = m + 1 THEN n + 1 ELSE p[k]]
<1>3. \A k \in 1..m : p[k] \in 1..n /\ s[p[k]] \in X
  BY <1>p DEF m
<1>4. q \in [1..Len(u) -> {i \in 1..(n + 1) : s[i] \in X}]
  <2> SUFFICES ASSUME NEW k \in 1..(m + 1)
               PROVE  q[k] \in 1..(n + 1) /\ s[q[k]] \in X
    BY <1>2
  <2>1. CASE k = m + 1
    BY <2>1
  <2>2. CASE k # m + 1
    <3>1. k \in 1..m
      BY <1>2, <2>2
    <3> QED BY <1>3, <2>2, <3>1
  <2> QED BY <2>1, <2>2
<1>5. \A k \in 1..Len(u) : u[k] = s[q[k]]
  <2> SUFFICES ASSUME NEW k \in 1..(m + 1) PROVE u[k] = s[q[k]]
    BY <1>2
  <2>1. CASE k = m + 1
    BY <2>1, <1>2
  <2>2. CASE k # m + 1
    <3>1. k \in 1..m
      BY <1>2, <2>2
    <3> QED BY <1>p, <1>2, <2>2, <3>1 DEF m
  <2> QED BY <2>1, <2>2
<1>6. \A k, l \in 1..Len(u) : k < l => q[k] < q[l]
  <2> SUFFICES ASSUME NEW k \in 1..(m + 1), NEW l \in 1..(m + 1), k < l PROVE q[k] < q[l]
    BY <1>2
  <2>1. k \in 1..m /\ q[k] = p[k]
    BY <1>2
  <2>2. CASE l = m + 1
    BY <1>3, <2>1, <2>2
  <2>3. CASE l # m + 1
    <3>1. l \in 1..m /\ q[l] = p[l]
      BY <1>2, <2>3
    <3> QED BY <1>p, <2>1, <3>1 DEF m
  <2> QED BY <2>2, <2>3
<1>7. \A i \in 1..(n + 1) : s[i] \in X => \E k \in 1..Len(u) : q[k] = i
  <2> SUFFICES ASSUME NEW i \in 1..(n + 1), s[i] \in X PROVE \E k \in 1..(m + 1) : q[k] = i
    BY <1>2
  <2>1. CASE i = n + 1
    <3>1. q[m + 1] = i /\ m + 1 \in 1..(m + 1)
      BY <1>2, <2>1
    <3> QED BY <3>1
  <2>2. CASE i # n + 1
    <3>1. PICK k \in 1..m : p[k] = i
      BY <1>p, <2>2 DEF m
    <3>2. k \in 1..(m + 1) /\ q[k] = i
      BY <1>2, <3>1
    <3> QED BY <3>2
  <2> QED BY <2>1, <2>2
<1> HIDE DEF q
<1>8. q \in StandAt(s, n + 1, X, u)
  BY <1>4, <1>5, <1>6, <1>7 DEF StandAt
<1> QED BY <1>8 DEF u

\* A selection is a sequence over the same set, and its elements stand at increasing
\* places of the sequence selected from, which are all the places of elements of X.
LEMMA SelectedStandAt ==
    ASSUME NEW S, NEW s \in Seq(S), NEW X
    PROVE  /\ selected(s, X) \in Seq(S)
           /\ StandAt(s, Len(s), X, selected(s, X)) # {}
<1>0. PICK f \in [0..Len(s) -> Seq(S)] : Selects(f, s, X) /\ selected(s, X) = f[Len(s)]
  BY SelectedChain
<1>1. /\ selected(s, X) = f[Len(s)]
      /\ f[0] = << >>
      /\ \A i \in 1..Len(s) :
            f[i] = IF s[i] \in X THEN Append(f[i - 1], s[i]) ELSE f[i - 1]
  BY <1>0 DEF Selects
<1> DEFINE n == Len(s)
           G == {i \in 0..n : StandAt(s, i, X, f[i]) # {}}
<1>2. n \in Nat
  OBVIOUS
<1> HIDE DEF n
<1>3. StandAt(s, 0, X, f[0]) # {}
  <2> DEFINE p == [k \in 1..0 |-> 0]
  <2>1. p \in StandAt(s, 0, X, << >>)
    BY DEF StandAt
  <2> HIDE DEF p
  <2> QED BY <1>1, <2>1
<1>4. ASSUME NEW i \in 1..n, StandAt(s, i - 1, X, f[i - 1]) # {}
      PROVE  StandAt(s, i, X, f[i]) # {}
  <2> HIDE DEF G
  <2> DEFINE m == i - 1
             t == f[m]
  <2>1. m \in Nat /\ m + 1 = i /\ m + 1 <= Len(s) /\ t \in Seq(S)
    BY <1>1, <1>2 DEF n
  <2>2. StandAt(s, m, X, t) # {}
    BY <1>4
  <2>3. f[m + 1] = IF s[m + 1] \in X THEN Append(t, s[m + 1]) ELSE t
    BY <1>1, <2>1 DEF n
  <2> HIDE DEF m, t
  <2>4. StandAt(s, m + 1, X, f[m + 1]) # {}
    <3>1. CASE s[m + 1] \in X
      BY <2>1, <2>2, <2>3, <3>1, StandAtKeep
    <3>2. CASE s[m + 1] \notin X
      BY <2>1, <2>2, <2>3, <3>2, StandAtSkip
    <3> QED BY <3>1, <3>2
  <2> QED BY <2>1, <2>4
<1>5. n \in G
  <2>1. 0 \in G
    BY <1>2, <1>3
  <2>2. ASSUME NEW i \in 1..n, i - 1 \in G PROVE i \in G
    <3>1. StandAt(s, i - 1, X, f[i - 1]) # {} /\ i \in 0..n
      BY <1>2, <2>2
    <3> QED BY <1>4, <3>1
  <2> HIDE DEF G
  <2>3. 0..n \subseteq G
    BY <1>2, <2>1, <2>2, InductionUpTo
  <2> QED BY <1>2, <2>3
<1> QED BY <1>1, <1>5 DEF n

\* Every element selected is an element of the sequence and of X, and none of these is left.
LEMMA SelectedRange ==
    ASSUME NEW S, NEW s \in Seq(S), NEW X
    PROVE  /\ selected(s, X) \in Seq(S)
           /\ \A k \in 1..Len(selected(s, X)) :
                 selected(s, X)[k] \in X /\ \E i \in 1..Len(s) : s[i] = selected(s, X)[k]
           /\ \A i \in 1..Len(s) :
                 s[i] \in X => \E k \in 1..Len(selected(s, X)) : selected(s, X)[k] = s[i]
<1> DEFINE t == selected(s, X)
<1>1. PICK p : p \in StandAt(s, Len(s), X, t)
  BY SelectedStandAt
<1>2. t \in Seq(S)
  BY SelectedStandAt
<1> HIDE DEF t
<1>3. /\ \A k \in 1..Len(t) : p[k] \in 1..Len(s) /\ s[p[k]] \in X /\ t[k] = s[p[k]]
      /\ \A i \in 1..Len(s) : s[i] \in X => \E k \in 1..Len(t) : p[k] = i
  BY <1>1 DEF StandAt
<1>4. \A k \in 1..Len(t) : t[k] \in X /\ \E i \in 1..Len(s) : s[i] = t[k]
  BY <1>3
<1>5. \A i \in 1..Len(s) : s[i] \in X => \E k \in 1..Len(t) : t[k] = s[i]
  BY <1>3
<1> QED BY <1>2, <1>4, <1>5 DEF t

\* A selection repeats nothing its sequence does not repeat.
LEMMA SelectedInjective ==
    ASSUME NEW S, NEW s \in Seq(S), NEW X, IsInjective(s)
    PROVE  IsInjective(selected(s, X))
<1> DEFINE t == selected(s, X)
<1>1. PICK p : p \in StandAt(s, Len(s), X, t)
  BY SelectedStandAt
<1>p. /\ p \in [1..Len(t) -> {i \in 1..Len(s) : s[i] \in X}]
      /\ \A k \in 1..Len(t) : t[k] = s[p[k]]
      /\ \A k, l \in 1..Len(t) : k < l => p[k] < p[l]
  BY <1>1 DEF StandAt
<1>2. t \in Seq(S)
  BY SelectedStandAt
<1> HIDE DEF t
<1>3. ASSUME NEW k \in 1..Len(t), NEW l \in 1..Len(t), t[k] = t[l], k < l PROVE FALSE
  <2>1. p[k] \in 1..Len(s) /\ p[l] \in 1..Len(s) /\ s[p[k]] = s[p[l]]
    BY <1>p, <1>3
  <2>2. p[k] = p[l]
    BY <2>1 DEF IsInjective
  <2>3. p[k] < p[l]
    BY <1>p, <1>3
  <2> QED BY <2>1, <2>2, <2>3
<1>4. ASSUME NEW k \in 1..Len(t), NEW l \in 1..Len(t), t[k] = t[l] PROVE k = l
  <2>1. Len(t) \in Nat
    BY <1>2
  <2>2. ~(k < l) /\ ~(l < k)
    BY <1>3, <1>4
  <2> QED BY <2>1, <2>2
<1>5. DOMAIN t = 1..Len(t)
  BY <1>2
<1> QED BY <1>4, <1>5 DEF IsInjective, t

\* The elements of a sequence.
LEMMA ElementsOf ==
    ASSUME NEW S, NEW s \in Seq(S)
    PROVE  ToSet(s) = {s[i] : i \in 1..Len(s)} /\ ToSet(s) \subseteq S
BY DEF ToSet

\* A sequence that repeats nothing has as many elements as it is long.
LEMMA InjectiveLength ==
    ASSUME NEW S, NEW s \in Seq(S), IsInjective(s)
    PROVE  Cardinality(ToSet(s)) = Len(s)
<1> DEFINE T == {s[i] : i \in 1..Len(s)}
<1>1. Len(s) \in Nat /\ s \in [1..Len(s) -> T] /\ DOMAIN s = 1..Len(s)
  OBVIOUS
<1>2. s \in Bijection(1..Len(s), T)
  BY <1>1 DEF Bijection, Injection, Surjection, IsInjective
<1>3. ExistsBijection(1..Len(s), T)
  BY <1>2 DEF ExistsBijection
<1>4. IsFiniteSet(1..Len(s)) /\ Cardinality(1..Len(s)) = Len(s)
  BY <1>1, FS_Interval
<1> HIDE DEF T
<1>5. Cardinality(T) = Cardinality(1..Len(s))
  BY <1>3, <1>4, FS_Bijection
<1>6. ToSet(s) = T
  BY ElementsOf DEF T
<1> QED BY <1>4, <1>5, <1>6

\* Two lists with no element in common, neither of which repeats one.
LEMMA ConcatInjective ==
    ASSUME NEW S, NEW s \in Seq(S), NEW t \in Seq(S),
           IsInjective(s), IsInjective(t), ToSet(s) \cap ToSet(t) = {}
    PROVE  /\ s \o t \in Seq(S)
           /\ ToSet(s \o t) = ToSet(s) \cup ToSet(t)
           /\ IsInjective(s \o t)
<1> DEFINE u == s \o t
<1>1. /\ u \in Seq(S) /\ Len(u) = Len(s) + Len(t)
      /\ \A i \in 1..Len(u) : u[i] = IF i <= Len(s) THEN s[i] ELSE t[i - Len(s)]
  BY ConcatProperties
<1>2. ToSet(u) = {u[i] : i \in 1..Len(u)} /\ DOMAIN u = 1..Len(u)
  <2> HIDE DEF u
  <2> QED BY <1>1, ElementsOf
<1>3. ToSet(s) = {s[i] : i \in 1..Len(s)} /\ ToSet(t) = {t[i] : i \in 1..Len(t)}
  BY ElementsOf
<1> HIDE DEF u
<1>4. ToSet(u) = ToSet(s) \cup ToSet(t)
  <2>1. ASSUME NEW i \in 1..Len(u) PROVE u[i] \in ToSet(s) \cup ToSet(t)
    <3>1. CASE i <= Len(s)
      BY <1>1, <1>3, <3>1
    <3>2. CASE ~(i <= Len(s))
      <4>1. i - Len(s) \in 1..Len(t)
        BY <1>1, <3>2
      <4> QED BY <1>1, <1>3, <3>2, <4>1
    <3> QED BY <3>1, <3>2
  <2>2. ASSUME NEW i \in 1..Len(s) PROVE s[i] \in ToSet(u)
    <3>1. i \in 1..Len(u) /\ u[i] = s[i]
      BY <1>1
    <3> QED BY <1>2, <3>1
  <2>3. ASSUME NEW i \in 1..Len(t) PROVE t[i] \in ToSet(u)
    <3>1. Len(s) + i \in 1..Len(u) /\ ~(Len(s) + i <= Len(s)) /\ (Len(s) + i) - Len(s) = i
      BY <1>1
    <3>2. u[Len(s) + i] = t[i]
      BY <1>1, <3>1
    <3> QED BY <1>2, <3>1, <3>2
  <2> QED BY <1>2, <1>3, <2>1, <2>2, <2>3
<1>5. ASSUME NEW i \in 1..Len(u), NEW j \in 1..Len(u), u[i] = u[j] PROVE i = j
  <2>1. CASE i <= Len(s) /\ j <= Len(s)
    BY <1>1, <1>5, <2>1 DEF IsInjective
  <2>2. CASE ~(i <= Len(s)) /\ ~(j <= Len(s))
    <3>1. i - Len(s) \in 1..Len(t) /\ j - Len(s) \in 1..Len(t)
      BY <1>1, <2>2
    <3>2. t[i - Len(s)] = t[j - Len(s)]
      BY <1>1, <1>5, <2>2
    <3>3. i - Len(s) = j - Len(s)
      BY <3>1, <3>2 DEF IsInjective
    <3> QED BY <3>3
  <2>3. CASE i <= Len(s) /\ ~(j <= Len(s))
    <3>1. i \in 1..Len(s) /\ j - Len(s) \in 1..Len(t)
      BY <1>1, <2>3
    <3>2. s[i] = t[j - Len(s)]
      BY <1>1, <1>5, <2>3
    <3> QED BY <1>3, <3>1, <3>2
  <2>4. CASE ~(i <= Len(s)) /\ j <= Len(s)
    <3>1. j \in 1..Len(s) /\ i - Len(s) \in 1..Len(t)
      BY <1>1, <2>4
    <3>2. s[j] = t[i - Len(s)]
      BY <1>1, <1>5, <2>4
    <3> QED BY <1>3, <3>1, <3>2
  <2> QED BY <2>1, <2>2, <2>3, <2>4
<1> QED BY <1>1, <1>2, <1>4, <1>5 DEF IsInjective, u

\* What is selected are the elements that are in X.
LEMMA SelectedSet ==
    ASSUME NEW S, NEW s \in Seq(S), NEW X
    PROVE  /\ selected(s, X) \in Seq(S)
           /\ ToSet(selected(s, X)) = ToSet(s) \cap X
<1> DEFINE t == selected(s, X)
<1>1. /\ t \in Seq(S)
      /\ \A k \in 1..Len(t) : t[k] \in X /\ \E i \in 1..Len(s) : s[i] = t[k]
      /\ \A i \in 1..Len(s) : s[i] \in X => \E k \in 1..Len(t) : t[k] = s[i]
  BY SelectedRange
<1> HIDE DEF t
<1>2. /\ ToSet(t) = {t[k] : k \in 1..Len(t)}
      /\ ToSet(s) = {s[i] : i \in 1..Len(s)}
  BY <1>1, ElementsOf
<1>3. ToSet(t) = ToSet(s) \cap X
  BY <1>1, <1>2
<1> QED BY <1>1, <1>3 DEF t

=============================================================================
