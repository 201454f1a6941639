------------------------- MODULE BatchRounds_proofs -------------------------
(***************************************************************************)
(* Proofs about BatchRounds.  The first two parts are facts about the      *)
(* operators it is built from: what a round leaves in the queue, and sums  *)
(* of cells over sets of handles.  Both are recursive functions, so each   *)
(* fact is shown by looking at the least counterexample.                   *)
(***************************************************************************)
EXTENDS BatchRounds, FiniteSetTheorems, NaturalsInduction,
        WellFoundedInduction, TLAPS

-----------------------------------------------------------------------------
(* Least counterexamples.                                                  *)

LEMMA Minimal ==
  ASSUME NEW R, NEW S, NEW T, T \subseteq S, T # {}, IsWellFoundedOn(R, S)
  PROVE  \E x \in T : \A y \in T : ~ (<<y, x>> \in R)
  BY WFMin, Zenon

LEMMA Least ==
  ASSUME NEW T, T \subseteq Nat, T # {}
  PROVE  \E x \in T : \A y \in T : x <= y
<1>1. IsWellFoundedOn(OpToRel(<, Nat), Nat)
  BY NatLessThanWellFounded
<1>2. \A a, b \in Nat : a < b => <<a, b>> \in OpToRel(<, Nat)
  BY DEF OpToRel
<1>3. PICK x \in T : \A y \in T : ~ (<<y, x>> \in OpToRel(<, Nat))
  BY <1>1, Minimal, Zenon
<1>4. ASSUME NEW y \in T PROVE x <= y
  <2>1. x \in Nat /\ y \in Nat
    OBVIOUS
  <2>2. ~ (y < x)
    BY <2>1, <1>2, <1>3, Zenon
  <2>3. QED
    BY <2>1, <2>2
<1>5. QED
  BY <1>4

(* If some subset of a finite set is bad, one is that turns good whichever *)
(* of its elements is taken out.                                           *)
LEMMA MinimalSet ==
  ASSUME NEW M, IsFiniteSet(M), NEW Bad, Bad \subseteq SUBSET M, Bad # {}
  PROVE  \E s \in Bad : \A x \in s : s \ {x} \notin Bad
<1> DEFINE Sizes == {Cardinality(s) : s \in Bad}
<1>1. \A s \in Bad : IsFiniteSet(s) /\ Cardinality(s) \in Nat
  BY FS_Subset, FS_CardinalityType
<1>2. Sizes \subseteq Nat /\ Sizes # {}
  BY <1>1
<1> HIDE DEF Sizes
<1>3. PICK n \in Sizes : \A y \in Sizes : n <= y
  BY <1>2, Least
<1>4. PICK s \in Bad : n = Cardinality(s)
  BY <1>3 DEF Sizes
<1>5. ASSUME NEW x \in s, s \ {x} \in Bad PROVE FALSE
  <2>1. Cardinality(s \ {x}) = Cardinality(s) - 1
    BY <1>1, FS_RemoveElement
  <2>2. n <= Cardinality(s \ {x})
    BY <1>3, <1>5 DEF Sizes
  <2>3. QED
    BY <1>1, <1>4, <2>1, <2>2
<1>6. QED
  BY <1>5

-----------------------------------------------------------------------------
(* What a round leaves in the queue.                                       *)

Kept(q, gone, left, n) ==
  IF n = 0 THEN <<>>
  ELSE IF q[n] \in gone THEN left[n - 1]
  ELSE Append(left[n - 1], q[n])

LEMMA KeptExists ==
  ASSUME NEW S, NEW q \in Seq(S), NEW gone
  PROVE  \E f : f = [n \in 0..Len(q) |-> Kept(q, gone, f, n)]
<1> DEFINE Upto(m) == \E f \in [0..m -> Seq(S)] :
                        \A n \in 0..m : f[n] = Kept(q, gone, f, n)
           Bad == {m \in 0..Len(q) : ~Upto(m)}
<1>1. Upto(0)
  <2>1. WITNESS [n \in 0..0 |-> <<>>] \in [0..0 -> Seq(S)]
  <2>2. QED
    BY DEF Kept
<1>2. ASSUME NEW m \in 1..Len(q), Upto(m - 1) PROVE Upto(m)
  <2>1. PICK f \in [0..(m - 1) -> Seq(S)] :
               \A n \in 0..(m - 1) : f[n] = Kept(q, gone, f, n)
    BY <1>2
  <2> DEFINE g == [n \in 0..m |-> IF n = m THEN Kept(q, gone, f, m) ELSE f[n]]
  <2>2. q[m] \in S /\ m - 1 \in 0..(m - 1) /\ m # 0
    OBVIOUS
  <2>3. Kept(q, gone, f, m) \in Seq(S)
    BY <2>2 DEF Kept
  <2>4. g \in [0..m -> Seq(S)]
    BY <2>3
  <2>5. ASSUME NEW n \in 0..m PROVE g[n] = Kept(q, gone, g, n)
    <3>1. CASE n = m
      BY <3>1, <2>2 DEF Kept
    <3>2. CASE n # m
      <4>1. n \in 0..(m - 1) /\ (n # 0 => n - 1 \in 0..m /\ n - 1 # m)
        BY <3>2
      <4>2. QED
        BY <4>1, <2>1, <3>2 DEF Kept
    <3>3. QED
      BY <3>1, <3>2
  <2>6. QED
    BY <2>4, <2>5
<1> HIDE DEF Upto
<1>3. Bad = {}
  <2>1. SUFFICES ASSUME Bad # {} PROVE FALSE
    OBVIOUS
  <2>2. Bad \subseteq Nat
    OBVIOUS
  <2>3. PICK x \in Bad : \A y \in Bad : x <= y
    BY <2>1, <2>2, Least
  <2>4. x # 0 /\ x \in 0..Len(q) /\ ~Upto(x)
    BY <1>1
  <2>5. x - 1 \in 0..Len(q) /\ x \in 1..Len(q)
    BY <2>4
  <2>6. Upto(x - 1)
    BY <2>3, <2>5
  <2>7. QED
    BY <1>2, <2>4, <2>5, <2>6
<1>4. PICK f \in [0..Len(q) -> Seq(S)] :
             \A n \in 0..Len(q) : f[n] = Kept(q, gone, f, n)
  BY <1>3 DEF Upto
<1>5. f = [n \in 0..Len(q) |-> Kept(q, gone, f, n)]
  BY <1>4
<1>6. QED
  BY <1>5

Once(q) == \A i, j \in DOMAIN q : q[i] = q[j] => i = j

(* A seat put at the end of a queue is one more seat in it.                *)
LEMMA AppendIs ==
  ASSUME NEW q \in Seq(Members), NEW s \in Members
  PROVE  /\ Append(q, s) \in Seq(Members)
         /\ ToSet(Append(q, s)) = ToSet(q) \cup {s}
         /\ Once(q) /\ s \notin ToSet(q) => Once(Append(q, s))
<1> DEFINE r == Append(q, s)
<1>1. /\ r \in Seq(Members)
      /\ DOMAIN r = 1..(Len(q) + 1) /\ DOMAIN q = 1..Len(q) /\ Len(q) \in Nat
      /\ \A i \in 1..Len(q) : r[i] = q[i]
      /\ r[Len(q) + 1] = s
  OBVIOUS
<1>2. 1..(Len(q) + 1) = (1..Len(q)) \cup {Len(q) + 1}
  BY <1>1
<1> HIDE DEF r
<1>3. ToSet(r) = ToSet(q) \cup {s}
  BY <1>1, <1>2 DEF ToSet
<1>4. Once(q) /\ s \notin ToSet(q) => Once(r)
  BY <1>1, <1>2 DEF Once, ToSet
<1>5. QED
  BY <1>1, <1>3, <1>4 DEF r

(* Nobody else stays, nobody else goes, and nobody is doubled.             *)
LEMMA RemainingIs ==
  ASSUME queue \in Seq(Members), NEW gone
  PROVE  /\ Remaining(gone) \in Seq(Members)
         /\ ToSet(Remaining(gone)) = ToSet(queue) \ gone
         /\ Once(queue) => Once(Remaining(gone))
<1> DEFINE n0 == Len(queue)
           KeptOf(n) == {queue[i] : i \in 1..n} \ gone
<1>1. PICK f : /\ f = [n \in 0..n0 |-> Kept(queue, gone, f, n)]
               /\ Remaining(gone) = f[n0]
  <2>1. PICK f : f = [n \in 0..n0 |-> Kept(queue, gone, f, n)]
    BY KeptExists
  <2>2. QED
    BY <2>1 DEF Remaining, Kept
<1> DEFINE Good(n) == /\ f[n] \in Seq(Members)
                      /\ ToSet(f[n]) = KeptOf(n)
                      /\ Once(queue) => Once(f[n])
           Bad == {n \in 0..n0 : ~Good(n)}
<1>2. Good(0)
  <2>1. f[0] = <<>>
    BY <1>1 DEF Kept
  <2>2. QED
    BY <2>1 DEF ToSet, Once
<1>3. ASSUME NEW n \in 1..n0, Good(n - 1) PROVE Good(n)
  <2>1. queue[n] \in Members /\ n \in DOMAIN queue /\ n \in 0..n0 /\ n # 0
    OBVIOUS
  <2>2. f[n] = IF queue[n] \in gone THEN f[n - 1] ELSE Append(f[n - 1], queue[n])
    BY <1>1, <2>1 DEF Kept
  <2>3. 1..n = (1..(n - 1)) \cup {n}
    BY <2>1
  <2>4. {queue[i] : i \in 1..n} = {queue[i] : i \in 1..(n - 1)} \cup {queue[n]}
    BY <2>3
  <2>5. CASE queue[n] \in gone
    <3>1. f[n] = f[n - 1] /\ KeptOf(n) = KeptOf(n - 1)
      BY <2>2, <2>4, <2>5
    <3>2. QED
      BY <3>1, <1>3
  <2>6. CASE queue[n] \notin gone
    <3> DEFINE r == f[n - 1]
    <3>1. f[n] = Append(r, queue[n]) /\ r \in Seq(Members)
      BY <2>2, <2>6, <1>3
    <3> HIDE DEF r
    <3>2. f[n] \in Seq(Members) /\ ToSet(f[n]) = ToSet(r) \cup {queue[n]}
      BY <3>1, <2>1, AppendIs
    <3>3. ToSet(r) = KeptOf(n - 1) /\ (Once(queue) => Once(r))
      BY <1>3 DEF r
    <3>4. KeptOf(n) = KeptOf(n - 1) \cup {queue[n]}
      BY <2>4, <2>6
    <3>5. ASSUME Once(queue) PROVE Once(f[n])
      <4>1. queue[n] \notin ToSet(r)
        <5>1. ASSUME NEW i \in 1..(n - 1), queue[i] = queue[n] PROVE FALSE
          BY <5>1, <3>5, <2>1 DEF Once
        <5>2. QED
          BY <5>1, <3>3
      <4>2. QED
        BY <4>1, <3>1, <3>3, <3>5, <2>1, AppendIs
    <3>6. QED
      BY <3>2, <3>3, <3>4, <3>5
  <2>7. QED
    BY <2>5, <2>6
<1> HIDE DEF Good
<1>4. Good(n0)
  <2>1. SUFFICES ASSUME ~Good(n0) PROVE FALSE
    OBVIOUS
  <2>2. Bad \subseteq Nat /\ n0 \in Bad
    BY <2>1
  <2>3. PICK x \in Bad : \A y \in Bad : x <= y
    BY <2>2, Least
  <2>4. x # 0 /\ x \in 0..n0 /\ ~Good(x)
    BY <1>2
  <2>5. x - 1 \in 0..n0 /\ x \in 1..n0
    BY <2>4
  <2>6. Good(x - 1)
    BY <2>3, <2>5
  <2>7. QED
    BY <1>3, <2>4, <2>5, <2>6
<1>5. KeptOf(n0) = ToSet(queue) \ gone
  BY DEF ToSet
<1>6. QED
  BY <1>1, <1>4, <1>5 DEF Good

-----------------------------------------------------------------------------
(* Sums of cells.                                                          *)

One(s) == CHOOSE x \in s : TRUE

Summed(cells, f, s) ==
  IF s = {} THEN 0 ELSE cells[One(s)] + f[s \ {One(s)}]

AddsUp(cells, S, f) == f = [s \in SUBSET S |-> Summed(cells, f, s)]

LEMMA OneIn == \A s : s # {} => One(s) \in s
  BY DEF One

LEMMA SumExists ==
  ASSUME NEW S, IsFiniteSet(S), NEW cells
  PROVE  \E f : AddsUp(cells, S, f)
<1> DEFINE Level(n) == {s \in SUBSET S : Cardinality(s) <= n}
           Upto(n) == \E f : f = [s \in Level(n) |-> Summed(cells, f, s)]
           Bad == {n \in Nat : ~Upto(n)}
<1>1. \A s \in SUBSET S : IsFiniteSet(s) /\ Cardinality(s) \in Nat
  BY FS_Subset, FS_CardinalityType
<1>2. \A s \in SUBSET S : s = {} <=> Cardinality(s) = 0
  BY <1>1, FS_EmptySet
<1>3. Upto(0)
  <2>1. Level(0) = {{}}
    BY <1>1, <1>2
  <2>2. [s \in Level(0) |-> 0] =
          [s \in Level(0) |-> Summed(cells, [t \in Level(0) |-> 0], s)]
    BY <2>1 DEF Summed
  <2>3. QED
    BY <2>2
<1>4. ASSUME NEW n \in Nat \ {0}, Upto(n - 1) PROVE Upto(n)
  <2>1. PICK f : f = [s \in Level(n - 1) |-> Summed(cells, f, s)]
    BY <1>4
  <2> DEFINE g == [s \in Level(n) |->
                     IF Cardinality(s) = n THEN Summed(cells, f, s) ELSE f[s]]
  <2>2. ASSUME NEW s \in Level(n) PROVE g[s] = Summed(cells, g, s)
    <3> DEFINE t == s \ {One(s)}
    <3>1. s # {} => t \in Level(n - 1) /\ t \in Level(n) /\ Cardinality(t) # n
      <4>1. SUFFICES ASSUME s # {} PROVE /\ t \in SUBSET S
                                         /\ Cardinality(t) = Cardinality(s) - 1
        BY <1>1
      <4>2. One(s) \in s
        BY <4>1, OneIn
      <4>3. QED
        BY <4>2, <1>1, FS_RemoveElement
    <3>2. s # {} => g[t] = f[t]
      BY <3>1
    <3>3. Summed(cells, g, s) = Summed(cells, f, s)
      BY <3>2 DEF Summed
    <3>4. CASE Cardinality(s) = n
      BY <3>3, <3>4
    <3>5. CASE Cardinality(s) # n
      <4>1. s \in Level(n - 1)
        BY <3>5, <1>1
      <4>2. QED
        BY <4>1, <2>1, <3>3, <3>5
    <3>6. QED
      BY <3>4, <3>5
  <2>3. g = [s \in Level(n) |-> Summed(cells, g, s)]
    BY <2>2
  <2>4. QED
    BY <2>3
<1> HIDE DEF Upto
<1>5. Bad = {}
  <2>1. SUFFICES ASSUME Bad # {} PROVE FALSE
    OBVIOUS
  <2>2. Bad \subseteq Nat
    OBVIOUS
  <2>3. PICK x \in Bad : \A y \in Bad : x <= y
    BY <2>1, <2>2, Least
  <2>4. x \in Nat \ {0} /\ ~Upto(x)
    BY <1>3
  <2>5. x - 1 \in Nat /\ ~(x <= x - 1)
    BY <2>4
  <2>6. Upto(x - 1)
    BY <2>3, <2>5
  <2>7. QED
    BY <1>4, <2>4, <2>6
<1>6. Cardinality(S) \in Nat
  BY <1>1
<1>7. Level(Cardinality(S)) = SUBSET S
  BY <1>1, FS_Subset
<1>8. PICK f : f = [s \in Level(Cardinality(S)) |-> Summed(cells, f, s)]
  BY <1>5, <1>6 DEF Upto
<1> HIDE DEF Level
<1>9. f = [s \in SUBSET S |-> Summed(cells, f, s)]
  BY <1>7, <1>8
<1>10. QED
  BY <1>9 DEF AddsUp

LEMMA SumUnique ==
  ASSUME NEW A, NEW B, IsFiniteSet(A), NEW cells, NEW f, NEW g,
         AddsUp(cells, A, f), AddsUp(cells, B, g),
         NEW s0, s0 \subseteq A, s0 \subseteq B
  PROVE  f[s0] = g[s0]
<1> DEFINE Bad == {s \in SUBSET A : s \subseteq B /\ f[s] # g[s]}
<1>1. SUFFICES ASSUME f[s0] # g[s0] PROVE FALSE
  OBVIOUS
<1>2. Bad \subseteq SUBSET A /\ Bad # {}
  BY <1>1
<1>3. PICK s \in Bad : \A x \in s : s \ {x} \notin Bad
  BY <1>2, MinimalSet
<1>4. s \subseteq A /\ s \subseteq B /\ f[s] # g[s]
  OBVIOUS
<1>5. f[s] = Summed(cells, f, s) /\ g[s] = Summed(cells, g, s)
  BY <1>4 DEF AddsUp
<1>6. s # {}
  BY <1>4, <1>5 DEF Summed
<1>7. s \ {One(s)} \notin Bad
  BY <1>3, <1>6, OneIn
<1>8. f[s \ {One(s)}] = g[s \ {One(s)}]
  BY <1>4, <1>7
<1>9. QED
  BY <1>4, <1>5, <1>8 DEF Summed

(* Total adds up, in the order in which elements are chosen.               *)
LEMMA TotalIs ==
  ASSUME NEW S, IsFiniteSet(S), NEW cells
  PROVE  \E f : AddsUp(cells, S, f) /\ Total(S, cells) = f[S]
<1>1. \E f : AddsUp(cells, S, f)
  BY SumExists
<1>2. QED
  BY <1>1 DEF Total, MapThenSumSet, MapThenFoldSet, AddsUp, Summed, One

LEMMA TotalEmpty == \A cells : Total({}, cells) = 0
<1>1. TAKE cells
<1>2. IsFiniteSet({})
  BY FS_EmptySet
<1>3. PICK f : AddsUp(cells, {}, f) /\ Total({}, cells) = f[{}]
  BY <1>2, TotalIs
<1>4. QED
  BY <1>3 DEF AddsUp, Summed

LEMMA TotalOne ==
  ASSUME NEW S, IsFiniteSet(S), NEW cells, S # {}
  PROVE  Total(S, cells) = cells[One(S)] + Total(S \ {One(S)}, cells)
<1> DEFINE R == S \ {One(S)}
<1>1. IsFiniteSet(R) /\ R \subseteq S
  BY FS_Subset
<1>2. PICK f : AddsUp(cells, S, f) /\ Total(S, cells) = f[S]
  BY TotalIs
<1>3. PICK g : AddsUp(cells, R, g) /\ Total(R, cells) = g[R]
  BY <1>1, TotalIs
<1>4. f[R] = g[R]
  BY <1>1, <1>2, <1>3, SumUnique
<1>5. f[S] = Summed(cells, f, S)
  BY <1>2 DEF AddsUp
<1>6. QED
  BY <1>2, <1>3, <1>4, <1>5 DEF Summed

LEMMA TotalIsNat ==
  ASSUME NEW S, IsFiniteSet(S), NEW cells, \A x \in S : cells[x] \in Nat
  PROVE  Total(S, cells) \in Nat
<1> DEFINE Bad == {s \in SUBSET S : Total(s, cells) \notin Nat}
<1>1. SUFFICES ASSUME Bad # {} PROVE FALSE
  OBVIOUS
<1>2. Bad \subseteq SUBSET S
  OBVIOUS
<1>3. PICK s \in Bad : \A x \in s : s \ {x} \notin Bad
  BY <1>1, <1>2, MinimalSet
<1>4. s \subseteq S /\ IsFiniteSet(s) /\ Total(s, cells) \notin Nat
  BY FS_Subset
<1>5. s # {}
  BY <1>4, TotalEmpty
<1>6. One(s) \in s
  BY <1>5, OneIn
<1>7. Total(s \ {One(s)}, cells) \in Nat
  BY <1>3, <1>4, <1>6
<1>8. Total(s, cells) = cells[One(s)] + Total(s \ {One(s)}, cells)
  BY <1>4, <1>5, TotalOne
<1>9. QED
  BY <1>4, <1>6, <1>7, <1>8

(* Any element may be taken out of a sum first.                            *)
LEMMA TotalRemove ==
  ASSUME NEW S, IsFiniteSet(S), NEW cells, \A x \in S : cells[x] \in Nat,
         NEW x0 \in S
  PROVE  Total(S, cells) = cells[x0] + Total(S \ {x0}, cells)
<1> DEFINE Wrong(s, x) == Total(s, cells) # cells[x] + Total(s \ {x}, cells)
           Bad == {s \in SUBSET S : \E x \in s : Wrong(s, x)}
<1>1. SUFFICES ASSUME Wrong(S, x0) PROVE FALSE
  OBVIOUS
<1>2. Bad \subseteq SUBSET S /\ Bad # {}
  BY <1>1
<1>3. PICK s \in Bad : \A x \in s : s \ {x} \notin Bad
  BY <1>2, MinimalSet
<1>4. PICK x \in s : Wrong(s, x)
  BY <1>3
<1> DEFINE c == One(s)
           r == s \ {c}
           t == s \ {x}
<1>5. s \subseteq S /\ s # {} /\ c \in s /\ IsFiniteSet(s)
  BY FS_Subset, OneIn
<1>6. Total(s, cells) = cells[c] + Total(r, cells)
  BY <1>5, TotalOne
<1>7. c # x
  BY <1>4, <1>6
<1>8. r \notin Bad /\ t \notin Bad
  BY <1>3, <1>5
<1>9. r \subseteq S /\ t \subseteq S /\ x \in r /\ c \in t
  BY <1>5, <1>7
<1>10. ~Wrong(r, x) /\ ~Wrong(t, c)
  BY <1>8, <1>9
<1>11. r \ {x} = t \ {c}
  OBVIOUS
<1>12. IsFiniteSet(r \ {x}) /\ r \ {x} \subseteq S
  BY <1>9, FS_Subset
<1>13. Total(r \ {x}, cells) \in Nat
  BY <1>12, TotalIsNat
<1>14. cells[x] \in Nat /\ cells[c] \in Nat
  BY <1>5
<1>15. /\ Total(r, cells) = cells[x] + Total(r \ {x}, cells)
       /\ Total(t, cells) = cells[c] + Total(r \ {x}, cells)
  BY <1>10, <1>11
<1>16. Total(s, cells) = cells[x] + Total(t, cells)
  <2>1. /\ Total(s, cells) = cells[c] + (cells[x] + Total(r \ {x}, cells))
        /\ cells[x] + Total(t, cells) = cells[x] + (cells[c] + Total(r \ {x}, cells))
    BY <1>6, <1>15
  <2>2. QED
    BY <2>1, <1>13, <1>14
<1>17. QED
  BY <1>4, <1>16

LEMMA TotalAtLeast ==
  ASSUME NEW S, IsFiniteSet(S), NEW cells, \A x \in S : cells[x] \in Nat,
         NEW x \in S
  PROVE  cells[x] <= Total(S, cells)
<1>1. IsFiniteSet(S \ {x}) /\ \A y \in S \ {x} : cells[y] \in Nat
  BY FS_Subset
<1>2. Total(S \ {x}, cells) \in Nat
  BY <1>1, TotalIsNat
<1>3. Total(S, cells) = cells[x] + Total(S \ {x}, cells)
  BY TotalRemove
<1>4. QED
  BY <1>2, <1>3

(* Sums of parts, of smaller and of equal numbers, all in one.             *)
LEMMA TotalPlus ==
  ASSUME NEW M, IsFiniteSet(M), NEW S, S \subseteq M, NEW f, NEW g, NEW h,
         \A x \in M : f[x] \in Nat, \A x \in S : g[x] \in Nat,
         \A x \in M : h[x] \in Nat,
         \A x \in M : h[x] <= f[x] + (IF x \in S THEN g[x] ELSE 0)
  PROVE  Total(M, h) <= Total(M, f) + Total(S, g)
<1> DEFINE Holds(s) == Total(s, h) <= Total(s, f) + Total(s \cap S, g)
           Bad == {s \in SUBSET M : ~Holds(s)}
<1>1. SUFFICES ASSUME ~Holds(M) PROVE FALSE
  <2>1. M \cap S = S
    OBVIOUS
  <2>2. QED
    BY <2>1
<1>2. Bad \subseteq SUBSET M /\ Bad # {}
  BY <1>1
<1>3. PICK s \in Bad : \A x \in s : s \ {x} \notin Bad
  BY <1>2, MinimalSet
<1>4. s \subseteq M /\ IsFiniteSet(s) /\ ~Holds(s)
  BY FS_Subset
<1>5. s # {}
  <2>1. Total({}, h) = 0 /\ Total({}, f) = 0 /\ Total({} \cap S, g) = 0
    <3>1. {} \cap S = {}
      OBVIOUS
    <3>2. QED
      BY <3>1, TotalEmpty
  <2>2. SUFFICES ASSUME s = {} PROVE Holds(s)
    BY <1>4
  <2>3. s \cap S = {} \cap S
    BY <2>2
  <2>4. QED
    BY <2>1, <2>2, <2>3
<1>6. PICK x \in s : TRUE
  BY <1>5
<1> DEFINE r == s \ {x}
<1>7. Holds(r)
  BY <1>3, <1>4, <1>6
<1>8. IsFiniteSet(r) /\ r \subseteq M /\ x \in M
  BY <1>4, <1>6, FS_Subset
<1>9. Total(s, h) = h[x] + Total(r, h) /\ Total(r, h) \in Nat
  BY <1>4, <1>6, <1>8, TotalRemove, TotalIsNat
<1>10. Total(s, f) = f[x] + Total(r, f) /\ Total(r, f) \in Nat
  BY <1>4, <1>6, <1>8, TotalRemove, TotalIsNat
<1> DEFINE k == IF x \in S THEN g[x] ELSE 0
<1> HIDE DEF k
<1>11. /\ Total(r \cap S, g) \in Nat
       /\ Total(s \cap S, g) = k + Total(r \cap S, g)
  <2>1. IsFiniteSet(s \cap S) /\ IsFiniteSet(r \cap S)
    BY <1>4, <1>8, FS_Subset
  <2>2. Total(r \cap S, g) \in Nat
    BY <2>1, TotalIsNat
  <2>3. CASE x \in S
    <3>1. (s \cap S) \ {x} = r \cap S /\ x \in s \cap S
      BY <2>3
    <3>2. \A y \in s \cap S : g[y] \in Nat
      OBVIOUS
    <3>3. Total(s \cap S, g) = g[x] + Total((s \cap S) \ {x}, g)
      BY <2>1, <3>1, <3>2, TotalRemove
    <3>4. Total(s \cap S, g) = g[x] + Total(r \cap S, g)
      BY <3>1, <3>3, Zenon
    <3>5. k = g[x]
      BY <2>3 DEF k
    <3>6. QED
      BY <2>2, <3>4, <3>5, Zenon
  <2>4. CASE x \notin S
    <3>1. s \cap S = r \cap S
      BY <2>4
    <3>2. k = 0
      BY <2>4 DEF k
    <3>3. Total(s \cap S, g) = Total(r \cap S, g)
      BY <3>1, Zenon
    <3>4. QED
      BY <2>2, <3>2, <3>3
  <2>5. QED
    BY <2>3, <2>4, Zenon
<1>12. h[x] \in Nat /\ f[x] \in Nat /\ k \in Nat /\ h[x] <= f[x] + k
  BY <1>8 DEF k
<1>13. QED
  <2>1. /\ Total(s, h) = h[x] + Total(r, h) /\ Total(s, f) = f[x] + Total(r, f)
        /\ Total(s \cap S, g) = k + Total(r \cap S, g)
        /\ h[x] <= f[x] + k /\ k \in Nat /\ h[x] \in Nat /\ f[x] \in Nat
    BY <1>9, <1>10, <1>11, <1>12
  <2>2. Holds(s)
    BY <2>1, <1>7, <1>9, <1>10, <1>11
  <2>3. QED
    BY <2>2, <1>4

LEMMA TotalLess ==
  ASSUME NEW M, IsFiniteSet(M), NEW f, NEW h,
         \A x \in M : f[x] \in Nat /\ h[x] \in Nat /\ h[x] <= f[x]
  PROVE  Total(M, h) <= Total(M, f)
<1>1. Total({}, f) = 0
  BY TotalEmpty
<1>2. Total(M, h) <= Total(M, f) + Total({}, f)
  BY TotalPlus
<1>3. Total(M, f) \in Nat /\ Total(M, h) \in Nat
  BY TotalIsNat
<1>4. QED
  BY <1>1, <1>2, <1>3

LEMMA TotalSame ==
  ASSUME NEW M, IsFiniteSet(M), NEW f, NEW h,
         \A x \in M : f[x] \in Nat /\ h[x] = f[x]
  PROVE  Total(M, h) = Total(M, f)
<1>1. Total(M, h) <= Total(M, f) /\ Total(M, f) <= Total(M, h)
  BY TotalLess
<1>2. Total(M, f) \in Nat /\ Total(M, h) \in Nat
  BY TotalIsNat
<1>3. QED
  BY <1>1, <1>2

LEMMA TotalSingle ==
  ASSUME NEW x, NEW cells, cells[x] \in Nat
  PROVE  Total({x}, cells) = cells[x]
<1>1. IsFiniteSet({x}) /\ {x} \ {x} = {}
  BY FS_Singleton
<1>2. Total({x}, cells) = cells[x] + Total({}, cells)
  BY <1>1, TotalRemove
<1>3. QED
  BY <1>2, TotalEmpty

(* Ones add up to the size of the set.                                     *)
LEMMA TotalOfOnes ==
  ASSUME NEW M, IsFiniteSet(M), NEW f, \A x \in M : f[x] \in Nat /\ f[x] <= 1
  PROVE  Total(M, f) <= Cardinality(M)
<1> DEFINE Bad == {s \in SUBSET M : ~(Total(s, f) <= Cardinality(s))}
<1>1. SUFFICES ASSUME Bad # {} PROVE FALSE
  OBVIOUS
<1>2. Bad \subseteq SUBSET M
  OBVIOUS
<1>3. PICK s \in Bad : \A x \in s : s \ {x} \notin Bad
  BY <1>1, <1>2, MinimalSet
<1>4. s \subseteq M /\ IsFiniteSet(s) /\ ~(Total(s, f) <= Cardinality(s))
  BY FS_Subset
<1>5. s # {}
  BY <1>4, TotalEmpty, FS_EmptySet
<1>6. PICK x \in s : TRUE
  BY <1>5
<1>7. IsFiniteSet(s \ {x}) /\ s \ {x} \subseteq M /\ x \in M
  BY <1>4, <1>6, FS_Subset
<1>8. Total(s \ {x}, f) <= Cardinality(s \ {x})
  BY <1>3, <1>6, <1>7
<1>9. Cardinality(s \ {x}) = Cardinality(s) - 1 /\ Cardinality(s) \in Nat
  BY <1>4, <1>6, FS_RemoveElement, FS_CardinalityType
<1>10. Total(s, f) = f[x] + Total(s \ {x}, f) /\ Total(s \ {x}, f) \in Nat
  BY <1>4, <1>6, <1>7, TotalRemove, TotalIsNat
<1>11. f[x] \in Nat /\ f[x] <= 1
  BY <1>7
<1>12. QED
  BY <1>4, <1>8, <1>9, <1>10, <1>11

-----------------------------------------------------------------------------
(* The inductive invariant.                                                *)

(* The queue holds whoever is inside decode(), once.                       *)
Queued ==
  /\ Once(queue)
  /\ ToSet(queue) = {s \in Members : phase[s] \in Submitted}

Present == {s \in Members : phase[s] # "out"}

ActiveCounted == active = Cardinality(Present)

PoolHolds == Total(Members, used) <= Capacity * Window

(* A row in llama.cpp's buffer is nobody else's business on an engine of   *)
(* one seat, and a submission has given its rows up.                       *)
RowsAreSafe ==
  \A s \in Members :
    /\ phase[s] \in Submitted => logits[s] = "none"
    /\ logits[s] = "buffer" => Capacity = 1

Asking == \A s \in Members : InFlight(s) => todo[s] > 0

Sound ==
  /\ TypeOK /\ Queued /\ ActiveCounted /\ PoolHolds /\ RowsAreSafe /\ Asking
  /\ OwnLogits /\ NobodyHeldForNothing

LEMMA Sizes ==
  /\ IsFiniteSet(Members) /\ Capacity \in Nat \ {0}
  /\ Window \in Nat \ {0} /\ BatchSize \in Nat \ {0} /\ UBatch \in Nat \ {0}
  /\ Pinned \in Nat \ {0} /\ MaxPrompt \in Nat \ {0}
  /\ Capacity * Window \in Nat
<1>1. IsFiniteSet(Members) /\ Members # {}
  BY RoundAssumption
<1>2. Cardinality(Members) \in Nat /\ Cardinality(Members) # 0
  BY <1>1, FS_CardinalityType, FS_EmptySet
<1>3. /\ Window \in Nat \ {0} /\ BatchSize \in Nat \ {0} /\ UBatch \in Nat \ {0}
      /\ Pinned \in Nat \ {0} /\ MaxPrompt \in Nat \ {0}
  BY RoundAssumption
<1>4. ASSUME NEW a \in Nat, NEW b \in Nat PROVE a * b \in Nat
  OBVIOUS
<1>5. QED
  BY <1>1, <1>2, <1>3, <1>4 DEF Capacity

LEMMA ChunkIs ==
  ASSUME TypeOK
  PROVE  /\ ChunkLimit \in Nat \ {0} /\ ChunkLimit <= BatchSize
         /\ \A s \in Members :
              /\ Chunk(s) \in Nat /\ Chunk(s) <= todo[s] /\ Chunk(s) <= ChunkLimit
              /\ todo[s] > 0 => Chunk(s) > 0
<1>1. ChunkLimit \in Nat \ {0} /\ ChunkLimit <= BatchSize
  BY Sizes DEF ChunkLimit, Lesser, Greater
<1>2. ASSUME NEW s \in Members
      PROVE  /\ Chunk(s) \in Nat /\ Chunk(s) <= todo[s] /\ Chunk(s) <= ChunkLimit
             /\ todo[s] > 0 => Chunk(s) > 0
  <2>1. todo[s] \in Nat
    BY Sizes DEF TypeOK
  <2>2. QED
    BY <1>1, <2>1 DEF Chunk, Lesser
<1>3. QED
  BY <1>1, <1>2

LEMMA EvictIs ==
  ASSUME TypeOK, NEW s \in Members, NEW n \in Nat
  PROVE  EvictCount(s, n) \in 0..used[s]
<1>1. used[s] \in Nat
  BY Sizes DEF TypeOK
<1> DEFINE room == used[s] - Lesser(Pinned, used[s])
<1>2. room \in 0..used[s]
  BY <1>1, Sizes DEF Lesser
<1>3. room \div 2 \in Nat /\ used[s] + n - Window + 1 \in Int
  BY <1>1, <1>2, Sizes
<1> HIDE DEF room
<1> DEFINE most == Greater(room \div 2, used[s] + n - Window + 1)
<1>4. most \in Nat
  BY <1>3 DEF Greater
<1> HIDE DEF most
<1>5. Lesser(most, room) \in 0..used[s]
  BY <1>1, <1>2, <1>4 DEF Lesser
<1>6. EvictCount(s, n) = IF s \in Sliding THEN Lesser(most, room) ELSE 0
  BY DEF EvictCount, most, room
<1>7. QED
  BY <1>1, <1>5, <1>6

LEMMA TokensIs ==
  ASSUME TypeOK, NEW S, S \subseteq Members
  PROVE  /\ IsFiniteSet(S) /\ Tokens(S) \in Nat
         /\ \A x \in S : [s \in S |-> Chunk(s)][x] \in Nat
<1>1. IsFiniteSet(S)
  BY Sizes, FS_Subset
<1>2. \A x \in S : [s \in S |-> Chunk(s)][x] \in Nat
  BY ChunkIs
<1>3. QED
  BY <1>1, <1>2, TotalIsNat DEF Tokens

LEMMA QueueIs ==
  ASSUME TypeOK, Queued
  PROVE  /\ \A s \in Members : s \in ToSet(queue) <=> phase[s] \in Submitted
         /\ ToSet(queue) \subseteq Members
         /\ queue # <<>> => Head(queue) \in ToSet(queue) /\ queue[1] = Head(queue)
                             /\ 1 \in DOMAIN queue
         /\ ToSet(queue) # {} => queue # <<>>
         /\ Len(queue) \in Nat
         /\ \A i \in DOMAIN queue : queue[i] \in Members /\ i \in Nat
  BY DEF TypeOK, Queued, ToSet

(* The oldest submission always goes along.                                *)
LEMMA HeadGoes ==
  ASSUME TypeOK, Queued, queue # <<>>, NEW S \in SUBSET ToSet(queue), Packs(S)
  PROVE  Head(queue) \in S
<1> DEFINE before == S \cap {queue[j] : j \in 1..(1 - 1)}
<1>1. before = {}
  OBVIOUS
<1>2. queue[1] = Head(queue) /\ 1 \in DOMAIN queue /\ queue[1] \in Members
  BY QueueIs
<1>3. queue[1] \in S <=> Tokens(before) + Chunk(queue[1]) <= BatchSize
  BY <1>2 DEF Packs
<1>4. Tokens(before) = 0
  BY <1>1, TotalEmpty DEF Tokens
<1>5. Chunk(queue[1]) \in Nat /\ Chunk(queue[1]) <= BatchSize
  BY <1>2, ChunkIs, Sizes
<1>6. QED
  BY <1>2, <1>3, <1>4, <1>5

(* What a round comes to: who went along, who was run, what they are told. *)
Round(S, R, code) ==
  /\ S \subseteq ToSet(queue) /\ S \subseteq Members
  /\ R \subseteq S /\ Head(queue) \in R
  /\ code \in {"ok", "noslot", "failed"}
  /\ code = "ok" => Tokens(R) <= Free
  /\ code = "noslot" => R = {Head(queue)} /\ ~(Tokens(R) <= Free)
  /\ Packs(S)
  /\ Publish(S, R, code)

LEMMA DriveIs ==
  ASSUME TypeOK, Queued, NEW s \in Members, Drive(s)
  PROVE  queue # <<>> /\ \E S, R, code : Round(S, R, code)
<1>1. queue # <<>>
  BY QueueIs DEF Drive, Submitted
<1>2. PICK S \in SUBSET ToSet(queue) :
         /\ Packs(S)
         /\ \E first \in Codes(S) :
              \E code \in Codes(Rerun(S, first)) :
                /\ Rerun(S, first) = S => code = first
                /\ Publish(S, Rerun(S, first), code)
  BY DEF Drive
<1>10. PICK first \in Codes(S) :
         \E code \in Codes(Rerun(S, first)) :
           /\ Rerun(S, first) = S => code = first
           /\ Publish(S, Rerun(S, first), code)
  BY <1>2
<1>3. PICK code \in Codes(Rerun(S, first)) :
         /\ Rerun(S, first) = S => code = first
         /\ Publish(S, Rerun(S, first), code)
  BY <1>10
<1> DEFINE R == Rerun(S, first)
<1>4. S \subseteq Members /\ Head(queue) \in S
  BY <1>1, <1>2, QueueIs, HeadGoes
<1>5. R \subseteq S /\ Head(queue) \in R
  BY <1>4 DEF Rerun
<1>6. /\ code \in {"ok", "noslot", "failed"}
      /\ code = "ok" => Tokens(R) <= Free
      /\ code = "noslot" => ~(Tokens(R) <= Free)
  BY <1>3 DEF Codes
<1>7. code = "noslot" => R = {Head(queue)}
  BY <1>3 DEF Rerun
<1>8. Round(S, R, code)
  BY <1>2, <1>3, <1>4, <1>5, <1>6, <1>7 DEF Round
<1>9. QED
  BY <1>1, <1>8

-----------------------------------------------------------------------------
(* The invariant holds at first, and steps keep it.                        *)

LEMMA InitIsSound == Init => Sound
<1> SUFFICES ASSUME Init PROVE Sound
  OBVIOUS
<1>1. TypeOK
  BY Sizes DEF Init, TypeOK, Phase
<1>2. Queued
  <2>1. queue = <<>> /\ \A s \in Members : phase[s] \notin Submitted
    BY DEF Init, Submitted
  <2>2. QED
    BY <2>1 DEF Queued, Once, ToSet
<1>3. ActiveCounted
  <2>1. Present = {} /\ active = 0
    BY DEF Init, Present
  <2>2. QED
    BY <2>1, FS_EmptySet DEF ActiveCounted
<1>4. PoolHolds
  <2>1. \A s \in Members : used[s] \in Nat /\ used[s] <= 1
    BY DEF Init
  <2>2. Total(Members, used) <= Capacity /\ Total(Members, used) \in Nat
    BY <2>1, Sizes, TotalOfOnes, TotalIsNat DEF Capacity
  <2>3. ASSUME NEW a \in Nat, NEW b \in Nat \ {0} PROVE a <= a * b
    OBVIOUS
  <2>4. Capacity <= Capacity * Window
    BY <2>3, Sizes
  <2>5. QED
    BY <2>2, <2>4, Sizes DEF PoolHolds
<1>5. RowsAreSafe /\ Asking /\ OwnLogits
  BY DEF Init, RowsAreSafe, Asking, OwnLogits, InFlight, Submitted
<1>6. NobodyHeldForNothing
  BY DEF Init, NobodyHeldForNothing
<1>7. QED
  BY <1>1, <1>2, <1>3, <1>4, <1>5, <1>6 DEF Sound

LEMMA QueuedRest ==
  ASSUME Queued, queue' = queue,
         \A t \in Members : phase'[t] \in Submitted <=> phase[t] \in Submitted
  PROVE  Queued'
  BY DEF Queued

LEMMA ActiveRest ==
  ASSUME ActiveCounted, active' = active,
         \A t \in Members : phase'[t] = "out" <=> phase[t] = "out"
  PROVE  ActiveCounted'
<1>1. Present' = Present
  BY DEF Present
<1>2. QED
  BY <1>1 DEF ActiveCounted

LEMMA HeldRest ==
  ASSUME NobodyHeldForNothing, TypeOK, TypeOK', queue' = queue, active' >= active,
         \A t \in Members : phase[t] = "awake" => phase'[t] = "awake"
  PROVE  NobodyHeldForNothing'
<1>1. ToSet(queue) \subseteq Members /\ Len(queue) \in Nat
  BY DEF TypeOK, ToSet
<1>2. active \in Nat /\ active' \in Nat
  BY Sizes DEF TypeOK
<1>3. QED
  BY <1>1, <1>2 DEF NobodyHeldForNothing

LEMMA PoolRest ==
  ASSUME TypeOK, TypeOK', PoolHolds, \A t \in Members : used'[t] <= used[t]
  PROVE  PoolHolds'
<1>1. \A t \in Members : used[t] \in Nat /\ used'[t] \in Nat
  BY Sizes DEF TypeOK
<1>2. IsFiniteSet(Members)
  BY Sizes
<1>3. Total(Members, used') <= Total(Members, used)
  BY <1>1, <1>2, TotalLess
<1>4. Total(Members, used') \in Nat /\ Total(Members, used) \in Nat
  BY <1>1, <1>2, TotalIsNat
<1>5. QED
  BY <1>3, <1>4, Sizes DEF PoolHolds

LEMMA JoinKeepsSound ==
  ASSUME Sound, NEW s \in Members, NEW fresh \in 1..MaxPrompt, Join(s, fresh)
  PROVE  Sound'
<1> USE DEF Sound, Join
<1>1. /\ s \notin Present /\ Present' = Present \cup {s}
      /\ IsFiniteSet(Present') /\ Cardinality(Present') <= Capacity
  <2>1. s \notin Present /\ Present' = Present \cup {s}
    BY DEF Present, TypeOK
  <2>2. Present' \subseteq Members
    BY DEF Present
  <2>3. QED
    BY <2>1, <2>2, Sizes, FS_Subset DEF Capacity
<1>2. ActiveCounted'
  <2>1. IsFiniteSet(Present)
    BY <1>1, FS_Subset
  <2>2. Cardinality(Present') = Cardinality(Present) + 1
    BY <2>1, <1>1, FS_AddElement
  <2>3. QED
    BY <2>2 DEF ActiveCounted
<1>3. TypeOK'
  <2>1. active' \in 0..Capacity
    BY <1>1, <1>2, FS_CardinalityType DEF ActiveCounted
  <2>2. QED
    BY <2>1, Sizes DEF TypeOK, Phase
<1>4. Queued'
  BY QueuedRest DEF TypeOK, Submitted
<1>5. PoolHolds'
  BY DEF PoolHolds
<1>6. RowsAreSafe' /\ Asking' /\ OwnLogits'
  BY DEF RowsAreSafe, Asking, OwnLogits, TypeOK, InFlight, Submitted
<1>7. NobodyHeldForNothing'
  <2>1. active' >= active
    BY Sizes DEF TypeOK
  <2>2. QED
    BY <2>1, <1>3, HeldRest DEF TypeOK
<1>8. QED
  BY <1>2, <1>3, <1>4, <1>5, <1>6, <1>7

LEMMA SubmitKeepsSound ==
  ASSUME Sound, NEW s \in Members, Submit(s)
  PROVE  Sound'
<1> USE DEF Sound, Submit
<1>1. s \notin ToSet(queue) /\ queue \in Seq(Members) /\ Once(queue)
  BY DEF TypeOK, Queued, Submitted
<1>2. queue' \in Seq(Members) /\ ToSet(queue') = ToSet(queue) \cup {s} /\ Once(queue')
  BY <1>1, AppendIs
<1>3. TypeOK'
  BY <1>2 DEF TypeOK, Phase, Submitted
<1>4. Queued'
  <2>1. {t \in Members : phase'[t] \in Submitted} =
          {t \in Members : phase[t] \in Submitted} \cup {s}
    BY DEF TypeOK, Submitted
  <2>2. QED
    BY <1>2, <2>1 DEF Queued
<1>5. ActiveCounted'
  BY ActiveRest DEF TypeOK
<1>6. PoolHolds'
  BY DEF PoolHolds
<1>7. RowsAreSafe' /\ Asking' /\ OwnLogits'
  BY DEF RowsAreSafe, Asking, OwnLogits, TypeOK, InFlight, Submitted
<1>8. NobodyHeldForNothing'
  <2>1. phase'[s] = "awake" /\ s \in ToSet(queue')
    BY <1>2 DEF TypeOK
  <2>2. QED
    BY <2>1 DEF NobodyHeldForNothing
<1>9. QED
  BY <1>3, <1>4, <1>5, <1>6, <1>7, <1>8

LEMMA EvictKeepsSound ==
  ASSUME Sound, NEW s \in Members, Evict(s)
  PROVE  Sound'
<1> USE DEF Sound, Evict
<1> DEFINE n == EvictCount(s, Chunk(s))
<1>1. n \in 0..used[s] /\ used[s] \in 0..(Capacity * Window)
  BY ChunkIs, EvictIs DEF TypeOK
<1> HIDE DEF n
<1>2. /\ used' = [used EXCEPT ![s] = @ - n]
      /\ phase[s] = "noslot" /\ phase' = [phase EXCEPT ![s] = "working"]
      /\ UNCHANGED <<active, queue, todo, expired, logits>>
  BY DEF n
<1> USE <1>2
<1>3. used[s] - n \in 0..(Capacity * Window) /\ used[s] - n <= used[s]
  BY <1>1, Sizes
<1>4. TypeOK'
  BY <1>3 DEF TypeOK, Phase
<1>5. Queued'
  BY QueuedRest DEF TypeOK, Submitted
<1>6. ActiveCounted'
  BY ActiveRest DEF TypeOK
<1>7. PoolHolds'
  <2>1. \A t \in Members : used'[t] <= used[t]
    BY <1>3, Sizes DEF TypeOK
  <2>2. QED
    BY <2>1, <1>4, PoolRest
<1>8. RowsAreSafe' /\ Asking' /\ OwnLogits'
  BY DEF RowsAreSafe, Asking, OwnLogits, TypeOK, InFlight, Submitted
<1>9. NobodyHeldForNothing'
  <2>1. active' >= active
    BY Sizes DEF TypeOK
  <2>2. QED
    BY <2>1, <1>4, HeldRest DEF TypeOK
<1>10. QED
  BY <1>4, <1>5, <1>6, <1>7, <1>8, <1>9

LEMMA PickKeepsSound ==
  ASSUME Sound, NEW s \in Members, Pick(s)
  PROVE  Sound'
<1> USE DEF Sound
<1> DEFINE n == EvictCount(s, 1)
           kept == IF Full(s) THEN used[s] - n ELSE used[s]
<1>1. n \in 0..used[s] /\ used[s] \in 0..(Capacity * Window)
  BY EvictIs DEF TypeOK
<1>2. kept \in 0..(Capacity * Window) /\ kept <= used[s]
  BY <1>1, Sizes
<1> HIDE DEF n
<1>3. /\ used' = [used EXCEPT ![s] = kept] /\ phase[s] = "working"
      /\ todo' = [todo EXCEPT ![s] = 1]
      /\ UNCHANGED <<active, queue, phase, expired, logits>>
  BY DEF Pick, Sampling, n
<1> HIDE DEF kept
<1>4. TypeOK'
  BY <1>2, <1>3, Sizes DEF TypeOK
<1>5. Queued'
  BY <1>3, QueuedRest
<1>6. ActiveCounted'
  BY <1>3, ActiveRest
<1>7. PoolHolds'
  <2>1. \A t \in Members : used'[t] <= used[t]
    BY <1>2, <1>3, Sizes DEF TypeOK
  <2>2. QED
    BY <2>1, <1>4, PoolRest
<1>8. RowsAreSafe' /\ Asking' /\ OwnLogits'
  BY <1>3 DEF RowsAreSafe, Asking, OwnLogits, TypeOK, InFlight, Submitted
<1>9. NobodyHeldForNothing'
  BY <1>3 DEF NobodyHeldForNothing
<1>10. QED
  BY <1>4, <1>5, <1>6, <1>7, <1>8, <1>9

LEMMA LeaveKeepsSound ==
  ASSUME Sound, NEW s \in Members, Leave(s)
  PROVE  Sound'
<1> USE DEF Sound
<1>1. /\ phase[s] \in {"working", "failed", "noslot"}
      /\ \A t \in Members : phase'[t] =
            IF t = s THEN "out"
            ELSE IF phase[t] = "asleep" THEN "awake" ELSE phase[t]
      /\ phase' \in [Members -> Phase]
  <2>1. phase[s] \in {"working", "failed", "noslot"}
    BY DEF Leave, MayLeave, Sampling
  <2>2. \A t \in Members : phase'[t] =
          IF t = s THEN "out" ELSE IF phase[t] = "asleep" THEN "awake" ELSE phase[t]
    BY DEF Leave, WakeAll, TypeOK
  <2>3. phase' \in [Members -> Phase]
    BY DEF Leave, WakeAll, TypeOK, Phase, Submitted
  <2>4. QED
    BY <2>1, <2>2, <2>3
<1>2. /\ active' = active - 1 /\ todo' = [todo EXCEPT ![s] = 0]
      /\ logits' = [logits EXCEPT ![s] = "none"]
      /\ UNCHANGED <<queue, expired, used>>
  BY DEF Leave
<1>3. ActiveCounted' /\ active' \in 0..Capacity
  <2>1. s \in Present /\ Present' = Present \ {s} /\ Present \subseteq Members
    BY <1>1 DEF Present
  <2>2. IsFiniteSet(Present) /\ IsFiniteSet(Present')
    BY <2>1, Sizes, FS_Subset
  <2>3. Cardinality(Present') = Cardinality(Present) - 1 /\ Cardinality(Present') \in Nat
    BY <2>1, <2>2, FS_RemoveElement, FS_CardinalityType
  <2>4. QED
    BY <1>2, <2>3, Sizes DEF ActiveCounted, TypeOK
<1>4. TypeOK'
  <2>1. phase' \in [Members -> Phase]
    BY <1>1
  <2>2. /\ todo' \in [Members -> 0..MaxPrompt]
        /\ logits' \in [Members -> {"none", "copy", "buffer", "overwritten"}]
    BY <1>2, Sizes DEF TypeOK
  <2>3. QED
    BY <2>1, <2>2, <1>2, <1>3 DEF TypeOK
<1>5. Queued'
  BY <1>1, <1>2, QueuedRest DEF Submitted
<1>6. PoolHolds'
  BY <1>2 DEF PoolHolds
<1>7. RowsAreSafe' /\ Asking' /\ OwnLogits'
  BY <1>1, <1>2 DEF RowsAreSafe, Asking, OwnLogits, TypeOK, InFlight, Submitted
<1>8. NobodyHeldForNothing'
  <2>1. SUFFICES ASSUME queue # <<>> PROVE \E t \in ToSet(queue) : phase'[t] = "awake"
    BY <1>2 DEF NobodyHeldForNothing
  <2>2. Head(queue) \in ToSet(queue) /\ Head(queue) \in Members
        /\ phase[Head(queue)] \in Submitted
    BY <2>1, QueueIs
  <2>3. phase'[Head(queue)] = "awake"
    BY <1>1, <2>2 DEF Submitted
  <2>4. QED
    BY <2>2, <2>3
<1>9. QED
  BY <1>3, <1>4, <1>5, <1>6, <1>7, <1>8

LEMMA DropKeepsSound ==
  ASSUME Sound, NEW s \in Members, NEW kept \in 0..(used[s] - 1), Drop(s, kept)
  PROVE  Sound'
<1> USE DEF Sound, Drop
<1>1. used[s] \in 0..(Capacity * Window) /\ kept \in 0..(Capacity * Window)
  BY Sizes DEF TypeOK
<1>2. TypeOK'
  BY <1>1 DEF TypeOK
<1>3. \A t \in Members : used'[t] <= used[t]
  BY <1>1, Sizes DEF TypeOK
<1>4. PoolHolds'
  BY <1>2, <1>3, PoolRest
<1>5. Queued' /\ ActiveCounted'
  BY QueuedRest, ActiveRest
<1>6. RowsAreSafe' /\ Asking' /\ OwnLogits' /\ NobodyHeldForNothing'
  BY DEF RowsAreSafe, Asking, OwnLogits, InFlight, NobodyHeldForNothing
<1>7. QED
  BY <1>2, <1>4, <1>5, <1>6

LEMMA DozeKeepsSound ==
  ASSUME Sound, NEW s \in Members, Doze(s)
  PROVE  Sound'
<1> USE DEF Sound, Doze
<1>1. TypeOK'
  BY DEF TypeOK, Phase, Submitted
<1>2. Queued'
  BY QueuedRest DEF TypeOK, Submitted
<1>3. ActiveCounted'
  BY ActiveRest DEF TypeOK
<1>4. PoolHolds'
  BY DEF PoolHolds
<1>5. RowsAreSafe' /\ Asking' /\ OwnLogits'
  BY DEF RowsAreSafe, Asking, OwnLogits, TypeOK, InFlight, Submitted
<1>6. NobodyHeldForNothing'
  BY DEF MayDrive, NobodyHeldForNothing
<1>7. QED
  BY <1>1, <1>2, <1>3, <1>4, <1>5, <1>6

LEMMA DeadlineKeepsSound ==
  ASSUME Sound, NEW s \in Members, DeadlinePasses(s)
  PROVE  Sound'
<1> USE DEF Sound, DeadlinePasses
<1>1. TypeOK'
  <2>1. expired' \in [Members -> BOOLEAN]
    BY DEF TypeOK
  <2>2. phase' \in [Members -> Phase]
    BY DEF TypeOK, Phase, Submitted
  <2>3. QED
    BY <2>1, <2>2 DEF TypeOK
<1>2. Queued'
  BY QueuedRest DEF TypeOK, Submitted
<1>3. ActiveCounted'
  BY ActiveRest DEF TypeOK, Submitted
<1>4. PoolHolds'
  BY DEF PoolHolds
<1>5. RowsAreSafe' /\ Asking' /\ OwnLogits'
  BY DEF RowsAreSafe, Asking, OwnLogits, TypeOK, InFlight, Submitted
<1>6. NobodyHeldForNothing'
  <2>1. active' >= active
    BY Sizes DEF TypeOK
  <2>2. QED
    BY <2>1, <1>1, HeldRest DEF TypeOK
<1>7. QED
  BY <1>1, <1>2, <1>3, <1>4, <1>5, <1>6

(* What a round does to each handle.                                       *)
LEMMA RoundIs ==
  ASSUME TypeOK, Queued, NEW S, NEW R, NEW code, Round(S, R, code)
  PROVE  /\ queue' = Remaining(S)
         /\ \A t \in Members :
              /\ phase'[t] =
                   IF t \in R THEN IF code = "ok" THEN "working" ELSE code
                   ELSE IF t \in S THEN "retry"
                   ELSE IF phase[t] = "asleep" THEN "awake" ELSE phase[t]
              /\ used'[t] = used[t] + IF t \in R /\ code = "ok" THEN Chunk(t) ELSE 0
              /\ todo'[t] = todo[t] - IF t \in R /\ code = "ok" THEN Chunk(t) ELSE 0
              /\ logits'[t] =
                   IF t \in R /\ code = "ok"
                     THEN IF CopyRows THEN "copy" ELSE "buffer"
                   ELSE IF logits[t] = "buffer" /\ code # "noslot"
                     THEN "overwritten" ELSE logits[t]
              /\ expired'[t] \in BOOLEAN
         /\ active' = active
         /\ phase' = [t \in Members |-> phase'[t]]
         /\ used' = [t \in Members |-> used'[t]]
         /\ todo' = [t \in Members |-> todo'[t]]
         /\ logits' = [t \in Members |-> logits'[t]]
         /\ expired' = [t \in Members |-> expired'[t]]
<1> USE DEF Round, Publish
<1>1. \A t \in Members :
        phase'[t] = IF t \in R THEN IF code = "ok" THEN "working" ELSE code
                    ELSE IF t \in S THEN "retry"
                    ELSE IF phase[t] = "asleep" THEN "awake" ELSE phase[t]
  BY DEF WakeAll
<1>2. \A t \in Members :
        logits'[t] = IF t \in R /\ code = "ok"
                       THEN IF CopyRows THEN "copy" ELSE "buffer"
                     ELSE IF logits[t] = "buffer" /\ code # "noslot"
                       THEN "overwritten" ELSE logits[t]
  OBVIOUS
<1>3. \A t \in Members :
        /\ used'[t] = used[t] + IF t \in R /\ code = "ok" THEN Chunk(t) ELSE 0
        /\ todo'[t] = todo[t] - IF t \in R /\ code = "ok" THEN Chunk(t) ELSE 0
  OBVIOUS
<1>4. \A t \in Members : expired'[t] \in BOOLEAN
  BY DEF TypeOK
<1>5. /\ queue' = Remaining(S) /\ active' = active
      /\ phase' = [t \in Members |-> phase'[t]]
      /\ used' = [t \in Members |-> used'[t]]
      /\ todo' = [t \in Members |-> todo'[t]]
      /\ logits' = [t \in Members |-> logits'[t]]
      /\ expired' = [t \in Members |-> expired'[t]]
  OBVIOUS
<1>6. QED
  BY <1>1, <1>2, <1>3, <1>4, <1>5

LEMMA DriveKeepsSound ==
  ASSUME Sound, NEW s \in Members, Drive(s)
  PROVE  Sound'
<1> USE DEF Sound
<1>1. PICK S, R, code : Round(S, R, code)
  BY DriveIs
<1>2. /\ S \subseteq ToSet(queue) /\ S \subseteq Members /\ R \subseteq S
      /\ code \in {"ok", "noslot", "failed"}
      /\ code = "ok" => Tokens(R) <= Free
  BY <1>1 DEF Round
<1>3. /\ queue' \in Seq(Members) /\ ToSet(queue') = ToSet(queue) \ S /\ Once(queue')
  BY <1>1, RoundIs, RemainingIs DEF TypeOK, Queued
<1>4. \A t \in Members :
        /\ t \in S => phase[t] \in Submitted
        /\ t \in S => phase'[t] \notin Submitted /\ phase'[t] \in Phase /\ phase'[t] # "out"
        /\ t \notin S => /\ phase'[t] = IF phase[t] = "asleep" THEN "awake" ELSE phase[t]
                         /\ phase'[t] \in Phase
                         /\ phase'[t] = "out" <=> phase[t] = "out"
                         /\ phase'[t] \in Submitted <=> phase[t] \in Submitted
  <2>1. \A t \in Members : t \in S => phase[t] \in Submitted
    BY <1>2, QueueIs
  <2>2. \A t \in Members : phase[t] \in Phase
    BY DEF TypeOK
  <2>3. QED
    BY <1>1, <1>2, <2>1, <2>2, RoundIs DEF Phase, Submitted
<1>5. \A t \in Members : /\ Chunk(t) \in Nat /\ Chunk(t) <= todo[t]
                         /\ todo[t] \in 0..MaxPrompt
                         /\ used[t] \in 0..(Capacity * Window)
  BY ChunkIs DEF TypeOK
<1>6. \A t \in Members : used'[t] \in Nat /\ todo'[t] \in 0..MaxPrompt
  BY <1>1, <1>5, RoundIs, Sizes
<1>7. PoolHolds'
  <2>1. CASE code = "ok"
    <3> DEFINE g == [t \in R |-> Chunk(t)]
    <3>1. R \subseteq Members /\ IsFiniteSet(R) /\ Tokens(R) \in Nat /\ Tokens(R) = Total(R, g)
      BY <1>2, TokensIs DEF Tokens
    <3>2. /\ \A t \in R : g[t] \in Nat
          /\ \A t \in Members : used[t] \in Nat
          /\ \A t \in Members :
               used'[t] <= used[t] + (IF t \in R THEN g[t] ELSE 0)
      <4>1. ASSUME NEW t \in Members
            PROVE  used'[t] <= used[t] + (IF t \in R THEN g[t] ELSE 0)
        <5>1. used'[t] = used[t] + IF t \in R /\ code = "ok" THEN Chunk(t) ELSE 0
          BY <1>1, RoundIs
        <5>2. used[t] \in Nat /\ Chunk(t) \in Nat
          BY <1>5, Sizes
        <5>3. QED
          BY <5>1, <5>2, <2>1
      <4>2. QED
        BY <4>1, <1>5, <1>2, Sizes
    <3> HIDE DEF g
    <3>3. Total(Members, used') <= Total(Members, used) + Total(R, g)
      BY <1>6, <3>1, <3>2, Sizes, TotalPlus
    <3>4. Total(Members, used) \in Nat /\ Total(Members, used') \in Nat
      BY <1>6, <3>2, Sizes, TotalIsNat
    <3>5. Total(R, g) <= Capacity * Window - Total(Members, used)
      BY <1>2, <2>1, <3>1 DEF Free
    <3>6. QED
      BY <3>1, <3>3, <3>4, <3>5, Sizes DEF PoolHolds
  <2>2. CASE code # "ok"
    <3>1. \A t \in Members : used'[t] = used[t]
      BY <1>1, <1>5, <2>2, RoundIs, Sizes
    <3>2. Total(Members, used') = Total(Members, used)
      BY <3>1, <1>5, TotalSame, Sizes
    <3>3. QED
      BY <3>2 DEF PoolHolds
  <2>3. QED
    BY <2>1, <2>2
<1>8. TypeOK'
  <2>1. phase' \in [Members -> Phase]
    BY <1>1, <1>4, RoundIs
  <2>2. used' \in [Members -> 0..(Capacity * Window)]
    <3>1. ASSUME NEW t \in Members PROVE used'[t] <= Capacity * Window
      <4>1. used'[t] <= Total(Members, used') /\ Total(Members, used') \in Nat
        BY <1>6, Sizes, TotalAtLeast, TotalIsNat
      <4>2. QED
        BY <4>1, <1>6, <1>7, Sizes DEF PoolHolds
    <3>2. \A t \in Members : used'[t] \in 0..(Capacity * Window)
      BY <3>1, <1>6, Sizes
    <3>3. QED
      BY <3>2, <1>1, RoundIs
  <2>3. todo' \in [Members -> 0..MaxPrompt] /\ expired' \in [Members -> BOOLEAN]
    BY <1>1, <1>6, RoundIs
  <2>4. logits' \in [Members -> {"none", "copy", "buffer", "overwritten"}]
    <3>1. \A t \in Members : logits'[t] \in {"none", "copy", "buffer", "overwritten"}
      BY <1>1, RoundIs DEF TypeOK
    <3>2. QED
      BY <3>1, <1>1, RoundIs
  <2>5. active' = active
    BY <1>1, RoundIs
  <2>6. QED
    BY <1>3, <2>1, <2>2, <2>3, <2>4, <2>5 DEF TypeOK
<1>9. Queued'
  BY <1>2, <1>3, <1>4 DEF Queued
<1>10. ActiveCounted'
  <2>1. \A t \in Members : phase'[t] = "out" <=> phase[t] = "out"
    BY <1>4 DEF Submitted
  <2>2. active' = active
    BY <1>1, RoundIs
  <2>3. QED
    BY <2>1, <2>2, ActiveRest
<1>11. RowsAreSafe' /\ OwnLogits'
  <2>1. ASSUME NEW t \in Members
        PROVE  /\ phase'[t] \in Submitted => logits'[t] = "none"
               /\ logits'[t] = "buffer" => Capacity = 1
               /\ logits'[t] # "overwritten"
    <3>1. phase[s] \in Submitted /\ s \in ToSet(queue) /\ Head(queue) \in Members
          /\ phase[Head(queue)] \in Submitted
      BY QueueIs, DriveIs DEF Drive, Submitted
    <3>2. logits'[t] = IF t \in R /\ code = "ok"
                         THEN IF CopyRows THEN "copy" ELSE "buffer"
                       ELSE IF logits[t] = "buffer" /\ code # "noslot"
                         THEN "overwritten" ELSE logits[t]
      BY <1>1, RoundIs
    <3>3. /\ logits[t] # "overwritten"
          /\ phase[t] \in Submitted => logits[t] = "none"
          /\ logits[t] = "buffer" => Capacity = 1
      BY DEF RowsAreSafe, OwnLogits
    <3>4. ASSUME Capacity = 1 PROVE t = s
      <4>1. Cardinality(Members) = 1 /\ IsFiniteSet(Members)
        BY <3>4, Sizes DEF Capacity
      <4>2. Cardinality(Members \ {s}) = 0 /\ IsFiniteSet(Members \ {s})
        BY <4>1, FS_RemoveElement
      <4>3. Members \ {s} = {}
        BY <4>2, FS_EmptySet
      <4>4. QED
        BY <4>3
    <3>5. logits[t] # "buffer"
      BY <3>1, <3>3, <3>4
    <3>6. phase'[t] \in Submitted => t \notin S /\ phase[t] \in Submitted
      BY <1>4
    <3>7. ~CopyRows => Capacity = 1
      BY Sizes DEF CopyRows
    <3>8. QED
      BY <1>2, <3>2, <3>3, <3>5, <3>6, <3>7
  <2>2. QED
    BY <2>1 DEF RowsAreSafe, OwnLogits
<1>12. Asking'
  <2>1. ASSUME NEW t \in Members, InFlight(t)' PROVE todo'[t] > 0
    <3>1. phase'[t] \in Submitted \cup {"retry"}
      BY <2>1 DEF InFlight
    <3>2. t \notin R /\ InFlight(t)
      <4>1. t \in R => phase'[t] \in {"working", "noslot", "failed"}
        BY <1>1, <1>2, RoundIs
      <4>2. t \notin R
        BY <3>1, <4>1 DEF Submitted
      <4>3. CASE t \in S
        BY <4>2, <4>3, <1>4 DEF InFlight
      <4>4. CASE t \notin S
        BY <4>2, <4>4, <1>4, <3>1 DEF InFlight, Submitted
      <4>5. QED
        BY <4>2, <4>3, <4>4
    <3>3. todo'[t] = todo[t] - 0
      BY <1>1, <3>2, RoundIs
    <3>4. QED
      BY <3>2, <3>3, <1>5, Sizes DEF Asking
  <2>2. QED
    BY <2>1 DEF Asking
<1>13. NobodyHeldForNothing'
  <2>1. SUFFICES ASSUME queue' # <<>> PROVE \E t \in ToSet(queue') : phase'[t] = "awake"
    BY DEF NobodyHeldForNothing
  <2>2. Head(queue') \in ToSet(queue')
    BY <2>1, <1>3 DEF ToSet
  <2>3. PICK t \in ToSet(queue') : TRUE
    BY <2>2
  <2>4. t \in ToSet(queue) /\ t \notin S /\ t \in Members
    BY <1>3, QueueIs
  <2>5. phase'[t] = "awake"
    BY <2>4, <1>4, QueueIs DEF Submitted
  <2>6. QED
    BY <2>5
<1>14. QED
  BY <1>7, <1>8, <1>9, <1>10, <1>11, <1>12, <1>13

LEMMA NextKeepsSound == Sound /\ [Next]_vars => Sound'
<1> SUFFICES ASSUME Sound, [Next]_vars PROVE Sound'
  OBVIOUS
<1>1. CASE Next
  <2>1. PICK s \in Members :
          \/ Decode(s) \/ DeadlinePasses(s)
          \/ \E fresh \in 1..MaxPrompt : Join(s, fresh)
          \/ Evict(s) \/ Pick(s) \/ Leave(s)
          \/ \E kept \in 0..(used[s] - 1) : Drop(s, kept)
    BY <1>1 DEF Next
  <2>2. CASE Submit(s)
    BY <2>2, SubmitKeepsSound
  <2>3. CASE Drive(s)
    BY <2>3, DriveKeepsSound
  <2>4. CASE Doze(s)
    BY <2>4, DozeKeepsSound
  <2>5. CASE DeadlinePasses(s)
    BY <2>5, DeadlineKeepsSound
  <2>6. CASE \E fresh \in 1..MaxPrompt : Join(s, fresh)
    BY <2>6, JoinKeepsSound
  <2>7. CASE Evict(s)
    BY <2>7, EvictKeepsSound
  <2>8. CASE Pick(s)
    BY <2>8, PickKeepsSound
  <2>9. CASE Leave(s)
    BY <2>9, LeaveKeepsSound
  <2>10. CASE \E kept \in 0..(used[s] - 1) : Drop(s, kept)
    BY <2>10, DropKeepsSound
  <2>11. QED
    BY <2>1, <2>2, <2>3, <2>4, <2>5, <2>6, <2>7, <2>8, <2>9, <2>10 DEF Decode
<1>2. CASE UNCHANGED vars
  BY <1>2 DEF vars, Sound, TypeOK, Queued, ActiveCounted, Present, PoolHolds,
              RowsAreSafe, Asking, InFlight, OwnLogits, NobodyHeldForNothing
<1>3. QED
  BY <1>1, <1>2

LEMMA AlwaysSound == Spec => []Sound
  BY InitIsSound, NextKeepsSound, PTL DEF Spec

-----------------------------------------------------------------------------
(* Once every active sequence has submitted, a thread is up to drive the   *)
(* round (BatchEngine::run_round and leave).                               *)
THEOREM NobodyIsHeldForNothing == Spec => []NobodyHeldForNothing
<1>1. Sound => NobodyHeldForNothing
  BY DEF Sound
<1>2. QED
  BY <1>1, AlwaysSound, PTL

(* A handle samples from the logits of its own last token, whoever shared  *)
(* the batch with it (BatchEngine::publish).                               *)
THEOREM ResultsStayOwn == Spec => []ResultsAreOwn
<1>1. Sound => ResultsAreOwn
  BY DEF Sound, ResultsAreOwn
<1>2. QED
  BY <1>1, AlwaysSound, PTL

-----------------------------------------------------------------------------
(* What rounds do, step by step.                                           *)

LEMMA OthersKeepQueue ==
  ASSUME Sound, NEW s \in Members,
         \/ Submit(s) \/ Doze(s) \/ DeadlinePasses(s)
         \/ \E fresh \in 1..MaxPrompt : Join(s, fresh)
         \/ Evict(s) \/ Pick(s) \/ Leave(s)
         \/ \E kept \in 0..(used[s] - 1) : Drop(s, kept)
  PROVE  ~(Len(queue') < Len(queue))
<1>1. queue \in Seq(Members) /\ Len(queue) \in Nat
  BY DEF Sound, TypeOK
<1>2. CASE Submit(s)
  <2>1. queue' = Append(queue, s)
    BY <1>2 DEF Submit
  <2>2. Len(queue') = Len(queue) + 1
    BY <1>1, <2>1
  <2>3. QED
    BY <1>1, <2>2
<1>3. CASE ~Submit(s)
  <2>1. queue' = queue
    BY <1>3 DEF Doze, DeadlinePasses, Join, Evict, Pick, Leave, Drop
  <2>2. QED
    BY <1>1, <2>1
<1>4. QED
  BY <1>2, <1>3

(* No round is wasted: whoever has waited longest is given an answer       *)
(* (BatchEngine::run_round's re-run of the first alone).                   *)
THEOREM HeadIsAlwaysSettled == Spec => HeadIsSettled
<1>1. ASSUME Sound, [Next]_vars, Len(queue') < Len(queue)
      PROVE  phase'[Head(queue)] \in {"working", "noslot", "failed"}
  <2>1. CASE \E s \in Members : Drive(s)
    <3>1. PICK s \in Members : Drive(s)
      BY <2>1
    <3>2. PICK S, R, code : Round(S, R, code)
      BY <1>1, <3>1, DriveIs DEF Sound
    <3>3. /\ Head(queue) \in R /\ Head(queue) \in Members
          /\ code \in {"ok", "noslot", "failed"}
      BY <3>2 DEF Round
    <3>4. phase'[Head(queue)] = IF code = "ok" THEN "working" ELSE code
      BY <1>1, <3>2, <3>3, RoundIs DEF Sound
    <3>5. QED
      BY <3>3, <3>4
  <2>2. CASE ~\E s \in Members : Drive(s)
    <3>1. CASE Next
      BY <1>1, <2>2, <3>1, OthersKeepQueue DEF Next, Decode
    <3>2. CASE UNCHANGED vars
      <4>1. queue' = queue /\ Len(queue) \in Nat
        BY <1>1, <3>2 DEF vars, Sound, TypeOK
      <4>2. QED
        BY <1>1, <4>1
    <3>3. QED
      BY <1>1, <3>1, <3>2
  <2>3. QED
    BY <2>1, <2>2
<1>2. Sound /\ [Next]_vars =>
        [Len(queue') < Len(queue)
           => phase'[Head(queue)] \in {"working", "noslot", "failed"}]_vars
  BY <1>1
<1>3. QED
  BY <1>2, AlwaysSound, PTL DEF Spec, HeadIsSettled

(* A batch is no smaller than the engine has seats.                        *)
Roomy == Capacity <= BatchSize

(* At most one submission of more than a token leaves every other room.    *)
LEMMA AllFit ==
  ASSUME Roomy, TypeOK, Queued, NEW W, W # {}, W \subseteq ToSet(queue),
         Cardinality({t \in ToSet(queue) : Chunk(t) > 1}) <= 1
  PROVE  Tokens(W) <= BatchSize
<1> DEFINE f == [t \in W |-> Chunk(t)]
           Big == {t \in ToSet(queue) : Chunk(t) > 1}
<1>1. W \subseteq Members /\ IsFiniteSet(W) /\ \A x \in W : f[x] \in Nat
  BY QueueIs, TokensIs
<1>2. IsFiniteSet(Big)
  <2>1. Big \subseteq Members
    BY QueueIs
  <2>2. QED
    BY <2>1, Sizes, FS_Subset
<1>3. \A a, b \in Big : a = b
  <2>1. SUFFICES ASSUME NEW a \in Big, NEW b \in Big, a # b PROVE FALSE
    OBVIOUS
  <2>2. Cardinality(Big \ {a}) = Cardinality(Big) - 1 /\ Cardinality(Big) \in Nat
        /\ IsFiniteSet(Big \ {a})
    BY <1>2, FS_RemoveElement, FS_CardinalityType
  <2>6. b \in Big \ {a}
    BY <2>1
  <2>3. Cardinality(Big \ {a}) \in Nat /\ Cardinality(Big \ {a}) # 0
    <3> DEFINE B == Big \ {a}
    <3>1. IsFiniteSet(B) /\ B # {}
      BY <2>2, <2>6
    <3> HIDE DEF B
    <3>2. Cardinality(B) \in Nat /\ Cardinality(B) # 0
      BY <3>1, FS_EmptySet, FS_CardinalityType
    <3>3. QED
      BY <3>2 DEF B
  <2>4. Cardinality(Big) <= 1
    OBVIOUS
  <2>5. QED
    BY <2>2, <2>3, <2>4
<1>4. PICK b \in W : \A t \in W \ {b} : ~(Chunk(t) > 1)
  <2>1. CASE W \cap Big = {}
    BY <2>1
  <2>2. CASE W \cap Big # {}
    BY <2>2, <1>3
  <2>3. QED
    BY <2>1, <2>2
<1>5. \A x \in W : f[x] = Chunk(x) /\ Chunk(x) \in Nat
  BY <1>1, ChunkIs
<1> HIDE DEF f
<1>6. /\ IsFiniteSet(W \ {b}) /\ Cardinality(W \ {b}) = Cardinality(W) - 1
      /\ Cardinality(W) \in Nat /\ Cardinality(W) <= Capacity
  BY <1>1, Sizes, FS_RemoveElement, FS_CardinalityType, FS_Subset DEF Capacity
<1>7. Total(W \ {b}, f) <= Cardinality(W \ {b}) /\ Total(W \ {b}, f) \in Nat
  <2>1. \A x \in W \ {b} : f[x] \in Nat /\ f[x] <= 1
    BY <1>4, <1>5
  <2>2. QED
    BY <2>1, <1>6, TotalOfOnes, TotalIsNat
<1>8. Total(W, f) = f[b] + Total(W \ {b}, f)
  BY <1>1, TotalRemove
<1>9. f[b] \in Nat /\ f[b] <= ChunkLimit /\ ChunkLimit \in Nat \ {0}
  BY <1>1, <1>5, ChunkIs
<1>10. Total(W, f) <= ChunkLimit + Capacity - 1
  BY <1>6, <1>7, <1>8, <1>9, Sizes
<1>11. ChunkLimit + Capacity - 1 <= BatchSize
  BY Sizes DEF ChunkLimit, Lesser, Greater, Roomy
<1>12. Tokens(W) = Total(W, f)
  BY DEF Tokens, f
<1>13. Total(W, f) \in Nat
  BY <1>7, <1>8, <1>9
<1>14. QED
  BY <1>9, <1>10, <1>11, <1>12, <1>13, Sizes

(* A long prompt does not keep the others out (LlamaCppLlm::decode's chunk *)
(* limit).                                                                 *)
THEOREM TokensAlwaysRideAlong ==
  ASSUME Roomy
  PROVE  Spec => TokensRideAlong
<1>1. ASSUME Sound, NEW s \in Members, Drive(s),
             Cardinality({t \in ToSet(queue) : Chunk(t) > 1}) <= 1
      PROVE  queue' = <<>>
  <2>1. TypeOK /\ Queued
    BY <1>1 DEF Sound
  <2>2. PICK S, R, code : Round(S, R, code)
    BY <1>1, <2>1, DriveIs
  <2>3. Packs(S)
    BY <2>2 DEF Round
  <2>4. ASSUME NEW i \in DOMAIN queue PROVE queue[i] \in S
    <3> DEFINE before == S \cap {queue[j] : j \in 1..(i - 1)}
               q == queue[i]
               W == before \cup {q}
    <3>1. /\ queue[i] \in Members /\ i \in Nat /\ DOMAIN queue = 1..Len(queue)
          /\ ToSet(queue) = {queue[j] : j \in DOMAIN queue} /\ Len(queue) \in Nat
      BY <2>1 DEF TypeOK, ToSet
    <3>2. \A j \in 1..(i - 1) : j \in DOMAIN queue /\ j # i
      BY <3>1
    <3>3. q \notin before
      BY <3>2, <2>1 DEF Queued, Once
    <3>4. W \subseteq ToSet(queue) /\ W # {} /\ W \subseteq Members
      BY <3>1, <3>2, <2>1, QueueIs
    <3>5. Tokens(W) <= BatchSize
      BY <3>4, <2>1, <1>1, AllFit
    <3> DEFINE f == [t \in W |-> Chunk(t)]
               g == [t \in before |-> Chunk(t)]
    <3>6. Tokens(W) = Total(W, f) /\ Tokens(before) = Total(before, g)
      BY DEF Tokens
    <3>7. /\ IsFiniteSet(W) /\ IsFiniteSet(before) /\ f[q] = Chunk(q)
          /\ \A t \in W : f[t] \in Nat
          /\ \A t \in before : f[t] \in Nat /\ g[t] = f[t]
      <4>1. \A t \in W : Chunk(t) \in Nat
        BY <3>4, <2>1, ChunkIs
      <4>2. IsFiniteSet(W) /\ IsFiniteSet(before)
        BY <3>4, Sizes, FS_Subset
      <4>3. QED
        BY <4>1, <4>2
    <3>8. W \ {q} = before /\ q \in W
      BY <3>3
    <3> HIDE DEF f, g, before, W
    <3>9. Total(W, f) = f[q] + Total(W \ {q}, f)
      BY <3>7, <3>8, TotalRemove
    <3>10. Total(before, g) = Total(before, f) /\ Total(before, f) \in Nat
      BY <3>7, TotalSame, TotalIsNat
    <3>14. Total(W, f) = Chunk(q) + Total(before, f) /\ Chunk(q) \in Nat
      BY <3>7, <3>8, <3>9
    <3>15. Chunk(q) + Total(before, f) <= BatchSize
      BY <3>5, <3>6, <3>14
    <3>16. Tokens(before) = Total(before, f) /\ Total(before, f) \in Nat
      BY <3>6, <3>10
    <3> HIDE DEF q
    <3>11. Tokens(before) + Chunk(q) <= BatchSize
      BY <3>14, <3>15, <3>16, Sizes
    <3>12. q \in S <=> Tokens(before) + Chunk(q) <= BatchSize
      BY <2>3 DEF Packs, before, q
    <3>13. QED
      BY <3>11, <3>12 DEF q
  <2>5. ToSet(queue) \ S = {}
    BY <2>4 DEF ToSet
  <2>6. queue' \in Seq(Members) /\ ToSet(queue') = {}
    BY <2>1, <2>2, <2>5, RoundIs, RemainingIs DEF TypeOK
  <2>7. QED
    BY <2>6 DEF ToSet
<1>2. Sound /\ [Next]_vars =>
        [\A s \in Members :
           Drive(s) /\ Cardinality({t \in ToSet(queue) : Chunk(t) > 1}) <= 1
             => queue' = <<>>]_vars
  BY <1>1
<1>3. QED
  BY <1>2, AlwaysSound, PTL DEF Spec, TokensRideAlong

-----------------------------------------------------------------------------
(* The engine implements the service.                                      *)

LEMMA SameTotal == \A S, cells : Service!Total(S, cells) = Total(S, cells)
  BY DEF Service!Total, Service!MapThenSumSet, Service!MapThenFoldSet,
         Total, MapThenSumSet, MapThenFoldSet

LEMMA ServiceIs ==
  ASSUME TypeOK, Asking
  PROVE  /\ Service!Free = Free
         /\ Asked \in [Members -> Nat]
         /\ Service!Pending = {s \in Members : InFlight(s)}
         /\ \A s \in Members : Asked[s] = IF InFlight(s) THEN Chunk(s) ELSE 0
<1>1. Service!Total(Members, used) = Total(Members, used)
  BY SameTotal
<1>2. Service!Free = Free
  BY <1>1 DEF Service!Free, Free
<1>3. \A s \in Members :
        /\ Asked[s] = IF InFlight(s) THEN Chunk(s) ELSE 0
        /\ Chunk(s) \in Nat /\ (InFlight(s) => Chunk(s) > 0)
  BY ChunkIs DEF Asked, Asking
<1>4. Asked \in [Members -> Nat]
  BY <1>3 DEF Asked
<1>5. Service!Pending = {s \in Members : InFlight(s)}
  BY <1>3 DEF Service!Pending
<1>6. QED
  BY <1>2, <1>3, <1>4, <1>5

(* One handle's request and answer change, and nobody else's.              *)
LEMMA OnlyOne ==
  ASSUME TypeOK, TypeOK', NEW s \in Members,
         \A t \in Members \ {s} :
           /\ InFlight(t)' <=> InFlight(t)
           /\ phase'[t] = "noslot" <=> phase[t] = "noslot"
           /\ phase'[t] = "failed" <=> phase[t] = "failed"
           /\ todo'[t] = todo[t]
  PROVE  /\ Asked' = [Asked EXCEPT ![s] = Asked'[s]]
         /\ Answered' = [Answered EXCEPT ![s] = Told(s)']
<1>1. \A t \in Members \ {s} : Chunk(t)' = Chunk(t)
  BY DEF Chunk, ChunkLimit
<1>2. \A t \in Members \ {s} : Told(t)' = Told(t)
  BY DEF Told
<1>3. \A t \in Members \ {s} : Asked'[t] = Asked[t]
  BY <1>1 DEF Asked
<1>4. Asked' = [t \in Members |-> Asked'[t]] /\ Asked = [t \in Members |-> Asked[t]]
  BY DEF Asked
<1>5. Asked' = [Asked EXCEPT ![s] = Asked'[s]]
  BY <1>3, <1>4
<1>6. Answered = [t \in Members |-> Told(t)] /\ Answered' = [t \in Members |-> Told(t)']
  BY DEF Answered
<1>7. QED
  BY <1>2, <1>5, <1>6

(* Nothing that the service speaks of changes.                             *)
LEMMA Unseen ==
  ASSUME TypeOK, TypeOK', used' = used,
         \A t \in Members :
           /\ InFlight(t)' <=> InFlight(t)
           /\ phase'[t] = "noslot" <=> phase[t] = "noslot"
           /\ phase'[t] = "failed" <=> phase[t] = "failed"
           /\ InFlight(t) => todo'[t] = todo[t]
  PROVE  UNCHANGED Service!vars
<1>1. \A t \in Members : InFlight(t) => Chunk(t)' = Chunk(t)
  BY DEF Chunk, ChunkLimit
<1>2. Asked' = Asked
  BY <1>1 DEF Asked
<1>3. \A t \in Members : Told(t)' = Told(t)
  BY DEF Told
<1>4. Answered = [t \in Members |-> Told(t)] /\ Answered' = [t \in Members |-> Told(t)']
  BY DEF Answered
<1>5. Answered' = Answered
  BY <1>3, <1>4
<1>6. QED
  BY <1>2, <1>5 DEF Service!vars

Serves == Service!Next \/ UNCHANGED Service!vars

LEMMA JoinServes ==
  ASSUME Sound, Sound', NEW s \in Members, NEW fresh \in 1..MaxPrompt, Join(s, fresh)
  PROVE  Serves
<1>1. UNCHANGED Service!vars
  BY Unseen DEF Sound, Join, InFlight, TypeOK, Submitted
<1>2. QED
  BY <1>1 DEF Serves

LEMMA WaitingServes ==
  ASSUME Sound, Sound', NEW s \in Members, Doze(s) \/ DeadlinePasses(s)
  PROVE  Serves
<1>1. CASE Doze(s)
  BY <1>1, Unseen DEF Sound, Doze, InFlight, TypeOK, Submitted, Serves
<1>2. CASE DeadlinePasses(s)
  BY <1>2, Unseen DEF Sound, DeadlinePasses, InFlight, TypeOK, Submitted, Serves
<1>3. QED
  BY <1>1, <1>2

LEMMA SubmitServes ==
  ASSUME Sound, Sound', NEW s \in Members, Submit(s)
  PROVE  Serves
<1> USE DEF Sound
<1>1. /\ phase[s] \in {"working", "retry"} /\ todo[s] > 0
      /\ phase' = [phase EXCEPT ![s] = "awake"] /\ todo' = todo /\ used' = used
  BY DEF Submit
<1>2. CASE phase[s] = "retry"
  BY <1>1, <1>2, Unseen DEF InFlight, TypeOK, Submitted, Serves
<1>3. CASE phase[s] = "working"
  <2>1. ~InFlight(s) /\ InFlight(s)'
    BY <1>1, <1>3 DEF InFlight, TypeOK, Submitted
  <2>2. \A t \in Members \ {s} :
          /\ InFlight(t)' <=> InFlight(t)
          /\ phase'[t] = "noslot" <=> phase[t] = "noslot"
          /\ phase'[t] = "failed" <=> phase[t] = "failed"
          /\ todo'[t] = todo[t]
    BY <1>1 DEF InFlight, TypeOK
  <2>3. /\ Asked' = [Asked EXCEPT ![s] = Asked'[s]]
        /\ Answered' = [Answered EXCEPT ![s] = Told(s)']
    BY <2>2, OnlyOne
  <2>4. Told(s)' = "none"
    BY <2>1 DEF Told
  <2>5. Asked'[s] > 0
    <3>1. Chunk(s)' = Chunk(s) /\ Chunk(s) > 0
      BY <1>1, ChunkIs DEF Chunk, ChunkLimit
    <3>2. Asked'[s] = Chunk(s)'
      BY <2>1 DEF Asked
    <3>3. QED
      BY <3>1, <3>2
  <2>6. s \notin Service!Pending
    BY <2>1, ServiceIs
  <2>7. Service!Ask(s)
    BY <1>1, <2>3, <2>4, <2>5, <2>6 DEF Service!Ask
  <2>8. QED
    BY <2>7 DEF Serves, Service!Next
<1>4. QED
  BY <1>1, <1>2, <1>3

(* Cells given up by a handle that asks for nothing.                       *)
LEMMA GivesUp ==
  ASSUME Sound, Sound', NEW s \in Members, NEW n \in Nat, n < used[s],
         ~InFlight(s), ~InFlight(s)', used' = [used EXCEPT ![s] = n],
         Told(s)' = "ok",
         \A t \in Members \ {s} : phase'[t] = phase[t] /\ todo'[t] = todo[t]
  PROVE  Serves
<1> USE DEF Sound
<1>1. \A t \in Members \ {s} : InFlight(t)' <=> InFlight(t)
  BY DEF InFlight
<1>2. /\ Asked' = [Asked EXCEPT ![s] = Asked'[s]]
      /\ Answered' = [Answered EXCEPT ![s] = "ok"]
  BY <1>1, OnlyOne
<1>3. Asked'[s] = 0 /\ Asked[s] = 0 /\ Asked = [t \in Members |-> Asked[t]]
  BY DEF Asked
<1>4. Asked' = Asked
  BY <1>2, <1>3
<1>5. s \notin Service!Pending
  BY ServiceIs
<1>6. n \in 0..(Capacity * Window)
  BY Sizes DEF TypeOK
<1>7. Service!Release(s, n)
  BY <1>2, <1>4, <1>5 DEF Service!Release
<1>8. QED
  BY <1>6, <1>7 DEF Serves, Service!Next

LEMMA EvictServes ==
  ASSUME Sound, Sound', NEW s \in Members, Evict(s)
  PROVE  Serves
<1> USE DEF Sound
<1> DEFINE n == EvictCount(s, Chunk(s))
<1>0. Chunk(s) \in Nat /\ used[s] \in Nat
  BY ChunkIs, Sizes DEF TypeOK
<1>1. n \in 0..used[s] /\ used[s] \in Nat /\ n > 0
  BY <1>0, EvictIs DEF Evict
<1> HIDE DEF n
<1>2. used[s] - n \in Nat /\ used[s] - n < used[s]
  BY <1>1
<1>3. /\ used' = [used EXCEPT ![s] = used[s] - n] /\ phase[s] = "noslot"
      /\ phase' = [phase EXCEPT ![s] = "working"] /\ todo' = todo
  BY DEF Evict, n
<1>4. ~InFlight(s) /\ ~InFlight(s)' /\ Told(s)' = "ok"
  BY <1>3 DEF InFlight, Told, TypeOK, Submitted
<1>5. \A t \in Members \ {s} : phase'[t] = phase[t] /\ todo'[t] = todo[t]
  BY <1>3 DEF TypeOK
<1>6. QED
  BY <1>2, <1>3, <1>4, <1>5, GivesUp

LEMMA DropServes ==
  ASSUME Sound, Sound', NEW s \in Members, NEW kept \in 0..(used[s] - 1), Drop(s, kept)
  PROVE  Serves
<1> USE DEF Sound
<1>1. kept \in Nat /\ kept < used[s] /\ used' = [used EXCEPT ![s] = kept]
      /\ phase[s] = "out" /\ phase' = phase /\ todo' = todo
  BY DEF Drop
<1>2. ~InFlight(s) /\ ~InFlight(s)' /\ Told(s)' = "ok"
  BY <1>1 DEF InFlight, Told, Submitted
<1>3. QED
  BY <1>1, <1>2, GivesUp

LEMMA PickServes ==
  ASSUME Sound, Sound', NEW s \in Members, Pick(s)
  PROVE  Serves
<1> USE DEF Sound
<1>1. /\ phase[s] = "working" /\ phase' = phase
      /\ todo' = [todo EXCEPT ![s] = 1]
      /\ ~InFlight(s) /\ ~InFlight(s)' /\ Told(s)' = "ok"
  BY DEF Pick, Sampling, InFlight, Told, Submitted
<1>2. \A t \in Members \ {s} : phase'[t] = phase[t] /\ todo'[t] = todo[t]
  BY <1>1 DEF TypeOK
<1>3. CASE Full(s)
  <2> DEFINE n == EvictCount(s, 1)
  <2>1. n \in 0..used[s] /\ used[s] \in Nat /\ n > 0
    BY <1>3, EvictIs, Sizes DEF TypeOK, Pick
  <2>2. used' = [used EXCEPT ![s] = used[s] - n]
    BY <1>3 DEF Pick
  <2> HIDE DEF n
  <2>3. used[s] - n \in Nat /\ used[s] - n < used[s]
    BY <2>1
  <2>4. QED
    BY <1>1, <1>2, <2>2, <2>3, GivesUp
<1>4. CASE ~Full(s)
  <2>1. used' = used
    BY <1>4 DEF Pick, TypeOK
  <2>2. \A t \in Members : InFlight(t)' <=> InFlight(t)
    BY <1>1 DEF InFlight
  <2>3. \A t \in Members : InFlight(t) => todo'[t] = todo[t]
    BY <1>1, <1>2
  <2>4. UNCHANGED Service!vars
    BY <1>1, <2>1, <2>2, <2>3, Unseen
  <2>5. QED
    BY <2>4 DEF Serves
<1>5. QED
  BY <1>3, <1>4

LEMMA LeaveServes ==
  ASSUME Sound, Sound', NEW s \in Members, Leave(s)
  PROVE  Serves
<1> USE DEF Sound
<1>1. /\ phase[s] \in {"working", "failed", "noslot"} /\ used' = used
      /\ \A t \in Members : phase'[t] =
            IF t = s THEN "out" ELSE IF phase[t] = "asleep" THEN "awake" ELSE phase[t]
      /\ todo' = [todo EXCEPT ![s] = 0]
  BY DEF Leave, MayLeave, Sampling, WakeAll, TypeOK
<1>2. ~InFlight(s) /\ ~InFlight(s)' /\ Told(s)' = "ok"
  BY <1>1 DEF InFlight, Told, Submitted
<1>3. \A t \in Members \ {s} :
        /\ InFlight(t)' <=> InFlight(t)
        /\ phase'[t] = "noslot" <=> phase[t] = "noslot"
        /\ phase'[t] = "failed" <=> phase[t] = "failed"
        /\ todo'[t] = todo[t]
  BY <1>1 DEF InFlight, Submitted, TypeOK
<1>4. /\ Asked' = [Asked EXCEPT ![s] = Asked'[s]]
      /\ Answered' = [Answered EXCEPT ![s] = "ok"]
  BY <1>2, <1>3, OnlyOne
<1>5. Asked'[s] = 0 /\ Asked[s] = 0 /\ Asked = [t \in Members |-> Asked[t]]
  BY <1>2 DEF Asked
<1>6. Asked' = Asked
  BY <1>4, <1>5
<1>7. s \notin Service!Pending
  BY <1>2, ServiceIs
<1>8. Service!Retire(s)
  BY <1>1, <1>4, <1>6, <1>7 DEF Service!Retire
<1>9. QED
  BY <1>8 DEF Serves, Service!Next

LEMMA DriveServes ==
  ASSUME Sound, Sound', NEW s \in Members, Drive(s)
  PROVE  Serves
<1> USE DEF Sound
<1>1. PICK S, R, code : Round(S, R, code)
  BY DriveIs
<1>2. /\ S \subseteq ToSet(queue) /\ S \subseteq Members /\ R \subseteq S
      /\ Head(queue) \in R /\ code \in {"ok", "noslot", "failed"}
      /\ code = "ok" => Tokens(R) <= Free
      /\ code = "noslot" => R = {Head(queue)} /\ ~(Tokens(R) <= Free)
  BY <1>1 DEF Round
<1> DEFINE what == IF code = "ok" THEN "ok"
                   ELSE IF code = "noslot" THEN "no_kv_slot" ELSE "failed"
<1>3. \A t \in R : InFlight(t) /\ t \in Members /\ t \in Service!Pending
  BY <1>2, QueueIs, ServiceIs DEF InFlight
<1>4. \A t \in R : ~InFlight(t)' /\ Told(t)' = what
  <2>1. \A t \in R : phase'[t] = IF code = "ok" THEN "working" ELSE code
    BY <1>1, <1>2, RoundIs
  <2>2. QED
    BY <2>1, <1>2 DEF InFlight, Told, Submitted
<1>5. \A t \in Members \ R :
        (InFlight(t)' <=> InFlight(t)) /\ Told(t)' = Told(t) /\ Chunk(t)' = Chunk(t)
  <2>1. SUFFICES ASSUME NEW t \in Members \ R
        PROVE  (InFlight(t)' <=> InFlight(t)) /\ Told(t)' = Told(t) /\ Chunk(t)' = Chunk(t)
    OBVIOUS
  <2>2. todo'[t] = todo[t]
    BY <1>1, RoundIs, Sizes DEF TypeOK
  <2>3. phase'[t] = IF t \in S THEN "retry"
                    ELSE IF phase[t] = "asleep" THEN "awake" ELSE phase[t]
    BY <1>1, RoundIs
  <2>4. t \in S => InFlight(t)
    BY <1>2, QueueIs DEF InFlight
  <2>5. QED
    BY <2>2, <2>3, <2>4 DEF InFlight, Told, Submitted, Chunk, ChunkLimit
<1>6. Service!Answer(R, what)
  <2>1. Asked' = [t \in Members |-> IF t \in R THEN 0 ELSE Asked[t]]
    <3>1. \A t \in Members : Asked[t] = IF InFlight(t) THEN Chunk(t) ELSE 0
      BY DEF Asked
    <3>2. Asked' = [t \in Members |-> IF InFlight(t)' THEN Chunk(t)' ELSE 0]
      BY DEF Asked
    <3>3. \A t \in Members : (IF InFlight(t)' THEN Chunk(t)' ELSE 0)
                               = IF t \in R THEN 0 ELSE Asked[t]
      BY <3>1, <1>4, <1>5
    <3>4. QED
      BY <3>2, <3>3
  <2>2. Answered = [t \in Members |-> Told(t)] /\ Answered' = [t \in Members |-> Told(t)']
    BY DEF Answered
  <2>3. Answered' = [t \in Members |-> IF t \in R THEN what ELSE Answered[t]]
    BY <2>2, <1>4, <1>5
  <2>4. QED
    BY <2>1, <2>3 DEF Service!Answer
<1>7. R \in (SUBSET Service!Pending) \ {{}}
  BY <1>2, <1>3
<1>8. code # "ok" => used' = used
  BY SMTT(30), <1>1, RoundIs, Sizes DEF TypeOK
<1>9. /\ IsFiniteSet(R) /\ \A t \in R : Chunk(t) \in Nat /\ Asked[t] = Chunk(t)
      /\ Tokens(R) \in Nat
  BY <1>2, <1>3, TokensIs, ChunkIs DEF Asked
<1>10. Service!Total(R, Asked) = Tokens(R)
  <2> DEFINE g == [t \in R |-> Chunk(t)]
  <2>1. Tokens(R) = Total(R, g) /\ \A t \in R : g[t] \in Nat /\ Asked[t] = g[t]
    BY <1>9 DEF Tokens
  <2> HIDE DEF g
  <2>2. Total(R, Asked) = Total(R, g)
    BY <1>9, <2>1, TotalSame
  <2>3. Service!Total(R, Asked) = Total(R, Asked)
    BY SameTotal
  <2>4. QED
    BY <2>1, <2>2, <2>3
<1>11. Service!Free = Free
  BY ServiceIs
<1>12. CASE code = "ok"
  <2>1. \A t \in Members : used'[t] = used[t] + IF t \in R THEN Asked[t] ELSE 0
    BY <1>1, <1>9, <1>12, RoundIs
  <2>2. used' = [t \in Members |-> used[t] + IF t \in R THEN Asked[t] ELSE 0]
    BY <1>1, <2>1, RoundIs
  <2>3. Service!Lay(R)
    BY <1>2, <1>6, <1>10, <1>11, <1>12, <2>2 DEF Service!Lay
  <2>4. QED
    BY <1>7, <2>3 DEF Serves, Service!Next
<1>13. CASE code = "noslot"
  <2> DEFINE h == Head(queue)
  <2>1. R = {h} /\ h \in Members /\ ~(Tokens(R) <= Free)
    BY <1>2, <1>13
  <2>2. Tokens(R) = Asked[h] /\ Asked[h] \in Nat
    <3> DEFINE g == [t \in R |-> Chunk(t)]
    <3>1. Tokens(R) = Total(R, g) /\ g[h] = Asked[h] /\ g[h] \in Nat
      BY <1>9, <2>1 DEF Tokens
    <3> HIDE DEF g
    <3>2. Total({h}, g) = g[h]
      BY <3>1, TotalSingle
    <3>3. QED
      BY <2>1, <3>1, <3>2
  <2>3. Free \in Int
    <3>1. Total(Members, used) \in Nat
      BY Sizes, TotalIsNat DEF TypeOK
    <3>2. QED
      BY <3>1, Sizes DEF Free
  <2>4. Asked[h] > Service!Free
    BY <1>11, <2>1, <2>2, <2>3
  <2>5. what = "no_kv_slot" /\ used' = used
    BY <1>8, <1>13
  <2>6. Service!Refuse(h)
    BY <1>6, <2>1, <2>4, <2>5 DEF Service!Refuse
  <2>7. QED
    BY <2>1, <2>6 DEF Serves, Service!Next
<1>14. CASE code = "failed"
  <2>1. what = "failed" /\ used' = used
    BY <1>8, <1>14
  <2>2. Service!Fail(R)
    BY <1>6, <2>1 DEF Service!Fail
  <2>3. QED
    BY <1>7, <2>2 DEF Serves, Service!Next
<1>15. QED
  BY <1>2, <1>12, <1>13, <1>14

(* Each submission is answered as if it had been decided by itself: only   *)
(* the one that ran out of cells is told so (BatchEngine::run_round).      *)
THEOREM RoundsImplementService == Spec => ImplementsDecodeService
<1>1. Init => Service!Init
  <2> SUFFICES ASSUME Init PROVE Service!Init
    OBVIOUS
  <2>1. \A s \in Members : ~InFlight(s) /\ Told(s) = "ok"
    BY DEF Init, InFlight, Told, Submitted
  <2>2. Asked = [s \in Members |-> 0]
    BY <2>1 DEF Asked
  <2>3. Answered = [s \in Members |-> "ok"]
    BY <2>1 DEF Answered
  <2>4. QED
    BY <2>2, <2>3 DEF Init, Service!Init
<1>2. Sound /\ Sound' /\ [Next]_vars => [Service!Next]_(Service!vars)
  <2> SUFFICES ASSUME Sound, Sound', [Next]_vars PROVE Serves
    BY DEF Serves
  <2>1. CASE Next
    <3>1. PICK s \in Members :
            \/ Decode(s) \/ DeadlinePasses(s)
            \/ \E fresh \in 1..MaxPrompt : Join(s, fresh)
            \/ Evict(s) \/ Pick(s) \/ Leave(s)
            \/ \E kept \in 0..(used[s] - 1) : Drop(s, kept)
      BY <2>1 DEF Next
    <3>2. CASE Submit(s)
      BY <3>2, SubmitServes
    <3>3. CASE Drive(s)
      BY <3>3, DriveServes
    <3>4. CASE Doze(s) \/ DeadlinePasses(s)
      BY <3>4, WaitingServes
    <3>5. CASE \E fresh \in 1..MaxPrompt : Join(s, fresh)
      BY <3>5, JoinServes
    <3>6. CASE Evict(s)
      BY <3>6, EvictServes
    <3>7. CASE Pick(s)
      BY <3>7, PickServes
    <3>8. CASE Leave(s)
      BY <3>8, LeaveServes
    <3>9. CASE \E kept \in 0..(used[s] - 1) : Drop(s, kept)
      BY <3>9, DropServes
    <3>10. QED
      BY <3>1, <3>2, <3>3, <3>4, <3>5, <3>6, <3>7, <3>8, <3>9 DEF Decode
  <2>2. CASE UNCHANGED vars
    <3>1. used' = used /\ phase' = phase /\ todo' = todo
      BY <2>2 DEF vars
    <3>2. UNCHANGED Service!vars
      BY <3>1, Unseen DEF Sound, InFlight
    <3>3. QED
      BY <3>2 DEF Serves
  <2>3. QED
    BY <2>1, <2>2
<1>3. QED
  BY <1>1, <1>2, AlwaysSound, PTL DEF Spec, ImplementsDecodeService, Service!Spec
=============================================================================
