------------------------- MODULE Speculation_proofs -------------------------
(***************************************************************************)
(* What TLAPS proves about Speculation, for any vocabulary, prompt, budget *)
(* and number of draft tokens.  A round moves tokens between four          *)
(* sequences, the proposals, the cache, the round's tokens and the reply;  *)
(* the invariant says what they are to each other in each phase.           *)
(***************************************************************************)
EXTENDS Speculation, SequenceTheorems, WellFoundedInduction, TLAPS

(* The reply as far as it has been appended.                               *)
Sofar == Prompt \o output

(* The types, and what each phase has at hand.                             *)
Framed ==
  /\ phase \in {"head", "draft", "first", "batch", "walk", "fallback", "emit"}
  /\ ended \in {"no", "eos", "length", "stopped", "context_length",
                "context_length_error", "failed"}
  /\ phase # "head" => ended = "no"
  /\ history \in Seq(Token) /\ row \in Seq(Token) \cup {Overwritten}
  /\ chain \in Seq(Token) /\ output \in Seq(Token)
  /\ drafted \in Seq(Token) /\ draftCells = drafted
  /\ proposals \in Seq(Token) /\ step \in Seq(Token)
  /\ Len(history) <= Window /\ Len(output) <= MaxTokens
  /\ matched \in 0..Len(proposals) /\ ready \in 0..Len(step)

(* What is left of the budget, of the window and of the round.             *)
Counted ==
  /\ ended = "no" => Len(output) < MaxTokens
  /\ phase = "head" /\ ended = "no" => step = <<>>
  /\ phase \in {"draft", "first", "fallback"} => step = <<>>
  /\ phase = "draft" => proposals = <<>>
  /\ phase \in {"draft", "first", "batch"} => Len(history) < Window
  /\ phase \in {"draft", "first", "batch", "walk", "fallback"} =>
       ready = 0 /\ Len(output) + Len(proposals) + 1 <= MaxTokens
  /\ phase = "batch" => /\ proposals # <<>> /\ step = SubSeq(proposals, 1, 1)
                        /\ Len(history) + Len(proposals) <= Window
  /\ phase = "walk" => step = SubSeq(proposals, 1, matched)
  /\ phase = "emit" => /\ step # <<>> /\ ready = Len(step) - 1
                       /\ Len(output) + Len(step) <= MaxTokens

(* The target's cache holds the end of what it should hold, all but the    *)
(* first tokens lost; they are none if the memory can drop a tail.         *)
Cells(lost) ==
  /\ lost \in Seq(Token) /\ (Trimmable => lost = <<>>)
  /\ phase \in {"draft", "first", "batch", "fallback"} => lost \o history = Sofar
  /\ phase = "walk" => /\ Len(proposals) <= Len(history)
                       /\ lost \o history = Sofar \o proposals
  /\ phase \in {"head", "emit"} => lost \o history = Sofar \o SubSeq(step, 1, ready)
  /\ phase \in {"draft", "first", "batch"} => row = history
  /\ phase = "head" /\ ended = "no" => row = history

(* The inductive invariant, whatever the memory can do.                    *)
Held == Framed /\ Counted /\ \E lost : Cells(lost)

(* The target has said these tokens, each after all before it.             *)
Told(answers, context, tokens) ==
  \A i \in 1..Len(tokens) :
    LET before == context \o SubSeq(tokens, 1, i - 1) IN
    <<before, before>> \in DOMAIN answers /\ answers[<<before, before>>] = tokens[i]

(* What is at hand is what the target said, and the chain has accepted it. *)
Spoken ==
  /\ phase # "fallback"
  /\ phase = "head" /\ ended = "no" => chain = Sofar
  /\ phase \in {"draft", "first"} => chain = Sofar
  /\ phase \in {"batch", "walk", "emit"} => chain = Sofar \o step /\ Told(says, Sofar, step)

(* The inductive invariant when the memory drops a tail and refuses        *)
(* nothing that fits.                                                      *)
Voiced == Framed /\ Counted /\ Cells(<<>>) /\ Spoken

-----------------------------------------------------------------------------
(* Least and greatest members.                                             *)

(* A set of numbers that has members has a least one.                      *)
LEMMA Least ==
  ASSUME NEW S, S \subseteq Nat, S # {}
  PROVE  \E x \in S : \A y \in S : x <= y
<1>1. IsWellFoundedOn(OpToRel(<, Nat), Nat)
  BY NatLessThanWellFounded
<1>2. \A a, b \in Nat : a < b => <<a, b>> \in OpToRel(<, Nat)
  BY DEF OpToRel
<1>3. PICK x \in S : \A y \in S : ~ (<<y, x>> \in OpToRel(<, Nat))
  BY <1>1, WFMin, Zenon
<1>4. ASSUME NEW y \in S PROVE x <= y
  <2>1. x \in Nat /\ y \in Nat
    OBVIOUS
  <2>2. ~ (y < x)
    BY <2>1, <1>2, <1>3, Zenon
  <2>. QED  BY <2>1, <2>2
<1>. QED  BY <1>4

(* Min chooses it.                                                         *)
LEMMA MinIsMember ==
  ASSUME NEW S, S \subseteq Nat, S # {}
  PROVE  Min(S) \in S
BY Least DEF Min

(* A set of numbers up to n that has members has a greatest one.           *)
LEMMA MaxExists ==
  ASSUME NEW n \in Nat, NEW S \in SUBSET (0..n), S # {}
  PROVE  \E x \in S : \A y \in S : y <= x
<1>. DEFINE T == {m \in 0..n : n - m \in S}
<1>1. PICK x \in S : TRUE
  OBVIOUS
<1>2. n - x \in T
  BY <1>1
<1>3. T \subseteq Nat
  OBVIOUS
<1>4. PICK m \in T : \A y \in T : m <= y
  <2>. HIDE DEF T
  <2>. QED  BY <1>2, <1>3, Least
<1>5. ASSUME NEW y \in S PROVE n - m >= y
  <2>1. y \in 0..n /\ n - (n - y) = y
    OBVIOUS
  <2>2. n - y \in T
    BY <2>1
  <2>3. m <= n - y /\ m \in 0..n
    BY <1>4, <2>2
  <2>. QED  BY <2>1, <2>3
<1>6. n - m \in S
  BY <1>4
<1>7. ASSUME NEW y \in S PROVE y <= n - m
  BY <1>5
<1>. QED  BY <1>6, <1>7

-----------------------------------------------------------------------------
(* Sequences cut and joined.                                               *)

(* The first n members of a sequence.                                       *)
LEMMA HeadOf ==
  ASSUME NEW S, NEW t \in Seq(S), NEW n \in 0..Len(t)
  PROVE  /\ SubSeq(t, 1, n) \in Seq(S) /\ Len(SubSeq(t, 1, n)) = n
         /\ \A i \in 1..n : SubSeq(t, 1, n)[i] = t[i]
<1>1. PICK m \in Nat : m = Len(t)
  BY LenProperties
<1>2. \A i \in 1..n : t[i] \in S
  BY <1>1, ElementOfSeq
<1>. QED  BY <1>1, <1>2, SubSeqProperties

(* The rest of it, behind the first n.                                     *)
LEMMA RestOf ==
  ASSUME NEW S, NEW t \in Seq(S), NEW n \in 0..Len(t)
  PROVE  /\ SubSeq(t, n + 1, Len(t)) \in Seq(S)
         /\ Len(SubSeq(t, n + 1, Len(t))) = Len(t) - n
         /\ \A i \in 1..(Len(t) - n) : SubSeq(t, n + 1, Len(t))[i] = t[n + i]
<1>1. PICK m \in Nat : m = Len(t)
  BY LenProperties
<1>2. \A i \in (n + 1)..m : t[i] \in S
  BY <1>1, ElementOfSeq
<1>3. n + 1 \in Int
  OBVIOUS
<1>4. /\ SubSeq(t, n + 1, m) \in Seq(S)
      /\ Len(SubSeq(t, n + 1, m)) = IF n + 1 <= m THEN m - (n + 1) + 1 ELSE 0
      /\ \A i \in 1..(m - (n + 1) + 1) : SubSeq(t, n + 1, m)[i] = t[(n + 1) + i - 1]
  BY <1>2, <1>3, SubSeqProperties
<1>5. m - (n + 1) + 1 = m - n /\ (~(n + 1 <= m) => m - n = 0)
  BY <1>1
<1>6. \A i \in 1..(m - n) : (n + 1) + i - 1 = n + i
  BY <1>1
<1>. QED  BY <1>1, <1>4, <1>5, <1>6

(* The beginning of two sequences joined, if it reaches into the second.   *)
LEMMA CutJoined ==
  ASSUME NEW p \in Seq(Token), NEW h \in Seq(Token), NEW n \in 0..Len(h)
  PROVE  SubSeq(p \o h, 1, Len(p) + n) = p \o SubSeq(h, 1, n)
<1>1. PICK lp \in Nat, lh \in Nat : lp = Len(p) /\ lh = Len(h)
  BY LenProperties
<1>. DEFINE j == p \o h
            x == SubSeq(h, 1, n)
            y == SubSeq(j, 1, lp + n)
<1>2. /\ j \in Seq(Token) /\ Len(j) = lp + lh
      /\ \A i \in 1..(lp + lh) : j[i] = IF i <= lp THEN p[i] ELSE h[i - lp]
  BY <1>1, ConcatProperties
<1>. HIDE DEF j
<1>3. x \in Seq(Token) /\ Len(x) = n /\ \A i \in 1..n : x[i] = h[i]
  BY <1>1, HeadOf
<1>4. y \in Seq(Token) /\ Len(y) = lp + n /\ \A i \in 1..(lp + n) : y[i] = j[i]
  <2>1. lp + n \in 0..Len(j)
    BY <1>1, <1>2
  <2>. QED  BY <1>2, <2>1, HeadOf
<1>. HIDE DEF x, y
<1>5. /\ p \o x \in Seq(Token) /\ Len(p \o x) = lp + n
      /\ \A i \in 1..(lp + n) : (p \o x)[i] = IF i <= lp THEN p[i] ELSE x[i - lp]
  BY <1>1, <1>3, ConcatProperties
<1>6. ASSUME NEW i \in 1..(lp + n) PROVE y[i] = (p \o x)[i]
  <2>1. i \in 1..(lp + lh)
    BY <1>1
  <2>2. CASE i <= lp
    BY <1>2, <1>4, <1>5, <2>1, <2>2
  <2>3. CASE ~(i <= lp)
    <3>1. i - lp \in 1..n
      BY <2>3
    <3>. QED  BY <1>2, <1>3, <1>4, <1>5, <2>1, <2>3, <3>1
  <2>. QED  BY <2>2, <2>3
<1>7. y = p \o x
  BY <1>4, <1>5, <1>6, SeqEqual
<1>. QED  BY <1>1, <1>7 DEF j, x, y

(* A sequence with one member more, up to its old end.                     *)
LEMMA WithoutLast ==
  ASSUME NEW S, NEW s \in Seq(S), NEW t \in S
  PROVE  /\ Append(s, t) \in Seq(S) /\ Len(Append(s, t)) = Len(s) + 1
         /\ SubSeq(Append(s, t), 1, Len(s)) = s
<1>1. PICK n \in Nat : n = Len(s)
  BY LenProperties
<1>. DEFINE a == Append(s, t)
<1>2. a \in Seq(S) /\ Len(a) = n + 1 /\ \A i \in 1..n : a[i] = s[i]
  BY <1>1, AppendProperties
<1>. HIDE DEF a
<1>3. /\ SubSeq(a, 1, n) \in Seq(S) /\ Len(SubSeq(a, 1, n)) = n
      /\ \A i \in 1..n : SubSeq(a, 1, n)[i] = a[i]
  BY <1>2, HeadOf
<1>4. \A i \in 1..Len(SubSeq(a, 1, n)) : SubSeq(a, 1, n)[i] = s[i]
  BY <1>2, <1>3
<1>. QED  BY <1>1, <1>2, <1>3, <1>4, SeqEqual DEF a

(* The first of some tokens may be joined to what comes before them.       *)
LEMMA FirstMoves ==
  ASSUME NEW S, NEW b \in Seq(S), NEW s \in Seq(S), s # <<>>
  PROVE  /\ Head(s) \in S /\ Tail(s) \in Seq(S) /\ Len(Tail(s)) = Len(s) - 1
         /\ s[1] = Head(s) /\ s = <<Head(s)>> \o Tail(s)
         /\ Append(b, Head(s)) \in Seq(S)
         /\ Append(b, Head(s)) \o Tail(s) = b \o s
<1>1. Head(s) \in S /\ Tail(s) \in Seq(S) /\ Len(Tail(s)) = Len(s) - 1
  BY HeadTailProperties
<1>2. PICK n \in Nat : n = Len(s) /\ n > 0
  BY LenProperties, EmptySeq
<1>3. Head(s) = s[1] /\ Tail(s) = SubSeq(s, 2, Len(s))
  BY TailIsSubSeq
<1>4. SubSeq(s, 1, Len(s)) = <<s[1]>> \o SubSeq(s, 2, Len(s))
  <2>1. 1 \in 1..Len(s) /\ Len(s) \in 1..Len(s) /\ 1 + 1 = 2
    BY <1>2
  <2>. QED  BY <2>1, SubSeqRecursiveFirst
<1>5. s = <<Head(s)>> \o Tail(s)
  BY <1>3, <1>4, SubSeqFull
<1>6. Append(b, Head(s)) = b \o <<Head(s)>> /\ Append(b, Head(s)) \in Seq(S)
  BY <1>1, AppendIsConcat, AppendProperties
<1>7. <<Head(s)>> \in Seq(S)
  BY <1>1
<1>. QED  BY <1>1, <1>3, <1>5, <1>6, <1>7, ConcatAssociative

(* The same for the first tokens of a round, some of which are counted.    *)
LEMMA FirstOfPart ==
  ASSUME NEW S, NEW b \in Seq(S), NEW s \in Seq(S), s # <<>>, NEW r \in 1..Len(s)
  PROVE  Append(b, Head(s)) \o SubSeq(Tail(s), 1, r - 1) = b \o SubSeq(s, 1, r)
<1>1. PICK n \in Nat : n = Len(s) /\ r \in 1..n
  BY LenProperties
<1>. DEFINE u == SubSeq(s, 1, r)
            v == SubSeq(Tail(s), 1, r - 1)
            h == Head(s)
<1>2. /\ h \in S /\ Tail(s) \in Seq(S) /\ Len(Tail(s)) = n - 1 /\ h = s[1]
      /\ \A i \in 1..(n - 1) : Tail(s)[i] = s[i + 1]
  BY <1>1, FirstMoves, HeadTailProperties
<1>3. u \in Seq(S) /\ Len(u) = r /\ \A i \in 1..r : u[i] = s[i]
  BY <1>1, HeadOf
<1>4. v \in Seq(S) /\ Len(v) = r - 1 /\ \A i \in 1..(r - 1) : v[i] = s[i + 1]
  <2>1. r - 1 \in 0..Len(Tail(s)) /\ r - 1 <= n - 1
    BY <1>1, <1>2
  <2>2. v \in Seq(S) /\ Len(v) = r - 1 /\ \A i \in 1..(r - 1) : v[i] = Tail(s)[i]
    BY <1>2, <2>1, HeadOf
  <2>. QED  BY <1>1, <1>2, <2>1, <2>2
<1>5. <<h>> \in Seq(S) /\ Len(<<h>>) = 1 /\ <<h>>[1] = h
  BY <1>2
<1>. HIDE DEF u, v, h
<1>6. /\ <<h>> \o v \in Seq(S) /\ Len(<<h>> \o v) = r
      /\ \A i \in 1..r : (<<h>> \o v)[i] = IF i <= 1 THEN <<h>>[i] ELSE v[i - 1]
  <2>1. 1 + (r - 1) = r
    BY <1>1
  <2>2. /\ <<h>> \o v \in Seq(S) /\ Len(<<h>> \o v) = Len(<<h>>) + Len(v)
        /\ \A i \in 1..(Len(<<h>>) + Len(v)) :
             (<<h>> \o v)[i] = IF i <= Len(<<h>>) THEN <<h>>[i] ELSE v[i - Len(<<h>>)]
    BY <1>4, <1>5, ConcatProperties
  <2>. QED  BY <1>4, <1>5, <2>1, <2>2
<1>7. ASSUME NEW i \in 1..r PROVE u[i] = (<<h>> \o v)[i]
  <2>1. CASE i = 1
    BY <1>2, <1>3, <1>5, <1>6, <2>1
  <2>2. CASE i # 1
    <3>. DEFINE j == i - 1
    <3>1. j \in 1..(r - 1) /\ ~(i <= 1) /\ j + 1 = i
      BY <1>1, <2>2
    <3>2. (<<h>> \o v)[i] = v[j]
      BY <1>6, <3>1
    <3>. HIDE DEF j
    <3>3. v[j] = s[j + 1]
      BY <1>4, <3>1
    <3>. QED  BY <1>3, <3>1, <3>2, <3>3
  <2>. QED  BY <2>1, <2>2
<1>8. u = <<h>> \o v
  <2>1. \A i \in 1..Len(u) : u[i] = (<<h>> \o v)[i]
    BY <1>3, <1>7
  <2>. QED  BY <1>3, <1>6, <2>1, SeqEqual
<1>9. Append(b, h) = b \o <<h>>
  BY <1>2, AppendIsConcat DEF h
<1>10. (b \o <<h>>) \o v = b \o (<<h>> \o v)
  BY SMTT(30), <1>4, <1>5, ConcatAssociative
<1>11. Append(b, h) \o v = b \o u
  BY <1>8, <1>9, <1>10
<1>. QED  BY <1>11 DEF u, v, h

(* What two sequences have in common is the beginning of both.             *)
LEMMA CommonBeginning ==
  ASSUME NEW S, NEW s \in Seq(S), NEW t \in Seq(S)
  PROVE  LET n == Len(LongestCommonPrefix({s, t})) IN
         /\ n \in 0..Len(s) /\ n \in 0..Len(t)
         /\ SubSeq(s, 1, n) = SubSeq(t, 1, n)
<1>. DEFINE C == CommonPrefixes({s, t})
<1>0. PICK m \in Nat : m = Len(s)
  BY LenProperties
<1>1. ASSUME NEW c \in C
      PROVE  /\ Len(c) \in 0..m /\ Len(c) \in 0..Len(t)
             /\ SubSeq(s, 1, Len(c)) = SubSeq(t, 1, Len(c))
  <2>1. IsPrefix(c, s) /\ IsPrefix(c, t)
    BY DEF CommonPrefixes
  <2>2. PICK q \in {s, t} : c \in Prefixes(q)
    BY DEF CommonPrefixes
  <2>3. PICK l \in 0..Len(q) : c = SubSeq(q, 1, l)
    BY <2>2 DEF Prefixes
  <2>4. Len(c) = l
    BY <2>3, HeadOf
  <2>5. Len(t) \in Nat /\ Len(q) \in Nat
    BY LenProperties
  <2>6. Len(c) \in Nat /\ Len(c) <= m /\ Len(c) <= Len(t)
    BY <1>0, <2>1, <2>4, <2>5 DEF IsPrefix
  <2>. QED  BY <2>1, <2>5, <2>6 DEF IsPrefix
<1>2. <<>> \in C
  <2>1. 0 \in 0..Len(s) /\ SubSeq(s, 1, 0) = <<>> /\ SubSeq(t, 1, 0) = <<>>
    BY <1>0, SubSeqEmpty
  <2>2. <<>> \in Prefixes(s)
    BY <2>1 DEF Prefixes
  <2>3. Len(<<>>) = 0 /\ SubSeq(<<>>, 1, 0) = <<>> /\ Len(t) \in Nat
    BY SubSeqEmpty, LenProperties
  <2>4. IsPrefix(<<>>, s) /\ IsPrefix(<<>>, t)
    BY <1>0, <2>1, <2>3 DEF IsPrefix
  <2>. QED  BY <2>2, <2>4 DEF CommonPrefixes
<1>. DEFINE N == {Len(c) : c \in C}
<1>. HIDE DEF C
<1>3. N \in SUBSET (0..m) /\ N # {}
  BY <1>1, <1>2
<1>4. PICK x \in N : \A y \in N : y <= x
  <2>. HIDE DEF N
  <2>. QED  BY <1>3, MaxExists
<1>5. PICK c \in C : Len(c) = x
  BY <1>4
<1>6. \A other \in C : Len(other) <= Len(c)
  BY <1>4, <1>5
<1>7. LongestCommonPrefix({s, t}) \in C
  BY <1>5, <1>6 DEF LongestCommonPrefix, C
<1>. QED  BY <1>0, <1>1, <1>7

-----------------------------------------------------------------------------
(* The invariant, whatever the memory can do.                              *)

(* What the invariant says of the values.                                  *)
LEMMA Values ==
  ASSUME SpeculationAssumption, Framed
  PROVE  /\ Prompt \in Seq(Token) /\ Sofar \in Seq(Token)
         /\ Len(Prompt) \in Nat /\ Len(output) \in Nat /\ Len(history) \in Nat
         /\ Len(step) \in Nat /\ Len(proposals) \in Nat
         /\ Len(Sofar) = Len(Prompt) + Len(output)
         /\ Window \in Nat /\ MaxTokens \in Nat /\ MaxTokens > 0 /\ DraftTokens \in Nat
         /\ matched \in Nat /\ ready \in Nat
         /\ <<>> \in Seq(Token) /\ Len(<<>>) = 0
<1>1. Prompt \in Seq(Token)
  <2>1. Prompt \in Seq(Token \ {Eog})
    BY DEF SpeculationAssumption
  <2>. QED  BY <2>1, SeqMonotonic
<1>2. output \in Seq(Token) /\ history \in Seq(Token) /\ step \in Seq(Token) /\ proposals \in Seq(Token)
  BY DEF Framed
<1>3. Sofar \in Seq(Token) /\ Len(Sofar) = Len(Prompt) + Len(output)
  BY <1>1, <1>2, ConcatProperties DEF Sofar
<1>4. Window \in Nat /\ MaxTokens \in Nat /\ MaxTokens > 0 /\ DraftTokens \in Nat
  BY DEF SpeculationAssumption
<1>5. /\ Len(Prompt) \in Nat /\ Len(output) \in Nat /\ Len(history) \in Nat
      /\ Len(step) \in Nat /\ Len(proposals) \in Nat
  BY <1>1, <1>2, LenProperties
<1>6. matched \in Nat /\ ready \in Nat
  BY <1>5 DEF Framed
<1>. QED  BY <1>1, <1>3, <1>4, <1>5, <1>6, EmptySeq

(* At first the prompt is in the cache.                                    *)
LEMMA InitHeld ==
  ASSUME SpeculationAssumption, Init
  PROVE  Held /\ Voiced
<1>1. /\ Prompt \in Seq(Token) /\ Len(Prompt) \in 1..Window /\ Window \in Nat
      /\ MaxTokens \in Nat /\ MaxTokens > 0
      /\ <<>> \in Seq(Token) /\ Len(<<>>) = 0
  <2>1. Prompt \in Seq(Token \ {Eog})
    BY DEF SpeculationAssumption
  <2>. QED  BY <2>1, SeqMonotonic, EmptySeq DEF SpeculationAssumption
<1>2. Framed /\ Counted
  BY <1>1 DEF Init, Framed, Counted
<1>3. Prompt \o <<>> = Prompt /\ <<>> \o Prompt = Prompt /\ SubSeq(<<>>, 1, 0) = <<>>
  BY <1>1, ConcatEmptySeq, SubSeqEmpty
<1>4. Cells(<<>>)
  BY <1>1, <1>3 DEF Init, Cells, Sofar
<1>. QED  BY <1>1, <1>2, <1>3, <1>4 DEF Init, Held, Voiced, Spoken, Sofar

(* The loop head starts a round, or ends the reply.                        *)
LEMMA HeadGoes ==
  ASSUME SpeculationAssumption, Framed, Counted, NEW lost, Cells(lost), LoopHead
  PROVE  Framed' /\ Counted' /\ Cells(lost)'
<1>1. /\ phase = "head" /\ ended = "no"
      /\ proposals' = <<>> /\ matched' = 0 /\ step' = <<>> /\ ready' = 0
      /\ history' = history /\ row' = row /\ chain' = chain /\ output' = output
      /\ drafted' = drafted /\ draftCells' = draftCells /\ says' = says
  BY DEF LoopHead, target, draft
<1>2. \/ Len(history) >= Window /\ ended' = "context_length" /\ phase' = "head"
      \/ ~(Len(history) >= Window) /\ phase' = "draft" /\ ended' = "no"
  BY <1>1 DEF LoopHead
<1>3. Framed'
  BY <1>1, <1>2, Values DEF Framed
<1>4. Counted'
  BY <1>1, <1>2, <1>3, Values DEF Framed, Counted
<1>5. step = <<>> /\ SubSeq(<<>>, 1, ready) = <<>> /\ SubSeq(<<>>, 1, 0) = <<>>
  <2>1. step = <<>> /\ ready = 0
    BY <1>1, Values DEF Counted, Framed
  <2>. QED  BY <2>1, SubSeqEmpty
<1>6. Sofar' = Sofar /\ Sofar \o <<>> = Sofar
  BY <1>1, Values, ConcatEmptySeq DEF Sofar
<1>7. Cells(lost)'
  BY <1>1, <1>2, <1>5, <1>6 DEF Cells
<1>. QED  BY <1>3, <1>4, <1>7

(* The draft's turn: its own state, and the proposals.                     *)
LEMMA DraftGoes ==
  ASSUME SpeculationAssumption, Framed, Counted, NEW lost, Cells(lost),
         NoDraft \/ SyncFails \/ SyncAndPropose
  PROVE  Framed' /\ Counted' /\ Cells(lost)'
<1>1. /\ phase = "draft" /\ phase' = "first" /\ ended' = ended /\ matched' = matched
      /\ step' = step /\ ready' = ready
      /\ history' = history /\ row' = row /\ chain' = chain /\ output' = output
  BY DEF NoDraft, SyncFails, SyncAndPropose, target, reply
<1>2. /\ Len(history) < Window /\ Len(output) < MaxTokens /\ ended = "no"
      /\ step = <<>> /\ ready = 0
  BY <1>1 DEF Framed, Counted
<1>3. /\ proposals' \in Seq(Token) /\ matched \in 0..Len(proposals')
      /\ Len(output) + Len(proposals') + 1 <= MaxTokens
      /\ drafted' \in Seq(Token) /\ draftCells' = drafted'
  <2>1. CASE NoDraft \/ SyncFails
    BY <1>1, <2>1, Values DEF NoDraft, SyncFails, draft, Framed, Counted
  <2>2. CASE SyncAndPropose
    <3>. DEFINE agreed == Len(LongestCommonPrefix({drafted, history}))
                most   == Min({ProposalCount, Window - Len(history)})
                cells  == SubSeq(draftCells, 1, agreed) \o SubSeq(history, agreed + 1, Len(history))
    <3>1. PICK guess \in BoundedSeq(Token \ {Eog}, most) :
            /\ proposals' = guess /\ drafted' = history \o guess
            /\ draftCells' = cells \o guess
      BY <2>2 DEF SyncAndPropose
    <3>2. most \in Nat /\ most <= MaxTokens - Len(output) - 1
      <4>1. ProposalCount \in Nat /\ ProposalCount <= MaxTokens - Len(output) - 1
        <5>. DEFINE x == MaxTokens - Len(output) - 1
        <5>1. x \in Nat /\ DraftTokens \in Nat
          BY <1>2, Values
        <5>. HIDE DEF x
        <5>2. Min({x, DraftTokens}) \in {x, DraftTokens}
          BY <5>1, MinIsMember
        <5>3. \A y \in {x, DraftTokens} : Min({x, DraftTokens}) <= y
          BY <5>1, Least DEF Min
        <5>. QED  BY <5>1, <5>2, <5>3 DEF ProposalCount, x
      <4>. DEFINE y == Window - Len(history)
      <4>2. y \in Nat
        BY <1>2, Values
      <4>. HIDE DEF y
      <4>3. Min({ProposalCount, y}) \in {ProposalCount, y}
        BY <4>1, <4>2, MinIsMember
      <4>4. \A z \in {ProposalCount, y} : Min({ProposalCount, y}) <= z
        BY <4>1, <4>2, Least DEF Min
      <4>. QED  BY <4>1, <4>2, <4>3, <4>4, Values DEF y
    <3>. HIDE DEF most
    <3>3. guess \in Seq(Token) /\ Len(guess) <= most /\ Len(guess) \in Nat
      <4>1. PICK m \in 0..most : guess \in [1..m -> Token \ {Eog}]
        BY <3>1 DEF BoundedSeq, SeqOf
      <4>2. guess \in Seq(Token) /\ Len(guess) = m
        BY <3>2, <4>1
      <4>. QED  BY <3>2, <4>1, <4>2
    <3>4. cells = history
      <4>1. /\ agreed \in 0..Len(drafted) /\ agreed \in 0..Len(history)
            /\ SubSeq(drafted, 1, agreed) = SubSeq(history, 1, agreed)
        BY CommonBeginning DEF Framed
      <4>. HIDE DEF agreed
      <4>2. SubSeq(history, 1, agreed) \o SubSeq(history, agreed + 1, Len(history))
              = SubSeq(history, 1, Len(history))
        <5>1. /\ 1 \in 1..(Len(history) + 1) /\ agreed \in (1 - 1)..Len(history)
              /\ Len(history) \in agreed..Len(history)
          BY <4>1, Values
        <5>. QED  BY <5>1, ConcatAdjacentSubSeq DEF Framed
      <4>. QED  BY <4>1, <4>2, SubSeqFull DEF Framed
    <3>5. history \o guess \in Seq(Token)
      BY <3>3, ConcatProperties DEF Framed
    <3>6. matched = 0
      <4>1. proposals = <<>>
        BY <1>1 DEF Counted
      <4>. QED  BY <4>1, Values DEF Framed
    <3>7. Len(output) + Len(guess) + 1 <= MaxTokens
      BY <3>2, <3>3, Values
    <3>8. 0 \in 0..Len(guess)
      BY <3>3
    <3>. QED  BY <3>1, <3>3, <3>4, <3>5, <3>6, <3>7, <3>8
  <2>. QED  BY <2>1, <2>2
<1>4. Framed'
  BY <1>1, <1>3 DEF Framed
<1>5. Counted'
  BY <1>1, <1>2, <1>3 DEF Counted
<1>6. Cells(lost)'
  BY <1>1 DEF Cells, Sofar
<1>. QED  BY <1>4, <1>5, <1>6

(* Joining sequences of tokens is associative.                             *)
LEMMA Join ==
  ASSUME NEW a \in Seq(Token), NEW b \in Seq(Token), NEW c \in Seq(Token)
  PROVE  (a \o b) \o c = a \o (b \o c)
BY ConcatAssociative

(* No token of a round adds nothing to a sequence.                         *)
LEMMA AddsNothing ==
  ASSUME NEW b \in Seq(Token), NEW s
  PROVE  b \o SubSeq(s, 1, 0) = b
<1>1. SubSeq(s, 1, 0) = <<>>
  BY SubSeqEmpty
<1>. QED  BY <1>1, ConcatEmptySeq

(* The first of some tokens, by itself.                                    *)
LEMMA FirstAlone ==
  ASSUME NEW s \in Seq(Token), s # <<>>
  PROVE  Head(s) = s[1] /\ SubSeq(s, 1, 1) = <<Head(s)>> /\ Len(s) >= 1
<1>1. PICK n \in Nat : n = Len(s) /\ n > 0
  BY LenProperties, EmptySeq
<1>2. Head(s) = s[1]
  BY HeadTailProperties
<1>3. /\ SubSeq(s, 1, 1) \in Seq(Token) /\ Len(SubSeq(s, 1, 1)) = 1
      /\ \A i \in 1..1 : SubSeq(s, 1, 1)[i] = s[i]
  <2>1. 1 \in 0..Len(s)
    BY <1>1
  <2>. QED  BY <2>1, HeadOf
<1>4. <<s[1]>> \in Seq(Token) /\ Len(<<s[1]>>) = 1 /\ <<s[1]>>[1] = s[1]
  <2>1. s[1] \in Token
    BY <1>1, ElementOfSeq
  <2>. QED  BY <2>1
<1>5. \A i \in 1..Len(SubSeq(s, 1, 1)) : SubSeq(s, 1, 1)[i] = <<s[1]>>[i]
  BY <1>3, <1>4
<1>6. SubSeq(s, 1, 1) = <<s[1]>>
  BY <1>3, <1>4, <1>5, SeqEqual
<1>. QED  BY <1>1, <1>2, <1>6

(* One token more of the proposals.                                        *)
LEMMA OneMore ==
  ASSUME NEW s \in Seq(Token), NEW m \in Nat, m < Len(s)
  PROVE  s[m + 1] \in Token /\ Append(SubSeq(s, 1, m), s[m + 1]) = SubSeq(s, 1, m + 1)
<1>1. PICK n \in Nat : n = Len(s) /\ m + 1 \in 1..n /\ m \in 0..n /\ m + 1 \in 0..n
  BY LenProperties
<1>2. s[m + 1] \in Token
  BY <1>1, ElementOfSeq
<1>. DEFINE a == SubSeq(s, 1, m)
            c == SubSeq(s, 1, m + 1)
<1>3. a \in Seq(Token) /\ Len(a) = m /\ \A i \in 1..m : a[i] = s[i]
  BY <1>1, HeadOf
<1>4. c \in Seq(Token) /\ Len(c) = m + 1 /\ \A i \in 1..(m + 1) : c[i] = s[i]
  BY <1>1, HeadOf
<1>. HIDE DEF a, c
<1>5. /\ Append(a, s[m + 1]) \in Seq(Token) /\ Len(Append(a, s[m + 1])) = m + 1
      /\ \A i \in 1..m : Append(a, s[m + 1])[i] = a[i]
      /\ Append(a, s[m + 1])[m + 1] = s[m + 1]
  BY <1>2, <1>3, AppendProperties
<1>6. \A i \in 1..Len(c) : Append(a, s[m + 1])[i] = c[i]
  <2>1. SUFFICES ASSUME NEW i \in 1..(m + 1) PROVE Append(a, s[m + 1])[i] = c[i]
    BY <1>4
  <2>2. CASE i = m + 1
    BY <1>4, <1>5, <2>2
  <2>3. CASE i # m + 1
    <3>1. i \in 1..m
      BY <2>3
    <3>. QED  BY <1>3, <1>4, <1>5, <3>1
  <2>. QED  BY <2>2, <2>3
<1>7. Append(a, s[m + 1]) = c
  BY <1>4, <1>5, <1>6, SeqEqual
<1>. QED  BY <1>2, <1>7 DEF a, c

(* The token the target would produce anyway.                              *)
LEMMA FirstGoes ==
  ASSUME SpeculationAssumption, Framed, Counted, NEW lost, Cells(lost), PickFirst
  PROVE  Framed' /\ Counted' /\ Cells(lost)'
<1>1. PICK t \in Token :
        /\ chain' = Append(chain, t) /\ step' = <<t>>
        /\ phase' = IF /\ proposals # <<>> /\ Head(proposals) = t
                       /\ Len(history) + Len(proposals) <= Window
                      THEN "batch" ELSE "emit"
  BY DEF PickFirst, Accept
<1>2. /\ phase = "first" /\ ended' = ended /\ matched' = matched /\ ready' = ready
      /\ proposals' = proposals /\ drafted' = drafted /\ draftCells' = draftCells
      /\ history' = history /\ row' = row /\ output' = output
  BY DEF PickFirst, target, draft, reply
<1>3. /\ Len(history) < Window /\ Len(output) < MaxTokens /\ ended = "no" /\ ready = 0
      /\ Len(output) + Len(proposals) + 1 <= MaxTokens
  BY <1>2 DEF Framed, Counted
<1>4. step' \in Seq(Token) /\ step' # <<>> /\ Len(step') = 1 /\ chain' \in Seq(Token)
  <2>1. chain \in Seq(Token)
    BY DEF Framed
  <2>. QED  BY <1>1, <2>1, AppendProperties
<1>5. phase' \in {"batch", "emit"}
  BY <1>1
<1>6. Framed'
  <2>1. ready \in 0..Len(step')
    BY <1>3, <1>4
  <2>. QED  BY <1>2, <1>3, <1>4, <1>5, <2>1 DEF Framed
<1>7. Counted'
  <2>1. CASE phase' = "batch"
    <3>1. proposals # <<>> /\ Head(proposals) = t /\ Len(history) + Len(proposals) <= Window
      BY <1>1, <2>1
    <3>2. step' = SubSeq(proposals, 1, 1)
      BY <1>1, <3>1, FirstAlone DEF Framed
    <3>. QED  BY <1>2, <1>3, <2>1, <3>1, <3>2 DEF Counted
  <2>2. CASE phase' = "emit"
    <3>1. ready = Len(step') - 1 /\ Len(output) + Len(step') <= MaxTokens
      BY <1>3, <1>4, Values
    <3>. QED  BY <1>2, <1>3, <1>4, <2>2, <3>1 DEF Counted
  <2>. QED  BY <1>5, <2>1, <2>2
<1>8. Cells(lost)'
  <2>1. Sofar' = Sofar /\ Sofar \o SubSeq(step', 1, 0) = Sofar
    BY <1>2, Values, AddsNothing DEF Sofar
  <2>. QED  BY <1>2, <1>3, <1>5, <2>1 DEF Cells
<1>. QED  BY <1>6, <1>7, <1>8

(* The batch of the proposals, decoded or not.                             *)
LEMMA BatchGoes ==
  ASSUME SpeculationAssumption, Framed, Counted, NEW lost, Cells(lost),
         BatchDecoded \/ BatchSpoiled \/ BatchFails
  PROVE  Framed' /\ Counted' /\ Cells(lost)'
<1>1. /\ phase = "batch" /\ chain' = chain /\ says' = says /\ ready' = ready
      /\ drafted' = drafted /\ draftCells' = draftCells
      /\ proposals' = proposals /\ output' = output
  BY DEF BatchDecoded, BatchSpoiled, BatchFails, draft, reply
<1>2. /\ ready = 0 /\ Len(output) < MaxTokens /\ ended = "no"
      /\ Len(output) + Len(proposals) + 1 <= MaxTokens
      /\ proposals # <<>> /\ step = SubSeq(proposals, 1, 1)
      /\ Len(history) + Len(proposals) <= Window
  BY <1>1 DEF Framed, Counted
<1>3. Sofar' = Sofar /\ Sofar \o SubSeq(step, 1, 0) = Sofar
  BY <1>1, Values, AddsNothing DEF Sofar
<1>4. CASE BatchDecoded
  <2>1. /\ history' = history \o proposals /\ row' = Overwritten /\ matched' = 1
        /\ phase' = "walk" /\ step' = step /\ ended' = ended
    BY <1>4 DEF BatchDecoded, reply
  <2>2. history' \in Seq(Token) /\ Len(history') = Len(history) + Len(proposals)
    BY <2>1, ConcatProperties DEF Framed
  <2>3. 1 \in 0..Len(proposals)
    BY <1>2, Values, FirstAlone DEF Framed
  <2>4. Framed'
    BY <1>1, <1>2, <2>1, <2>2, <2>3, Values DEF Framed
  <2>5. Counted'
    BY <1>1, <1>2, <2>1 DEF Counted
  <2>6. Len(proposals) <= Len(history')
    BY <2>2, Values
  <2>7. lost \o (history \o proposals) = (lost \o history) \o proposals
    <3>1. lost \in Seq(Token) /\ history \in Seq(Token) /\ proposals \in Seq(Token)
      BY DEF Cells, Framed
    <3>. QED  BY <3>1, Join
  <2>8. Cells(lost)'
    BY <1>1, <1>3, <2>1, <2>6, <2>7 DEF Cells
  <2>. QED  BY <2>4, <2>5, <2>8
<1>5. CASE BatchSpoiled
  <2>1. /\ history' = history /\ row' = row /\ matched' = matched
        /\ phase' = "fallback" /\ step' = <<>> /\ ended' = ended
    BY <1>5 DEF BatchSpoiled, target, reply
  <2>2. Framed'
    BY <1>1, <1>2, <2>1, Values DEF Framed
  <2>3. Counted'
    BY <1>1, <1>2, <2>1 DEF Counted
  <2>4. Cells(lost)'
    BY <1>1, <1>3, <2>1 DEF Cells
  <2>. QED  BY <2>2, <2>3, <2>4
<1>6. CASE BatchFails
  <2>1. /\ history' = history /\ row' = row /\ matched' = matched
        /\ phase' = "head" /\ step' = step /\ ended' = "failed"
    BY <1>6 DEF BatchFails, target
  <2>2. Framed'
    BY <1>1, <1>2, <2>1, Values DEF Framed
  <2>3. Counted'
    BY <1>1, <1>2, <2>1 DEF Counted
  <2>4. Cells(lost)'
    BY <1>1, <1>2, <1>3, <2>1 DEF Cells
  <2>. QED  BY <2>2, <2>3, <2>4
<1>. QED  BY <1>4, <1>5, <1>6

(* The target agrees with one proposal more.                               *)
LEMMA AgreeGoes ==
  ASSUME SpeculationAssumption, Framed, Counted, NEW lost, Cells(lost), Agree
  PROVE  Framed' /\ Counted' /\ Cells(lost)'
<1>1. /\ phase = "walk" /\ phase' = phase /\ history' = history /\ row' = row
      /\ drafted' = drafted /\ draftCells' = draftCells /\ proposals' = proposals
      /\ ready' = ready /\ output' = output /\ ended' = ended /\ matched' = matched + 1
  BY DEF Agree, target, draft, reply
<1>2. /\ matched < Len(proposals) /\ chain' = Append(chain, proposals[matched + 1])
      /\ step' = Append(step, proposals[matched + 1])
  BY DEF Agree, AgreesWith, Accept
<1>3. /\ step = SubSeq(proposals, 1, matched) /\ ended = "no" /\ ready = 0
      /\ Len(output) + Len(proposals) + 1 <= MaxTokens /\ Len(output) < MaxTokens
  BY <1>1 DEF Framed, Counted
<1>4. /\ proposals[matched + 1] \in Token /\ step' = SubSeq(proposals, 1, matched + 1)
  BY <1>2, <1>3, Values, OneMore DEF Framed
<1>5. matched + 1 \in 0..Len(proposals)
  BY <1>2, Values
<1>6. step' \in Seq(Token) /\ Len(step') \in Nat /\ chain' \in Seq(Token)
  <2>1. step' \in Seq(Token) /\ Len(step') = matched + 1
    BY <1>4, <1>5, HeadOf DEF Framed
  <2>. QED  BY <1>2, <1>4, <2>1, AppendProperties, Values DEF Framed
<1>7. Framed'
  BY <1>1, <1>3, <1>5, <1>6 DEF Framed
<1>8. Counted'
  BY <1>1, <1>3, <1>4 DEF Counted
<1>9. Cells(lost)'
  BY <1>1 DEF Cells, Sofar
<1>. QED  BY <1>7, <1>8, <1>9

(* How much of the cache that is.                                          *)
LEMMA KeptCounts ==
  ASSUME NEW lost \in Nat, NEW cached \in Nat, NEW sofar \in Nat, NEW proposed \in Nat,
         NEW agreed \in 0..proposed, lost + cached = sofar + proposed, proposed <= cached
  PROVE  /\ cached - (proposed - agreed) \in 0..cached
         /\ lost + (cached - (proposed - agreed)) = sofar + agreed
OBVIOUS

(* What stays in the cache is what was matched.                            *)
LEMMA KeptIsMatched ==
  ASSUME SpeculationAssumption, Framed, Counted, NEW lost, Cells(lost), phase = "walk"
  PROVE  /\ Kept \in Seq(Token) /\ Len(Kept) <= Len(history)
         /\ lost \o Kept = Sofar \o step /\ Len(step) = matched
<1>1. /\ lost \in Seq(Token) /\ history \in Seq(Token) /\ proposals \in Seq(Token)
      /\ Sofar \in Seq(Token) /\ matched \in 0..Len(proposals)
      /\ lost \o history = Sofar \o proposals /\ Len(proposals) <= Len(history)
      /\ step = SubSeq(proposals, 1, matched)
  BY Values DEF Framed, Counted, Cells
<1>2. Len(lost) + Len(history) = Len(Sofar) + Len(proposals)
  BY <1>1, ConcatProperties
<1>3. Len(lost) \in Nat /\ Len(history) \in Nat /\ Len(Sofar) \in Nat /\ Len(proposals) \in Nat
  BY <1>1, LenProperties
<1>4. PICK n \in 0..Len(history) :
        /\ n = Len(history) - (Len(proposals) - matched)
        /\ Len(lost) + n = Len(Sofar) + matched
  <2>1. PICK ll \in Nat, lh \in Nat, ls \in Nat, lp \in Nat :
          ll = Len(lost) /\ lh = Len(history) /\ ls = Len(Sofar) /\ lp = Len(proposals)
    BY <1>3
  <2>2. ll + lh = ls + lp /\ lp <= lh /\ matched \in 0..lp
    BY <1>1, <1>2, <2>1
  <2>3. lh - (lp - matched) \in 0..lh /\ ll + (lh - (lp - matched)) = ls + matched
    BY <2>2, KeptCounts
  <2>. QED  BY <2>1, <2>3
<1>5. Kept = SubSeq(history, 1, n)
  BY <1>4 DEF Kept
<1>6. lost \o SubSeq(history, 1, n) = Sofar \o SubSeq(proposals, 1, matched)
  <2>1. SubSeq(lost \o history, 1, Len(lost) + n) = lost \o SubSeq(history, 1, n)
    BY <1>1, CutJoined
  <2>2. SubSeq(Sofar \o proposals, 1, Len(Sofar) + matched) = Sofar \o SubSeq(proposals, 1, matched)
    BY <1>1, CutJoined
  <2>. QED  BY <1>1, <1>4, <2>1, <2>2
<1>7. Kept \in Seq(Token) /\ Len(Kept) = n /\ Len(step) = matched
  BY <1>1, <1>4, <1>5, HeadOf
<1>8. n <= Len(history)
  BY <1>3, <1>4
<1>. QED  BY <1>1, <1>5, <1>6, <1>7, <1>8

(* The target's own token ends the round.                                  *)
LEMMA DivergeGoes ==
  ASSUME SpeculationAssumption, Framed, Counted, NEW lost, Cells(lost), Diverge
  PROVE  Framed' /\ Counted' /\ Cells(lost)'
<1>1. /\ phase = "walk" /\ phase' = "emit" /\ history' = Kept /\ row' = row
      /\ drafted' = drafted /\ draftCells' = draftCells /\ proposals' = proposals
      /\ ready' = matched /\ output' = output /\ ended' = ended /\ matched' = matched
  BY DEF Diverge, draft, reply
<1>2. PICK t \in Token : step' = Append(step, t) /\ chain' = Append(chain, t)
  BY DEF Diverge, Accept
<1>3. /\ ended = "no" /\ Len(output) + Len(proposals) + 1 <= MaxTokens
      /\ Len(output) < MaxTokens
  BY <1>1 DEF Framed, Counted
<1>4. /\ Kept \in Seq(Token) /\ Len(Kept) <= Len(history)
      /\ lost \o Kept = Sofar \o step /\ Len(step) = matched
  BY <1>1, KeptIsMatched
<1>5. step' \in Seq(Token) /\ Len(step') = matched + 1 /\ SubSeq(step', 1, matched) = step
  BY <1>2, <1>4, WithoutLast DEF Framed
<1>6. chain' \in Seq(Token)
  BY <1>2, WithoutLast DEF Framed
<1>7. /\ matched \in 0..Len(step') /\ matched = Len(step') - 1
      /\ Len(output) + Len(step') <= MaxTokens /\ Len(Kept) <= Window
      /\ Len(Kept) \in Nat /\ step' # <<>>
  <2>1. Len(Kept) \in Nat
    BY <1>4, LenProperties
  <2>2. matched <= Len(proposals) /\ Len(history) <= Window
    BY Values DEF Framed
  <2>3. step' # <<>>
    BY <1>5, Values
  <2>. QED  BY SMTT(30), <1>3, <1>4, <1>5, <2>1, <2>2, <2>3, Values
<1>8. Framed'
  BY <1>1, <1>3, <1>4, <1>5, <1>6, <1>7 DEF Framed
<1>9. Counted'
  BY <1>1, <1>3, <1>7 DEF Counted
<1>10. Cells(lost)'
  BY <1>1, <1>4, <1>5 DEF Cells, Sofar
<1>. QED  BY <1>8, <1>9, <1>10

(* A refused rewind takes the whole sequence.                              *)
LEMMA RefusalGoes ==
  ASSUME SpeculationAssumption, Framed, Counted, RollbackRefused
  PROVE  Framed' /\ Counted' /\ \E lost : Cells(lost)'
<1>1. /\ phase = "walk" /\ phase' = "fallback" /\ history' = <<>> /\ row' = row
      /\ chain' = chain /\ drafted' = drafted /\ draftCells' = draftCells
      /\ proposals' = proposals /\ step' = <<>> /\ ~Trimmable
      /\ ready' = ready /\ output' = output /\ ended' = ended /\ matched' = matched
  BY DEF RollbackRefused, draft, reply
<1>2. /\ ended = "no" /\ Len(output) + Len(proposals) + 1 <= MaxTokens
      /\ Len(output) < MaxTokens /\ ready = 0
  BY <1>1 DEF Framed, Counted
<1>3. Framed'
  BY <1>1, <1>2, Values DEF Framed
<1>4. Counted'
  BY <1>1, <1>2 DEF Counted
<1>5. PICK gone : gone = Sofar
  OBVIOUS
<1>6. Sofar' = gone /\ gone \o <<>> = gone /\ gone \in Seq(Token)
  BY <1>1, <1>5, Values, ConcatEmptySeq DEF Sofar
<1>7. Cells(gone)'
  BY <1>1, <1>6 DEF Cells
<1>. QED  BY <1>3, <1>4, <1>7

(* One token from the scores at hand.                                      *)
LEMMA PlainGoes ==
  ASSUME SpeculationAssumption, Framed, Counted, NEW lost, Cells(lost), PickPlain
  PROVE  Framed' /\ Counted' /\ Cells(lost)'
<1>1. PICK t \in Token : chain' = Append(chain, t) /\ step' = <<t>>
  BY DEF PickPlain, Accept
<1>2. /\ phase = "fallback" /\ phase' = "emit" /\ ended' = ended /\ matched' = matched
      /\ ready' = 0 /\ proposals' = proposals /\ drafted' = drafted
      /\ draftCells' = draftCells /\ history' = history /\ row' = row /\ output' = output
  BY DEF PickPlain, target, draft, reply
<1>3. /\ Len(output) < MaxTokens /\ ended = "no"
      /\ Len(output) + Len(proposals) + 1 <= MaxTokens
  BY <1>2 DEF Framed, Counted
<1>4. step' \in Seq(Token) /\ step' # <<>> /\ Len(step') = 1 /\ chain' \in Seq(Token)
  <2>1. chain \in Seq(Token)
    BY DEF Framed
  <2>. QED  BY <1>1, <2>1, AppendProperties
<1>5. Framed'
  <2>1. 0 \in 0..Len(step')
    BY <1>4
  <2>. QED  BY <1>2, <1>3, <1>4, <2>1 DEF Framed
<1>6. Counted'
  <2>1. 0 = Len(step') - 1 /\ Len(output) + Len(step') <= MaxTokens
    BY <1>3, <1>4, Values
  <2>. QED  BY <1>2, <1>3, <1>4, <2>1 DEF Counted
<1>7. Cells(lost)'
  <2>1. Sofar' = Sofar /\ Sofar \o SubSeq(step', 1, 0) = Sofar
    BY <1>2, Values, AddsNothing DEF Sofar
  <2>. QED  BY <1>2, <2>1 DEF Cells
<1>. QED  BY <1>5, <1>6, <1>7

(* The reply ends without its next token.                                  *)
LEMMA EndGoes ==
  ASSUME SpeculationAssumption, Framed, Counted, NEW lost, Cells(lost),
         EmitEog \/ DecodeRefused
  PROVE  Framed' /\ Counted' /\ Cells(lost)'
<1>1. /\ phase = "emit" /\ phase' = "head" /\ ended' \in {"eos", "context_length_error"}
      /\ history' = history /\ row' = row /\ chain' = chain /\ drafted' = drafted
      /\ draftCells' = draftCells /\ proposals' = proposals /\ matched' = matched
      /\ step' = step /\ ready' = ready /\ output' = output
  BY DEF EmitEog, DecodeRefused, target, draft
<1>2. Framed'
  BY <1>1 DEF Framed
<1>3. Counted'
  BY <1>1 DEF Counted
<1>4. Cells(lost)'
  BY <1>1 DEF Cells, Sofar
<1>. QED  BY <1>2, <1>3, <1>4

(* The next token of the round becomes part of the reply.                  *)
LEMMA EmitGoes ==
  ASSUME SpeculationAssumption, Framed, Counted, NEW lost, Cells(lost), Emit
  PROVE  Framed' /\ Counted' /\ Cells(lost)'
<1>. DEFINE t == Head(step)
<1>1. /\ phase = "emit" /\ output' = Append(output, t) /\ step' = Tail(step)
      /\ ended' \in {"length", "stopped", "no"} /\ phase' \in {"head", "emit"}
      /\ chain' = chain /\ drafted' = drafted /\ draftCells' = draftCells
      /\ proposals' = proposals /\ matched' = matched /\ says' = says
      /\ (Len(output') >= MaxTokens => ended' # "no")
      /\ (phase' = "head") = (step' = <<>> \/ ended' # "no")
      /\ ready > 0 \/ Len(history) < Window
  BY DEF Emit, draft
<1>2. /\ step # <<>> /\ ready = Len(step) - 1 /\ Len(output) + Len(step) <= MaxTokens
      /\ ended = "no" /\ step \in Seq(Token) /\ output \in Seq(Token)
      /\ history \in Seq(Token)
  BY <1>1 DEF Framed, Counted
<1>3. /\ t \in Token /\ step' \in Seq(Token) /\ Len(step') = Len(step) - 1
      /\ step = <<t>> \o Tail(step)
  BY <1>1, <1>2, FirstMoves
<1>. HIDE DEF t
<1>4. /\ output' \in Seq(Token) /\ Len(output') = Len(output) + 1
      /\ Len(output') <= MaxTokens
  <2>1. output' \in Seq(Token) /\ Len(output') = Len(output) + 1
    BY <1>1, <1>2, <1>3, WithoutLast
  <2>2. Len(step) >= 1
    BY <1>2, Values
  <2>. QED  BY <1>2, <2>1, <2>2, Values
<1>5. /\ Sofar' = Append(Sofar, t) /\ Sofar \in Seq(Token) /\ lost \in Seq(Token)
      /\ lost \o history = Sofar \o SubSeq(step, 1, ready)
  <2>1. Prompt \o Append(output, t) = Append(Prompt \o output, t)
    <3>1. /\ Append(output, t) = output \o <<t>> /\ <<t>> \in Seq(Token)
          /\ Prompt \o output \in Seq(Token)
      BY <1>2, <1>3, Values, AppendIsConcat DEF Sofar
    <3>2. Append(Prompt \o output, t) = (Prompt \o output) \o <<t>>
      BY <1>3, <3>1, AppendIsConcat
    <3>3. (Prompt \o output) \o <<t>> = Prompt \o (output \o <<t>>)
      <4>1. Prompt \in Seq(Token)
        BY Values
      <4>. QED  BY <1>2, <3>1, <4>1, Join
    <3>. QED  BY <3>1, <3>2, <3>3
  <2>. QED  BY <1>1, <2>1, Values DEF Sofar, Cells
<1>6. /\ history' \in Seq(Token) /\ Len(history') <= Window /\ ready' \in 0..Len(step')
      /\ row' \in Seq(Token) \cup {Overwritten} /\ (ended' = "no" /\ phase' = "head" => row' = history')
      /\ (step' # <<>> => ready' = Len(step') - 1)
      /\ lost \o history' = Sofar' \o SubSeq(step', 1, ready')
  <2>1. CASE ready > 0
    <3>1. ready' = ready - 1 /\ history' = history /\ row' = row
      BY <2>1 DEF Emit, DecodeIfNew, target
    <3>2. ready' \in 0..Len(step') /\ ready' = Len(step') - 1 /\ ready \in 1..Len(step)
      BY SMTT(30), <1>2, <1>3, <2>1, <3>1, Values
    <3>3. Append(Sofar, t) \o SubSeq(step', 1, ready - 1) = Sofar \o SubSeq(step, 1, ready)
      BY <1>1, <1>2, <1>5, <3>2, FirstOfPart DEF t
    <3>4. ~ (ended' = "no" /\ phase' = "head")
      <4>1. step' # <<>>
        BY <3>2, Values
      <4>. QED  BY <1>1, <4>1
    <3>. QED  BY <1>5, <3>1, <3>2, <3>3, <3>4 DEF Framed
  <2>2. CASE ~(ready > 0)
    <3>1. history' = Append(history, t) /\ row' = history' /\ ready' = ready /\ ready = 0
      BY <2>2, Values DEF Emit, DecodeIfNew, t
    <3>2. history' \in Seq(Token) /\ Len(history') = Len(history) + 1
      BY <1>2, <1>3, <3>1, WithoutLast
    <3>3. Len(history') <= Window
      BY <1>1, <2>2, <3>2, Values
    <3>4. Len(step') = 0 /\ step' = <<>> /\ ready' \in 0..Len(step')
      <4>1. Len(step') = 0
        BY <1>2, <1>3, <3>1, Values
      <4>. QED  BY <1>3, <3>1, <4>1, EmptySeq
    <3>5. lost \o Append(history, t) = Append(Sofar, t)
      <4>1. lost \o history = Sofar
        BY <1>5, <3>1, AddsNothing
      <4>2. /\ Append(history, t) = history \o <<t>> /\ <<t>> \in Seq(Token)
            /\ Append(Sofar, t) = Sofar \o <<t>>
        BY <1>2, <1>3, <1>5, AppendIsConcat
      <4>3. (lost \o history) \o <<t>> = lost \o (history \o <<t>>)
        <5>1. history \in Seq(Token)
          BY <1>2
        <5>. QED  BY <1>5, <4>2, <5>1, Join
      <4>. QED  BY <4>1, <4>2, <4>3
    <3>6. Sofar' \in Seq(Token) /\ Sofar' \o SubSeq(step', 1, 0) = Sofar'
      <4>1. Sofar' \in Seq(Token)
        BY <1>3, <1>5, WithoutLast
      <4>. QED  BY <4>1, AddsNothing
    <3>. QED  BY <1>5, <3>1, <3>2, <3>3, <3>4, <3>5, <3>6
  <2>. QED  BY <2>1, <2>2
<1>7. Framed'
  BY <1>1, <1>3, <1>4, <1>6 DEF Framed
<1>8. Counted'
  <2>1. ended' = "no" => Len(output') < MaxTokens
    BY <1>1, <1>4, Values
  <2>2. phase' = "head" /\ ended' = "no" => step' = <<>>
    BY <1>1
  <2>3. phase' = "emit" => step' # <<>>
    BY <1>1
  <2>4. Len(output') + Len(step') <= MaxTokens
    BY <1>2, <1>3, <1>4, Values
  <2>. QED  BY <1>1, <1>6, <2>1, <2>2, <2>3, <2>4 DEF Counted
<1>9. Cells(lost)'
  BY <1>1, <1>5, <1>6 DEF Cells
<1>. QED  BY <1>7, <1>8, <1>9

(* Nothing happens.                                                        *)
LEMMA RestGoes ==
  ASSUME Framed, Counted, NEW lost, Cells(lost), UNCHANGED vars
  PROVE  Framed' /\ Counted' /\ Cells(lost)'
<1>1. /\ phase' = phase /\ history' = history /\ row' = row /\ chain' = chain
      /\ drafted' = drafted /\ draftCells' = draftCells /\ proposals' = proposals
      /\ matched' = matched /\ step' = step /\ ready' = ready
      /\ output' = output /\ ended' = ended
  BY DEF vars
<1>2. Framed'
  BY <1>1 DEF Framed
<1>3. Counted'
  BY <1>1 DEF Counted
<1>4. Cells(lost)'
  BY <1>1 DEF Cells, Sofar
<1>. QED  BY <1>2, <1>3, <1>4

(* Only a refused rewind loses more of the cache.                          *)
LEMMA StepGoes ==
  ASSUME SpeculationAssumption, Framed, Counted, NEW lost, Cells(lost), [Next]_vars,
         ~RollbackRefused
  PROVE  Framed' /\ Counted' /\ Cells(lost)'
<1>1. CASE LoopHead
  BY <1>1, HeadGoes
<1>2. CASE NoDraft \/ SyncFails \/ SyncAndPropose
  BY <1>2, DraftGoes
<1>3. CASE PickFirst
  BY <1>3, FirstGoes
<1>4. CASE BatchDecoded \/ BatchSpoiled \/ BatchFails
  BY <1>4, BatchGoes
<1>5. CASE Agree
  BY <1>5, AgreeGoes
<1>6. CASE Diverge
  BY <1>6, DivergeGoes
<1>7. CASE PickPlain
  BY <1>7, PlainGoes
<1>8. CASE EmitEog \/ DecodeRefused
  BY <1>8, EndGoes
<1>9. CASE Emit
  BY <1>9, EmitGoes
<1>10. CASE UNCHANGED vars
  BY <1>10, RestGoes
<1>. QED  BY <1>1, <1>2, <1>3, <1>4, <1>5, <1>6, <1>7, <1>8, <1>9, <1>10 DEF Next

(* The invariant is kept by every step.                                    *)
LEMMA HeldStep ==
  ASSUME SpeculationAssumption, Held, [Next]_vars
  PROVE  Held'
<1>1. Framed /\ Counted
  BY DEF Held
<1>2. PICK lost : Cells(lost)
  BY DEF Held
<1>3. CASE RollbackRefused
  <2>1. Framed' /\ Counted' /\ \E gone : Cells(gone)'
    BY <1>1, <1>3, RefusalGoes
  <2>. QED  BY <2>1 DEF Held
<1>4. CASE ~RollbackRefused
  <2>1. Framed' /\ Counted' /\ Cells(lost)'
    BY <1>1, <1>2, <1>4, StepGoes
  <2>2. Framed' /\ Counted' /\ \E s : Cells(s)'
    BY <2>1, Zenon
  <2>. QED  BY <2>2 DEF Held
<1>. QED  BY <1>3, <1>4

(* What is behind the first of two sequences joined is the second.         *)
LEMMA CutBehind ==
  ASSUME NEW p \in Seq(Token), NEW h \in Seq(Token)
  PROVE  /\ Len(p) \in 0..Len(p \o h)
         /\ h = SubSeq(p \o h, Len(p) + 1, Len(p \o h))
<1>1. PICK lp \in Nat, lh \in Nat : lp = Len(p) /\ lh = Len(h)
  BY LenProperties
<1>. DEFINE j == p \o h
            x == SubSeq(j, lp + 1, lp + lh)
<1>2. /\ j \in Seq(Token) /\ Len(j) = lp + lh
      /\ \A i \in 1..(lp + lh) : j[i] = IF i <= lp THEN p[i] ELSE h[i - lp]
  BY <1>1, ConcatProperties
<1>. HIDE DEF j
<1>3. x \in Seq(Token) /\ Len(x) = lh /\ \A i \in 1..lh : x[i] = j[lp + i]
  <2>1. lp \in 0..Len(j) /\ Len(j) - lp = lh
    BY <1>2
  <2>. QED  BY <1>2, <2>1, RestOf
<1>. HIDE DEF x
<1>4. ASSUME NEW i \in 1..lh PROVE x[i] = h[i]
  <2>1. lp + i \in 1..(lp + lh) /\ ~(lp + i <= lp) /\ (lp + i) - lp = i
    OBVIOUS
  <2>2. j[lp + i] = h[(lp + i) - lp]
    BY <1>2, <2>1
  <2>. QED  BY <1>3, <2>1, <2>2
<1>5. x = h
  <2>1. \A i \in 1..Len(x) : x[i] = h[i]
    BY <1>3, <1>4
  <2>. QED  BY <1>1, <1>3, <2>1, SeqEqual
<1>6. lp \in 0..Len(j) /\ h = SubSeq(j, lp + 1, Len(j))
  <2>1. lp \in 0..Len(j)
    BY <1>2
  <2>. QED  BY <1>2, <1>5, <2>1 DEF x
<1>. QED  BY <1>1, <1>6 DEF j

(* What the invariant says of the caches between the rounds.               *)
LEMMA HeldShows ==
  ASSUME SpeculationAssumption, Held
  PROVE  TypeOK /\ NothingRejectedStays /\ DraftMirrorsKV
<1>1. TypeOK
  BY DEF Held, Framed, TypeOK
<1>2. ASSUME phase \in {"emit", "head"}
      PROVE  \E n \in 0..Len(Prompt \o output \o SubSeq(step, 1, ready)) :
               history = SubSeq(Prompt \o output \o SubSeq(step, 1, ready), n + 1,
                                Len(Prompt \o output \o SubSeq(step, 1, ready)))
  <2>1. PICK lost : Cells(lost)
    BY DEF Held
  <2>2. lost \in Seq(Token) /\ lost \o history = Prompt \o output \o SubSeq(step, 1, ready)
    BY <1>2, <2>1 DEF Cells, Sofar
  <2>3. history \in Seq(Token)
    BY DEF Held, Framed
  <2>4. /\ Len(lost) \in 0..Len(lost \o history)
        /\ history = SubSeq(lost \o history, Len(lost) + 1, Len(lost \o history))
    BY <2>2, <2>3, CutBehind
  <2>. QED  BY <2>2, <2>4
<1>3. NothingRejectedStays
  BY <1>2 DEF NothingRejectedStays
<1>4. DraftMirrorsKV
  BY DEF Held, Framed, DraftMirrorsKV
<1>. QED  BY <1>1, <1>3, <1>4

(* llm.cpp:283-285, 872-873, 1058-1068: whatever the memory can do and the *)
(* decoder refuses, no rejected proposal is left in the target's cache,    *)
(* and the draft's transcript is what the draft's cache holds.             *)
THEOREM NothingRejectedIsKept ==
  ASSUME SpeculationAssumption
  PROVE  Spec => [](TypeOK /\ NothingRejectedStays /\ DraftMirrorsKV)
<1>1. Init => Held
  BY InitHeld
<1>2. Held /\ [Next]_vars => Held'
  BY HeldStep
<1>3. Held => TypeOK /\ NothingRejectedStays /\ DraftMirrorsKV
  BY HeldShows
<1>. QED  BY <1>1, <1>2, <1>3, PTL DEF Spec

-----------------------------------------------------------------------------
(* The invariant when the memory drops a tail and refuses nothing.         *)

(* The target never answers otherwise than before.                         *)
LEMMA AskAdds ==
  ASSUME NEW context, NEW t, Ask(context, t)
  PROVE  /\ \A q \in DOMAIN says : q \in DOMAIN says' /\ says'[q] = says[q]
         /\ <<context, chain>> \in DOMAIN says' /\ says'[<<context, chain>>] = t
<1>1. PICK q : q = <<context, chain>>
  OBVIOUS
<1>2. /\ q \in DOMAIN says => says[q] = t
      /\ says' = [p \in DOMAIN says \cup {q} |-> IF p = q THEN t ELSE says[p]]
  BY <1>1 DEF Ask
<1>3. \A p \in DOMAIN says : p \in DOMAIN says' /\ says'[p] = says[p]
  BY <1>2
<1>4. q \in DOMAIN says' /\ says'[q] = t
  BY <1>2
<1>. QED  BY <1>1, <1>3, <1>4

(* What it has said it has said after any later answer.                    *)
LEMMA ToldStays ==
  ASSUME NEW before, NEW after, NEW context, NEW tokens, Told(before, context, tokens),
         \A q \in DOMAIN before : q \in DOMAIN after /\ after[q] = before[q]
  PROVE  Told(after, context, tokens)
BY DEF Told

(* One answer more.                                                        *)
LEMMA ToldMore ==
  ASSUME NEW answers, NEW context \in Seq(Token), NEW tokens \in Seq(Token), NEW t \in Token,
         Told(answers, context, tokens),
         <<context \o tokens, context \o tokens>> \in DOMAIN answers,
         answers[<<context \o tokens, context \o tokens>>] = t
  PROVE  Told(answers, context, Append(tokens, t))
<1>. DEFINE more == Append(tokens, t)
<1>1. PICK n \in Nat : n = Len(tokens)
  BY LenProperties
<1>2. /\ more \in Seq(Token) /\ Len(more) = n + 1 /\ more[n + 1] = t
      /\ \A i \in 1..n : more[i] = tokens[i]
  BY <1>1, AppendProperties
<1>. HIDE DEF more
<1>3. ASSUME NEW i \in 1..(n + 1)
      PROVE  LET before == context \o SubSeq(more, 1, i - 1) IN
             <<before, before>> \in DOMAIN answers /\ answers[<<before, before>>] = more[i]
  <2>1. SubSeq(more, 1, i - 1) = SubSeq(tokens, 1, i - 1)
    <3>. DEFINE x == SubSeq(more, 1, i - 1)
                y == SubSeq(tokens, 1, i - 1)
    <3>1. i - 1 \in 0..n /\ i - 1 \in 0..(n + 1)
      OBVIOUS
    <3>2. x \in Seq(Token) /\ Len(x) = i - 1 /\ \A j \in 1..(i - 1) : x[j] = more[j]
      BY <1>2, <3>1, HeadOf
    <3>3. y \in Seq(Token) /\ Len(y) = i - 1 /\ \A j \in 1..(i - 1) : y[j] = tokens[j]
      BY <1>1, <3>1, HeadOf
    <3>. HIDE DEF x, y
    <3>4. ASSUME NEW j \in 1..(i - 1) PROVE x[j] = y[j]
      <4>1. j \in 1..n
        OBVIOUS
      <4>. QED  BY <1>2, <3>2, <3>3, <4>1
    <3>5. x = y
      <4>1. \A j \in 1..Len(x) : x[j] = y[j]
        BY <3>2, <3>4
      <4>. QED  BY <3>2, <3>3, <4>1, SeqEqual
    <3>. QED  BY <3>5 DEF x, y
  <2>2. CASE i = n + 1
    <3>1. i - 1 = Len(tokens)
      BY <1>1, <2>2
    <3>2. SubSeq(tokens, 1, i - 1) = tokens
      BY <3>1, SubSeqFull
    <3>. QED  BY <1>2, <2>1, <2>2, <3>2
  <2>3. CASE i # n + 1
    <3>1. i \in 1..Len(tokens) /\ i \in 1..n
      BY <1>1, <2>3
    <3>2. LET before == context \o SubSeq(tokens, 1, i - 1) IN
          <<before, before>> \in DOMAIN answers /\ answers[<<before, before>>] = tokens[i]
      BY <3>1 DEF Told
    <3>. QED  BY <1>2, <2>1, <3>1, <3>2
  <2>. QED  BY <2>2, <2>3
<1>. QED  BY <1>2, <1>3 DEF Told, more

(* The first of the tokens may be joined to what comes before them.        *)
LEMMA ToldRest ==
  ASSUME NEW answers, NEW context \in Seq(Token), NEW tokens \in Seq(Token), tokens # <<>>,
         Told(answers, context, tokens)
  PROVE  /\ <<context, context>> \in DOMAIN answers
         /\ answers[<<context, context>>] = Head(tokens)
         /\ Told(answers, Append(context, Head(tokens)), Tail(tokens))
<1>1. PICK n \in Nat : n = Len(tokens) /\ n > 0
  BY LenProperties, EmptySeq
<1>2. /\ Tail(tokens) \in Seq(Token) /\ Len(Tail(tokens)) = n - 1 /\ Head(tokens) = tokens[1]
      /\ \A i \in 1..(n - 1) : Tail(tokens)[i] = tokens[i + 1]
  BY <1>1, FirstMoves, HeadTailProperties
<1>3. \A i \in 1..n :
        LET before == context \o SubSeq(tokens, 1, i - 1) IN
        <<before, before>> \in DOMAIN answers /\ answers[<<before, before>>] = tokens[i]
  BY <1>1 DEF Told
<1>4. <<context, context>> \in DOMAIN answers /\ answers[<<context, context>>] = tokens[1]
  <2>1. 1 \in 1..n /\ 1 - 1 = 0 /\ context \o SubSeq(tokens, 1, 0) = context
    BY <1>1, AddsNothing
  <2>2. LET before == context \o SubSeq(tokens, 1, 1 - 1) IN
        <<before, before>> \in DOMAIN answers /\ answers[<<before, before>>] = tokens[1]
    BY <1>3, <2>1
  <2>. QED  BY <2>1, <2>2
<1>5. ASSUME NEW i \in 1..(n - 1)
      PROVE  LET before == Append(context, Head(tokens)) \o SubSeq(Tail(tokens), 1, i - 1) IN
             <<before, before>> \in DOMAIN answers /\ answers[<<before, before>>] = Tail(tokens)[i]
  <2>1. i \in 1..Len(tokens) /\ i + 1 \in 1..n /\ (i + 1) - 1 = i
    BY <1>1
  <2>2. Append(context, Head(tokens)) \o SubSeq(Tail(tokens), 1, i - 1)
          = context \o SubSeq(tokens, 1, i)
    BY <2>1, FirstOfPart
  <2>3. LET before == context \o SubSeq(tokens, 1, (i + 1) - 1) IN
        <<before, before>> \in DOMAIN answers /\ answers[<<before, before>>] = tokens[i + 1]
    BY <1>3, <2>1
  <2>. QED  BY <1>2, <2>1, <2>2, <2>3
<1>6. Told(answers, Append(context, Head(tokens)), Tail(tokens))
  BY <1>2, <1>5 DEF Told
<1>. QED  BY <1>2, <1>4, <1>6

(* What is asked after all there is.                                       *)
LEMMA AskedInTurn ==
  ASSUME NEW context \in Seq(Token), NEW tokens \in Seq(Token), NEW t \in Token,
         chain = context \o tokens, Told(says, context, tokens), Ask(context \o tokens, t)
  PROVE  /\ \A q \in DOMAIN says : q \in DOMAIN says' /\ says'[q] = says[q]
         /\ Told(says', context, Append(tokens, t))
         /\ Append(chain, t) = context \o Append(tokens, t)
<1>1. /\ \A q \in DOMAIN says : q \in DOMAIN says' /\ says'[q] = says[q]
      /\ <<context \o tokens, chain>> \in DOMAIN says'
      /\ says'[<<context \o tokens, chain>>] = t
  BY AskAdds
<1>2. Told(says', context, tokens)
  BY <1>1, ToldStays
<1>3. Told(says', context, Append(tokens, t))
  <2>1. PICK after : after = says'
    OBVIOUS
  <2>2. Told(after, context, tokens)
    BY <1>2, <2>1
  <2>3. /\ <<context \o tokens, context \o tokens>> \in DOMAIN after
        /\ after[<<context \o tokens, context \o tokens>>] = t
    BY <1>1, <2>1
  <2>4. Told(after, context, Append(tokens, t))
    BY <2>2, <2>3, ToldMore
  <2>. QED  BY <2>1, <2>4
<1>4. Append(context \o tokens, t) = context \o Append(tokens, t)
  <2>1. /\ Append(tokens, t) = tokens \o <<t>> /\ <<t>> \in Seq(Token)
        /\ context \o tokens \in Seq(Token)
    BY AppendIsConcat, ConcatProperties
  <2>2. Append(context \o tokens, t) = (context \o tokens) \o <<t>>
    BY <2>1, AppendIsConcat
  <2>. QED  BY <2>1, <2>2, Join
<1>. QED  BY <1>1, <1>3, <1>4

(* Nothing is missing from the cache.                                      *)
LEMMA AllHeld ==
  ASSUME SpeculationAssumption, Framed, Cells(<<>>)
  PROVE  /\ phase \in {"draft", "first", "batch"} => history = Sofar /\ row = Sofar
         /\ phase \in {"head", "emit"} => history = Sofar \o SubSeq(step, 1, ready)
<1>1. <<>> \o history = history
  BY ConcatEmptySeq DEF Framed
<1>. QED  BY <1>1 DEF Cells

(* The operations that make no token.                                      *)
LEMMA SilentStep ==
  ASSUME SpeculationAssumption, Trimmable, ~Spoils, Voiced,
         \/ LoopHead \/ NoDraft \/ SyncFails \/ SyncAndPropose \/ BatchDecoded
         \/ BatchFails \/ EmitEog \/ DecodeRefused \/ UNCHANGED vars
  PROVE  Spoken'
<1>1. Spoken
  BY DEF Voiced
<1>2. says' = says /\ chain' = chain /\ output' = output /\ Sofar' = Sofar
  BY DEF LoopHead, NoDraft, SyncFails, SyncAndPropose, BatchDecoded, BatchFails,
         EmitEog, DecodeRefused, vars, reply, Sofar
<1>3. CASE LoopHead
  <2>1. chain = Sofar /\ (phase' = "draft" \/ (phase' = "head" /\ ended' # "no"))
    BY <1>1, <1>3 DEF LoopHead, Spoken
  <2>. QED  BY <1>2, <2>1 DEF Spoken
<1>4. CASE NoDraft \/ SyncFails \/ SyncAndPropose
  <2>1. chain = Sofar /\ phase' = "first"
    BY <1>1, <1>4 DEF NoDraft, SyncFails, SyncAndPropose, Spoken
  <2>. QED  BY <1>2, <2>1 DEF Spoken
<1>5. CASE BatchDecoded
  <2>1. chain = Sofar \o step /\ Told(says, Sofar, step) /\ phase' = "walk" /\ step' = step
    BY <1>1, <1>5 DEF BatchDecoded, Spoken
  <2>2. Told(says, Sofar, step)'
    BY <1>2, <2>1 DEF Told
  <2>. QED  BY <1>2, <2>1, <2>2 DEF Spoken
<1>6. CASE BatchFails \/ EmitEog \/ DecodeRefused
  <2>1. phase' = "head" /\ ended' # "no"
    BY <1>6 DEF BatchFails, EmitEog, DecodeRefused
  <2>. QED  BY <2>1 DEF Spoken
<1>7. CASE UNCHANGED vars
  <2>1. phase' = phase /\ step' = step /\ ended' = ended
    BY <1>7 DEF vars
  <2>2. Told(says, Sofar, step)' = Told(says, Sofar, step)
    BY <1>2, <2>1 DEF Told
  <2>. QED  BY <1>1, <1>2, <2>1, <2>2 DEF Spoken
<1>. QED  BY <1>3, <1>4, <1>5, <1>6, <1>7

(* The operations that ask the target.                                     *)
LEMMA AskingStep ==
  ASSUME SpeculationAssumption, Trimmable, ~Spoils, Voiced, PickFirst \/ Agree \/ Diverge
  PROVE  /\ Spoken' /\ output' = output /\ ended' = ended
         /\ \A q \in DOMAIN says : q \in DOMAIN says' /\ says'[q] = says[q]
<1>1. /\ Framed /\ Counted /\ Cells(<<>>) /\ Spoken
      /\ Sofar \in Seq(Token) /\ step \in Seq(Token) /\ chain \in Seq(Token)
  BY Values DEF Voiced, Framed
<1>2. output' = output /\ ended' = ended /\ Sofar' = Sofar
  BY DEF PickFirst, Agree, Diverge, reply, Sofar
<1>3. /\ phase' \in {"batch", "walk", "emit"} /\ chain = Sofar \o step
      /\ Told(says, Sofar, step)
      /\ \E t \in Token :
           Ask(Sofar \o step, t) /\ step' = Append(step, t) /\ chain' = Append(chain, t)
  <2>1. CASE PickFirst
    <3>1. phase = "first" /\ step = <<>> /\ chain = Sofar /\ row = Sofar
      BY <1>1, <2>1, AllHeld DEF PickFirst, Counted, Spoken
    <3>2. Sofar \o step = Sofar
      BY <1>1, <3>1, ConcatEmptySeq
    <3>3. PICK t \in Token : Ask(row, t) /\ step' = <<t>> /\ chain' = Append(chain, t)
      BY <2>1 DEF PickFirst, Accept
    <3>4. Append(step, t) = <<t>>
      BY <3>1
    <3>5. Told(says, Sofar, step)
      BY <3>1 DEF Told
    <3>6. phase' \in {"batch", "walk", "emit"}
      BY <2>1 DEF PickFirst
    <3>. QED  BY <3>1, <3>2, <3>3, <3>4, <3>5, <3>6
  <2>2. CASE Agree \/ Diverge
    <3>1. phase = "walk" /\ phase' \in {"walk", "emit"}
      BY <2>2 DEF Agree, Diverge
    <3>2. /\ Kept \in Seq(Token) /\ <<>> \o Kept = Sofar \o step
      BY <1>1, <3>1, KeptIsMatched
    <3>3. Kept = Sofar \o step
      BY <3>2, ConcatEmptySeq
    <3>4. \E t \in Token : Ask(Kept, t) /\ step' = Append(step, t) /\ chain' = Append(chain, t)
      BY <2>2 DEF Agree, Diverge, AgreesWith, Accept
    <3>. QED  BY <1>1, <3>1, <3>3, <3>4 DEF Spoken
  <2>. QED  BY <2>1, <2>2
<1>4. PICK t \in Token :
        Ask(Sofar \o step, t) /\ step' = Append(step, t) /\ chain' = Append(chain, t)
  BY <1>3
<1>5. PICK context \in Seq(Token) : context = Sofar
  BY <1>1
<1>6. /\ \A q \in DOMAIN says : q \in DOMAIN says' /\ says'[q] = says[q]
      /\ Told(says', context, Append(step, t))
      /\ Append(chain, t) = context \o Append(step, t)
  <2>1. chain = context \o step /\ Told(says, context, step) /\ Ask(context \o step, t)
    BY <1>3, <1>4, <1>5
  <2>. QED  BY <1>1, <2>1, AskedInTurn
<1>7. Told(says, Sofar, step)' /\ chain' = Sofar' \o step'
  <2>1. Told(says', context, step')
    BY <1>4, <1>6
  <2>2. Told(says, Sofar, step)'
    BY <1>2, <1>5, <2>1 DEF Told
  <2>. QED  BY <1>2, <1>4, <1>5, <1>6, <2>2
<1>8. Spoken'
  BY <1>3, <1>7 DEF Spoken
<1>. QED  BY <1>2, <1>6, <1>8

(* The operation that appends to the reply.                                *)
LEMMA EmitStep ==
  ASSUME SpeculationAssumption, Trimmable, ~Spoils, Voiced, Emit
  PROVE  Spoken'
<1>1. /\ Framed /\ Counted /\ Spoken /\ Sofar \in Seq(Token) /\ step \in Seq(Token)
      /\ output \in Seq(Token) /\ Prompt \in Seq(Token)
  BY Values DEF Voiced, Framed
<1>. DEFINE t == Head(step)
<1>2. /\ phase = "emit" /\ output' = Append(output, t) /\ step' = Tail(step)
      /\ chain' = chain /\ says' = says /\ phase' \in {"head", "emit"}
      /\ (phase' = "head") = (step' = <<>> \/ ended' # "no")
  BY DEF Emit
<1>3. /\ step # <<>> /\ chain = Sofar \o step /\ Told(says, Sofar, step)
  BY <1>1, <1>2 DEF Counted, Spoken
<1>4. /\ t \in Token /\ Tail(step) \in Seq(Token) /\ Append(Sofar, t) \in Seq(Token)
      /\ Append(Sofar, t) \o Tail(step) = Sofar \o step
  BY <1>1, <1>3, FirstMoves
<1>5. Told(says, Append(Sofar, t), Tail(step))
  BY <1>1, <1>3, ToldRest
<1>. HIDE DEF t
<1>6. Sofar' = Append(Sofar, t)
  <2>1. /\ Append(output, t) = output \o <<t>> /\ <<t>> \in Seq(Token)
        /\ Append(Sofar, t) = Sofar \o <<t>>
    BY <1>1, <1>4, AppendIsConcat
  <2>2. (Prompt \o output) \o <<t>> = Prompt \o (output \o <<t>>)
    BY <1>1, <2>1, Join
  <2>. QED  BY <1>2, <2>1, <2>2 DEF Sofar
<1>7. Told(says, Sofar, step)' /\ chain' = Sofar' \o step'
  <2>1. Told(says, Sofar, step)'
    BY <1>2, <1>5, <1>6 DEF Told
  <2>. QED  BY <1>2, <1>3, <1>4, <1>6, <2>1
<1>8. phase' = "head" /\ ended' = "no" => chain' = Sofar'
  <2>1. step' = <<>> => Sofar' \o step' = Sofar'
    BY <1>4, <1>6, ConcatEmptySeq
  <2>. QED  BY <1>2, <1>7, <2>1
<1>. QED  BY <1>2, <1>7, <1>8 DEF Spoken

(* Nothing is lost where a tail can be dropped.                            *)
LEMMA WholeStep ==
  ASSUME SpeculationAssumption, Trimmable, Framed, Counted, Cells(<<>>), [Next]_vars
  PROVE  Framed' /\ Counted' /\ Cells(<<>>)'
<1>1. ~RollbackRefused
  BY DEF RollbackRefused
<1>2. PICK lost : lost = <<>>
  OBVIOUS
<1>3. Framed' /\ Counted' /\ Cells(lost)'
  BY <1>1, <1>2, StepGoes
<1>. QED  BY <1>2, <1>3

(* The invariant is kept by every step.                                    *)
LEMMA VoicedStep ==
  ASSUME SpeculationAssumption, Trimmable, ~Spoils, Voiced, [Next]_vars
  PROVE  Voiced'
<1>1. Framed /\ Counted /\ Cells(<<>>) /\ Spoken
  BY DEF Voiced
<1>2. ~RollbackRefused /\ ~BatchSpoiled /\ ~PickPlain
  BY <1>1 DEF RollbackRefused, BatchSpoiled, PickPlain, Spoken
<1>3. Framed' /\ Counted' /\ Cells(<<>>)'
  BY <1>1, WholeStep
<1>4. Spoken'
  <2>1. CASE \/ LoopHead \/ NoDraft \/ SyncFails \/ SyncAndPropose \/ BatchDecoded
             \/ BatchFails \/ EmitEog \/ DecodeRefused \/ UNCHANGED vars
    BY <2>1, SilentStep
  <2>2. CASE PickFirst \/ Agree \/ Diverge
    BY <2>2, AskingStep
  <2>3. CASE Emit
    BY <2>3, EmitStep
  <2>. QED  BY <1>2, <2>1, <2>2, <2>3 DEF Next
<1>. QED  BY <1>3, <1>4 DEF Voiced

-----------------------------------------------------------------------------
(* What follows from it.                                                   *)

(* llm.cpp:1198-1199: where a tail can be dropped, whatever the decoder    *)
(* refuses, after every round the cache holds exactly the reply and those  *)
(* tokens of the round that are not to be decoded again.                   *)
THEOREM CacheKeepsUp ==
  ASSUME SpeculationAssumption, Trimmable
  PROVE  Spec => []CacheIsReplySoFar
<1>. DEFINE Whole == Framed /\ Counted /\ Cells(<<>>)
<1>1. Init => Whole
  BY InitHeld DEF Voiced
<1>2. Whole /\ [Next]_vars => Whole'
  BY WholeStep
<1>3. Whole => CacheIsReplySoFar
  BY AllHeld DEF CacheIsReplySoFar, Sofar
<1>. QED  BY <1>1, <1>2, <1>3, PTL DEF Spec

(* llm.cpp:1210-1213: where moreover a batch that fits is never refused,   *)
(* the sampler chain has accepted each token that was kept exactly once.   *)
THEOREM ChainKeepsUp ==
  ASSUME SpeculationAssumption, Trimmable, ~Spoils
  PROVE  Spec => []ChainAdvancesOnce
<1>1. Init => Voiced
  BY InitHeld
<1>2. Voiced /\ [Next]_vars => Voiced'
  BY VoicedStep
<1>3. Voiced => ChainAdvancesOnce
  <2>. SUFFICES ASSUME Voiced PROVE ChainAdvancesOnce
    OBVIOUS
  <2>1. Framed /\ Counted /\ Spoken /\ Sofar \in Seq(Token)
    BY Values DEF Voiced
  <2>2. phase = "head" /\ ended = "no" => chain = Sofar \o step
    <3>1. phase = "head" /\ ended = "no" => chain = Sofar /\ step = <<>>
      BY <2>1 DEF Spoken, Counted
    <3>. QED  BY <2>1, <3>1, ConcatEmptySeq
  <2>3. phase = "emit" => chain = Sofar \o step
    BY <2>1 DEF Spoken
  <2>. QED  BY <2>2, <2>3 DEF ChainAdvancesOnce, Sofar
<1>. QED  BY <1>1, <1>2, <1>3, PTL DEF Spec

(* A step of a speculating handle, seen from the reply.                    *)
LEMMA PlainStep ==
  ASSUME SpeculationAssumption, Trimmable, ~Spoils, Len(Prompt) + MaxTokens <= Window,
         Voiced, [Next]_vars
  PROVE  [Plain!Next]_<<says, output, ended>>
<1>1. /\ Framed /\ Counted /\ Cells(<<>>) /\ Spoken
      /\ Sofar \in Seq(Token) /\ step \in Seq(Token) /\ Plain!Context = Sofar
  BY Values DEF Voiced, Framed, Plain!Context, Sofar
<1>2. CASE UNCHANGED <<says, output, ended>>
  BY <1>2
<1>3. CASE LoopHead
  <2>1. Len(history) >= Window => Len(Plain!Context) >= Window
    <3>1. ended = "no" /\ phase = "head"
      BY <1>3 DEF LoopHead
    <3>2. step = <<>> /\ ready = 0
      BY <1>1, <3>1, Values DEF Counted, Framed
    <3>3. history = Sofar
      BY <1>1, <3>1, <3>2, AllHeld, AddsNothing
    <3>. QED  BY <1>1, <3>3
  <2>2. CASE Len(history) >= Window
    BY <1>3, <2>1, <2>2 DEF LoopHead, Plain!Next, Plain!WindowFull
  <2>3. CASE ~(Len(history) >= Window)
    BY <1>3, <2>3 DEF LoopHead
  <2>. QED  BY <2>2, <2>3
<1>4. CASE NoDraft \/ SyncFails \/ SyncAndPropose \/ BatchDecoded \/ UNCHANGED vars
  BY <1>4 DEF NoDraft, SyncFails, SyncAndPropose, BatchDecoded, reply, vars
<1>5. CASE PickFirst \/ Agree \/ Diverge
  BY <1>5, AskingStep DEF Plain!Next, Plain!Asked, Plain!Extends
<1>6. CASE BatchFails
  <2>1. ended = "no"
    BY <1>1, <1>6 DEF BatchFails, Framed
  <2>. QED  BY <1>6, <2>1 DEF BatchFails, Plain!Next, Plain!Fail
<1>7. ASSUME phase = "emit"
      PROVE  /\ ended = "no" /\ Len(output) < MaxTokens /\ Len(Sofar) < Window
             /\ step # <<>> /\ <<Sofar, Sofar>> \in DOMAIN says
             /\ says[<<Sofar, Sofar>>] = Head(step)
  <2>1. ended = "no" /\ Len(output) < MaxTokens /\ step # <<>> /\ Told(says, Sofar, step)
    BY <1>1, <1>7 DEF Framed, Counted, Spoken
  <2>2. Len(Sofar) < Window
    BY <1>1, <2>1, Values
  <2>. QED  BY <1>1, <2>1, <2>2, ToldRest
<1>8. CASE EmitEog
  <2>1. /\ phase = "emit" /\ Head(step) = Eog /\ ended' = "eos"
        /\ says' = says /\ output' = output
    BY <1>8 DEF EmitEog
  <2>2. Plain!Say
    BY <1>1, <1>7, <2>1 DEF Plain!Say, Plain!Extends
  <2>. QED  BY <2>2 DEF Plain!Next
<1>9. CASE DecodeRefused
  <2>1. phase = "emit" /\ ready = 0 /\ Len(history) >= Window
    BY <1>9 DEF DecodeRefused
  <2>2. history = Sofar
    BY <1>1, <2>1, AllHeld, AddsNothing
  <2>3. Len(history) < Window /\ Len(history) \in Nat /\ Window \in Nat
    BY <1>1, <1>7, <2>1, <2>2, Values
  <2>4. FALSE
    BY <2>1, <2>3
  <2>. QED  BY <2>4
<1>10. CASE Emit
  <2>1. /\ phase = "emit" /\ Head(step) # Eog /\ output' = Append(output, Head(step))
        /\ says' = says
        /\ ended' \in IF Len(output') >= MaxTokens THEN {"length", "stopped"}
                                                   ELSE {"no", "stopped"}
    BY <1>10 DEF Emit
  <2>2. Len(output') = Len(output) + 1
    BY <1>1, <1>7, <2>1, WithoutLast, FirstMoves DEF Framed
  <2>3. PICK n \in Nat, most \in Nat : n = Len(output) /\ most = MaxTokens /\ n < most
    BY <1>1, <1>7, <2>1, Values
  <2>4. Len(output') >= MaxTokens <=> Len(output') = MaxTokens
    BY <2>2, <2>3
  <2>5. ended' \in {"no", "stopped"} \cup (IF Len(output') = MaxTokens THEN {"length"} ELSE {})
    <3>1. CASE Len(output') = MaxTokens
      BY <2>1, <2>4, <3>1
    <3>2. CASE Len(output') # MaxTokens
      BY <2>1, <2>4, <3>2
    <3>. QED  BY <3>1, <3>2
  <2>6. Plain!Say
    BY <1>1, <1>7, <2>1, <2>5 DEF Plain!Say, Plain!Extends
  <2>. QED  BY <2>6 DEF Plain!Next
<1>11. ~RollbackRefused /\ ~BatchSpoiled /\ ~PickPlain
  BY <1>1 DEF RollbackRefused, BatchSpoiled, PickPlain, Spoken
<1>. QED  BY <1>3, <1>4, <1>5, <1>6, <1>8, <1>9, <1>10, <1>11 DEF Next

(* README.md:371-374: speculating changes how tokens are made, never       *)
(* which.  Where a tail can be dropped, a batch that fits is never refused *)
(* and the window has room for the whole reply, every behaviour is one of  *)
(* plain decoding.                                                         *)
THEOREM SpeculationIsPlain ==
  ASSUME SpeculationAssumption, Trimmable, ~Spoils, Len(Prompt) + MaxTokens <= Window
  PROVE  Spec => ImplementsPlainDecoding
<1>1. Init => Plain!Init
  BY DEF Init, Plain!Init
<1>2. Init => Voiced
  BY InitHeld
<1>3. Voiced /\ [Next]_vars => Voiced'
  BY VoicedStep
<1>4. Voiced /\ [Next]_vars => [Plain!Next]_<<says, output, ended>>
  BY PlainStep
<1>. QED  BY <1>1, <1>2, <1>3, <1>4, PTL
           DEF Spec, ImplementsPlainDecoding, Plain!Spec, Plain!vars
=============================================================================
