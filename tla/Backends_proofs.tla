------------------------- MODULE Backends_proofs -------------------------
(***************************************************************************)
(* What TLAPS proves about the backends of Backends: the MLX session for   *)
(* any number of layers, any window and any prompts, and its constrained   *)
(* decoding for any schemas compiled rightly; the vision handle for any    *)
(* files, prompts and windows; the two embedding handles for any batches,  *)
(* contexts and graphs.                                                    *)
(***************************************************************************)
EXTENDS Backends, SequenceTheorems, WellFoundedInduction, FiniteSetTheorems, TLAPS

-----------------------------------------------------------------------------
(* Numbers, and lists that are gone through one by one.                    *)

(* A set of numbers that has members has a least one.                      *)
LEMMA Least ==
  ASSUME NEW S, S \subseteq Nat, S # {}
  PROVE  \E x \in S : \A y \in S : x <= y
<1>1. IsWellFoundedOn(OpToRel(<, Nat), Nat)
  BY NatLessThanWellFounded
<1>2. \A a, b \in Nat : a < b => <<a, b>> \in OpToRel(<, Nat)
  BY DEF OpToRel
<1>3. PICK x \in S : \A y \in S : ~ (<<y, x>> \in OpToRel(<, Nat))
  BY <1>1, WFMin, Zenon
<1>4. ASSUME NEW y \in S PROVE x <= y
  <2>1. x \in Nat /\ y \in Nat
    OBVIOUS
  <2>2. ~ (y < x)
    BY <2>1, <1>2, <1>3, Zenon
  <2>. QED  BY <2>1, <2>2
<1>. QED  BY <1>4

(* Min chooses it.                                                         *)
LEMMA MinIsMember ==
  ASSUME NEW S, S \subseteq Nat, S # {}
  PROVE  Min(S) \in S
BY Least DEF Min

(* A set of numbers up to n that has members has a greatest one, which Max *)
(* chooses.                                                                *)
LEMMA MaxIsMember ==
  ASSUME NEW n \in Nat, NEW S \in SUBSET (0..n), S # {}
  PROVE  Max(S) \in S /\ \A y \in S : Max(S) >= y
<1>. DEFINE T == {m \in 0..n : n - m \in S}
<1>1. PICK x \in S : TRUE
  OBVIOUS
<1>2. n - x \in T
  BY <1>1
<1>3. T \subseteq Nat
  OBVIOUS
<1>4. PICK m \in T : \A y \in T : m <= y
  <2>. HIDE DEF T
  <2>. QED  BY <1>2, <1>3, Least
<1>5. ASSUME NEW y \in S PROVE n - m >= y
  <2>1. y \in 0..n /\ n - (n - y) = y
    OBVIOUS
  <2>2. n - y \in T
    BY <2>1
  <2>3. m <= n - y /\ m \in 0..n
    BY <1>4, <2>2
  <2>. QED  BY <2>1, <2>3
<1>6. n - m \in S
  BY <1>4
<1>. QED  BY <1>5, <1>6 DEF Max

LEMMA MaxIs ==
  ASSUME NEW n \in Nat, NEW S \in SUBSET (0..n), NEW m \in S, \A y \in S : m >= y
  PROVE  Max(S) = m
<1>1. Max(S) \in S /\ \A y \in S : Max(S) >= y
  BY MaxIsMember
<1>2. Max(S) >= m /\ m >= Max(S)
  BY <1>1
<1>3. Max(S) \in Int /\ m \in Int
  <2>1. Max(S) \in 0..n /\ m \in 0..n
    BY <1>1
  <2>. QED  BY <2>1
<1>. QED  BY <1>2, <1>3

(* What holds of 0 and of each number after one of which it holds.         *)
LEMMA Counted ==
  ASSUME NEW n \in Nat, NEW Good, 0 \in Good, \A m \in 1..n : m - 1 \in Good => m \in Good
  PROVE  \A m \in 0..n : m \in Good
<1>. DEFINE Bad == {m \in 0..n : m \notin Good}
<1>1. Bad = {}
  <2>. SUFFICES ASSUME Bad # {} PROVE FALSE
    OBVIOUS
  <2>1. Bad \subseteq Nat
    OBVIOUS
  <2>2. PICK x \in Bad : \A y \in Bad : x <= y
    <3>. HIDE DEF Bad
    <3>. QED  BY <2>1, Least
  <2>3. x \in 1..n /\ x - 1 \in 0..n /\ ~(x <= x - 1)
    BY <2>2
  <2>4. x - 1 \in Good
    BY <2>2, <2>3
  <2>. QED  BY <2>2, <2>3, <2>4
<1>. QED  BY <1>1

(* A list can be gone through step by step.                                *)
Steps(base, n, step, f) ==
  f = [i \in 0..n |-> IF i = 0 THEN base ELSE step[<<f[i - 1], i>>]]

LEMMA Iterated ==
  ASSUME NEW S, NEW base \in S, NEW n \in Nat, NEW step \in [S \X (1..n) -> S]
  PROVE  \E f \in [0..n -> S] : Steps(base, n, step, f)
<1>. DEFINE Keeps(h, m) == h[0] = base /\ \A i \in 1..m : h[i] = step[<<h[i - 1], i>>]
            Good == {m \in 0..n : \E h \in [0..m -> S] : Keeps(h, m)}
<1>1. 0 \in 0..n /\ n \in 0..n
  OBVIOUS
<1>2. 0 \in Good
  <2>. DEFINE none == [i \in 0..0 |-> base]
  <2>1. none \in [0..0 -> S] /\ none[0] = base
    OBVIOUS
  <2>. HIDE DEF none
  <2>2. Keeps(none, 0)
    BY <2>1
  <2>. HIDE DEF Keeps
  <2>. QED  BY <1>1, <2>1, <2>2
<1>3. ASSUME NEW m \in 1..n, m - 1 \in Good PROVE m \in Good
  <2>1. PICK h \in [0..(m - 1) -> S] : Keeps(h, m - 1)
    BY <1>3
  <2>. DEFINE g == [i \in 0..m |-> IF i = m THEN step[<<h[m - 1], m>>] ELSE h[i]]
  <2>2. m - 1 \in 0..(m - 1) /\ m \in Nat /\ m # 0 /\ m \in 0..n
    OBVIOUS
  <2>3. step[<<h[m - 1], m>>] \in S
    <3>1. h[m - 1] \in S
      BY <2>2
    <3>. QED  BY <3>1
  <2>4. g \in [0..m -> S]
    BY <2>3
  <2>5. \A i \in 0..(m - 1) : g[i] = h[i]
    BY <2>2
  <2>6. g[m] = step[<<h[m - 1], m>>]
    BY <2>2
  <2>. HIDE DEF g
  <2>7. g[0] = base
    <3>1. 0 \in 0..(m - 1)
      BY <2>2
    <3>. QED  BY <2>1, <2>5, <3>1
  <2>8. ASSUME NEW i \in 1..m PROVE g[i] = step[<<g[i - 1], i>>]
    <3>1. CASE i = m
      BY <2>2, <2>5, <2>6, <3>1
    <3>2. CASE i # m
      <4>1. i \in 1..(m - 1) /\ i \in 0..(m - 1) /\ i - 1 \in 0..(m - 1)
        BY <2>2, <3>2
      <4>2. h[i] = step[<<h[i - 1], i>>]
        BY <2>1, <4>1
      <4>. QED  BY <2>5, <4>1, <4>2
    <3>. QED  BY <3>1, <3>2
  <2>9. Keeps(g, m)
    BY <2>7, <2>8
  <2>. HIDE DEF Keeps
  <2>. QED  BY <2>2, <2>4, <2>9
<1>4. \A m \in 0..n : m \in Good
  <2>. HIDE DEF Good
  <2>. QED  BY <1>2, <1>3, Counted
<1>5. PICK h \in [0..n -> S] : Keeps(h, n)
  <2>1. n \in Good
    <3>. HIDE DEF Good
    <3>. QED  BY <1>1, <1>4
  <2>. HIDE DEF Keeps
  <2>. QED  BY <2>1
<1>6. \A i \in 0..n : h[i] = IF i = 0 THEN base ELSE step[<<h[i - 1], i>>]
  <2>. SUFFICES ASSUME NEW i \in 0..n
                PROVE  h[i] = IF i = 0 THEN base ELSE step[<<h[i - 1], i>>]
    OBVIOUS
  <2>1. i = 0 \/ i \in 1..n
    OBVIOUS
  <2>. QED  BY <1>5, <2>1
<1>7. Steps(base, n, step, h)
  <2>. HIDE DEF Keeps
  <2>. QED  BY <1>6 DEF Steps
<1>. QED  BY <1>7

-----------------------------------------------------------------------------
(* The MLX session.  The buffers are described by the sequence they hold:  *)
(* every forward pass, however it ends, leaves them holding another.       *)

(* The buffers bs hold the tokens of held, one cell for each in every      *)
(* layer; a layer that has been written has all the room allocated, which  *)
(* is within the limit.                                                    *)
Stored(bs, room, held, limit) ==
  /\ bs \in [1..Layers -> Seq(Token \cup {Empty})]
  /\ room \in 0..limit
  /\ \A l \in 1..Layers :
       /\ Len(bs[l]) <= limit /\ (bs[l] = <<>> \/ Len(bs[l]) >= room)
       /\ Len(held) <= Len(bs[l])
       /\ \A i \in 1..Len(held) : bs[l][i] = held[i]

(* The types, and what each phase has left to do.                          *)
Framed ==
  /\ phase \in {"closed", "idle", "fit", "prefill", "loop", "commit"}
  /\ nCtx \in Nat /\ nPast \in 0..nCtx
  /\ transcript \in Seq(Token) /\ nPast <= Len(transcript) /\ prompt \in Seq(Token)
  /\ fresh \in Seq(Token) /\ reply \in Seq(Token)
  /\ pinned \in Heads \cup {DefaultHead}
  /\ phase = "closed" => nCtx = 0
  /\ phase \notin {"fit", "prefill"} => fresh = <<>>
  /\ phase \notin {"loop", "commit"} => reply = <<>>
  /\ RoomIsMade

(* Each layer holds these tokens, nPast of them.                           *)
Holding(held) ==
  /\ held \in Seq(Token) /\ Len(held) = nPast
  /\ Stored(buffers, allocated, held, nCtx)

(* The inductive invariant that survives everything.                       *)
Cached == Framed /\ \E held : Holding(held)

(* How much of the head a shift keeps when it drops anything.              *)
Anchor == Lesser(pinned, nCtx \div 4)

(* now is all without what lies between its first k tokens and its last    *)
(* ones, if without anything.                                              *)
Abridges(now, all, k) ==
  /\ k \in 0..Len(now) /\ Len(now) <= Len(all)
  /\ \A i \in 1..k : now[i] = all[i]
  /\ \A i \in (k + 1)..Len(now) : now[i] = all[i + (Len(all) - Len(now))]

(* The conversation so far, evaluated and still to be evaluated, is that   *)
(* of the request; only sliding_window lets anything be dropped, and then  *)
(* behind the anchor, which has been evaluated.                            *)
Converses ==
  phase \in {"fit", "prefill", "loop", "commit"} =>
    \/ transcript \o fresh = prompt \o reply
    \/ /\ sliding /\ Anchor <= Len(transcript)
       /\ Abridges(transcript \o fresh, prompt \o reply, Anchor)

(* The inductive invariant when no shift throws.                           *)
Kept == Framed /\ Holding(transcript) /\ Converses

-----------------------------------------------------------------------------
(* What a forward pass leaves.                                             *)

(* Room is made for what is asked, within the window.                      *)
LEMMA RoomFits ==
  ASSUME nCtx \in Nat, allocated \in 0..nCtx, NEW needed \in 0..nCtx
  PROVE  /\ Room(needed) \in 0..nCtx
         /\ Room(needed) >= needed /\ Room(needed) >= allocated
<1>1. CASE needed <= allocated
  BY <1>1 DEF Room
<1>2. CASE ~(needed <= allocated)
  <2>. DEFINE S == Doublings(needed) \cap needed..nCtx
  <2>1. nCtx \in S
    BY DEF Doublings
  <2>2. S \subseteq Nat
    OBVIOUS
  <2>3. Min(S) \in S
    BY <2>1, <2>2, MinIsMember
  <2>4. Min(S) \in needed..nCtx
    BY <2>3
  <2>. QED  BY <1>2, <2>4 DEF Room
<1>. QED  BY <1>1, <1>2

(* A layer that has been written: its first cells are as they were, then   *)
(* come the new ones.                                                      *)
LEMMA LayerWritten ==
  ASSUME nCtx \in Nat, allocated \in 0..nCtx,
         NEW buffer \in Seq(Token \cup {Empty}),
         Len(buffer) <= nCtx, buffer = <<>> \/ Len(buffer) >= allocated,
         NEW from \in Nat, from <= Len(buffer),
         NEW tokens \in Seq(Token), from + Len(tokens) <= nCtx
  PROVE  LET w == Written(buffer, from, tokens) IN
         /\ w \in Seq(Token \cup {Empty})
         /\ Len(w) <= nCtx /\ Room(from + Len(tokens)) <= Len(w)
         /\ \A i \in 1..from : w[i] = buffer[i]
         /\ \A i \in 1..Len(tokens) : w[from + i] = tokens[i]
<1>. DEFINE room  == Room(from + Len(tokens))
            large == [i \in 1..room |-> IF i <= from THEN buffer[i] ELSE Empty]
            grown == IF buffer = <<>> \/ room > allocated THEN large ELSE buffer
            w     == Written(buffer, from, tokens)
<1>0. PICK n \in Nat : n = Len(tokens)
  BY LenProperties
<1>1. /\ room \in 0..nCtx /\ room >= from + n /\ room >= allocated
  BY <1>0, RoomFits
<1>2. PICK b \in Nat : b = Len(buffer) /\ DOMAIN buffer = 1..b
  BY LenProperties
<1>3. \A i \in 1..b : buffer[i] \in Token \cup {Empty}
  BY <1>2, ElementOfSeq
<1>4. PICK m \in Nat : /\ m <= nCtx /\ room <= m /\ DOMAIN grown = 1..m
                       /\ \A i \in 1..m : grown[i] \in Token \cup {Empty}
                       /\ \A i \in 1..from : grown[i] = buffer[i]
  <2>1. CASE buffer = <<>> \/ room > allocated
    <3>1. \A i \in 1..room : large[i] \in Token \cup {Empty}
      BY <1>1, <1>2, <1>3
    <3>2. \A i \in 1..from : large[i] = buffer[i]
      BY <1>1
    <3>. QED  BY <1>1, <2>1, <3>1, <3>2
  <2>2. CASE ~(buffer = <<>> \/ room > allocated)
    BY <1>1, <1>2, <1>3, <2>2
  <2>. QED  BY <2>1, <2>2
<1>5. w = [i \in DOMAIN grown |->
             IF i \in (from + 1)..(from + Len(tokens)) THEN tokens[i - from] ELSE grown[i]]
  BY DEF Written
<1>. HIDE DEF grown, room, w
<1>6. w = [i \in 1..m |-> IF i \in (from + 1)..(from + n) THEN tokens[i - from] ELSE grown[i]]
  BY <1>0, <1>4, <1>5
<1>7. \A i \in 1..n : tokens[i] \in Token
  BY <1>0, ElementOfSeq
<1>8. \A i \in 1..m : w[i] \in Token \cup {Empty}
  <2>. SUFFICES ASSUME NEW i \in 1..m PROVE w[i] \in Token \cup {Empty}
    OBVIOUS
  <2>1. CASE i \in (from + 1)..(from + n)
    <3>1. i - from \in 1..n
      BY <2>1
    <3>. QED  BY <1>6, <1>7, <2>1, <3>1
  <2>2. CASE i \notin (from + 1)..(from + n)
    BY <1>4, <1>6, <2>2
  <2>. QED  BY <2>1, <2>2
<1>9. w \in [1..m -> Token \cup {Empty}]
  BY <1>6, <1>8
<1>10. w \in Seq(Token \cup {Empty}) /\ Len(w) = m
  BY <1>9
<1>11. \A i \in 1..from : w[i] = buffer[i]
  BY <1>1, <1>4, <1>6
<1>12. \A i \in 1..n : w[from + i] = tokens[i]
  <2>. SUFFICES ASSUME NEW i \in 1..n PROVE w[from + i] = tokens[i]
    OBVIOUS
  <2>1. from + i \in 1..m /\ from + i \in (from + 1)..(from + n) /\ (from + i) - from = i
    BY <1>1, <1>4
  <2>. QED  BY <1>6, <2>1
<1>. QED  BY <1>0, <1>4, <1>10, <1>11, <1>12 DEF room, w

(* The buffers still hold what they held first when a mark is moved back.  *)
LEMMA TrimStores ==
  ASSUME NEW bs, NEW room, NEW limit \in Nat, NEW held \in Seq(Token),
         Stored(bs, room, held, limit), NEW n \in 0..Len(held)
  PROVE  /\ SubSeq(held, 1, n) \in Seq(Token) /\ Len(SubSeq(held, 1, n)) = n
         /\ \A i \in 1..n : SubSeq(held, 1, n)[i] = held[i]
         /\ Stored(bs, room, SubSeq(held, 1, n), limit)
<1>1. PICK m \in Nat : m = Len(held)
  BY LenProperties
<1>2. \A i \in 1..n : held[i] \in Token
  BY <1>1, ElementOfSeq
<1>. DEFINE t == SubSeq(held, 1, n)
<1>3. t \in Seq(Token) /\ Len(t) = n /\ \A i \in 1..n : t[i] = held[i]
  BY <1>1, <1>2, SubSeqProperties
<1>. HIDE DEF t
<1>4. \A l \in 1..Layers : Len(t) <= Len(bs[l]) /\ \A i \in 1..Len(t) : bs[l][i] = t[i]
  <2>. SUFFICES ASSUME NEW l \in 1..Layers
                PROVE  Len(t) <= Len(bs[l]) /\ \A i \in 1..Len(t) : bs[l][i] = t[i]
    OBVIOUS
  <2>1. Len(held) <= Len(bs[l]) /\ \A i \in 1..Len(held) : bs[l][i] = held[i]
    BY DEF Stored
  <2>2. Len(bs[l]) \in Nat
    BY LenProperties DEF Stored
  <2>. QED  BY <1>1, <1>3, <2>1, <2>2
<1>5. Stored(bs, room, t, limit)
  BY <1>4 DEF Stored
<1>. QED  BY <1>3, <1>5 DEF t

(* What a pass needs of one layer.                                         *)
LEMMA LayerFacts ==
  ASSUME NEW held, NEW l \in 1..Layers, Stored(buffers, allocated, held, nCtx)
  PROVE  /\ buffers[l] \in Seq(Token \cup {Empty})
         /\ Len(buffers[l]) \in Nat /\ Len(buffers[l]) <= nCtx
         /\ buffers[l] = <<>> \/ Len(buffers[l]) >= allocated
         /\ Len(held) <= Len(buffers[l])
         /\ \A i \in 1..Len(held) : buffers[l][i] = held[i]
<1>1. buffers[l] \in Seq(Token \cup {Empty})
  BY DEF Stored
<1>. QED  BY <1>1, LenProperties DEF Stored

(* A pass that comes back has laid its tokens behind what was there.       *)
LEMMA PassStores ==
  ASSUME nCtx \in Nat, NEW held \in Seq(Token), NEW tokens \in Seq(Token),
         Stored(buffers, allocated, held, nCtx), Len(held) + Len(tokens) <= nCtx,
         ForwardFrom(Len(held), tokens)
  PROVE  /\ Stored(buffers', allocated', held \o tokens, nCtx)
         /\ held \o tokens \in Seq(Token)
         /\ Len(held \o tokens) = Len(held) + Len(tokens)
         /\ nPast' = Len(held) + Len(tokens)
<1>0. PICK h \in Nat, n \in Nat : h = Len(held) /\ n = Len(tokens)
  BY LenProperties
<1>. DEFINE all == held \o tokens
<1>1. /\ all \in Seq(Token) /\ Len(all) = h + n
      /\ \A i \in 1..(h + n) : all[i] = IF i <= h THEN held[i] ELSE tokens[i - h]
  BY <1>0, ConcatProperties
<1>. HIDE DEF all
<1>2. allocated \in 0..nCtx
  BY DEF Stored
<1>3. /\ Room(h + n) \in 0..nCtx
      /\ Room(h + n) >= h + n /\ Room(h + n) >= allocated
  BY <1>0, <1>2, RoomFits
<1>4. /\ buffers' = [l \in 1..Layers |-> Written(buffers[l], h, tokens)]
      /\ nPast' = h + n /\ allocated' = Room(h + n)
  BY <1>0 DEF ForwardFrom
<1>5. ASSUME NEW l \in 1..Layers
      PROVE  /\ buffers'[l] \in Seq(Token \cup {Empty})
             /\ Len(buffers'[l]) <= nCtx /\ Len(buffers'[l]) >= allocated'
             /\ h + n <= Len(buffers'[l])
             /\ \A i \in 1..(h + n) : buffers'[l][i] = all[i]
  <2>. DEFINE w == Written(buffers[l], h, tokens)
  <2>1. buffers'[l] = w
    BY <1>4
  <2>2. /\ w \in Seq(Token \cup {Empty})
        /\ Len(w) <= nCtx /\ Room(h + n) <= Len(w)
        /\ \A i \in 1..h : w[i] = buffers[l][i]
        /\ \A i \in 1..n : w[h + i] = tokens[i]
    BY <1>0, <1>2, LayerFacts, LayerWritten
  <2>3. \A i \in 1..h : buffers[l][i] = held[i]
    BY <1>0, LayerFacts
  <2>. HIDE DEF w
  <2>4. Len(w) \in Nat
    BY <2>2, LenProperties
  <2>5. ASSUME NEW i \in 1..(h + n) PROVE w[i] = all[i]
    <3>1. CASE i <= h
      BY <1>1, <2>2, <2>3, <3>1
    <3>2. CASE ~(i <= h)
      <4>1. i - h \in 1..n /\ h + (i - h) = i
        BY <3>2
      <4>2. w[h + (i - h)] = tokens[i - h]
        BY <2>2, <4>1
      <4>. QED  BY <1>1, <3>2, <4>1, <4>2
    <3>. QED  BY <3>1, <3>2
  <2>. QED  BY <1>3, <1>4, <2>1, <2>2, <2>4, <2>5
<1>6. buffers' \in [1..Layers -> Seq(Token \cup {Empty})]
  <2>. DEFINE f(l) == Written(buffers[l], h, tokens)
  <2>1. \A l \in 1..Layers : f(l) \in Seq(Token \cup {Empty})
    BY <1>4, <1>5
  <2>. QED  BY <1>4, <2>1
<1>7. Stored(buffers', allocated', all, nCtx)
  BY <1>1, <1>3, <1>4, <1>5, <1>6 DEF Stored
<1>. QED  BY <1>0, <1>1, <1>4, <1>7 DEF all

(* A pass that throws has not touched it.                                  *)
LEMMA ThrowStores ==
  ASSUME nCtx \in Nat, NEW held \in Seq(Token), NEW tokens \in Seq(Token),
         Stored(buffers, allocated, held, nCtx), Len(held) + Len(tokens) <= nCtx,
         ThrowsFrom(Len(held), tokens)
  PROVE  Stored(buffers', allocated', held, nCtx) /\ nPast' = Len(held)
<1>0. PICK h \in Nat, n \in Nat : h = Len(held) /\ n = Len(tokens)
  BY LenProperties
<1>2. allocated \in 0..nCtx
  BY DEF Stored
<1>3. /\ Room(h + n) \in 0..nCtx
      /\ Room(h + n) >= h + n /\ Room(h + n) >= allocated
  BY <1>0, <1>2, RoomFits
<1>4. /\ nPast' = h /\ allocated' = allocated
      /\ \E done \in 0..Layers :
           buffers' = [l \in 1..Layers |->
                         IF l <= done THEN Written(buffers[l], h, tokens) ELSE buffers[l]]
  BY <1>0 DEF ThrowsFrom
<1>5. PICK done \in 0..Layers :
        buffers' = [l \in 1..Layers |->
                      IF l <= done THEN Written(buffers[l], h, tokens) ELSE buffers[l]]
  BY <1>4
<1>6. ASSUME NEW l \in 1..Layers
      PROVE  /\ buffers'[l] \in Seq(Token \cup {Empty})
             /\ Len(buffers'[l]) <= nCtx
             /\ buffers'[l] = <<>> \/ Len(buffers'[l]) >= allocated'
             /\ h <= Len(buffers'[l])
             /\ \A i \in 1..h : buffers'[l][i] = held[i]
  <2>. DEFINE w == Written(buffers[l], h, tokens)
  <2>1. buffers'[l] = IF l <= done THEN w ELSE buffers[l]
    BY <1>5
  <2>2. /\ w \in Seq(Token \cup {Empty})
        /\ Len(w) <= nCtx /\ Room(h + n) <= Len(w)
        /\ \A i \in 1..h : w[i] = buffers[l][i]
    BY <1>0, <1>2, LayerFacts, LayerWritten
  <2>3. /\ buffers[l] \in Seq(Token \cup {Empty})
        /\ Len(buffers[l]) <= nCtx
        /\ buffers[l] = <<>> \/ Len(buffers[l]) >= allocated
        /\ h <= Len(buffers[l]) /\ \A i \in 1..h : buffers[l][i] = held[i]
    BY <1>0, LayerFacts
  <2>. HIDE DEF w
  <2>4. Len(w) \in Nat
    BY <2>2, LenProperties
  <2>5. CASE l <= done
    <3>1. buffers'[l] = w
      BY <2>1, <2>5
    <3>2. \A i \in 1..h : w[i] = held[i]
      BY <2>2, <2>3
    <3>3. Len(w) <= nCtx /\ Len(w) >= allocated' /\ h <= Len(w)
      <4>1. Room(h + n) \in Nat /\ Room(h + n) <= Len(w) /\ Len(w) <= nCtx
        BY <1>3, <2>2
      <4>2. allocated' = allocated
        BY <1>4
      <4>. QED  BY ONLY <1>2, <1>3, <2>4, <4>1, <4>2, h \in Nat, n \in Nat
    <3>4. w \in Seq(Token \cup {Empty})
      BY <2>2
    <3>. QED  BY ONLY <3>1, <3>2, <3>3, <3>4
  <2>6. CASE ~(l <= done)
    BY <1>4, <2>1, <2>3, <2>6
  <2>. QED  BY <2>5, <2>6
<1>7. buffers' \in [1..Layers -> Seq(Token \cup {Empty})]
  <2>. DEFINE f(l) == IF l <= done THEN Written(buffers[l], h, tokens) ELSE buffers[l]
  <2>1. \A l \in 1..Layers : f(l) \in Seq(Token \cup {Empty})
    BY <1>5, <1>6
  <2>. QED  BY <1>5, <2>1
<1>. QED  BY <1>0, <1>2, <1>4, <1>6, <1>7 DEF Stored

-----------------------------------------------------------------------------
(* The conversation and what a shift keeps of it.                          *)

(* What a shift retains of the transcript: half a window of it, the head   *)
(* and the tail.                                                           *)
LEMMA RetainedAbridges ==
  ASSUME nCtx \in Nat, pinned \in Nat, transcript \in Seq(Token)
  PROVE  LET budget == Lesser(Len(transcript), nCtx \div 2) IN
         /\ budget \in Nat /\ budget <= nCtx \div 2 /\ budget <= Len(transcript)
         /\ Retained \in Seq(Token) /\ Len(Retained) = budget
         /\ Abridges(Retained, transcript, Lesser(pinned, budget \div 2))
<1>0. PICK n \in Nat : n = Len(transcript)
  BY LenProperties
<1>. DEFINE b == Lesser(n, nCtx \div 2)
            k == Lesser(pinned, b \div 2)
            x == SubSeq(transcript, 1, k)
            y == SubSeq(transcript, n - (b - k) + 1, n)
<1>1. b \in Nat /\ b <= nCtx \div 2 /\ b <= n
  BY DEF Lesser
<1>. HIDE DEF b
<1>2. k \in Nat /\ k <= b
  BY <1>1 DEF Lesser
<1>. HIDE DEF k
<1>3. \A i \in 1..n : transcript[i] \in Token
  BY <1>0, ElementOfSeq
<1>4. x \in Seq(Token) /\ Len(x) = k /\ \A i \in 1..k : x[i] = transcript[i]
  <2>1. \A i \in 1..k : transcript[i] \in Token
    BY <1>1, <1>2, <1>3
  <2>2. /\ x \in Seq(Token) /\ Len(x) = IF 1 <= k THEN k - 1 + 1 ELSE 0
        /\ \A i \in 1..(k - 1 + 1) : x[i] = transcript[1 + i - 1]
    BY <1>2, <2>1, SubSeqProperties
  <2>. QED  BY <1>2, <2>2
<1>5. /\ y \in Seq(Token) /\ Len(y) = b - k
      /\ \A i \in 1..(b - k) : y[i] = transcript[i + (n - (b - k))]
  <2>. DEFINE m == n - (b - k) + 1
  <2>1. m \in Int /\ \A i \in m..n : transcript[i] \in Token
    BY <1>1, <1>2, <1>3
  <2>2. /\ y \in Seq(Token) /\ Len(y) = IF m <= n THEN n - m + 1 ELSE 0
        /\ \A i \in 1..(n - m + 1) : y[i] = transcript[m + i - 1]
    BY <2>1, SubSeqProperties
  <2>3. n - m + 1 = b - k /\ (~(m <= n) => b - k = 0)
    BY <1>1, <1>2
  <2>4. \A i \in 1..(b - k) : m + i - 1 = i + (n - (b - k))
    BY <1>1, <1>2
  <2>. QED  BY <2>2, <2>3, <2>4
<1>6. Retained = x \o y
  BY <1>0 DEF Retained, b, k
<1>. HIDE DEF x, y
<1>7. /\ Retained \in Seq(Token) /\ Len(Retained) = b
      /\ \A i \in 1..b : Retained[i] = IF i <= k THEN x[i] ELSE y[i - k]
  <2>1. /\ x \o y \in Seq(Token) /\ Len(x \o y) = Len(x) + Len(y)
        /\ \A i \in 1..(Len(x) + Len(y)) : (x \o y)[i] = IF i <= Len(x) THEN x[i] ELSE y[i - Len(x)]
    BY <1>4, <1>5, ConcatProperties
  <2>2. k + (b - k) = b
    BY <1>1, <1>2
  <2>. QED  BY <1>4, <1>5, <1>6, <2>1, <2>2
<1>8. \A i \in 1..k : Retained[i] = transcript[i]
  BY <1>1, <1>2, <1>4, <1>7
<1>9. \A i \in (k + 1)..b : Retained[i] = transcript[i + (n - b)]
  <2>. SUFFICES ASSUME NEW i \in (k + 1)..b PROVE Retained[i] = transcript[i + (n - b)]
    OBVIOUS
  <2>1. /\ i \in 1..b /\ ~(i <= k) /\ i - k \in 1..(b - k)
        /\ (i - k) + (n - (b - k)) = i + (n - b)
    BY <1>1, <1>2
  <2>. QED  BY <1>5, <1>7, <2>1
<1>10. Abridges(Retained, transcript, k)
  BY <1>0, <1>1, <1>2, <1>7, <1>8, <1>9 DEF Abridges
<1>. QED  BY <1>0, <1>1, <1>7, <1>10 DEF b, k

(* A shift leaves the conversation as it was, or abridged to its anchor.   *)
LEMMA ShiftConverses ==
  ASSUME nCtx \in Nat, pinned \in Nat, transcript \in Seq(Token), fresh \in Seq(Token),
         NEW all \in Seq(Token),
         \/ transcript \o fresh = all
         \/ Anchor <= Len(transcript) /\ Abridges(transcript \o fresh, all, Anchor)
  PROVE  \/ Retained \o fresh = all
         \/ Anchor <= Len(Retained) /\ Abridges(Retained \o fresh, all, Anchor)
<1>0. PICK n \in Nat, f \in Nat, z \in Nat :
        n = Len(transcript) /\ f = Len(fresh) /\ z = Len(all)
  BY LenProperties
<1>. DEFINE b   == Lesser(n, nCtx \div 2)
            k   == Lesser(pinned, b \div 2)
            now == transcript \o fresh
            new == Retained \o fresh
<1>1. /\ b \in Nat /\ b <= n /\ (b = n \/ b = nCtx \div 2)
      /\ Retained \in Seq(Token) /\ Len(Retained) = b /\ k \in 0..b
      /\ \A i \in 1..k : Retained[i] = transcript[i]
      /\ \A i \in (k + 1)..b : Retained[i] = transcript[i + (n - b)]
  BY <1>0, RetainedAbridges DEF Abridges, Lesser
<1>2. /\ Len(now) = n + f
      /\ \A i \in 1..(n + f) : now[i] = IF i <= n THEN transcript[i] ELSE fresh[i - n]
  BY <1>0, ConcatProperties
<1>. HIDE DEF b, k
<1>3. /\ Len(new) = b + f
      /\ \A i \in 1..(b + f) : new[i] = IF i <= b THEN Retained[i] ELSE fresh[i - b]
  <2>1. /\ Retained \in Seq(Token) /\ Len(Retained) = b /\ fresh \in Seq(Token)
        /\ Len(fresh) = f
    BY <1>0, <1>1
  <2>. QED  BY <2>1, ConcatProperties
<1>4. CASE b = n
  <2>1. ASSUME NEW i \in 1..n PROVE Retained[i] = transcript[i]
    <3>1. CASE i <= k
      <4>1. i \in 1..k
        BY <1>1, <3>1
      <4>. QED  BY <1>1, <4>1
    <3>2. CASE ~(i <= k)
      <4>1. i \in (k + 1)..b /\ i + (n - b) = i
        BY <1>1, <1>4, <3>2
      <4>2. Retained[i] = transcript[i + (n - b)]
        BY <1>1, <4>1
      <4>. QED  BY <4>1, <4>2
    <3>. QED  BY <3>1, <3>2
  <2>2. Retained = transcript
    BY <1>0, <1>1, <1>4, <2>1, SeqEqual
  <2>. QED  BY <2>2
<1>5. CASE b # n
  <2>1. k = Anchor
    BY <1>1, <1>5 DEF Lesser, Anchor, b, k
  <2>. HIDE DEF now, new
  <2>2. k \in 0..n /\ n + f <= z
    BY <1>0, <1>1, <1>2, <2>1 DEF Abridges, now
  <2>3. /\ \A i \in 1..k : now[i] = all[i]
        /\ \A i \in (k + 1)..(n + f) : now[i] = all[i + (z - (n + f))]
    <3>1. CASE now = all
      <4>1. z = n + f
        BY <1>0, <1>2, <3>1
      <4>. QED  BY <1>2, <2>2, <3>1, <4>1
    <3>2. CASE now # all
      <4>1. Abridges(now, all, k)
        BY <2>1, <3>2 DEF now
      <4>. QED  BY <1>0, <1>2, <4>1 DEF Abridges
    <3>. QED  BY <3>1, <3>2
  <2>4. \A i \in 1..k : new[i] = all[i]
    <3>. SUFFICES ASSUME NEW i \in 1..k PROVE new[i] = all[i]
      OBVIOUS
    <3>1. i \in 1..(b + f) /\ i <= b /\ i \in 1..(n + f) /\ i <= n
      BY <1>1
    <3>. QED  BY <1>1, <1>2, <1>3, <2>3, <3>1
  <2>5. \A i \in (k + 1)..(b + f) : new[i] = all[i + (z - (b + f))]
    <3>. SUFFICES ASSUME NEW i \in (k + 1)..(b + f) PROVE new[i] = all[i + (z - (b + f))]
      OBVIOUS
    <3>. DEFINE j == i + (n - b)
    <3>1. /\ i \in 1..(b + f) /\ j \in (k + 1)..(n + f) /\ j \in 1..(n + f)
          /\ j + (z - (n + f)) = i + (z - (b + f)) /\ j - n = i - b /\ (i <= b <=> j <= n)
      BY <1>0, <1>1
    <3>2. new[i] = now[j]
      <4>. HIDE DEF j
      <4>1. CASE i <= b
        <5>1. i \in (k + 1)..b /\ j <= n
          BY <1>1, <3>1, <4>1
        <5>2. new[i] = Retained[i] /\ now[j] = transcript[j]
          BY <1>2, <1>3, <3>1, <4>1, <5>1
        <5>. QED  BY <1>1, <5>1, <5>2 DEF j
      <4>2. CASE ~(i <= b)
        BY <1>2, <1>3, <3>1, <4>2
      <4>. QED  BY <4>1, <4>2
    <3>3. now[j] = all[j + (z - (n + f))]
      BY <2>3, <3>1
    <3>. QED  BY <3>1, <3>2, <3>3
  <2>6. k \in 0..(b + f) /\ b + f <= z
    BY <1>0, <1>1, <2>2
  <2>7. Abridges(new, all, k)
    BY <1>0, <1>3, <2>4, <2>5, <2>6 DEF Abridges
  <2>8. k <= Len(Retained)
    BY <1>1
  <2>. QED  BY <2>1, <2>7, <2>8 DEF new
<1>. QED  BY <1>4, <1>5

-----------------------------------------------------------------------------
(* What a request reuses.                                                  *)

(* The first n tokens of a transcript.                                     *)
LEMMA HeadOf ==
  ASSUME NEW S, NEW t \in Seq(S), NEW n \in 0..Len(t)
  PROVE  /\ SubSeq(t, 1, n) \in Seq(S) /\ Len(SubSeq(t, 1, n)) = n
         /\ \A i \in 1..n : SubSeq(t, 1, n)[i] = t[i]
<1>1. PICK m \in Nat : m = Len(t)
  BY LenProperties
<1>2. \A i \in 1..n : t[i] \in S
  BY <1>1, ElementOfSeq
<1>. QED  BY <1>1, <1>2, SubSeqProperties

(* The tokens behind the first n.                                          *)
LEMMA RestOf ==
  ASSUME NEW t \in Seq(Token), NEW n \in 0..Len(t)
  PROVE  /\ SubSeq(t, n + 1, Len(t)) \in Seq(Token)
         /\ Len(SubSeq(t, n + 1, Len(t))) = Len(t) - n
         /\ \A i \in 1..(Len(t) - n) : SubSeq(t, n + 1, Len(t))[i] = t[n + i]
<1>1. PICK m \in Nat : m = Len(t)
  BY LenProperties
<1>2. \A i \in (n + 1)..m : t[i] \in Token
  BY <1>1, ElementOfSeq
<1>3. n + 1 \in Int
  OBVIOUS
<1>4. /\ SubSeq(t, n + 1, m) \in Seq(Token)
      /\ Len(SubSeq(t, n + 1, m)) = IF n + 1 <= m THEN m - (n + 1) + 1 ELSE 0
      /\ \A i \in 1..(m - (n + 1) + 1) : SubSeq(t, n + 1, m)[i] = t[(n + 1) + i - 1]
  BY <1>2, <1>3, SubSeqProperties
<1>5. m - (n + 1) + 1 = m - n /\ (~(n + 1 <= m) => m - n = 0)
  BY <1>1
<1>6. \A i \in 1..(m - n) : (n + 1) + i - 1 = n + i
  BY <1>1
<1>. QED  BY <1>1, <1>4, <1>5, <1>6

(* What is there already is the beginning of both, and never all of the    *)
(* prompt.                                                                 *)
LEMMA SharedIsCommon ==
  ASSUME NEW cached \in Seq(Token), NEW wanted \in Seq(Token), wanted # <<>>
  PROVE  /\ Shared(cached, wanted) \in 0..Len(cached)
         /\ Shared(cached, wanted) < Len(wanted)
         /\ \A i \in 1..Shared(cached, wanted) : cached[i] = wanted[i]
<1>1. PICK c \in Nat, w \in Nat : c = Len(cached) /\ w = Len(wanted) /\ w > 0
  BY LenProperties, EmptySeq
<1>. DEFINE most == Lesser(c, w - 1)
            S    == {n \in 0..most : \A i \in 1..n : cached[i] = wanted[i]}
<1>2. most \in Nat /\ most <= c /\ most < w
  BY <1>1 DEF Lesser
<1>3. Shared(cached, wanted) = Max(S)
  BY <1>1 DEF Shared
<1>. HIDE DEF most
<1>4. S \in SUBSET (0..most) /\ 0 \in S
  BY <1>2
<1>5. Max(S) \in S
  <2>. HIDE DEF S
  <2>. QED  BY <1>2, <1>4, MaxIsMember
<1>. QED  BY <1>1, <1>2, <1>3, <1>5

(* The rewind and the reuse leave the prompt's own beginning, and the rest *)
(* of the prompt to be evaluated.                                          *)
LEMMA PrepareKeeps ==
  ASSUME Framed, NEW wanted \in Seq(Token), wanted # <<>>,
         NEW past \in 0..nPast, Prepare(wanted, past)
  PROVE  \E kept \in 0..Len(transcript) :
           /\ transcript' = SubSeq(transcript, 1, kept)
           /\ fresh' = SubSeq(wanted, kept + 1, Len(wanted))
           /\ kept < Len(wanted) /\ \A i \in 1..kept : transcript[i] = wanted[i]
           /\ nPast' \in 0..nPast /\ nPast' <= kept
           /\ Len(transcript) = nPast => nPast' = kept
<1>1. PICK n \in Nat, w \in Nat : n = Len(transcript) /\ w = Len(wanted) /\ w > 0
  BY LenProperties, EmptySeq DEF Framed
<1>2. transcript \in Seq(Token) /\ nCtx \in Nat /\ nPast \in 0..nCtx /\ nPast <= n
  BY <1>1 DEF Framed
<1>. DEFINE rewound == IF past > 0 THEN SubSeq(transcript, 1, past) ELSE transcript
            mark    == IF past > 0 THEN past ELSE nPast
            shared  == Shared(rewound, wanted)
            trims   == shared < Len(rewound)
            lost    == trims /\ shared > mark
            kept    == IF lost THEN 0 ELSE shared
<1>3. /\ transcript' = SubSeq(rewound, 1, kept)
      /\ nPast' = IF trims THEN kept ELSE mark
      /\ fresh' = SubSeq(wanted, kept + 1, Len(wanted))
  BY DEF Prepare
<1>4. PICK r \in Nat : /\ r = Len(rewound) /\ rewound \in Seq(Token)
                       /\ r <= n /\ \A i \in 1..r : rewound[i] = transcript[i]
                       /\ mark \in 0..nPast /\ mark <= r /\ (n = nPast => r = mark)
  <2>1. CASE past > 0
    <3>1. past \in 0..Len(transcript)
      BY <1>1, <1>2
    <3>2. /\ rewound \in Seq(Token) /\ Len(rewound) = past
          /\ \A i \in 1..past : rewound[i] = transcript[i]
      BY <1>2, <2>1, <3>1, HeadOf
    <3>. QED  BY <1>1, <1>2, <2>1, <3>1, <3>2
  <2>2. CASE ~(past > 0)
    BY <1>1, <1>2, <2>2
  <2>. QED  BY <2>1, <2>2
<1>. HIDE DEF rewound, mark
<1>5. /\ shared \in 0..r /\ shared < w
      /\ \A i \in 1..shared : rewound[i] = wanted[i]
  BY <1>1, <1>4, SharedIsCommon
<1>. HIDE DEF shared
<1>6. /\ kept \in 0..r /\ kept < w /\ \A i \in 1..kept : rewound[i] = wanted[i]
  BY <1>1, <1>5
<1>7. nPast' \in 0..nPast /\ nPast' <= kept /\ (n = nPast => nPast' = kept)
  BY <1>2, <1>3, <1>4, <1>5
<1>. HIDE DEF kept
<1>8. transcript' = SubSeq(transcript, 1, kept)
  <2>1. kept \in 0..Len(rewound) /\ kept \in 0..Len(transcript)
    BY <1>1, <1>4, <1>6
  <2>2. /\ SubSeq(rewound, 1, kept) \in Seq(Token) /\ Len(SubSeq(rewound, 1, kept)) = kept
        /\ \A i \in 1..kept : SubSeq(rewound, 1, kept)[i] = rewound[i]
    BY <1>4, <2>1, HeadOf
  <2>3. /\ SubSeq(transcript, 1, kept) \in Seq(Token)
        /\ Len(SubSeq(transcript, 1, kept)) = kept
        /\ \A i \in 1..kept : SubSeq(transcript, 1, kept)[i] = transcript[i]
    BY <1>2, <2>1, HeadOf
  <2>4. \A i \in 1..kept : SubSeq(rewound, 1, kept)[i] = SubSeq(transcript, 1, kept)[i]
    BY <1>4, <1>6, <2>2, <2>3
  <2>. QED  BY <1>3, <2>2, <2>3, <2>4, SeqEqual
<1>9. \A i \in 1..kept : transcript[i] = wanted[i]
  BY <1>4, <1>6
<1>10. kept \in 0..Len(transcript) /\ kept < Len(wanted)
  BY <1>1, <1>4, <1>6
<1>11. Len(transcript) = nPast => nPast' = kept
  BY <1>1, <1>7
<1>. QED  BY <1>3, <1>7, <1>8, <1>9, <1>10, <1>11

(* Together they are the prompt.                                           *)
LEMMA PartsOfPrompt ==
  ASSUME NEW t \in Seq(Token), NEW wanted \in Seq(Token),
         NEW kept \in 0..Len(t), kept < Len(wanted), \A i \in 1..kept : t[i] = wanted[i]
  PROVE  SubSeq(t, 1, kept) \o SubSeq(wanted, kept + 1, Len(wanted)) = wanted
<1>0. PICK w \in Nat : w = Len(wanted) /\ kept \in 0..w
  <2>1. Len(t) \in Nat /\ Len(wanted) \in Nat
    BY LenProperties
  <2>. QED  BY <2>1
<1>. DEFINE x == SubSeq(t, 1, kept)
            y == SubSeq(wanted, kept + 1, Len(wanted))
<1>1. x \in Seq(Token) /\ Len(x) = kept /\ \A i \in 1..kept : x[i] = wanted[i]
  BY HeadOf
<1>2. y \in Seq(Token) /\ Len(y) = w - kept /\ \A i \in 1..(w - kept) : y[i] = wanted[kept + i]
  BY <1>0, RestOf
<1>. HIDE DEF x, y
<1>3. /\ x \o y \in Seq(Token) /\ Len(x \o y) = w
      /\ \A i \in 1..w : (x \o y)[i] = IF i <= kept THEN x[i] ELSE y[i - kept]
  <2>1. kept + (w - kept) = w
    BY <1>0
  <2>2. /\ x \o y \in Seq(Token) /\ Len(x \o y) = Len(x) + Len(y)
        /\ \A i \in 1..(Len(x) + Len(y)) : (x \o y)[i] = IF i <= Len(x) THEN x[i] ELSE y[i - Len(x)]
    BY <1>1, <1>2, ConcatProperties
  <2>. QED  BY <1>1, <1>2, <2>1, <2>2
<1>4. ASSUME NEW i \in 1..w PROVE (x \o y)[i] = wanted[i]
  <2>1. CASE i <= kept
    BY <1>1, <1>3, <2>1
  <2>2. CASE ~(i <= kept)
    <3>1. i - kept \in 1..(w - kept) /\ kept + (i - kept) = i
      BY <2>2
    <3>. QED  BY <1>2, <1>3, <2>2, <3>1
  <2>. QED  BY <2>1, <2>2
<1>5. \A i \in 1..Len(x \o y) : (x \o y)[i] = wanted[i]
  BY <1>3, <1>4
<1>. QED  BY <1>0, <1>3, <1>5, SeqEqual DEF x, y

-----------------------------------------------------------------------------
(* What every step leaves in the buffers.                                  *)

(* Nothing is held at the mark zero.                                       *)
LEMMA NothingStored ==
  ASSUME nCtx \in Nat, NEW held \in Seq(Token), Stored(buffers, allocated, held, nCtx)
  PROVE  /\ <<>> \in Seq(Token) /\ Len(<<>>) = 0
         /\ Stored(buffers, allocated, <<>>, nCtx)
<1>1. Len(held) \in Nat /\ 0 \in 0..Len(held)
  BY LenProperties
<1>2. SubSeq(held, 1, 0) = <<>>
  BY SubSeqEmpty
<1>3. Stored(buffers, allocated, SubSeq(held, 1, 0), nCtx)
  BY <1>1, TrimStores
<1>. QED  BY <1>2, <1>3, EmptySeq

(* A shift leaves what it retains, which takes half of the window.         *)
LEMMA ShiftStores ==
  ASSUME Framed, NEW held, Holding(held), Shift
  PROVE  /\ transcript' = Retained /\ transcript' \in Seq(Token)
         /\ Len(transcript') = nPast' /\ nPast' \in 0..nCtx /\ nPast' <= nCtx \div 2
         /\ Stored(buffers', allocated', transcript', nCtx)
<1>1. nCtx \in Nat /\ pinned \in Nat /\ transcript \in Seq(Token)
  BY MlxAssumption DEF Framed
<1>2. PICK b \in Nat : b = Len(Retained) /\ b <= nCtx \div 2 /\ Retained \in Seq(Token)
  BY <1>1, RetainedAbridges
<1>3. Stored(buffers, allocated, <<>>, nCtx) /\ <<>> \in Seq(Token) /\ Len(<<>>) = 0
  BY <1>1, NothingStored DEF Holding
<1>4. ForwardFrom(0, Retained) /\ transcript' = Retained
  BY DEF Shift
<1>5. b <= nCtx /\ 0 + b = b
  BY <1>1, <1>2
<1>6. /\ Stored(buffers', allocated', <<>> \o Retained, nCtx)
      /\ nPast' = Len(<<>>) + Len(Retained)
  BY <1>1, <1>2, <1>3, <1>4, <1>5, PassStores
<1>7. <<>> \o Retained = Retained
  BY <1>2, ConcatEmptySeq
<1>. QED  BY <1>1, <1>2, <1>3, <1>4, <1>5, <1>6, <1>7

(* After a step there are tokens that each layer holds; they are the new   *)
(* transcript if the old one was what was held, and no shift may throw.    *)
Goes(held, new) ==
  /\ Framed' /\ new \in Seq(Token) /\ Len(new) = nPast'
  /\ Stored(buffers', allocated', new, nCtx')
  /\ held = transcript /\ ~ShiftThrows => new = transcript'

(* Ending a call, with the cache as it is.                                 *)
LEMMA ReturnGoes ==
  ASSUME Framed, NEW held, Holding(held), NEW why, Return(why),
         UNCHANGED <<buffers, allocated, nPast, transcript>>,
         pinned' \in Heads \cup {DefaultHead}
  PROVE  Goes(held, held)
<1>1. /\ phase' = "idle" /\ fresh' = <<>> /\ reply' = <<>> /\ prompt' = <<>> /\ nCtx' = nCtx
      /\ buffers' = buffers /\ allocated' = allocated /\ nPast' = nPast /\ transcript' = transcript
  BY DEF Return
<1>2. <<>> \in Seq(Token)
  BY EmptySeq
<1>3. Framed'
  BY <1>1, <1>2 DEF Framed, RoomIsMade
<1>. QED  BY <1>1, <1>3 DEF Goes, Holding

(* The steps of a request that has not begun.                              *)
LEMMA IdleGoes ==
  ASSUME Framed, NEW held, Holding(held), Create \/ Reset
  PROVE  \E new : Goes(held, new)
<1>1. CASE Create
  <2>1. /\ nCtx = 0 /\ nPast = 0 /\ phase' \in {"closed", "idle"}
        /\ nCtx' \in Nat /\ (phase' = "closed" => nCtx' = 0)
        /\ fresh = <<>> /\ reply = <<>>
    BY <1>1, MlxAssumption DEF Create, Framed
  <2>2. UNCHANGED <<buffers, allocated, nPast, transcript, pinned, prompt, fresh, reply>>
    BY <1>1 DEF Create, cache, request
  <2>3. Framed'
    BY <2>1, <2>2 DEF Framed, RoomIsMade
  <2>4. \A l \in 1..Layers : Len(buffers[l]) \in Nat
    BY LenProperties DEF Holding, Stored
  <2>5. Stored(buffers, allocated, held, nCtx')
    BY <2>1, <2>4 DEF Holding, Stored
  <2>. QED  BY <2>2, <2>3, <2>5 DEF Goes, Holding
<1>2. CASE Reset
  <2>1. /\ nPast' = 0 /\ transcript' = <<>> /\ phase = "idle"
        /\ UNCHANGED <<phase, nCtx, buffers, allocated, pinned, prompt, fresh, reply>>
    BY <1>2 DEF Reset, request
  <2>2. /\ <<>> \in Seq(Token) /\ Len(<<>>) = 0
        /\ Stored(buffers, allocated, <<>>, nCtx)
    BY NothingStored DEF Framed, Holding
  <2>3. Framed'
    BY <2>1, <2>2 DEF Framed, RoomIsMade
  <2>. QED  BY <2>1, <2>2, <2>3 DEF Goes
<1>. QED  BY <1>1, <1>2

(* A request: what it shares with the transcript is still held.            *)
LEMMA AskGoes ==
  ASSUME Framed, NEW held, Holding(held),
         NEW wanted \in Prompts, NEW past \in 0..nPast, NEW slides \in BOOLEAN,
         NEW keep \in Heads, Ask(wanted, past, slides, keep)
  PROVE  \E new : Goes(held, new)
<1>1. wanted \in Seq(Token) /\ wanted # <<>>
  BY MlxAssumption
<1>2. /\ phase = "idle" /\ phase' = "fit" /\ prompt' = wanted /\ Prepare(wanted, past)
      /\ pinned' = IF keep > 0 THEN keep ELSE pinned
      /\ UNCHANGED <<nCtx, buffers, allocated, reply>>
  BY DEF Ask
<1>3. PICK kept \in 0..Len(transcript) :
        /\ transcript' = SubSeq(transcript, 1, kept)
        /\ fresh' = SubSeq(wanted, kept + 1, Len(wanted))
        /\ kept < Len(wanted) /\ \A i \in 1..kept : transcript[i] = wanted[i]
        /\ nPast' \in 0..nPast /\ nPast' <= kept
        /\ Len(transcript) = nPast => nPast' = kept
  BY <1>1, <1>2, PrepareKeeps
<1>4. transcript' \in Seq(Token) /\ Len(transcript') = kept
  BY <1>3, HeadOf DEF Framed
<1>5. fresh' \in Seq(Token)
  <2>1. Len(transcript) \in Nat /\ Len(wanted) \in Nat
    BY <1>1, LenProperties DEF Framed
  <2>2. kept \in 0..Len(wanted)
    BY <1>3, <2>1
  <2>. QED  BY <1>1, <1>3, <2>2, RestOf
<1>6. nPast' \in 0..nCtx'
  BY <1>2, <1>3 DEF Framed
<1>7. Framed'
  BY <1>1, <1>2, <1>3, <1>4, <1>5, <1>6 DEF Framed, RoomIsMade
<1>. DEFINE new == SubSeq(held, 1, nPast')
<1>8. /\ new \in Seq(Token) /\ Len(new) = nPast' /\ Stored(buffers, allocated, new, nCtx)
  <2>1. /\ nCtx \in Nat /\ held \in Seq(Token) /\ Len(held) = nPast
        /\ Stored(buffers, allocated, held, nCtx)
    BY DEF Framed, Holding
  <2>2. PICK m \in 0..Len(held) : m = nPast'
    BY <1>3, <2>1
  <2>. QED  BY <2>1, <2>2, TrimStores
<1>9. held = transcript => new = transcript'
  BY <1>3 DEF Holding
<1>. QED  BY <1>2, <1>7, <1>8, <1>9 DEF Goes

(* A request that is refused has rewound the cache, or not.                *)
LEMMA RefusedGoes ==
  ASSUME Framed, NEW held, Holding(held),
         NEW past \in 0..(nPast + 1), NEW keep \in Heads, AskRefused(past, keep)
  PROVE  \E new : Goes(held, new)
<1>1. /\ phase' = "idle" /\ fresh' = <<>> /\ reply' = <<>> /\ prompt' = <<>>
      /\ pinned' = (IF keep > 0 THEN keep ELSE pinned)
      /\ nCtx' = nCtx /\ buffers' = buffers /\ allocated' = allocated
  BY DEF AskRefused, Return
<1>2. <<>> \in Seq(Token)
  BY EmptySeq
<1>3. CASE past \in 1..nPast
  <2>1. nPast' = past /\ transcript' = SubSeq(transcript, 1, past)
    BY <1>3 DEF AskRefused
  <2>2. Len(transcript) \in Nat /\ past \in 0..Len(transcript) /\ past \in 0..nCtx
    BY <1>3, LenProperties DEF Framed
  <2>3. transcript' \in Seq(Token) /\ Len(transcript') = past
    BY <2>1, <2>2, HeadOf DEF Framed
  <2>4. Framed'
    BY <1>1, <1>2, <2>1, <2>2, <2>3 DEF Framed, RoomIsMade
  <2>. DEFINE new == SubSeq(held, 1, past)
  <2>5. new \in Seq(Token) /\ Len(new) = past /\ Stored(buffers, allocated, new, nCtx)
    BY <1>3, TrimStores DEF Framed, Holding
  <2>. QED  BY <1>1, <2>1, <2>4, <2>5 DEF Goes
<1>4. CASE past \notin 1..nPast
  <2>1. nPast' = nPast /\ transcript' = transcript
    BY <1>4 DEF AskRefused
  <2>2. Framed'
    BY <1>1, <1>2, <2>1 DEF Framed, RoomIsMade
  <2>. QED  BY <1>1, <2>1, <2>2 DEF Goes, Holding
<1>. QED  BY <1>3, <1>4

(* A shift, after which the call goes on or ends.                          *)
LEMMA ShiftGoes ==
  ASSUME Framed, NEW held, Holding(held), Shift, nCtx' = nCtx, prompt' \in Seq(Token),
         pinned' = pinned,
         \/ /\ phase' = "prefill" /\ Len(fresh) <= nCtx - nPast'
            /\ fresh' = fresh /\ reply' = reply /\ phase = "fit"
         \/ /\ phase' = "commit" /\ fresh' = fresh /\ reply' = reply
            /\ nCtx > 1 /\ phase = "loop"
         \/ phase' = "idle" /\ fresh' = <<>> /\ reply' = <<>>
  PROVE  \E new : Goes(held, new)
<1>1. /\ transcript' \in Seq(Token) /\ Len(transcript') = nPast'
      /\ nPast' \in 0..nCtx /\ nPast' <= nCtx \div 2
      /\ Stored(buffers', allocated', transcript', nCtx)
  BY ShiftStores
<1>2. <<>> \in Seq(Token)
  BY EmptySeq
<1>3. nCtx \in Nat /\ fresh \in Seq(Token) /\ Len(fresh) \in Nat
  BY LenProperties DEF Framed
<1>4. fresh' \in Seq(Token) /\ reply' \in Seq(Token)
  BY <1>2 DEF Framed
<1>5. RoomIsMade'
  BY <1>1, <1>3 DEF RoomIsMade
<1>6. Framed'
  BY <1>1, <1>3, <1>4, <1>5 DEF Framed
<1>. QED  BY <1>1, <1>6 DEF Goes

(* Making room for the prompt.                                             *)
LEMMA FitGoes ==
  ASSUME Framed, NEW held, Holding(held), Fit
  PROVE  \E new : Goes(held, new)
<1>0. phase = "fit" /\ pinned' = pinned /\ pinned' \in Heads \cup {DefaultHead}
  BY DEF Fit, Framed
<1>1. CASE Len(fresh) <= nCtx - nPast
  <2>1. /\ phase' = "prefill"
        /\ UNCHANGED <<nCtx, buffers, allocated, nPast, transcript, prompt, fresh, reply>>
    BY <1>1 DEF Fit, cache, request
  <2>2. nPast + Len(fresh) <= nCtx
    <3>1. Len(fresh) \in Nat /\ nCtx \in Nat /\ nPast \in Nat
      BY LenProperties DEF Framed
    <3>. QED  BY <1>1, <3>1
  <2>3. Framed'
    BY <1>0, <2>1, <2>2 DEF Framed, RoomIsMade
  <2>. QED  BY <2>1, <2>3 DEF Goes, Holding
<1>2. CASE ~(Len(fresh) <= nCtx - nPast) /\ ~Shiftable
  <2>1. /\ Return("context_length_error")
        /\ UNCHANGED <<buffers, allocated, nPast, transcript>>
    BY <1>2 DEF Fit, cache
  <2>. QED  BY <1>0, <2>1, ReturnGoes
<1>3. CASE ~(Len(fresh) <= nCtx - nPast) /\ Shiftable
  <2>1. /\ Shift /\ nCtx' = nCtx
        /\ \/ /\ phase' = "prefill" /\ Len(fresh) <= nCtx - nPast'
              /\ fresh' = fresh /\ reply' = reply /\ prompt' = prompt
           \/ phase' = "idle" /\ fresh' = <<>> /\ reply' = <<>> /\ prompt' = <<>>
    BY <1>3 DEF Fit, Return, request
  <2>2. prompt' \in Seq(Token)
    BY <2>1, EmptySeq DEF Framed
  <2>. QED  BY <1>0, <2>1, <2>2, ShiftGoes
<1>. QED  BY <1>1, <1>2, <1>3

(* Making room for a token.                                                *)
LEMMA MakeRoomGoes ==
  ASSUME Framed, NEW held, Holding(held), MakeRoom
  PROVE  \E new : Goes(held, new)
<1>0. phase = "loop" /\ pinned' = pinned /\ pinned' \in Heads \cup {DefaultHead}
  BY DEF MakeRoom, Framed
<1>1. CASE nPast < nCtx
  <2>1. /\ phase' = "commit"
        /\ UNCHANGED <<nCtx, buffers, allocated, nPast, transcript, prompt, fresh, reply>>
    BY <1>1 DEF MakeRoom, cache, request
  <2>2. Framed'
    BY <1>0, <1>1, <2>1 DEF Framed, RoomIsMade
  <2>. QED  BY <2>1, <2>2 DEF Goes, Holding
<1>2. CASE ~(nPast < nCtx) /\ Shiftable
  <2>1. /\ Shift /\ nCtx > 1 /\ phase' = "commit"
        /\ UNCHANGED <<nCtx, prompt, fresh, reply>>
    BY <1>2 DEF MakeRoom, request, Shiftable
  <2>2. prompt' \in Seq(Token)
    BY <2>1 DEF Framed
  <2>. QED  BY <1>0, <2>1, <2>2, ShiftGoes
<1>3. CASE ~(nPast < nCtx) /\ ~Shiftable
  <2>1. /\ Return("context_length")
        /\ UNCHANGED <<buffers, allocated, nPast, transcript>>
    BY <1>3 DEF MakeRoom, cache
  <2>. QED  BY <1>0, <2>1, ReturnGoes
<1>. QED  BY <1>1, <1>2, <1>3

(* A pass that lays tokens behind the transcript.                          *)
LEMMA PassGoes ==
  ASSUME Framed, NEW held, Holding(held), NEW tokens \in Seq(Token),
         nPast + Len(tokens) <= nCtx, ForwardFrom(nPast, tokens),
         transcript' = transcript \o tokens, nCtx' = nCtx, pinned' = pinned,
         fresh' = <<>>, prompt' \in Seq(Token), reply' \in Seq(Token),
         \/ phase' = "loop"
         \/ phase' = "idle" /\ reply' = <<>>
  PROVE  \E new : Goes(held, new)
<1>1. /\ nCtx \in Nat /\ nPast \in 0..nCtx /\ held \in Seq(Token) /\ Len(held) = nPast
      /\ transcript \in Seq(Token) /\ nPast <= Len(transcript)
      /\ Stored(buffers, allocated, held, nCtx)
  BY DEF Framed, Holding
<1>2. /\ Stored(buffers', allocated', held \o tokens, nCtx)
      /\ held \o tokens \in Seq(Token)
      /\ Len(held \o tokens) = nPast + Len(tokens) /\ nPast' = nPast + Len(tokens)
  BY <1>1, PassStores
<1>3. Len(tokens) \in Nat /\ Len(transcript) \in Nat /\ <<>> \in Seq(Token)
  BY <1>1, LenProperties, EmptySeq
<1>4. transcript' \in Seq(Token) /\ Len(transcript') = Len(transcript) + Len(tokens)
  BY <1>1, ConcatProperties
<1>5. nPast' \in 0..nCtx /\ nPast' <= Len(transcript')
  BY <1>1, <1>2, <1>3, <1>4
<1>6. Framed'
  BY <1>2, <1>3, <1>4, <1>5 DEF Framed, RoomIsMade
<1>7. held = transcript => held \o tokens = transcript'
  OBVIOUS
<1>. QED  BY <1>2, <1>6, <1>7 DEF Goes

(* Evaluating the prompt, and the token that was sampled.                  *)
LEMMA ForwardGoes ==
  ASSUME Framed, NEW held, Holding(held),
         Prefill \/ \E token \in Token : Commit(token)
  PROVE  \E new : Goes(held, new)
<1>0. <<>> \in Seq(Token)
  BY EmptySeq
<1>1. CASE Prefill
  <2>1. /\ ForwardFrom(nPast, fresh) /\ transcript' = transcript \o fresh
        /\ nPast + Len(fresh) <= nCtx /\ fresh \in Seq(Token)
        /\ fresh' = <<>> /\ phase' = "loop" /\ prompt' = prompt /\ reply' = reply
        /\ nCtx' = nCtx /\ pinned' = pinned
    BY <1>1 DEF Prefill, request, Framed, RoomIsMade
  <2>2. prompt' \in Seq(Token) /\ reply' \in Seq(Token)
    BY <2>1 DEF Framed
  <2>. QED  BY <2>1, <2>2, PassGoes
<1>2. ASSUME NEW token \in Token, Commit(token) PROVE \E new : Goes(held, new)
  <2>1. /\ ForwardFrom(nPast, <<token>>) /\ transcript' = Append(transcript, token)
        /\ nPast < nCtx /\ nCtx' = nCtx /\ pinned' = pinned
    BY <1>2 DEF Commit, Return, Framed, RoomIsMade
  <2>2. \/ /\ phase' = "loop" /\ fresh' = <<>> /\ prompt' = prompt
           /\ reply' = Append(reply, token)
        \/ phase' = "idle" /\ fresh' = <<>> /\ prompt' = <<>> /\ reply' = <<>>
    BY <1>2 DEF Commit, Return, Framed, request
  <2>3. prompt' \in Seq(Token) /\ reply' \in Seq(Token)
    <3>1. Append(reply, token) \in Seq(Token)
      BY AppendProperties DEF Framed
    <3>. QED  BY <1>0, <2>2, <3>1 DEF Framed
  <2>4. <<token>> \in Seq(Token) /\ Len(<<token>>) = 1
    OBVIOUS
  <2>5. transcript' = transcript \o <<token>>
    BY <2>1, AppendIsConcat DEF Framed
  <2>6. nPast + Len(<<token>>) <= nCtx
    BY <2>1, <2>4 DEF Framed
  <2>. QED  BY <2>1, <2>2, <2>3, <2>4, <2>5, <2>6, PassGoes
<1>. QED  BY <1>1, <1>2

(* A pass that throws, evaluating new tokens or a shift.                   *)
LEMMA FailureGoes ==
  ASSUME Framed, NEW held, Holding(held), ForwardFails \/ ShiftFails
  PROVE  \E new : Goes(held, new)
<1>0. /\ nCtx \in Nat /\ nPast \in 0..nCtx /\ held \in Seq(Token) /\ Len(held) = nPast
      /\ Stored(buffers, allocated, held, nCtx) /\ <<>> \in Seq(Token)
  BY EmptySeq DEF Framed, Holding
<1>1. /\ phase' = "idle" /\ fresh' = <<>> /\ reply' = <<>> /\ prompt' = <<>> /\ nCtx' = nCtx
      /\ transcript' = transcript /\ pinned' = pinned
  BY DEF ForwardFails, ShiftFails, Return
<1>2. CASE ForwardFails
  <2>1. PICK tokens \in Seq(Token) : ThrowsFrom(nPast, tokens) /\ nPast + Len(tokens) <= nCtx
    <3>1. CASE phase = "prefill" /\ ThrowsFrom(nPast, fresh)
      BY <3>1 DEF Framed, RoomIsMade
    <3>2. ASSUME phase = "commit", NEW token \in Token, ThrowsFrom(nPast, <<token>>)
          PROVE  \E tokens \in Seq(Token) :
                   ThrowsFrom(nPast, tokens) /\ nPast + Len(tokens) <= nCtx
      <4>1. <<token>> \in Seq(Token) /\ Len(<<token>>) = 1
        OBVIOUS
      <4>2. nPast + 1 <= nCtx
        BY <1>0, <3>2 DEF Framed, RoomIsMade
      <4>. QED  BY <3>2, <4>1, <4>2
    <3>. QED  BY <1>2, <3>1, <3>2 DEF ForwardFails
  <2>2. Stored(buffers', allocated', held, nCtx) /\ nPast' = nPast
    BY <1>0, <2>1, ThrowStores
  <2>3. Framed'
    BY <1>0, <1>1, <2>2 DEF Framed, RoomIsMade
  <2>. QED  BY <1>0, <1>1, <2>2, <2>3 DEF Goes
<1>3. CASE ShiftFails
  <2>1. ShiftThrows /\ ThrowsFrom(0, Retained)
    BY <1>3 DEF ShiftFails
  <2>2. Stored(buffers, allocated, <<>>, nCtx) /\ Len(<<>>) = 0
    BY <1>0, NothingStored
  <2>3. PICK b \in Nat : b = Len(Retained) /\ b <= nCtx \div 2 /\ Retained \in Seq(Token)
    BY RetainedAbridges, MlxAssumption DEF Framed
  <2>4. 0 + b <= nCtx
    BY <1>0, <2>3
  <2>5. Stored(buffers', allocated', <<>>, nCtx) /\ nPast' = 0
    BY <1>0, <2>1, <2>2, <2>3, <2>4, ThrowStores
  <2>6. Len(transcript) \in Nat
    BY LenProperties DEF Framed
  <2>7. Framed'
    BY <1>0, <1>1, <2>5, <2>6 DEF Framed, RoomIsMade
  <2>. QED  BY <1>0, <1>1, <2>1, <2>2, <2>5, <2>7 DEF Goes
<1>. QED  BY <1>2, <1>3

(* Every step.                                                             *)
LEMMA StepGoes ==
  ASSUME Framed, NEW held, Holding(held), [Next]_vars
  PROVE  \E new : Goes(held, new)
<1>1. CASE UNCHANGED vars
  <2>1. Framed'
    BY <1>1 DEF vars, Framed, RoomIsMade
  <2>. QED  BY <1>1, <2>1 DEF vars, Goes, Holding
<1>2. CASE Ends
  <2>1. PICK why : Return(why)
    BY <1>2 DEF Ends
  <2>2. /\ UNCHANGED <<buffers, allocated, nPast, transcript>>
        /\ pinned' \in Heads \cup {DefaultHead}
    BY <1>2 DEF Ends, cache, Framed
  <2>. QED  BY <2>1, <2>2, ReturnGoes
<1>. QED  BY <1>1, <1>2, IdleGoes, AskGoes, RefusedGoes, FitGoes, MakeRoomGoes, ForwardGoes,
             FailureGoes DEF Next

-----------------------------------------------------------------------------
(* What every step leaves of the conversation.                             *)

LEMMA OneAfter ==
  ASSUME NEW S, NEW a \in Seq(S), NEW b \in Seq(S), NEW x \in S
  PROVE  a \o Append(b, x) = Append(a \o b, x)
<1>1. a \o b \in Seq(S) /\ Append(b, x) \in Seq(S)
  BY ConcatProperties, AppendProperties
<1>2. Append(b, x) = b \o <<x>> /\ Append(a \o b, x) = (a \o b) \o <<x>>
  BY <1>1, AppendIsConcat
<1>3. <<x>> \in Seq(S)
  OBVIOUS
<1>4. (a \o b) \o <<x>> = a \o (b \o <<x>>)
  BY <1>3, ConcatAssociative
<1>. QED  BY <1>2, <1>4

(* A token more of both.                                                   *)
LEMMA AbridgesMore ==
  ASSUME NEW now \in Seq(Token), NEW all \in Seq(Token), NEW k, Abridges(now, all, k),
         NEW token \in Token
  PROVE  Abridges(Append(now, token), Append(all, token), k)
<1>0. PICK n \in Nat, z \in Nat : n = Len(now) /\ z = Len(all)
  BY LenProperties
<1>. DEFINE new == Append(now, token)
            total == Append(all, token)
<1>1. Len(new) = n + 1 /\ (\A i \in 1..n : new[i] = now[i]) /\ new[n + 1] = token
  BY <1>0, AppendProperties
<1>2. Len(total) = z + 1 /\ (\A i \in 1..z : total[i] = all[i]) /\ total[z + 1] = token
  BY <1>0, AppendProperties
<1>3. /\ k \in 0..n /\ n <= z
      /\ \A i \in 1..k : now[i] = all[i]
      /\ \A i \in (k + 1)..n : now[i] = all[i + (z - n)]
  BY <1>0 DEF Abridges
<1>. HIDE DEF new, total
<1>4. ASSUME NEW i \in 1..k PROVE new[i] = total[i]
  <2>1. i \in 1..n /\ i \in 1..z
    BY <1>3
  <2>. QED  BY <1>1, <1>2, <1>3, <2>1
<1>5. ASSUME NEW i \in (k + 1)..(n + 1)
      PROVE  new[i] = total[i + ((z + 1) - (n + 1))]
  <2>1. CASE i = n + 1
    BY <1>1, <1>2, <1>3, <2>1
  <2>2. CASE i # n + 1
    <3>1. /\ i \in (k + 1)..n /\ i \in 1..n /\ i + (z - n) \in 1..z
          /\ i + ((z + 1) - (n + 1)) = i + (z - n)
      BY <1>3, <2>2
    <3>. QED  BY <1>1, <1>2, <1>3, <3>1
  <2>. QED  BY <2>1, <2>2
<1>6. k \in 0..(n + 1) /\ n + 1 <= z + 1
  BY <1>3
<1>7. Abridges(new, total, k)
  BY <1>1, <1>2, <1>4, <1>5, <1>6 DEF Abridges
<1>. QED  BY <1>7 DEF new, total

(* A shift keeps the conversation, or abridges it where the call slides.   *)
LEMMA ShiftKeeps ==
  ASSUME Kept, phase \in {"fit", "loop"}, Shift, Shiftable,
         UNCHANGED <<nCtx, pinned, prompt, sliding, fresh, reply>>
  PROVE  Converses'
<1>1. /\ nCtx \in Nat /\ pinned \in Nat /\ transcript \in Seq(Token) /\ fresh \in Seq(Token)
      /\ prompt \o reply \in Seq(Token)
  BY MlxAssumption, ConcatProperties DEF Kept, Framed
<1>2. \/ transcript \o fresh = prompt \o reply
      \/ Anchor <= Len(transcript) /\ Abridges(transcript \o fresh, prompt \o reply, Anchor)
  BY DEF Kept, Converses
<1>3. \/ Retained \o fresh = prompt \o reply
      \/ Anchor <= Len(Retained) /\ Abridges(Retained \o fresh, prompt \o reply, Anchor)
  BY <1>1, <1>2, ShiftConverses
<1>4. transcript' = Retained /\ sliding'
  BY DEF Shift, Shiftable
<1>5. Anchor' = Anchor
  BY DEF Anchor
<1>. QED  BY <1>3, <1>4, <1>5 DEF Converses, Abridges

(* The conversation is as it was.                                          *)
LEMMA SameConversation ==
  ASSUME Kept, phase \in {"fit", "prefill", "loop", "commit"},
         UNCHANGED <<nCtx, pinned, prompt, sliding, reply>>,
         transcript' \o fresh' = transcript \o fresh, Len(transcript) <= Len(transcript'),
         transcript' \in Seq(Token)
  PROVE  Converses'
<1>1. Anchor' = Anchor /\ Anchor \in Nat
  <2>1. nCtx \in Nat /\ pinned \in Nat
    BY MlxAssumption DEF Kept, Framed
  <2>. QED  BY <2>1 DEF Anchor, Lesser
<1>2. Len(transcript) \in Nat /\ Len(transcript') \in Nat
  BY LenProperties DEF Kept, Framed
<1>3. \/ transcript \o fresh = prompt \o reply
      \/ /\ sliding /\ Anchor <= Len(transcript)
         /\ Abridges(transcript \o fresh, prompt \o reply, Anchor)
  BY DEF Kept, Converses
<1>4. \/ transcript' \o fresh' = prompt' \o reply'
      \/ /\ sliding' /\ Anchor' <= Len(transcript')
         /\ Abridges(transcript' \o fresh', prompt' \o reply', Anchor')
  <2>1. CASE transcript \o fresh = prompt \o reply
    BY <2>1
  <2>2. CASE /\ sliding /\ Anchor <= Len(transcript)
             /\ Abridges(transcript \o fresh, prompt \o reply, Anchor)
    <3>1. Anchor' <= Len(transcript')
      BY <1>1, <1>2, <2>2
    <3>. QED  BY <1>1, <2>2, <3>1
  <2>. QED  BY <1>3, <2>1, <2>2
<1>. QED  BY <1>4 DEF Converses, Abridges

(* Every step, as long as no shift throws.                                 *)
LEMMA StepConverses ==
  ASSUME Kept, [Next]_vars
  PROVE  Converses'
<1>0. /\ transcript \in Seq(Token) /\ fresh \in Seq(Token) /\ prompt \in Seq(Token)
      /\ reply \in Seq(Token) /\ <<>> \in Seq(Token) /\ Len(transcript) \in Nat
  BY EmptySeq, LenProperties DEF Kept, Framed
<1>1. CASE UNCHANGED vars
  BY <1>1 DEF vars, Kept, Converses, Abridges, Anchor
<1>2. ASSUME phase' \in {"closed", "idle"} PROVE Converses'
  BY <1>2 DEF Converses
<1>3. CASE Create \/ Reset \/ Ends \/ ForwardFails \/ ShiftFails
  <2>1. phase' \in {"closed", "idle"}
    BY <1>3 DEF Create, Reset, Ends, ForwardFails, ShiftFails, Return, Kept, Framed
  <2>. QED  BY <1>2, <2>1
<1>4. ASSUME NEW past \in 0..(nPast + 1), NEW keep \in Heads, AskRefused(past, keep)
      PROVE  Converses'
  BY <1>2, <1>4 DEF AskRefused, Return
<1>5. ASSUME NEW wanted \in Prompts, NEW past \in 0..nPast, NEW slides \in BOOLEAN,
             NEW keep \in Heads, Ask(wanted, past, slides, keep)
      PROVE  Converses'
  <2>1. wanted \in Seq(Token) /\ wanted # <<>>
    BY MlxAssumption
  <2>2. /\ phase' = "fit" /\ prompt' = wanted /\ Prepare(wanted, past)
        /\ reply = <<>> /\ reply' = reply
    BY <1>5 DEF Ask, Kept, Framed
  <2>3. PICK kept \in 0..Len(transcript) :
          /\ transcript' = SubSeq(transcript, 1, kept)
          /\ fresh' = SubSeq(wanted, kept + 1, Len(wanted))
          /\ kept < Len(wanted) /\ \A i \in 1..kept : transcript[i] = wanted[i]
    BY <2>1, <2>2, PrepareKeeps DEF Kept
  <2>4. transcript' \o fresh' = wanted
    BY <1>0, <2>1, <2>3, PartsOfPrompt
  <2>5. prompt' \o reply' = wanted
    BY <2>1, <2>2, ConcatEmptySeq
  <2>. QED  BY <2>4, <2>5 DEF Converses
<1>6. CASE Fit
  <2>1. phase = "fit" /\ pinned' = pinned
    BY <1>6 DEF Fit
  <2>2. CASE Len(fresh) <= nCtx - nPast
    <3>1. UNCHANGED <<nCtx, pinned, prompt, sliding, reply, transcript, fresh>>
      BY <1>6, <2>2 DEF Fit, cache, request
    <3>. QED  BY <1>0, <2>1, <3>1, SameConversation
  <2>3. CASE ~(Len(fresh) <= nCtx - nPast) /\ ~Shiftable
    BY <1>2, <1>6, <2>3 DEF Fit, Return
  <2>4. CASE ~(Len(fresh) <= nCtx - nPast) /\ Shiftable
    <3>1. /\ Shift /\ nCtx' = nCtx
          /\ \/ UNCHANGED <<prompt, sliding, fresh, reply>>
             \/ phase' = "idle"
      BY <1>6, <2>4 DEF Fit, Return, request
    <3>. QED  BY <1>2, <2>1, <2>4, <3>1, ShiftKeeps
  <2>. QED  BY <2>2, <2>3, <2>4
<1>7. CASE MakeRoom
  <2>1. phase = "loop" /\ pinned' = pinned
    BY <1>7 DEF MakeRoom
  <2>2. CASE nPast < nCtx
    <3>1. UNCHANGED <<nCtx, pinned, prompt, sliding, reply, transcript, fresh>>
      BY <1>7, <2>2 DEF MakeRoom, cache, request
    <3>. QED  BY <1>0, <2>1, <3>1, SameConversation
  <2>3. CASE ~(nPast < nCtx) /\ Shiftable
    <3>1. Shift /\ UNCHANGED <<nCtx, prompt, sliding, fresh, reply>>
      BY <1>7, <2>3 DEF MakeRoom, request
    <3>. QED  BY <2>1, <2>3, <3>1, ShiftKeeps
  <2>4. CASE ~(nPast < nCtx) /\ ~Shiftable
    BY <1>2, <1>7, <2>4 DEF MakeRoom, Return
  <2>. QED  BY <2>2, <2>3, <2>4
<1>8. CASE Prefill
  <2>1. /\ phase = "prefill" /\ transcript' = transcript \o fresh /\ fresh' = <<>>
        /\ UNCHANGED <<nCtx, pinned, prompt, sliding, reply>>
    BY <1>8 DEF Prefill, request
  <2>2. /\ transcript' \in Seq(Token) /\ Len(transcript') = Len(transcript) + Len(fresh)
        /\ Len(fresh) \in Nat
    BY <1>0, <2>1, ConcatProperties, LenProperties
  <2>3. Len(transcript) <= Len(transcript')
    BY <1>0, <2>2
  <2>4. transcript' \o fresh' = transcript \o fresh
    BY <2>1, <2>2, ConcatEmptySeq
  <2>. QED  BY <2>1, <2>2, <2>3, <2>4, SameConversation
<1>9. ASSUME NEW token \in Token, Commit(token) PROVE Converses'
  <2>1. CASE phase' = "idle"
    BY <1>2, <2>1
  <2>2. CASE phase' # "idle"
    <3>1. /\ phase = "commit" /\ fresh = <<>> /\ fresh' = <<>>
          /\ transcript' = Append(transcript, token) /\ reply' = Append(reply, token)
          /\ UNCHANGED <<nCtx, pinned, prompt, sliding>>
      BY <1>9, <2>2 DEF Commit, Return, request, Kept, Framed
    <3>. DEFINE all == prompt \o reply
    <3>2. transcript \o fresh = transcript /\ all \in Seq(Token)
      BY <1>0, <3>1, ConcatEmptySeq, ConcatProperties
    <3>3. prompt' \o reply' = Append(all, token)
      BY <1>0, <3>1, OneAfter
    <3>4. transcript' \o fresh' = Append(transcript, token)
      <4>1. Append(transcript, token) \in Seq(Token)
        BY <1>0, AppendProperties
      <4>. QED  BY <3>1, <4>1, ConcatEmptySeq
    <3>5. Len(transcript') = Len(transcript) + 1
      BY <1>0, <3>1, AppendProperties
    <3>6. Anchor' = Anchor /\ Anchor \in Nat
      BY <3>1, MlxAssumption DEF Anchor, Lesser, Kept, Framed
    <3>7. \/ transcript = all
          \/ sliding /\ Anchor <= Len(transcript) /\ Abridges(transcript, all, Anchor)
      BY <3>1, <3>2 DEF Kept, Converses
    <3>8. CASE transcript = all
      BY <3>3, <3>4, <3>8 DEF Converses
    <3>9. CASE sliding /\ Anchor <= Len(transcript) /\ Abridges(transcript, all, Anchor)
      <4>1. Abridges(Append(transcript, token), Append(all, token), Anchor)
        BY <1>0, <3>2, <3>9, AbridgesMore
      <4>2. sliding' /\ Anchor' <= Len(transcript')
        BY <1>0, <3>1, <3>5, <3>6, <3>9
      <4>3. Abridges(transcript' \o fresh', prompt' \o reply', Anchor')
        BY <3>3, <3>4, <3>6, <4>1
      <4>. QED  BY <4>2, <4>3 DEF Converses, Abridges
    <3>. QED  BY <3>7, <3>8, <3>9
  <2>. QED  BY <2>1, <2>2
<1>. QED  BY <1>1, <1>3, <1>4, <1>5, <1>6, <1>7, <1>8, <1>9 DEF Next

-----------------------------------------------------------------------------
(* The theorems.                                                           *)

(* At first nothing is held.                                               *)
LEMMA InitHolds ==
  ASSUME Init
  PROVE  Framed /\ Holding(transcript) /\ Converses
<1>1. <<>> \in Seq(Token) /\ Len(<<>>) = 0 /\ <<>> \in Seq(Token \cup {Empty})
  BY EmptySeq
<1>2. buffers \in [1..Layers -> Seq(Token \cup {Empty})]
      /\ \A l \in 1..Layers : buffers[l] = <<>>
  BY <1>1 DEF Init
<1>3. Framed
  BY <1>1 DEF Init, Framed, RoomIsMade
<1>4. Stored(buffers, allocated, transcript, nCtx)
  BY <1>1, <1>2 DEF Init, Stored
<1>. QED  BY <1>1, <1>3, <1>4 DEF Init, Holding, Converses

(* A window is never overrun, whatever throws: the room a prompt or a      *)
(* token needs has been made before it is evaluated, and no layer is short *)
(* of the tokens it is said to hold.                                       *)
THEOREM RoomIsAlwaysMade == Spec => [](TypeOK /\ RoomIsMade)
<1>1. Init => Cached
  BY InitHolds DEF Cached
<1>2. Cached /\ [Next]_vars => Cached'
  <2>. SUFFICES ASSUME Cached, [Next]_vars PROVE Cached'
    OBVIOUS
  <2>1. PICK held : Framed /\ Holding(held)
    BY DEF Cached
  <2>2. PICK new : Goes(held, new)
    BY <2>1, StepGoes
  <2>3. Framed' /\ Holding(new)'
    BY <2>2 DEF Goes, Holding, Stored
  <2>. QED  BY <2>3 DEF Cached
<1>3. Cached => TypeOK /\ RoomIsMade
  <2>. SUFFICES ASSUME Cached PROVE TypeOK /\ RoomIsMade
    OBVIOUS
  <2>1. PICK held : Framed /\ Holding(held)
    BY DEF Cached
  <2>2. \A l \in 1..Layers : buffers[l] \in Seq(Token \cup {Empty}) /\ Len(buffers[l]) <= nCtx
    BY <2>1 DEF Holding, Stored
  <2>3. allocated \in 0..nCtx
    BY <2>1 DEF Holding, Stored
  <2>. QED  BY <2>1, <2>2, <2>3 DEF Framed, TypeOK
<1>. QED  BY <1>1, <1>2, <1>3, PTL DEF Spec

(* As long as no shift throws, the ids of the transcript are those of the  *)
(* cache in order, in every layer, and what a reply is computed from is    *)
(* the conversation, all of it or its anchored head and what came last.    *)
THEOREM TheCacheIsTheConversation ==
  ASSUME ShiftThrows = FALSE
  PROVE  Spec => []CacheIsConversation
<1>1. Init => Kept
  BY InitHolds DEF Kept
<1>2. Kept /\ [Next]_vars => Kept'
  <2>. SUFFICES ASSUME Kept, [Next]_vars PROVE Kept'
    OBVIOUS
  <2>1. PICK new : Goes(transcript, new)
    BY StepGoes DEF Kept
  <2>2. Framed' /\ Holding(transcript)'
    BY <2>1 DEF Goes, Holding, Stored
  <2>. QED  BY <2>2, StepConverses DEF Kept
<1>3. Kept => CacheIsConversation
  <2>. SUFFICES ASSUME Kept PROVE CacheIsConversation
    OBVIOUS
  <2>0. /\ Framed /\ Holding(transcript) /\ Converses
        /\ nCtx \in Nat /\ pinned \in Nat /\ transcript \in Seq(Token)
    BY MlxAssumption DEF Kept, Framed
  <2>1. TypeOK
    BY <2>0 DEF Framed, Holding, Stored, TypeOK
  <2>2. TranscriptIsCache
    <3>. SUFFICES ASSUME NEW l \in 1..Layers
                  PROVE  Len(buffers[l]) >= nPast /\ SubSeq(buffers[l], 1, nPast) = transcript
      BY DEF TranscriptIsCache
    <3>1. /\ buffers[l] \in Seq(Token \cup {Empty}) /\ Len(transcript) = nPast
          /\ nPast <= Len(buffers[l]) /\ \A i \in 1..nPast : buffers[l][i] = transcript[i]
      BY <2>0 DEF Holding, Stored
    <3>2. Len(buffers[l]) \in Nat /\ nPast \in 0..Len(buffers[l])
      BY <2>0, <3>1, LenProperties DEF Framed
    <3>. DEFINE held == SubSeq(buffers[l], 1, nPast)
    <3>3. /\ held \in Seq(Token \cup {Empty}) /\ Len(held) = nPast
          /\ \A i \in 1..nPast : held[i] = buffers[l][i]
      BY <3>1, <3>2, HeadOf
    <3>4. transcript \in Seq(Token \cup {Empty})
      BY <2>0, SeqMonotonic
    <3>. HIDE DEF held
    <3>5. held = transcript
      <4>1. \A i \in 1..Len(held) : held[i] = transcript[i]
        BY <3>1, <3>3
      <4>. QED  BY <3>1, <3>3, <3>4, <4>1, SeqEqual
    <3>. QED  BY <3>2, <3>5 DEF held
  <2>3. WindowOfConversation
    <3>. DEFINE all == prompt \o reply
    <3>. SUFFICES ASSUME phase \in {"loop", "commit"}
                  PROVE  \E kept \in 0..Len(transcript) :
                           /\ transcript = SubSeq(all, 1, kept)
                                \o SubSeq(all, Len(all) - (Len(transcript) - kept) + 1, Len(all))
                           /\ transcript # all =>
                                sliding /\ kept >= Lesser(Lesser(pinned, nCtx \div 4), Len(all))
      BY DEF WindowOfConversation
    <3>1. all \in Seq(Token) /\ fresh = <<>>
      BY <2>0, ConcatProperties DEF Framed
    <3>2. transcript \o fresh = transcript
      BY <2>0, <3>1, ConcatEmptySeq
    <3>3. \/ transcript = all
          \/ sliding /\ Anchor <= Len(transcript) /\ Abridges(transcript, all, Anchor)
      BY <2>0, <3>2 DEF Converses
    <3>. HIDE DEF all
    <3>4. PICK n \in Nat, z \in Nat : n = Len(transcript) /\ z = Len(all)
      BY <2>0, <3>1, LenProperties
    <3>5. PICK k \in 0..n : /\ Abridges(transcript, all, k)
                            /\ transcript # all => sliding /\ k = Anchor
      <4>1. CASE transcript = all
        <5>1. Abridges(transcript, all, n)
          BY <3>4, <4>1 DEF Abridges
        <5>2. n \in 0..n
          OBVIOUS
        <5>. QED  BY <4>1, <5>1, <5>2
      <4>2. CASE transcript # all
        BY <3>3, <3>4, <4>2 DEF Abridges
      <4>. QED  BY <4>1, <4>2
    <3>. DEFINE d == z - (n - k)
                x == SubSeq(all, 1, k)
                y == SubSeq(all, d + 1, z)
    <3>6. /\ n <= z /\ k \in 0..z /\ d \in 0..z /\ z - d = n - k
          /\ \A i \in 1..k : transcript[i] = all[i]
          /\ \A i \in (k + 1)..n : transcript[i] = all[i + (z - n)]
      BY <3>4, <3>5 DEF Abridges
    <3>7. x \in Seq(Token) /\ Len(x) = k /\ \A i \in 1..k : x[i] = all[i]
      BY <3>1, <3>4, <3>6, HeadOf
    <3>8. y \in Seq(Token) /\ Len(y) = n - k /\ \A i \in 1..(n - k) : y[i] = all[d + i]
      <4>. HIDE DEF d
      <4>. QED  BY <3>1, <3>4, <3>6, RestOf
    <3>. HIDE DEF x, y
    <3>9. /\ x \o y \in Seq(Token) /\ Len(x \o y) = n
          /\ \A i \in 1..n : (x \o y)[i] = IF i <= k THEN x[i] ELSE y[i - k]
      <4>1. k + (n - k) = n
        OBVIOUS
      <4>2. /\ x \o y \in Seq(Token) /\ Len(x \o y) = Len(x) + Len(y)
            /\ \A i \in 1..(Len(x) + Len(y)) :
                 (x \o y)[i] = IF i <= Len(x) THEN x[i] ELSE y[i - Len(x)]
        BY <3>7, <3>8, ConcatProperties
      <4>. QED  BY <3>7, <3>8, <4>1, <4>2
    <3>10. ASSUME NEW i \in 1..n PROVE transcript[i] = (x \o y)[i]
      <4>1. CASE i <= k
        <5>1. i \in 1..k
          BY <4>1
        <5>2. (x \o y)[i] = x[i] /\ x[i] = all[i]
          BY <3>7, <3>9, <4>1, <5>1
        <5>3. transcript[i] = all[i]
          BY <3>6, <5>1
        <5>. QED  BY <5>2, <5>3
      <4>2. CASE ~(i <= k)
        <5>. DEFINE j == i - k
        <5>1. /\ i \in (k + 1)..n /\ j \in 1..(n - k)
              /\ d + j = i + (z - n)
          BY <4>2
        <5>2. (x \o y)[i] = y[j]
          BY <3>9, <4>2
        <5>. HIDE DEF j, d
        <5>3. y[j] = all[d + j]
          BY <3>8, <5>1
        <5>4. transcript[i] = all[i + (z - n)]
          BY <3>6, <5>1
        <5>. QED  BY <5>1, <5>2, <5>3, <5>4
      <4>. QED  BY <4>1, <4>2
    <3>11. transcript = x \o y
      BY <2>0, <3>4, <3>9, <3>10, SeqEqual
    <3>12. y = SubSeq(all, Len(all) - (Len(transcript) - k) + 1, Len(all))
      BY <3>4 DEF y
    <3>13. transcript # all => sliding /\ k >= Lesser(Lesser(pinned, nCtx \div 4), Len(all))
      <4>1. Lesser(pinned, nCtx \div 4) \in Nat
        BY <2>0 DEF Lesser
      <4>2. Lesser(Lesser(pinned, nCtx \div 4), Len(all)) <= Lesser(pinned, nCtx \div 4)
        BY <3>4, <4>1 DEF Lesser
      <4>. QED  BY <3>5, <4>2 DEF Anchor
    <3>. QED  BY <3>4, <3>11, <3>12, <3>13 DEF x
  <2>. QED  BY <2>0, <2>1, <2>2, <2>3 DEF CacheIsConversation, Framed
<1>. QED  BY <1>1, <1>2, <1>3, PTL DEF Spec

-----------------------------------------------------------------------------
(* The vision handle.  First the sizes of files.                           *)

Sums(h, files, size, n) ==
  h = [s \in SUBSET (1..n) |->
         IF s = {} THEN 0 ELSE h[s \ {Max(s)}] + size[files[Max(s)]]]

(* There is such a running sum of the sizes of any list of files.          *)
LEMMA SumExists ==
  ASSUME NEW S, NEW size \in [S -> Nat], NEW files \in Seq(S)
  PROVE  \E h : Sums(h, files, size, Len(files))
<1>. DEFINE n == Len(files)
            Good == {m \in 0..n : \E h \in [SUBSET (1..m) -> Nat] : Sums(h, files, size, m)}
<1>1. n \in Nat /\ 0 \in 0..n /\ n \in 0..n /\ \A i \in 1..n : size[files[i]] \in Nat
  <2>1. n \in Nat /\ \A i \in 1..n : files[i] \in S
    OBVIOUS
  <2>. QED  BY <2>1
<1>2. 0 \in Good
  <2>. DEFINE none == [s \in SUBSET (1..0) |-> 0]
  <2>1. \A s \in SUBSET (1..0) : s = {}
    OBVIOUS
  <2>2. none \in [SUBSET (1..0) -> Nat]
    OBVIOUS
  <2>3. Sums(none, files, size, 0)
    BY <2>1 DEF Sums
  <2>. HIDE DEF none
  <2>. QED  BY <1>1, <2>2, <2>3
<1>3. ASSUME NEW m \in 1..n, m - 1 \in Good PROVE m \in Good
  <2>1. PICK h \in [SUBSET (1..(m - 1)) -> Nat] : Sums(h, files, size, m - 1)
    BY <1>3
  <2>. DEFINE g == [s \in SUBSET (1..m) |->
                      IF m \in s THEN h[s \ {m}] + size[files[m]] ELSE h[s]]
  <2>2. m \in 0..n /\ m \in Nat /\ size[files[m]] \in Nat /\ m - 1 \in Nat
    BY <1>1
  <2>3. ASSUME NEW s \in SUBSET (1..m)
        PROVE  /\ m \in s => s \ {m} \in SUBSET (1..(m - 1)) /\ s \ {m} \in SUBSET (1..m)
               /\ m \notin s => s \in SUBSET (1..(m - 1))
    BY <2>2
  <2>4. g \in [SUBSET (1..m) -> Nat]
    <3>1. ASSUME NEW s \in SUBSET (1..m)
          PROVE  (IF m \in s THEN h[s \ {m}] + size[files[m]] ELSE h[s]) \in Nat
      <4>1. CASE m \in s
        <5>1. h[s \ {m}] \in Nat
          BY <2>3, <4>1
        <5>. QED  BY <2>2, <4>1, <5>1
      <4>2. CASE m \notin s
        BY <2>3, <4>2
      <4>. QED  BY <4>1, <4>2
    <3>. QED  BY <3>1
  <2>5. ASSUME NEW s \in SUBSET (1..m)
        PROVE  g[s] = IF s = {} THEN 0 ELSE g[s \ {Max(s)}] + size[files[Max(s)]]
    <3>1. CASE m \in s
      <4>1. Max(s) = m
        <5>1. s \in SUBSET (0..m) /\ \A y \in s : m >= y
          BY <2>2
        <5>. QED  BY <2>2, <3>1, <5>1, MaxIs
      <4>2. g[s] = h[s \ {m}] + size[files[m]]
        BY <3>1
      <4>3. g[s \ {m}] = h[s \ {m}]
        BY <2>3, <3>1
      <4>. HIDE DEF g
      <4>. QED  BY <3>1, <4>1, <4>2, <4>3
    <3>2. CASE m \notin s
      <4>1. s \in SUBSET (1..(m - 1)) /\ g[s] = h[s]
        BY <2>3, <3>2
      <4>2. h[s] = IF s = {} THEN 0 ELSE h[s \ {Max(s)}] + size[files[Max(s)]]
        BY <2>1, <4>1 DEF Sums
      <4>3. g[s \ {Max(s)}] = h[s \ {Max(s)}]
        <5>1. s \ {Max(s)} \in SUBSET (1..m) /\ m \notin s \ {Max(s)}
          BY <3>2
        <5>. QED  BY <5>1
      <4>. HIDE DEF g
      <4>. QED  BY <4>1, <4>2, <4>3
    <3>. QED  BY <3>1, <3>2
  <2>6. Sums(g, files, size, m)
    <3>1. g = [s \in SUBSET (1..m) |-> g[s]]
      OBVIOUS
    <3>. HIDE DEF g
    <3>. QED  BY <2>5, <3>1 DEF Sums
  <2>. HIDE DEF g
  <2>. QED  BY <2>2, <2>4, <2>6
<1>4. \A m \in 0..n : m \in Good
  <2>. HIDE DEF Good, n
  <2>. QED  BY <1>1, <1>2, <1>3, Counted
<1>5. n \in Good
  <2>. HIDE DEF Good
  <2>. QED  BY <1>1, <1>4
<1>. QED  BY <1>5

LEMMA SumIs ==
  ASSUME NEW S, NEW size \in [S -> Nat], NEW files \in Seq(S)
  PROVE  Vision!SumOver(files, size) \in Nat
<1>. DEFINE n == Len(files)
            Is(h) == Sums(h, files, size, n)
<1>1. n \in Nat /\ DOMAIN files = 1..n /\ 0 \in 0..n /\ n \in 0..n
  OBVIOUS
<1>2. PICK w : Is(w) /\ Vision!SumOver(files, size) = w[1..n]
  <2>1. \E h : Is(h)
    BY SumExists
  <2>2. Is(CHOOSE h : Is(h))
    <3>. HIDE DEF Is
    <3>. QED  BY <2>1, Zenon
  <2>3. Vision!SumOver(files, size) = (CHOOSE h : Is(h))[1..n]
    BY <1>1 DEF Vision!SumOver, Vision!FoldLeft, Vision!MapThenFoldSet, Vision!Max, Max, Sums
  <2>. QED  BY <2>2, <2>3
<1>. DEFINE Good == {m \in 0..n : w[1..m] \in Nat}
<1>3. 0 \in Good
  <2>1. 1..0 \in SUBSET (1..n) /\ 1..0 = {}
    BY <1>1
  <2>2. w[1..0] = 0
    BY <1>2, <2>1 DEF Sums
  <2>. QED  BY <1>1, <2>2
<1>4. ASSUME NEW m \in 1..n, m - 1 \in Good PROVE m \in Good
  <2>1. m \in 0..n /\ w[1..(m - 1)] \in Nat /\ m \in Nat
    BY <1>1, <1>4
  <2>2. 1..m \in SUBSET (1..n) /\ 1..m # {} /\ (1..m) \ {m} = 1..(m - 1)
    <3>. HIDE DEF n
    <3>1. 1..m \in SUBSET (1..n)
      BY <1>1
    <3>2. m \in 1..m
      BY <2>1
    <3>3. (1..m) \ {m} = 1..(m - 1)
      BY <2>1
    <3>. QED  BY <3>1, <3>2, <3>3
  <2>3. Max(1..m) = m
    <3>1. 1..m \in SUBSET (0..m) /\ m \in 1..m /\ \A y \in 1..m : m >= y
      BY <2>1
    <3>. QED  BY <2>1, <3>1, MaxIs
  <2>4. w[1..m] = w[1..(m - 1)] + size[files[m]]
    BY <1>2, <2>2, <2>3 DEF Sums
  <2>5. size[files[m]] \in Nat
    <3>1. files[m] \in S
      OBVIOUS
    <3>. QED  BY <3>1
  <2>. QED  BY <2>1, <2>4, <2>5
<1>5. \A m \in 0..n : m \in Good
  <2>. HIDE DEF Good, n
  <2>. QED  BY <1>1, <1>3, <1>4, Counted
<1>6. w[1..n] \in Nat
  <2>1. n \in Good
    <3>. HIDE DEF Good
    <3>. QED  BY <1>1, <1>5
  <2>. QED  BY <2>1
<1>. QED  BY <1>2, <1>6

-----------------------------------------------------------------------------
(* The files of a kind.                                                    *)

LEMMA SameCardinality == \A S : Vision!Cardinality(S) = Cardinality(S)
BY DEF Vision!Cardinality, Cardinality, Vision!IsFiniteSet, IsFiniteSet

(* How many of the first k places have a mark.                             *)
Rank(marks, mark, k) == Cardinality({i \in 1..k : marks[i] = mark})

LEMMA RankIs ==
  ASSUME NEW marks, NEW mark, NEW k \in Nat
  PROVE  /\ IsFiniteSet({i \in 1..k : marks[i] = mark}) /\ Rank(marks, mark, k) \in Nat
         /\ Rank(marks, mark, 0) = 0
<1>. DEFINE P(m) == {i \in 1..m : marks[i] = mark}
<1>1. \A m \in Nat : IsFiniteSet(P(m))
  <2>. SUFFICES ASSUME NEW m \in Nat PROVE IsFiniteSet(P(m))
    OBVIOUS
  <2>1. IsFiniteSet(1..m)
    BY FS_Interval
  <2>2. P(m) \in SUBSET (1..m)
    OBVIOUS
  <2>. HIDE DEF P
  <2>. QED  BY <2>1, <2>2, FS_Subset
<1>2. Rank(marks, mark, k) \in Nat
  <2>. HIDE DEF P
  <2>1. Cardinality(P(k)) \in Nat
    BY <1>1, FS_CardinalityType
  <2>. QED  BY <2>1 DEF Rank, P
<1>3. Rank(marks, mark, 0) = 0
  <2>1. P(0) = {}
    OBVIOUS
  <2>. QED  BY <2>1, FS_EmptySet DEF Rank
<1>4. IsFiniteSet(P(k))
  BY <1>1
<1>. QED  BY <1>2, <1>3, <1>4

LEMMA RankFinite ==
  ASSUME NEW marks, NEW mark, NEW k \in Nat
  PROVE  IsFiniteSet({i \in 1..k : marks[i] = mark})
BY RankIs

LEMMA RankNext ==
  ASSUME NEW marks, NEW mark, NEW k \in Nat \ {0}
  PROVE  Rank(marks, mark, k) = IF marks[k] = mark THEN Rank(marks, mark, k - 1) + 1
                                                   ELSE Rank(marks, mark, k - 1)
<1>. DEFINE P(m) == {i \in 1..m : marks[i] = mark}
<1>1. k - 1 \in Nat
  OBVIOUS
<1>2. CASE marks[k] = mark
  <2>1. P(k) = P(k - 1) \cup {k} /\ k \notin P(k - 1)
    BY <1>2
  <2>2. IsFiniteSet(P(k - 1))
    BY <1>1, RankFinite
  <2>. HIDE DEF P
  <2>3. Cardinality(P(k)) = Cardinality(P(k - 1)) + 1
    BY <2>1, <2>2, FS_AddElement
  <2>. QED  BY <1>2, <2>3 DEF Rank, P
<1>3. CASE marks[k] # mark
  <2>1. P(k) = P(k - 1)
    BY <1>3
  <2>. QED  BY <1>3, <2>1 DEF Rank
<1>. QED  BY <1>2, <1>3

(* The kinds of a list of files.                                           *)
Kinds(files) == [i \in 1..Len(files) |-> Vision!KindOf(files[i])]

(* The first m files of a kind are in a list, in their order.              *)
Lists(list, kind, files, m) ==
  /\ list \in Seq(Vision!File) /\ Len(list) = Rank(Kinds(files), kind, m)
  /\ \A k \in 1..m : Kinds(files)[k] = kind =>
       /\ Rank(Kinds(files), kind, k) \in 1..Len(list)
       /\ list[Rank(Kinds(files), kind, k)] = files[k]

LEMMA ListsNone ==
  ASSUME NEW kind, NEW files
  PROVE  Lists(<<>>, kind, files, 0)
<1>1. Rank(Kinds(files), kind, 0) = 0
  BY RankIs
<1>. QED  BY <1>1 DEF Lists

LEMMA ListsMore ==
  ASSUME NEW kind, NEW files \in Seq(Vision!File), NEW m \in 1..Len(files),
         NEW list, Lists(list, kind, files, m - 1)
  PROVE  Lists(IF Vision!KindOf(files[m]) = kind THEN Append(list, files[m]) ELSE list,
               kind, files, m)
<1>. DEFINE R(k) == Rank(Kinds(files), kind, k)
            next == IF Vision!KindOf(files[m]) = kind THEN Append(list, files[m]) ELSE list
<1>1. /\ m \in Nat /\ m # 0 /\ m - 1 \in Nat /\ files[m] \in Vision!File
      /\ Kinds(files)[m] = Vision!KindOf(files[m])
  BY DEF Kinds
<1>2. R(m) = IF Kinds(files)[m] = kind THEN R(m - 1) + 1 ELSE R(m - 1)
  <2>. QED  BY <1>1, RankNext
<1>3. list \in Seq(Vision!File) /\ Len(list) = R(m - 1)
  BY DEF Lists
<1>4. Len(list) \in Nat
  BY <1>3
<1>5. ASSUME NEW k \in 1..(m - 1), Kinds(files)[k] = kind
      PROVE  R(k) \in 1..Len(list) /\ list[R(k)] = files[k]
  BY <1>5 DEF Lists
<1>. HIDE DEF R
<1>6. CASE Kinds(files)[m] = kind
  <2>1. next = Append(list, files[m])
    BY <1>1, <1>6
  <2>2. next \in Seq(Vision!File)
    BY <1>1, <1>3, <2>1
  <2>3. Len(next) = R(m) /\ R(m) = Len(list) + 1
    BY <1>2, <1>3, <1>6, <2>1
  <2>4. next[Len(list) + 1] = files[m] /\ \A x \in 1..Len(list) : next[x] = list[x]
    BY <1>3, <2>1
  <2>. HIDE DEF next
  <2>5. ASSUME NEW k \in 1..m, Kinds(files)[k] = kind
        PROVE  R(k) \in 1..Len(next) /\ next[R(k)] = files[k]
    <3>1. CASE k = m
      <4>1. R(m) \in 1..R(m)
        BY <1>4, <2>3
      <4>. QED  BY <2>3, <2>4, <3>1, <4>1
    <3>2. CASE k # m
      <4>1. k \in 1..(m - 1)
        BY <1>1, <3>2
      <4>2. R(k) \in 1..Len(list) /\ list[R(k)] = files[k]
        BY <1>5, <2>5, <4>1
      <4>3. R(k) \in 1..Len(next)
        BY <1>4, <2>3, <4>2
      <4>. QED  BY <2>4, <4>2, <4>3
    <3>. QED  BY <3>1, <3>2
  <2>. QED  BY <2>2, <2>3, <2>5 DEF Lists, R, next
<1>7. CASE Kinds(files)[m] # kind
  <2>1. next = list
    BY <1>1, <1>7
  <2>2. Len(next) = R(m)
    BY <1>2, <1>3, <1>7, <2>1
  <2>3. ASSUME NEW k \in 1..m, Kinds(files)[k] = kind
        PROVE  R(k) \in 1..Len(next) /\ next[R(k)] = files[k]
    <3>1. k \in 1..(m - 1)
      BY <1>1, <1>7, <2>3
    <3>. QED  BY <1>5, <2>1, <2>3, <3>1
  <2>. HIDE DEF next
  <2>. QED  BY <1>3, <2>1, <2>2, <2>3 DEF Lists, R, next
<1>. QED  BY <1>6, <1>7

(* What image_paths and audio_paths are made of a conversation.            *)
LEMMA OfIs ==
  ASSUME NEW kind, NEW files \in Seq(Vision!File)
  PROVE  Lists(Vision!Of(kind, files), kind, files, Len(files))
<1>. DEFINE n == Len(files)
            S == Seq(Vision!File)
            More(list, i) == IF Vision!KindOf(files[i]) = kind THEN Append(list, files[i]) ELSE list
            step == [x \in S \X (1..n) |-> More(x[1], x[2])]
            Is(h) == h = [i \in 0..n |->
                            IF i = 0 THEN <<>>
                            ELSE IF Vision!KindOf(files[i]) = kind THEN Append(h[i - 1], files[i])
                            ELSE h[i - 1]]
<1>1. n \in Nat /\ n \in 0..n /\ 0 \in 0..n /\ <<>> \in S /\ \A i \in 1..n : files[i] \in Vision!File
  OBVIOUS
<1>2. step \in [S \X (1..n) -> S]
  <2>1. ASSUME NEW x \in S \X (1..n) PROVE More(x[1], x[2]) \in S
    <3>1. x[1] \in S /\ x[2] \in 1..n /\ files[x[2]] \in Vision!File
      BY <1>1
    <3>. QED  BY <3>1
  <2>. QED  BY <2>1
<1>3. PICK f \in [0..n -> S] : Steps(<<>>, n, step, f)
  <2>. HIDE DEF step, S, n
  <2>. QED  BY <1>1, <1>2, Iterated
<1>4. Is(f)
  <2>1. ASSUME NEW i \in 0..n
        PROVE  f[i] = IF i = 0 THEN <<>> ELSE More(f[i - 1], i)
    <3>1. f[i] = IF i = 0 THEN <<>> ELSE step[<<f[i - 1], i>>]
      <4>. HIDE DEF step
      <4>. QED  BY <1>3 DEF Steps
    <3>2. CASE i # 0
      <4>1. i \in 1..n /\ i - 1 \in 0..n /\ f[i - 1] \in S
        BY <1>1, <3>2
      <4>2. <<f[i - 1], i>> \in S \X (1..n)
        BY <4>1
      <4>3. step[<<f[i - 1], i>>] = More(f[i - 1], i)
        BY <4>2
      <4>. HIDE DEF step, More
      <4>. QED  BY <3>1, <3>2, <4>3
    <3>. QED  BY <3>1, <3>2
  <2>2. f = [i \in 0..n |-> f[i]]
    OBVIOUS
  <2>. QED  BY <2>1, <2>2
<1>5. PICK w : Is(w) /\ Vision!Of(kind, files) = w[n]
  <2>1. Is(CHOOSE h : Is(h))
    <3>. HIDE DEF Is
    <3>. QED  BY <1>4, Zenon
  <2>2. Vision!Of(kind, files) = (CHOOSE h : Is(h))[n]
    BY DEF Vision!Of
  <2>. QED  BY <2>1, <2>2
<1>. DEFINE Good == {m \in 0..n : Lists(w[m], kind, files, m)}
<1>6. 0 \in Good
  <2>1. w[0] = <<>>
    BY <1>1, <1>5
  <2>. HIDE DEF Is
  <2>. QED  BY <1>1, <2>1, ListsNone
<1>7. ASSUME NEW m \in 1..n, m - 1 \in Good PROVE m \in Good
  <2>1. m \in 0..n /\ m # 0 /\ Lists(w[m - 1], kind, files, m - 1)
    BY <1>1, <1>7
  <2>2. w[m] = IF Vision!KindOf(files[m]) = kind THEN Append(w[m - 1], files[m]) ELSE w[m - 1]
    BY <1>5, <2>1
  <2>. HIDE DEF Is
  <2>3. Lists(w[m], kind, files, m)
    BY <2>1, <2>2, ListsMore
  <2>. QED  BY <2>1, <2>3
<1>8. \A m \in 0..n : m \in Good
  <2>. HIDE DEF Good, n, Is
  <2>. QED  BY <1>1, <1>6, <1>7, Counted
<1>9. Lists(w[n], kind, files, n)
  <2>1. n \in Good
    <3>. HIDE DEF Good
    <3>. QED  BY <1>1, <1>8
  <2>. QED  BY <2>1
<1>. QED  BY <1>5, <1>9

(* What it is made of by a caller that lists the images first.             *)
LEMMA JoinedLists ==
  ASSUME NEW pictures \in Seq(Image), NEW sounds \in Seq(Audio)
  PROVE  /\ pictures \o sounds \in Seq(Vision!File)
         /\ Lists(pictures, "image", pictures \o sounds, Len(pictures \o sounds))
         /\ Lists(sounds, "audio", pictures \o sounds, Len(pictures \o sounds))
<1>. DEFINE files == pictures \o sounds
            a == Len(pictures)
            b == Len(sounds)
            n == Len(files)
            marks == Kinds(files)
<1>1. pictures \in Seq(Vision!File) /\ sounds \in Seq(Vision!File)
  BY DEF Vision!File
<1>2. /\ files \in Seq(Vision!File) /\ a \in Nat /\ b \in Nat /\ n = a + b
      /\ \A i \in 1..a : files[i] = pictures[i] /\ pictures[i] \in Image
      /\ \A i \in 1..b : files[a + i] = sounds[i] /\ sounds[i] \in Audio
  <2>1. files \in Seq(Vision!File)
    BY <1>1
  <2>2. a \in Nat /\ b \in Nat /\ n = a + b
    OBVIOUS
  <2>3. \A i \in 1..a : files[i] = pictures[i] /\ pictures[i] \in Image
    OBVIOUS
  <2>4. \A i \in 1..b : files[a + i] = sounds[i] /\ sounds[i] \in Audio
    OBVIOUS
  <2>. QED  BY <2>1, <2>2, <2>3, <2>4
<1>3. Image \cap Audio = {}
  BY BackendsAssumption DEF Vision!VlmAssumption
<1>. HIDE DEF files, a, b
<1>4. ASSUME NEW i \in 1..a PROVE i \in 1..n /\ marks[i] = "image"
  BY <1>2 DEF Kinds, Vision!KindOf
<1>5. ASSUME NEW i \in (a + 1)..n PROVE i \in 1..n /\ marks[i] = "audio" /\ i - a \in 1..b
                                        /\ files[i] = sounds[i - a]
  <2>1. i - a \in 1..b /\ a + (i - a) = i /\ i \in 1..n
    BY <1>2
  <2>2. files[i] = sounds[i - a] /\ files[i] \in Audio
    BY <1>2, <2>1
  <2>. QED  BY <1>3, <2>1, <2>2 DEF Kinds, Vision!KindOf
<1>. HIDE DEF marks, n
<1>6. ASSUME NEW k \in 1..a PROVE Rank(marks, "image", k) = k
  <2>1. {i \in 1..k : marks[i] = "image"} = 1..k
    BY <1>2, <1>4
  <2>2. Cardinality(1..k) = k
    BY <1>2, FS_Interval
  <2>. QED  BY <2>1, <2>2 DEF Rank
<1>7. ASSUME NEW k \in (a + 1)..n
      PROVE  Rank(marks, "audio", k) = k - a
  <2>1. {i \in 1..k : marks[i] = "audio"} = (a + 1)..k
    <3>1. \A i \in 1..k : i \in 1..a \/ i \in (a + 1)..n
      BY <1>2
    <3>2. \A i \in (a + 1)..k : i \in 1..k /\ i \in (a + 1)..n
      BY <1>2
    <3>3. \A i \in 1..k : marks[i] = "audio" => i \in (a + 1)..k
      <4>. SUFFICES ASSUME NEW i \in 1..k, marks[i] = "audio" PROVE i \in (a + 1)..k
        OBVIOUS
      <4>1. ~(i \in 1..a)
        BY <1>4
      <4>. QED  BY <1>2, <4>1
    <3>. QED  BY <1>5, <3>2, <3>3
  <2>2. a + 1 \in Int /\ k \in Int /\ ~(a + 1 > k) /\ k - (a + 1) + 1 = k - a
    BY <1>2
  <2>3. Cardinality((a + 1)..k) = k - a
    BY <2>2, FS_Interval
  <2>. QED  BY <2>1, <2>3 DEF Rank
<1>8. Rank(marks, "image", n) = a
  <2>1. {i \in 1..n : marks[i] = "image"} = 1..a
    <3>1. \A i \in 1..n : i \in 1..a \/ i \in (a + 1)..n
      BY <1>2 DEF n
    <3>2. \A i \in 1..n : marks[i] = "image" => i \in 1..a
      BY <1>5, <3>1
    <3>. QED  BY <1>4, <3>2
  <2>2. Cardinality(1..a) = a
    <3>1. a \in Int /\ (a = 0 \/ ~(1 > a))
      BY <1>2
    <3>2. Cardinality(1..a) = IF 1 > a THEN 0 ELSE a - 1 + 1
      BY <3>1, FS_Interval
    <3>. QED  BY <3>1, <3>2
  <2>. QED  BY <2>1, <2>2 DEF Rank
<1>9. Rank(marks, "audio", n) = b
  <2>1. CASE b # 0
    <3>1. n \in (a + 1)..n /\ n - a = b
      BY <1>2, <2>1
    <3>. QED  BY <1>7, <3>1
  <2>2. CASE b = 0
    <3>1. \A i \in 1..n : i \in 1..a
      BY <1>2, <2>2
    <3>2. {i \in 1..n : marks[i] = "audio"} = {}
      BY <1>4, <3>1
    <3>. QED  BY <2>2, <3>2, FS_EmptySet DEF Rank
  <2>. QED  BY <2>1, <2>2
<1>10. Lists(pictures, "image", files, n)
  <2>1. ASSUME NEW k \in 1..n, marks[k] = "image"
        PROVE  Rank(marks, "image", k) \in 1..a /\ pictures[Rank(marks, "image", k)] = files[k]
    <3>1. k \in 1..a
      <4>1. k \in 1..a \/ k \in (a + 1)..n
        BY <1>2
      <4>. QED  BY <1>5, <2>1, <4>1
    <3>. QED  BY <1>2, <1>6, <3>1
  <2>. QED  BY <1>1, <1>8, <2>1 DEF Lists, marks, a
<1>11. Lists(sounds, "audio", files, n)
  <2>1. ASSUME NEW k \in 1..n, marks[k] = "audio"
        PROVE  Rank(marks, "audio", k) \in 1..b /\ sounds[Rank(marks, "audio", k)] = files[k]
    <3>1. k \in (a + 1)..n
      <4>1. k \in 1..a \/ k \in (a + 1)..n
        BY <1>2
      <4>. QED  BY <1>4, <2>1, <4>1
    <3>. QED  BY <1>5, <1>7, <3>1
  <2>. QED  BY <1>1, <1>9, <2>1 DEF Lists, marks, b
<1>. QED  BY <1>2, <1>10, <1>11 DEF files, n

(* Ranks among two marks.                                                  *)
LEMMA RankGrows ==
  ASSUME NEW marks, NEW mark, NEW k \in Nat, NEW j \in 0..k
  PROVE  Rank(marks, mark, j) <= Rank(marks, mark, k)
<1>1. IsFiniteSet({i \in 1..k : marks[i] = mark})
  BY RankIs
<1>2. {i \in 1..j : marks[i] = mark} \in SUBSET {i \in 1..k : marks[i] = mark}
  OBVIOUS
<1>. QED  BY <1>1, <1>2, FS_Subset DEF Rank

(* Up to any place, the markers of one kind and of the other are all there *)
(* are.                                                                    *)
LEMMA RankSplit ==
  ASSUME NEW marks, NEW n \in Nat, \A i \in 1..n : marks[i] \in {"image", "audio"}
  PROVE  Rank(marks, "image", n) + Rank(marks, "audio", n) = n
<1>. DEFINE Sum(m) == Rank(marks, "image", m) + Rank(marks, "audio", m)
            Good == {m \in 0..n : Sum(m) = m}
<1>1. n \in 0..n /\ 0 \in 0..n
  OBVIOUS
<1>2. 0 \in Good
  <2>1. Rank(marks, "image", 0) = 0 /\ Rank(marks, "audio", 0) = 0
    BY RankIs
  <2>. QED  BY <1>1, <2>1
<1>3. ASSUME NEW m \in 1..n, m - 1 \in Good PROVE m \in Good
  <2>1. m \in Nat \ {0} /\ m - 1 \in Nat /\ m \in 0..n /\ Sum(m - 1) = m - 1
    BY <1>3
  <2>2. /\ Rank(marks, "image", m - 1) \in Nat /\ Rank(marks, "audio", m - 1) \in Nat
    BY <2>1, RankIs
  <2>3. Rank(marks, "image", m) = IF marks[m] = "image" THEN Rank(marks, "image", m - 1) + 1
                                                        ELSE Rank(marks, "image", m - 1)
    BY <2>1, RankNext
  <2>4. Rank(marks, "audio", m) = IF marks[m] = "audio" THEN Rank(marks, "audio", m - 1) + 1
                                                        ELSE Rank(marks, "audio", m - 1)
    BY <2>1, RankNext
  <2>5. Sum(m) = m
    BY <2>1, <2>2, <2>3, <2>4
  <2>. QED  BY <2>1, <2>5
<1>4. \A m \in 0..n : m \in Good
  <2>. HIDE DEF Good
  <2>. QED  BY <1>2, <1>3, Counted
<1>. QED  BY <1>1, <1>4

-----------------------------------------------------------------------------
(* The vision-language handle.                                             *)

Sizes == [cells : 0..Window, positions : 0..Window]

(* Each marker names the kind of the file it stands for.                   *)
Tagged == shown = Kinds(meant)

VisionPlaced ==
  /\ seeing \in {"closed", "idle", "ordered", "loaded", "decoding"}
  /\ placed = <<>> \/ placed \in {"gpu", "cpu"} \X {"gpu", "cpu"}
  /\ sees \subseteq {"image", "audio"}
  /\ Vision!ProjectorBesideText

(* The two lists are the request's files, kind by kind.                    *)
VisionListed ==
  /\ shown \in Seq(Vision!Tag)
  /\ meant \in Seq(Vision!File) /\ bound \in Seq(Vision!File)
  /\ Lists(images, "image", meant, Len(meant)) /\ Lists(audios, "audio", meant, Len(meant))

(* The files found so far are those that the markers mean.                 *)
VisionBound ==
  /\ seeing \in {"closed", "idle"} => bound = <<>>
  /\ seeing = "ordered" =>
       /\ Vision!Fits /\ Len(bound) <= Len(Vision!MediaOrder)
       /\ Tagged => \A i \in 1..Len(bound) : bound[i] = meant[i]
  /\ seeing \in {"loaded", "decoding"} => (Tagged => bound = meant)

(* The memory, from one phase of a request to the next.                    *)
VisionRemembers ==
  /\ memory \in Sizes /\ visionPast = memory.positions
  /\ generated \in 0..ReplyTokens
  /\ seeing # "decoding" => generated = 0
  /\ seeing \in {"ordered", "loaded"} => memory = Vision!Empty
  /\ seeing = "loaded" => Vision!PromptPositions <= Window
  /\ seeing = "decoding" => generated < ReplyTokens
  /\ Vision!OnlyThisRequest

VisionInv == VisionPlaced /\ VisionListed /\ VisionBound /\ VisionRemembers

LEMMA VisionNumbers ==
  /\ TextTokens \in Nat \ {0} /\ Window \in Nat \ {0} /\ ReplyTokens \in Nat \ {0}
  /\ Vision!Empty \in Sizes
BY BackendsAssumption DEF Vision!VlmAssumption, Vision!Empty, Sizes

LEMMA PromptIs ==
  ASSUME bound \in Seq(Vision!File)
  PROVE  Vision!PromptCells \in Nat /\ Vision!PromptPositions \in Nat
<1>1. Cells \in [Vision!File -> Nat] /\ Positions \in [Vision!File -> Nat]
  BY BackendsAssumption DEF Vision!VlmAssumption
<1>2. Vision!SumOver(bound, Cells) \in Nat /\ Vision!SumOver(bound, Positions) \in Nat
  BY <1>1, SumIs
<1>. QED  BY <1>2, VisionNumbers DEF Vision!PromptCells, Vision!PromptPositions

(* The kinds of the files that the markers take, in their order.           *)
LEMMA OrderIs ==
  ASSUME VisionListed, Vision!Fits
  PROVE  /\ Len(Vision!MediaOrder) \in Nat
         /\ \A i \in 1..Len(Vision!MediaOrder) : Vision!MediaOrder[i] \in {"image", "audio"}
         /\ Rank(Vision!MediaOrder, "image", Len(Vision!MediaOrder)) = Len(images)
         /\ Rank(Vision!MediaOrder, "audio", Len(Vision!MediaOrder)) = Len(audios)
<1>. DEFINE a == Len(images)
            b == Len(audios)
            marks == Vision!Markers
            order == Vision!MediaOrder
<1>1. /\ a \in Nat /\ b \in Nat
  <2>1. images \in Seq(Vision!File) /\ audios \in Seq(Vision!File)
    BY DEF VisionListed, Lists
  <2>. QED  BY <2>1
<1>2. marks \in Seq(Vision!Tag) /\ Len(marks) = a + b
  <2>1. CASE shown = <<>>
    <3>1. marks = [i \in 1..(a + b) |-> "generic"]
      BY <2>1 DEF Vision!Markers
    <3>2. a + b \in Nat /\ "generic" \in Vision!Tag
      BY <1>1 DEF Vision!Tag
    <3>. HIDE DEF marks, a, b
    <3>. QED  BY <3>1, <3>2
  <2>2. CASE shown # <<>>
    <3>1. marks = shown
      BY <2>2 DEF Vision!Markers
    <3>. QED  BY <3>1 DEF VisionListed, Vision!Fits
  <2>. QED  BY <2>1, <2>2
<1>3. Len(order) = a + b /\ \A i \in 1..(a + b) : order[i] \in {"image", "audio"}
  <2>1. CASE Vision!Count("generic", marks) = Len(marks)
    <3>. DEFINE p == [i \in 1..a |-> "image"]
                s == [i \in 1..b |-> "audio"]
    <3>1. order = p \o s
      BY <2>1 DEF Vision!MediaOrder
    <3>2. p \in Seq({"image", "audio"}) /\ Len(p) = a
      BY <1>1
    <3>3. s \in Seq({"image", "audio"}) /\ Len(s) = b
      BY <1>1
    <3>. HIDE DEF p, s, a, b, order
    <3>4. p \o s \in Seq({"image", "audio"}) /\ Len(p \o s) = a + b
      BY <3>2, <3>3
    <3>. QED  BY <1>1, <3>1, <3>4
  <2>2. CASE Vision!Count("generic", marks) # Len(marks)
    <3>1. order = marks
      BY <2>2 DEF Vision!MediaOrder
    <3>2. Vision!Count("generic", marks) = 0
      BY <2>2 DEF Vision!Fits
    <3>. HIDE DEF marks, a, b, order
    <3>3. DOMAIN marks = 1..(a + b)
      BY <1>2
    <3>4. Rank(marks, "generic", a + b) = 0
      BY <3>2, <3>3, SameCardinality DEF Rank, Vision!Count
    <3>5. {i \in 1..(a + b) : marks[i] = "generic"} = {}
      <4>1. IsFiniteSet({i \in 1..(a + b) : marks[i] = "generic"})
        <5>1. a + b \in Nat
          BY <1>1
        <5>. QED  BY <5>1, RankFinite
      <4>. QED  BY <3>4, <4>1, FS_EmptySet DEF Rank
    <3>6. \A i \in 1..(a + b) : marks[i] \in Vision!Tag
      BY <1>2
    <3>. QED  BY <1>2, <3>1, <3>5, <3>6 DEF Vision!Tag
  <2>. QED  BY <2>1, <2>2
<1>4. DOMAIN order = 1..(a + b)
  <2>1. CASE Vision!Count("generic", marks) = Len(marks)
    <3>. DEFINE p == [i \in 1..a |-> "image"]
                s == [i \in 1..b |-> "audio"]
    <3>1. order = p \o s
      BY <2>1 DEF Vision!MediaOrder
    <3>2. p \in Seq({"image", "audio"}) /\ Len(p) = a
      BY <1>1
    <3>3. s \in Seq({"image", "audio"}) /\ Len(s) = b
      BY <1>1
    <3>. HIDE DEF p, s, a, b, order
    <3>4. p \o s \in Seq({"image", "audio"}) /\ Len(p \o s) = a + b
      BY <3>2, <3>3
    <3>. QED  BY <3>1, <3>4
  <2>2. CASE Vision!Count("generic", marks) # Len(marks)
    <3>1. order = marks
      BY <2>2 DEF Vision!MediaOrder
    <3>. HIDE DEF marks, a, b, order
    <3>. QED  BY <1>2, <3>1
  <2>. QED  BY <2>1, <2>2
<1>5. Rank(order, "image", a + b) = a
  <2>1. Vision!Count("image", order) = a
    BY DEF Vision!Fits
  <2>. HIDE DEF a, b, order
  <2>. QED  BY <1>4, <2>1, SameCardinality DEF Rank, Vision!Count
<1>6. Rank(order, "audio", a + b) = b
  <2>. HIDE DEF a, b, order
  <2>1. a + b \in Nat
    BY <1>1
  <2>2. Rank(order, "image", a + b) + Rank(order, "audio", a + b) = a + b
    BY <1>3, <2>1, RankSplit
  <2>3. Rank(order, "audio", a + b) \in Nat
    BY <2>1, RankIs
  <2>. QED  BY <1>1, <1>5, <2>2, <2>3
<1>7. a + b \in Nat
  BY <1>1
<1>. QED  BY <1>3, <1>5, <1>6, <1>7

(* Tagged markers are taken as they come.                                  *)
LEMMA TaggedOrder ==
  ASSUME VisionListed, Tagged, Vision!Fits
  PROVE  Vision!MediaOrder = Kinds(meant)
<1>1. Len(meant) \in Nat /\ DOMAIN Kinds(meant) = 1..Len(meant) /\ Len(Kinds(meant)) = Len(meant)
  BY DEF VisionListed, Kinds
<1>2. CASE shown = <<>>
  <2>1. Len(meant) = 0
    BY <1>1, <1>2 DEF Tagged
  <2>2. Len(Vision!MediaOrder) = 0
    <3>1. Len(images) = 0 /\ Len(audios) = 0
      BY <2>1, RankIs DEF VisionListed, Lists
    <3>2. Vision!Markers = <<>>
      BY <1>2, <3>1 DEF Vision!Markers
    <3>3. Vision!Count("generic", Vision!Markers) = 0
      BY <3>2, SameCardinality, FS_EmptySet DEF Vision!Count
    <3>. QED  BY <3>1, <3>2, <3>3 DEF Vision!MediaOrder
  <2>3. Vision!MediaOrder = <<>>
    <3>1. Len(images) = 0 /\ Len(audios) = 0
      BY <2>1, RankIs DEF VisionListed, Lists
    <3>2. Vision!Markers = <<>>
      BY <1>2, <3>1 DEF Vision!Markers
    <3>. QED  BY <3>1, <3>2 DEF Vision!MediaOrder
  <2>. QED  BY <1>2, <2>3 DEF Tagged
<1>3. CASE shown # <<>>
  <2>1. Vision!Markers = shown /\ shown = Kinds(meant) /\ Len(meant) # 0
    BY <1>1, <1>3 DEF Vision!Markers, Tagged, VisionListed
  <2>2. \A i \in DOMAIN Kinds(meant) : Kinds(meant)[i] # "generic"
    BY <1>1 DEF Kinds, Vision!KindOf
  <2>3. Vision!Count("generic", Kinds(meant)) = 0
    <3>1. {i \in DOMAIN Kinds(meant) : Kinds(meant)[i] = "generic"} = {}
      BY <2>2
    <3>. QED  BY <3>1, SameCardinality, FS_EmptySet DEF Vision!Count
  <2>. QED  BY <1>1, <2>1, <2>3 DEF Vision!MediaOrder
<1>. QED  BY <1>2, <1>3

(* The next marker has a file, and it is the one that it means.            *)
LEMMA NextIs ==
  ASSUME VisionListed, Vision!Fits, Len(bound) < Len(Vision!MediaOrder)
  PROVE  /\ Vision!NextFile \in Vision!File
         /\ Tagged => Len(bound) + 1 \in 1..Len(meant) /\ Vision!NextFile = meant[Len(bound) + 1]
<1>. DEFINE order == Vision!MediaOrder
            n == Len(order)
            k == Len(bound) + 1
<1>1. /\ n \in Nat /\ \A i \in 1..n : order[i] \in {"image", "audio"}
      /\ Rank(order, "image", n) = Len(images) /\ Rank(order, "audio", n) = Len(audios)
  BY OrderIs
<1>2. k \in 1..n /\ k \in Nat \ {0} /\ k - 1 = Len(bound) /\ k \in 0..n
  <2>1. Len(bound) \in Nat
    BY DEF VisionListed
  <2>. QED  BY <1>1, <2>1
<1>. HIDE DEF order, n, k
<1>3. ASSUME NEW kind, order[k] = kind
      PROVE  /\ Vision!Taken(kind) + 1 = Rank(order, kind, k)
             /\ Rank(order, kind, k) \in 1..Rank(order, kind, n)
  <2>1. Vision!Taken(kind) = Rank(order, kind, k - 1)
    BY <1>2, SameCardinality DEF Vision!Taken, Rank, order
  <2>2. Rank(order, kind, k) = Rank(order, kind, k - 1) + 1
    BY <1>2, <1>3, RankNext
  <2>3. Rank(order, kind, k - 1) \in Nat /\ Rank(order, kind, n) \in Nat
    <3>1. k - 1 \in Nat
      BY <1>2
    <3>. QED  BY <1>1, <3>1, RankIs
  <2>4. Rank(order, kind, k) <= Rank(order, kind, n)
    BY <1>1, <1>2, RankGrows
  <2>. QED  BY <2>1, <2>2, <2>3, <2>4
<1>4. ASSUME Tagged PROVE order = Kinds(meant) /\ n = Len(meant)
  <2>1. order = Kinds(meant)
    BY <1>4, TaggedOrder DEF order
  <2>2. Len(Kinds(meant)) = Len(meant)
    BY DEF VisionListed, Kinds
  <2>. QED  BY <2>1, <2>2 DEF n
<1>5. /\ images \in Seq(Vision!File) /\ audios \in Seq(Vision!File)
      /\ \A i \in 1..Len(meant) : Kinds(meant)[i] = "image" =>
           images[Rank(Kinds(meant), "image", i)] = meant[i]
      /\ \A i \in 1..Len(meant) : Kinds(meant)[i] = "audio" =>
           audios[Rank(Kinds(meant), "audio", i)] = meant[i]
  BY DEF VisionListed, Lists
<1>6. CASE order[k] = "image"
  <2>1. Vision!NextFile = images[Rank(order, "image", k)]
    BY <1>3, <1>6 DEF Vision!NextFile, order, k
  <2>2. Rank(order, "image", k) \in 1..Len(images)
    BY <1>1, <1>3, <1>6
  <2>3. Vision!NextFile \in Vision!File
    BY <1>5, <2>1, <2>2
  <2>4. ASSUME Tagged PROVE k \in 1..Len(meant) /\ Vision!NextFile = meant[k]
    <3>1. k \in 1..Len(meant) /\ Kinds(meant)[k] = "image"
      BY <1>2, <1>4, <1>6, <2>4
    <3>2. images[Rank(Kinds(meant), "image", k)] = meant[k]
      BY <1>5, <3>1
    <3>. QED  BY <1>4, <2>1, <2>4, <3>1, <3>2
  <2>. QED  BY <2>3, <2>4 DEF k
<1>7. CASE order[k] = "audio"
  <2>1. Vision!NextFile = audios[Rank(order, "audio", k)]
    BY <1>3, <1>7 DEF Vision!NextFile, order, k
  <2>2. Rank(order, "audio", k) \in 1..Len(audios)
    BY <1>1, <1>3, <1>7
  <2>3. Vision!NextFile \in Vision!File
    BY <1>5, <2>1, <2>2
  <2>4. ASSUME Tagged PROVE k \in 1..Len(meant) /\ Vision!NextFile = meant[k]
    <3>1. k \in 1..Len(meant) /\ Kinds(meant)[k] = "audio"
      BY <1>2, <1>4, <1>7, <2>4
    <3>2. audios[Rank(Kinds(meant), "audio", k)] = meant[k]
      BY <1>5, <3>1
    <3>. QED  BY <1>4, <2>1, <2>4, <3>1, <3>2
  <2>. QED  BY <2>3, <2>4 DEF k
<1>. QED  BY <1>1, <1>2, <1>6, <1>7

LEMMA VisionInit == Vision!Init => VisionInv
<1>. SUFFICES ASSUME Vision!Init PROVE VisionInv
  OBVIOUS
<1>1. VisionPlaced
  BY DEF Vision!Init, VisionPlaced, Vision!ProjectorBesideText
<1>2. VisionListed
  <2>1. Len(meant) = 0
    BY DEF Vision!Init
  <2>2. Lists(images, "image", meant, Len(meant)) /\ Lists(audios, "audio", meant, Len(meant))
    BY <2>1, ListsNone DEF Vision!Init
  <2>. QED  BY <2>2 DEF Vision!Init, VisionListed
<1>3. VisionBound
  BY DEF Vision!Init, VisionBound
<1>4. VisionRemembers
  BY VisionNumbers DEF Vision!Init, VisionRemembers, Vision!OnlyThisRequest, Vision!Empty
<1>. QED  BY <1>1, <1>2, <1>3, <1>4 DEF VisionInv

(* The places of the two models change in create() alone.                  *)
LEMMA SamePlace ==
  ASSUME VisionPlaced, UNCHANGED <<placed, sees>>,
         seeing' \in {"closed", "idle", "ordered", "loaded", "decoding"}
  PROVE  VisionPlaced'
BY DEF VisionPlaced, Vision!ProjectorBesideText

LEMMA SameRequest ==
  ASSUME UNCHANGED <<shown, meant, images, audios>>
  PROVE  /\ Tagged' <=> Tagged
         /\ Vision!MediaOrder' = Vision!MediaOrder
         /\ VisionListed /\ bound' \in Seq(Vision!File) => VisionListed'
         /\ sees' = sees => (Vision!Fits' <=> Vision!Fits)
<1>1. Tagged' <=> Tagged
  BY DEF Tagged
<1>2. Vision!Markers' = Vision!Markers
  BY DEF Vision!Markers
<1>3. Vision!MediaOrder' = Vision!MediaOrder
  BY <1>2 DEF Vision!MediaOrder
<1>4. VisionListed /\ bound' \in Seq(Vision!File) => VisionListed'
  BY DEF VisionListed
<1>5. sees' = sees => (Vision!Fits' <=> Vision!Fits)
  BY <1>2, <1>3 DEF Vision!Fits
<1>. QED  BY <1>1, <1>3, <1>4, <1>5

(* A handle that serves no request holds none of its files.                *)
LEMMA VisionRests ==
  ASSUME VisionPlaced', seeing' \in {"closed", "idle"}, VisionListed', bound' = <<>>,
         memory' \in Sizes, visionPast' = memory'.positions, generated' = 0
  PROVE  VisionInv'
<1>1. VisionBound'
  BY DEF VisionBound
<1>2. VisionRemembers'
  BY VisionNumbers DEF VisionRemembers, Vision!OnlyThisRequest
<1>. QED  BY <1>1, <1>2 DEF VisionInv

LEMMA VisionReturns ==
  ASSUME VisionInv, NEW why, Vision!Return(why),
         memory' \in Sizes, visionPast' = memory'.positions
  PROVE  VisionInv'
<1>1. /\ seeing' = "idle" /\ shown' = <<>> /\ meant' = <<>> /\ images' = <<>> /\ audios' = <<>>
      /\ bound' = <<>> /\ generated' = 0 /\ UNCHANGED <<placed, sees>>
  BY DEF Vision!Return, Vision!handle
<1>2. VisionPlaced'
  BY <1>1, SamePlace DEF VisionInv
<1>3. VisionListed'
  <2>1. Len(meant') = 0
    BY <1>1
  <2>2. Lists(<<>>, "image", <<>>, 0) /\ Lists(<<>>, "audio", <<>>, 0)
    BY ListsNone
  <2>3. Lists(images, "image", meant, Len(meant))' /\ Lists(audios, "audio", meant, Len(meant))'
    BY <1>1, <2>1, <2>2 DEF Lists, Rank, Kinds
  <2>. QED  BY <1>1, <2>3 DEF VisionListed
<1>. QED  BY <1>1, <1>2, <1>3, VisionRests

LEMMA VisionCreate == VisionInv /\ Vision!Create => VisionInv'
<1>. SUFFICES ASSUME VisionInv, Vision!Create PROVE VisionInv'
  OBVIOUS
<1>1. /\ seeing = "closed" /\ seeing' = "idle"
      /\ UNCHANGED <<memory, visionPast, shown, meant, images, audios, bound, generated>>
  BY DEF Vision!Create, Vision!request
<1>2. VisionPlaced'
  BY <1>1 DEF VisionPlaced, Vision!Create, Vision!ProjectorPlaces, Vision!ProjectorBesideText
<1>3. VisionListed'
  BY <1>1, SameRequest DEF VisionInv, VisionListed
<1>. QED
  BY <1>1, <1>2, <1>3, VisionRests DEF VisionInv, VisionBound, VisionRemembers

LEMMA VisionReset == VisionInv /\ Vision!Reset => VisionInv'
<1>. SUFFICES ASSUME VisionInv, Vision!Reset PROVE VisionInv'
  OBVIOUS
<1>1. /\ seeing = "idle" /\ seeing' = "idle" /\ memory' = Vision!Empty /\ visionPast' = 0
      /\ UNCHANGED <<placed, sees, shown, meant, images, audios, bound, generated>>
  BY DEF Vision!Reset, Vision!request, Vision!handle
<1>2. VisionPlaced'
  BY <1>1, SamePlace DEF VisionInv
<1>3. VisionListed'
  BY <1>1, SameRequest DEF VisionInv, VisionListed
<1>4. memory' \in Sizes /\ visionPast' = memory'.positions
  BY <1>1, VisionNumbers DEF Vision!Empty
<1>. QED
  BY <1>1, <1>2, <1>3, <1>4, VisionRests DEF VisionInv, VisionBound, VisionRemembers

(* The template writes a marker for each file, of its kind, in order.      *)
LEMMA VisionTemplate ==
  ASSUME VisionInv, NEW items \in Seq(Vision!File),
         Vision!Template(items) \/ Vision!TemplateRefused(items)
  PROVE  VisionInv'
<1>1. /\ seeing = "idle" /\ seeing' = "idle"
      /\ UNCHANGED <<placed, sees, memory, visionPast, bound, generated>>
  BY DEF Vision!Template, Vision!TemplateRefused, Vision!handle
<1>2. VisionPlaced'
  BY <1>1, SamePlace DEF VisionInv
<1>3. bound' = <<>> /\ memory' \in Sizes /\ visionPast' = memory'.positions /\ generated' = 0
  BY <1>1 DEF VisionInv, VisionBound, VisionRemembers
<1>4. CASE Vision!Template(items)
  <2>1. /\ shown' = [i \in DOMAIN items |-> Vision!KindOf(items[i])] /\ meant' = items
        /\ images' = Vision!Of("image", items) /\ audios' = Vision!Of("audio", items)
    BY <1>4 DEF Vision!Template
  <2>2. shown' \in Seq(Vision!Tag)
    <3>1. Len(items) \in Nat /\ DOMAIN items = 1..Len(items)
      OBVIOUS
    <3>2. \A i \in 1..Len(items) : Vision!KindOf(items[i]) \in Vision!Tag
      BY DEF Vision!KindOf, Vision!Tag
    <3>. QED  BY <2>1, <3>1, <3>2
  <2>3. /\ Lists(images', "image", items, Len(items))
        /\ Lists(audios', "audio", items, Len(items))
    BY <2>1, OfIs
  <2>4. Lists(images, "image", meant, Len(meant))' /\ Lists(audios, "audio", meant, Len(meant))'
    BY <2>1, <2>3
  <2>5. VisionListed'
    BY <1>3, <2>1, <2>2, <2>4 DEF VisionListed
  <2>. QED  BY <1>1, <1>2, <1>3, <2>5, VisionRests
<1>5. CASE Vision!TemplateRefused(items)
  <2>1. UNCHANGED <<shown, meant, images, audios>>
    BY <1>5 DEF Vision!TemplateRefused, Vision!request
  <2>2. VisionListed'
    BY <1>1, <2>1, SameRequest DEF VisionInv, VisionListed
  <2>. QED  BY <1>1, <1>2, <1>3, <2>2, VisionRests
<1>. QED  BY <1>4, <1>5

LEMMA VisionHandWritten ==
  ASSUME VisionInv, NEW pictures \in Seq(Image), NEW sounds \in Seq(Audio),
         NEW tags \in Seq(Vision!Tag), Vision!HandWritten(pictures, sounds, tags)
  PROVE  VisionInv'
<1>1. /\ seeing = "idle" /\ seeing' = "idle" /\ shown' = tags
      /\ images' = pictures /\ audios' = sounds /\ meant' = pictures \o sounds
      /\ UNCHANGED <<placed, sees, memory, visionPast, bound, generated>>
  BY DEF Vision!HandWritten, Vision!handle
<1>2. VisionPlaced'
  BY <1>1, SamePlace DEF VisionInv
<1>3. bound' = <<>> /\ memory' \in Sizes /\ visionPast' = memory'.positions /\ generated' = 0
  BY <1>1 DEF VisionInv, VisionBound, VisionRemembers
<1>4. /\ pictures \o sounds \in Seq(Vision!File)
      /\ Lists(pictures, "image", pictures \o sounds, Len(pictures \o sounds))
      /\ Lists(sounds, "audio", pictures \o sounds, Len(pictures \o sounds))
  BY JoinedLists
<1>5. Lists(images, "image", meant, Len(meant))' /\ Lists(audios, "audio", meant, Len(meant))'
  BY <1>1, <1>4
<1>6. VisionListed'
  BY <1>1, <1>3, <1>4, <1>5 DEF VisionListed
<1>. QED  BY <1>1, <1>2, <1>3, <1>6, VisionRests

LEMMA VisionAsk == VisionInv /\ Vision!Ask => VisionInv'
<1>. SUFFICES ASSUME VisionInv, Vision!Ask PROVE VisionInv'
  OBVIOUS
<1>1. seeing = "idle" /\ memory' = Vision!Empty /\ visionPast' = 0
  BY DEF Vision!Ask, Vision!StartOver
<1>2. memory' \in Sizes /\ visionPast' = memory'.positions
  BY <1>1, VisionNumbers DEF Vision!Empty
<1>3. CASE Vision!Fits
  <2>1. /\ seeing' = "ordered"
        /\ UNCHANGED <<placed, sees, shown, meant, images, audios, bound, generated>>
    BY <1>3 DEF Vision!Ask, Vision!request, Vision!handle
  <2>2. VisionPlaced'
    BY <2>1, SamePlace DEF VisionInv
  <2>3. bound = <<>> /\ bound' = <<>> /\ generated' = 0
    BY <1>1, <2>1 DEF VisionInv, VisionBound, VisionRemembers
  <2>4. VisionListed' /\ Vision!Fits' /\ Vision!MediaOrder' = Vision!MediaOrder
    BY <1>3, <2>1, <2>3, SameRequest DEF VisionInv
  <2>5. VisionBound'
    <3>1. Len(bound') = 0 /\ Len(bound') <= Len(Vision!MediaOrder')
      BY <1>3, <2>3, <2>4, OrderIs DEF VisionInv
    <3>. QED  BY <2>1, <2>4, <3>1 DEF VisionBound
  <2>6. VisionRemembers'
    BY <1>1, <1>2, <2>1, <2>3, VisionNumbers DEF VisionRemembers, Vision!OnlyThisRequest, Vision!Empty
  <2>. QED  BY <2>2, <2>4, <2>5, <2>6 DEF VisionInv
<1>4. CASE ~Vision!Fits
  <2>1. Vision!Return("invalid_input")
    BY <1>4 DEF Vision!Ask
  <2>. QED  BY <1>2, <2>1, VisionReturns
<1>. QED  BY <1>3, <1>4

(* The next file of its list is the one that the marker means.             *)
LEMMA VisionLoadNext == VisionInv /\ Vision!LoadNext => VisionInv'
<1>. SUFFICES ASSUME VisionInv, Vision!LoadNext PROVE VisionInv'
  OBVIOUS
<1>1. /\ seeing = "ordered" /\ Len(bound) < Len(Vision!MediaOrder) /\ Vision!Fits
      /\ UNCHANGED <<memory, visionPast>>
  BY DEF VisionInv, VisionBound, Vision!LoadNext
<1>2. memory' \in Sizes /\ visionPast' = memory'.positions
  BY <1>1 DEF VisionInv, VisionRemembers
<1>3. CASE Vision!NextFile \in Unreadable \cup Broken \cup Video \cup Swapped
  <2>1. Vision!Return("media")
    BY <1>3 DEF Vision!LoadNext
  <2>. QED  BY <1>2, <2>1, VisionReturns
<1>4. CASE Vision!NextFile \notin Unreadable \cup Broken \cup Video \cup Swapped
  <2>1. /\ bound' = Append(bound, Vision!NextFile) /\ seeing' = "ordered"
        /\ UNCHANGED <<placed, sees, shown, meant, images, audios, generated>>
    BY <1>1, <1>4 DEF Vision!LoadNext, Vision!request, Vision!handle
  <2>2. VisionPlaced'
    BY <2>1, SamePlace DEF VisionInv
  <2>3. /\ Vision!NextFile \in Vision!File
        /\ Tagged => Len(bound) + 1 \in 1..Len(meant) /\ Vision!NextFile = meant[Len(bound) + 1]
    BY <1>1, NextIs DEF VisionInv
  <2>4. /\ bound \in Seq(Vision!File) /\ Len(bound) \in Nat /\ bound' \in Seq(Vision!File)
        /\ Len(bound') = Len(bound) + 1 /\ bound'[Len(bound) + 1] = Vision!NextFile
        /\ \A i \in 1..Len(bound) : bound'[i] = bound[i]
    <3>1. bound \in Seq(Vision!File)
      BY DEF VisionInv, VisionListed
    <3>2. Len(bound) \in Nat
      BY <3>1
    <3>3. bound' \in Seq(Vision!File)
      BY <2>1, <2>3, <3>1
    <3>4. Len(bound') = Len(bound) + 1 /\ bound'[Len(bound) + 1] = Vision!NextFile
      BY <2>1, <3>1
    <3>5. \A i \in 1..Len(bound) : bound'[i] = bound[i]
      BY <2>1, <3>1
    <3>. QED  BY <3>1, <3>2, <3>3, <3>4, <3>5
  <2>5. /\ VisionListed' /\ Vision!Fits' /\ Vision!MediaOrder' = Vision!MediaOrder
        /\ (Tagged' <=> Tagged)
    BY <1>1, <2>1, <2>4, SameRequest DEF VisionInv
  <2>6. VisionBound'
    <3>1. Len(bound') <= Len(Vision!MediaOrder')
      BY <1>1, <2>4, <2>5, OrderIs DEF VisionInv
    <3>2. ASSUME Tagged, NEW i \in 1..Len(bound') PROVE bound'[i] = meant'[i]
      <4>1. CASE i = Len(bound) + 1
        BY <2>1, <2>3, <2>4, <3>2, <4>1
      <4>2. CASE i # Len(bound) + 1
        <5>1. i \in 1..Len(bound)
          BY <2>4, <4>2
        <5>2. bound[i] = meant[i]
          BY <1>1, <3>2, <5>1 DEF VisionInv, VisionBound
        <5>. QED  BY <2>1, <2>4, <5>1, <5>2
      <4>. QED  BY <4>1, <4>2
    <3>. QED  BY <2>1, <2>5, <3>1, <3>2 DEF VisionBound
  <2>7. VisionRemembers'
    BY <1>1, <1>2, <2>1 DEF VisionInv, VisionRemembers, Vision!OnlyThisRequest, Vision!Empty
  <2>. QED  BY <2>2, <2>5, <2>6, <2>7 DEF VisionInv
<1>. QED  BY <1>3, <1>4

(* What is computed of the files that were found.                          *)
LEMMA SamePrompt ==
  ASSUME UNCHANGED bound
  PROVE  Vision!PromptCells' = Vision!PromptCells /\ Vision!PromptPositions' = Vision!PromptPositions
BY DEF Vision!PromptCells, Vision!PromptPositions

LEMMA VisionTokenize == VisionInv /\ Vision!Tokenize => VisionInv'
<1>. SUFFICES ASSUME VisionInv, Vision!Tokenize PROVE VisionInv'
  OBVIOUS
<1>1. /\ seeing = "ordered" /\ Len(bound) = Len(Vision!MediaOrder) /\ Vision!Fits
      /\ UNCHANGED <<memory, visionPast>>
  BY DEF VisionInv, VisionBound, Vision!Tokenize
<1>2. memory' \in Sizes /\ visionPast' = memory'.positions
  BY <1>1 DEF VisionInv, VisionRemembers
<1>3. CASE \E why : Vision!Return(why)
  BY <1>2, <1>3, VisionReturns
<1>4. CASE /\ Vision!PromptPositions <= Window /\ seeing' = "loaded"
           /\ UNCHANGED <<placed, sees, shown, meant, images, audios, bound, generated>>
  <2>1. VisionPlaced'
    BY <1>4, SamePlace DEF VisionInv
  <2>2. VisionListed' /\ (Tagged' <=> Tagged)
    BY <1>4, SameRequest DEF VisionInv, VisionListed
  <2>3. VisionBound'
    <3>1. ASSUME Tagged PROVE bound = meant
      <4>1. Vision!MediaOrder = Kinds(meant)
        BY <1>1, <3>1, TaggedOrder DEF VisionInv
      <4>2. Len(bound) = Len(meant) /\ bound \in Seq(Vision!File) /\ meant \in Seq(Vision!File)
        BY <1>1, <4>1 DEF VisionInv, VisionListed, Kinds
      <4>3. \A i \in 1..Len(bound) : bound[i] = meant[i]
        BY <1>1, <3>1 DEF VisionInv, VisionBound
      <4>. QED  BY <4>2, <4>3
    <3>. QED  BY <1>4, <2>2, <3>1 DEF VisionBound
  <2>4. VisionRemembers'
    BY <1>1, <1>2, <1>4, SamePrompt DEF VisionInv, VisionRemembers, Vision!OnlyThisRequest, Vision!Empty
  <2>. QED  BY <2>1, <2>2, <2>3, <2>4 DEF VisionInv
<1>. QED  BY <1>3, <1>4 DEF Vision!Tokenize, Vision!request, Vision!handle

LEMMA VisionEvaluate == VisionInv /\ Vision!Evaluate => VisionInv'
<1>. SUFFICES ASSUME VisionInv, Vision!Evaluate PROVE VisionInv'
  OBVIOUS
<1>1. /\ seeing = "loaded" /\ seeing' = "decoding" /\ Vision!PromptCells <= Window
      /\ memory' = [cells     |-> memory.cells + Vision!PromptCells,
                    positions |-> memory.positions + Vision!PromptPositions]
      /\ visionPast' = Vision!PromptPositions
      /\ UNCHANGED <<placed, sees, shown, meant, images, audios, bound, generated>>
  BY DEF Vision!Evaluate, Vision!request, Vision!handle
<1>2. VisionPlaced'
  BY <1>1, SamePlace DEF VisionInv
<1>3. VisionListed' /\ (Tagged' <=> Tagged)
  BY <1>1, SameRequest DEF VisionInv, VisionListed
<1>4. VisionBound'
  BY <1>1, <1>3 DEF VisionInv, VisionBound
<1>5. /\ memory.cells = 0 /\ memory.positions = 0 /\ generated = 0
      /\ Vision!PromptPositions <= Window
  BY <1>1 DEF VisionInv, VisionRemembers, Vision!Empty
<1>6. Vision!PromptCells \in Nat /\ Vision!PromptPositions \in Nat
  BY PromptIs DEF VisionInv, VisionListed
<1>7. memory' = [cells |-> Vision!PromptCells + 0, positions |-> Vision!PromptPositions + 0]
  BY <1>1, <1>5, <1>6
<1>8. VisionRemembers'
  <2>1. Vision!PromptCells \in 0..Window /\ Vision!PromptPositions \in 0..Window
    BY <1>1, <1>5, <1>6, VisionNumbers
  <2>2. memory' \in Sizes /\ visionPast' = memory'.positions
    BY <1>1, <1>6, <1>7, <2>1 DEF Sizes
  <2>3. Vision!OnlyThisRequest'
    BY <1>1, <1>5, <1>7, SamePrompt DEF Vision!OnlyThisRequest
  <2>. QED  BY <1>1, <1>5, <2>2, <2>3, VisionNumbers DEF VisionRemembers
<1>. QED  BY <1>2, <1>3, <1>4, <1>8 DEF VisionInv

(* One token more is one cell and one position more.                       *)
LEMMA VisionDecode == VisionInv /\ Vision!DecodeToken => VisionInv'
<1>. SUFFICES ASSUME VisionInv, Vision!DecodeToken PROVE VisionInv'
  OBVIOUS
<1>1. /\ seeing = "decoding" /\ visionPast < Window /\ memory.cells < Window
      /\ memory' = [cells |-> memory.cells + 1, positions |-> memory.positions + 1]
      /\ visionPast' = visionPast + 1
  BY DEF Vision!DecodeToken
<1>2. /\ memory.cells \in 0..Window /\ memory.positions \in 0..Window
      /\ visionPast = memory.positions /\ generated \in 0..ReplyTokens
      /\ memory = [cells     |-> Vision!PromptCells + generated,
                   positions |-> Vision!PromptPositions + generated]
  BY <1>1 DEF VisionInv, VisionRemembers, Sizes, Vision!OnlyThisRequest
<1>3. memory' \in Sizes /\ visionPast' = memory'.positions
  <2>1. memory.cells + 1 \in 0..Window /\ memory.positions + 1 \in 0..Window
    BY <1>1, <1>2, VisionNumbers
  <2>. QED  BY <1>1, <1>2, <2>1 DEF Sizes
<1>4. CASE \E why : Vision!Return(why)
  BY <1>3, <1>4, VisionReturns
<1>5. CASE /\ generated + 1 < ReplyTokens /\ generated' = generated + 1
           /\ UNCHANGED <<seeing, placed, sees, shown, meant, images, audios, bound>>
  <2>1. VisionPlaced'
    BY <1>1, <1>5, SamePlace DEF VisionInv
  <2>2. VisionListed' /\ (Tagged' <=> Tagged)
    BY <1>5, SameRequest DEF VisionInv, VisionListed
  <2>3. VisionBound'
    BY <1>1, <1>5, <2>2 DEF VisionInv, VisionBound
  <2>4. Vision!PromptCells \in Nat /\ Vision!PromptPositions \in Nat
    BY PromptIs DEF VisionInv, VisionListed
  <2>5. Vision!OnlyThisRequest'
    <3>1. /\ memory.cells = Vision!PromptCells + generated
          /\ memory.positions = Vision!PromptPositions + generated
      BY <1>2
    <3>2. /\ memory.cells + 1 = Vision!PromptCells + (generated + 1)
          /\ memory.positions + 1 = Vision!PromptPositions + (generated + 1)
      BY <1>2, <2>4, <3>1, VisionNumbers
    <3>. QED  BY <1>1, <1>5, <3>2, SamePrompt DEF Vision!OnlyThisRequest
  <2>6. VisionRemembers'
    <3>1. generated' \in 0..ReplyTokens /\ generated' < ReplyTokens
      BY <1>2, <1>5, VisionNumbers
    <3>. QED  BY <1>1, <1>3, <1>5, <2>5, <3>1 DEF VisionRemembers
  <2>. QED  BY <2>1, <2>2, <2>3, <2>6 DEF VisionInv
<1>. QED  BY <1>4, <1>5 DEF Vision!DecodeToken, Vision!request, Vision!handle

(* Whatever ends a request leaves the position the memory's.               *)
LEMMA VisionEnds ==
  ASSUME VisionInv,
         Vision!AskRefused \/ Vision!EvaluateFails \/ Vision!WindowFull \/ Vision!Ends \/ Vision!NoCell
  PROVE  VisionInv'
<1>1. CASE Vision!EvaluateFails
  <2>1. memory' = Vision!Empty /\ visionPast' = 0 /\ \E why : Vision!Return(why)
    BY <1>1 DEF Vision!EvaluateFails
  <2>2. memory' \in Sizes /\ visionPast' = memory'.positions
    BY <2>1, VisionNumbers DEF Vision!Empty
  <2>. QED  BY <2>1, <2>2, VisionReturns
<1>2. CASE Vision!AskRefused \/ Vision!WindowFull \/ Vision!Ends \/ Vision!NoCell
  <2>1. UNCHANGED <<memory, visionPast>> /\ \E why : Vision!Return(why)
    BY <1>2 DEF Vision!AskRefused, Vision!WindowFull, Vision!Ends, Vision!NoCell
  <2>2. memory' \in Sizes /\ visionPast' = memory'.positions
    BY <2>1 DEF VisionInv, VisionRemembers
  <2>. QED  BY <2>1, <2>2, VisionReturns
<1>. QED  BY <1>1, <1>2

LEMMA VisionStutters == VisionInv /\ UNCHANGED Vision!vars => VisionInv'
<1>. SUFFICES ASSUME VisionInv, UNCHANGED Vision!vars PROVE VisionInv'
  OBVIOUS
<1>1. UNCHANGED <<seeing, placed, sees, memory, visionPast, shown, meant, images, audios, bound,
                  generated>>
  BY DEF Vision!vars
<1>2. /\ VisionListed' /\ (Tagged' <=> Tagged) /\ Vision!MediaOrder' = Vision!MediaOrder
      /\ (Vision!Fits' <=> Vision!Fits)
  BY <1>1, SameRequest DEF VisionInv, VisionListed
<1>3. VisionPlaced'
  BY <1>1 DEF VisionInv, VisionPlaced, Vision!ProjectorBesideText
<1>4. VisionBound'
  BY <1>1, <1>2 DEF VisionInv, VisionBound
<1>5. VisionRemembers'
  BY <1>1, SamePrompt DEF VisionInv, VisionRemembers, Vision!OnlyThisRequest, Vision!Empty
<1>. QED  BY <1>2, <1>3, <1>4, <1>5 DEF VisionInv

(* Sequences up to a length are sequences.                                 *)
LEMMA BoundedIs ==
  ASSUME NEW S, NEW n, NEW s \in Vision!BoundedSeq(S, n)
  PROVE  s \in Seq(S)
BY DEF Vision!BoundedSeq, Vision!SeqOf

(* Every step keeps the invariant.                                         *)
LEMMA VisionStep == VisionInv /\ [Vision!Next]_(Vision!vars) => VisionInv'
<1>. SUFFICES ASSUME VisionInv, [Vision!Next]_(Vision!vars) PROVE VisionInv'
  OBVIOUS
<1>1. CASE \E items \in Vision!BoundedSeq(Vision!File, MaxMedia) :
             Vision!Template(items) \/ Vision!TemplateRefused(items)
  BY <1>1, BoundedIs, VisionTemplate
<1>2. CASE \E pictures \in Vision!BoundedSeq(Image, 1), sounds \in Vision!BoundedSeq(Audio, 1),
              tags \in Vision!BoundedSeq(Vision!Tag, MaxMedia) :
             Vision!HandWritten(pictures, sounds, tags)
  BY <1>2, BoundedIs, VisionHandWritten
<1>. QED
  BY <1>1, <1>2, VisionCreate, VisionReset, VisionAsk, VisionLoadNext, VisionTokenize,
     VisionEvaluate, VisionDecode, VisionEnds, VisionStutters
  DEF Vision!Next

LEMMA VisionShows == VisionInv => MediaMeetMarkers /\ VisionMemoryIsRequest
<1>. SUFFICES ASSUME VisionInv PROVE MediaMeetMarkers /\ VisionMemoryIsRequest
  OBVIOUS
<1>1. MediaMeetMarkers
  <2>1. [i \in DOMAIN meant |-> Vision!KindOf(meant[i])] = Kinds(meant)
    BY DEF VisionInv, VisionListed, Kinds
  <2>. QED  BY <2>1 DEF VisionInv, VisionBound, MediaMeetMarkers, Vision!MediaMeetMarkers, Tagged
<1>2. Vision!TypeOK
  <2>1. /\ memory.cells \in 0..Window /\ memory.positions \in 0..Window /\ visionPast \in 0..Window
        /\ generated \in 0..ReplyTokens
    BY DEF VisionInv, VisionRemembers, Sizes
  <2>2. /\ shown \in Seq(Vision!Tag)
        /\ {meant, images, audios, bound} \subseteq Seq(Vision!File)
    BY DEF VisionInv, VisionListed, Lists
  <2>. QED  BY <2>1, <2>2 DEF VisionInv, VisionPlaced, Vision!TypeOK
<1>3. /\ Vision!PositionMirrorsMemory /\ Vision!OnlyThisRequest /\ Vision!ProjectorBesideText
  BY DEF VisionInv, VisionPlaced, VisionRemembers, Vision!PositionMirrorsMemory
<1>. QED  BY <1>1, <1>2, <1>3 DEF VisionMemoryIsRequest

(* Of any files in any order, each marker of a prompt that the template    *)
(* wrote meets the file it was written for: the order of the media, made   *)
(* from two lists that each keep theirs, is that of the messages.  A       *)
(* refused file or prompt leaves nothing bound.                            *)
THEOREM MediaAlwaysMeetMarkers == Vision!Spec => []MediaMeetMarkers
BY VisionInit, VisionStep, VisionShows, PTL DEF Vision!Spec

(* Whatever fails, the position the handle counts is its memory's, and a   *)
(* reply is decoded with this request's tokens and media before it and     *)
(* nothing that an earlier request left; the projector is on the GPU only  *)
(* if the text model is.                                                   *)
THEOREM VisionMemoryIsAlwaysRequest == Vision!Spec => []VisionMemoryIsRequest
BY VisionInit, VisionStep, VisionShows, PTL DEF Vision!Spec

-----------------------------------------------------------------------------
(* The embedding handle of llama.cpp.  First numbers and sequences.        *)

LEMMA ProductGrows ==
  ASSUME NEW a \in Nat, NEW b \in Nat, NEW c \in Nat, NEW d \in Nat, a <= c, b <= d
  PROVE  a * b <= c * d
<1>1. a * b <= c * b
  OBVIOUS
<1>2. c * b <= c * d
  OBVIOUS
<1>. QED  BY <1>1, <1>2

LEMMA ShareOf ==
  ASSUME NEW a \in Nat, NEW b \in Nat \ {0}
  PROVE  (a * b) \div b = a
OBVIOUS

(* Places in a whole of a part of a and a part of b.                       *)
LEMMA Places ==
  ASSUME NEW a \in Nat, NEW b \in Nat
  PROVE  /\ \A p \in 1..b : a + p \in 1..(a + b)
         /\ \A x \in 1..a : x \in 1..(a + b)
         /\ \A x \in 1..(a + b) : ~(x <= a) => x - a \in 1..b /\ x = a + (x - a)
OBVIOUS

LEMMA PartFits ==
  ASSUME NEW a \in Nat, NEW b \in Nat, NEW n \in Nat, a + b \in 1..n
  PROVE  b \in 0..n
OBVIOUS

LEMMA OneMore ==
  ASSUME NEW most \in Nat, NEW k \in Nat \ {0}, NEW a \in Nat, NEW b \in Nat,
         a <= most * (k - 1), b <= most
  PROVE  a + b <= most * k
<1>1. most * k = most * (k - 1) + most /\ most * (k - 1) \in Nat
  OBVIOUS
<1>. QED  BY <1>1

LEMMA ListIs ==
  ASSUME NEW S, NEW n \in Nat, NEW f \in [1..n -> S]
  PROVE  f \in Seq(S)
OBVIOUS

(* The sequences joined one by one: f[i] is the first i of them.           *)
Joins(seqs, f, m) == f[0] = <<>> /\ \A i \in 1..m : f[i] = f[i - 1] \o seqs[i]

Joined(S, seqs, f) ==
  seqs \in Seq(Seq(S)) /\ f \in [0..Len(seqs) -> Seq(S)] /\ Joins(seqs, f, Len(seqs))

(* There is such a joining of any list of sequences.                       *)
LEMMA JoinExists ==
  ASSUME NEW S, NEW seqs \in Seq(Seq(S))
  PROVE  \E f : Joined(S, seqs, f)
<1>. DEFINE n == Len(seqs)
            T == Seq(S)
            step == [x \in T \X (1..n) |-> x[1] \o seqs[x[2]]]
<1>1. n \in Nat /\ 0 \in 0..n /\ <<>> \in T /\ \A i \in 1..n : seqs[i] \in T
  OBVIOUS
<1>2. step \in [T \X (1..n) -> T]
  <2>1. ASSUME NEW x \in T \X (1..n) PROVE x[1] \o seqs[x[2]] \in T
    <3>1. x[1] \in T /\ seqs[x[2]] \in T
      BY <1>1
    <3>. QED  BY <3>1
  <2>. QED  BY <2>1
<1>3. PICK f \in [0..n -> T] : Steps(<<>>, n, step, f)
  <2>. HIDE DEF step, T, n
  <2>. QED  BY <1>1, <1>2, Iterated
<1>4. f[0] = <<>>
  <2>. HIDE DEF step, n, T
  <2>. QED  BY <1>1, <1>3 DEF Steps
<1>5. ASSUME NEW i \in 1..n PROVE f[i] = f[i - 1] \o seqs[i]
  <2>1. i \in 0..n /\ i # 0 /\ i - 1 \in 0..n
    BY <1>1
  <2>2. f[i] = step[<<f[i - 1], i>>]
    <3>. HIDE DEF step, n, T
    <3>. QED  BY <1>3, <2>1 DEF Steps
  <2>3. <<f[i - 1], i>> \in T \X (1..n)
    BY <2>1
  <2>. QED  BY <2>2, <2>3
<1>. QED  BY <1>3, <1>4, <1>5 DEF Joined, Joins

LEMMA JoinStart ==
  ASSUME NEW S, NEW seqs, NEW f, Joined(S, seqs, f)
  PROVE  Len(seqs) \in Nat /\ f[0] = <<>> /\ seqs \in Seq(Seq(S))
BY DEF Joined, Joins

(* What a step of the joining does.                                        *)
Grown(S, seqs, f, k) ==
  /\ k \in 0..Len(seqs) /\ k - 1 \in 0..Len(seqs) /\ seqs[k] \in Seq(S)
  /\ f[k] \in Seq(S) /\ f[k - 1] \in Seq(S) /\ f[k] = f[k - 1] \o seqs[k]
  /\ Len(f[k - 1]) \in Nat /\ Len(seqs[k]) \in Nat
  /\ Len(f[k]) = Len(f[k - 1]) + Len(seqs[k])
  /\ \A x \in 1..Len(f[k - 1]) : f[k][x] = f[k - 1][x]
  /\ \A p \in 1..Len(seqs[k]) : f[k][Len(f[k - 1]) + p] = seqs[k][p]

LEMMA JoinStep ==
  ASSUME NEW S, NEW seqs, NEW f, Joined(S, seqs, f), NEW k \in 1..Len(seqs)
  PROVE  Grown(S, seqs, f, k)
<1>. DEFINE a == f[k - 1]
            b == seqs[k]
<1>0. seqs \in Seq(Seq(S)) /\ f \in [0..Len(seqs) -> Seq(S)]
  BY DEF Joined
<1>1. Len(seqs) \in Nat /\ k \in 0..Len(seqs) /\ k - 1 \in 0..Len(seqs)
  BY <1>0
<1>2. a \in Seq(S)
  BY <1>0, <1>1
<1>5. b \in Seq(S)
  BY <1>0, <1>1
<1>6. f[k] \in Seq(S)
  BY <1>0, <1>1
<1>4. f[k] = a \o b
  BY DEF Joined, Joins
<1>. HIDE DEF a, b
<1>3. /\ a \o b \in Seq(S) /\ Len(a \o b) = Len(a) + Len(b)
      /\ Len(a) \in Nat /\ Len(b) \in Nat
      /\ \A x \in 1..Len(a) : (a \o b)[x] = a[x]
      /\ \A p \in 1..Len(b) : (a \o b)[Len(a) + p] = b[p]
  BY <1>2, <1>5
<1>. QED  BY <1>1, <1>2, <1>3, <1>4, <1>5, <1>6 DEF a, b, Grown

(* FlattenSeq joins them.                                                  *)
LEMMA FlattenJoins ==
  ASSUME NEW S, NEW seqs, NEW f, Joined(S, seqs, f),
         NEW k \in 0..Len(seqs)
  PROVE  Rows!FlattenSeq(SubSeq(seqs, 1, k)) = f[k]
<1>. DEFINE q == SubSeq(seqs, 1, k)
            Is(h) == h = [i \in 1..k |-> IF i = 1 THEN q[i] ELSE h[i - 1] \o q[i]]
            g == [i \in 1..k |-> f[i]]
<1>0. seqs \in Seq(Seq(S)) /\ Len(seqs) \in Nat /\ f[0] = <<>>
  BY JoinStart
<1>1. Len(q) = k /\ \A i \in 1..k : q[i] = seqs[i]
  BY <1>0
<1>2. CASE k = 0
  <2>1. q = <<>>
    BY <1>2
  <2>. QED  BY <1>0, <1>2, <2>1 DEF Rows!FlattenSeq
<1>3. CASE k # 0
  <2>. HIDE DEF q
  <2>1. Is(g)
    <3>1. ASSUME NEW i \in 1..k
          PROVE  f[i] = IF i = 1 THEN q[i] ELSE g[i - 1] \o q[i]
      <4>1. i \in 1..Len(seqs)
        BY <1>0
      <4>2. f[i] = f[i - 1] \o seqs[i] /\ q[i] = seqs[i] /\ seqs[i] \in Seq(S)
        <5>. HIDE DEF g, Is
        <5>1. f[i] = f[i - 1] \o seqs[i] /\ seqs[i] \in Seq(S)
          <6>1. Grown(S, seqs, f, i)
            BY <4>1, JoinStep
          <6>. QED  BY <6>1 DEF Grown
        <5>2. q[i] = seqs[i]
          BY <1>1
        <5>. QED  BY <5>1, <5>2, Zenon
      <4>3. CASE i = 1
        <5>1. f[0] = <<>> /\ i - 1 = 0
          BY <1>0, <4>3
        <5>2. <<>> \o seqs[i] = seqs[i]
          BY <4>2
        <5>. QED  BY <4>2, <4>3, <5>1, <5>2
      <4>4. CASE i # 1
        <5>1. i - 1 \in 1..k
          BY <4>4
        <5>2. g[i - 1] = f[i - 1]
          BY <5>1
        <5>. QED  BY <4>2, <4>4, <5>2
      <4>. QED  BY <4>3, <4>4
    <3>. QED  BY <3>1
  <2>2. PICK h : Is(h) /\ Rows!FlattenSeq(q) = h[k]
    <3>1. Is(CHOOSE h : Is(h))
      <4>. HIDE DEF Is, g
      <4>. QED  BY <2>1, Zenon
    <3>2. Rows!FlattenSeq(q) = (CHOOSE h : Is(h))[k]
      BY <1>1, <1>3 DEF Rows!FlattenSeq
    <3>. QED  BY <3>1, <3>2
  <2>. DEFINE Good == {m \in 0..k : m # 0 => h[m] = f[m]}
  <2>3. ASSUME NEW m \in 1..k, m - 1 \in Good PROVE m \in Good
    <3>1. h[m] = IF m = 1 THEN q[m] ELSE h[m - 1] \o q[m]
      BY <2>2
    <3>2. f[m] = IF m = 1 THEN q[m] ELSE f[m - 1] \o q[m]
      <4>1. f[m] = IF m = 1 THEN q[m] ELSE g[m - 1] \o q[m]
        BY <2>1
      <4>2. CASE m = 1
        BY <4>1, <4>2
      <4>3. CASE m # 1
        <5>1. m - 1 \in 1..k
          BY <4>3
        <5>. QED  BY <4>1, <4>3, <5>1
      <4>. QED  BY <4>2, <4>3
    <3>. QED  BY <3>1, <3>2, <2>3
  <2>4. k \in Nat /\ 0 \in Good
    OBVIOUS
  <2>5. \A m \in 0..k : m \in Good
    <3>. HIDE DEF Good
    <3>. QED  BY <2>3, <2>4, Counted
  <2>6. h[k] = f[k]
    BY <1>3, <2>5
  <2>. QED  BY <2>2, <2>6 DEF q
<1>. QED  BY <1>2, <1>3

(* What is where in the whole.                                             *)
Placed(seqs, f, m) ==
  /\ \A r \in 1..m : \A p \in 1..Len(seqs[r]) :
       Len(f[r - 1]) + p \in 1..Len(f[m]) /\ f[m][Len(f[r - 1]) + p] = seqs[r][p]
  /\ \A x \in 1..Len(f[m]) : \E r \in 1..m : \E p \in 1..Len(seqs[r]) :
       f[m][x] = seqs[r][p]

LEMMA JoinedIs ==
  ASSUME NEW S, NEW seqs, NEW f, Joined(S, seqs, f),
         NEW m \in 0..Len(seqs)
  PROVE  Placed(seqs, f, m)
<1>0. Len(seqs) \in Nat /\ f[0] = <<>>
  BY JoinStart
<1>. DEFINE Holds(k) ==
       /\ \A r \in 1..k : \A p \in 1..Len(seqs[r]) :
              Len(f[r - 1]) + p \in 1..Len(f[k]) /\ f[k][Len(f[r - 1]) + p] = seqs[r][p]
       /\ \A x \in 1..Len(f[k]) : \E r \in 1..k : \E p \in 1..Len(seqs[r]) :
              f[k][x] = seqs[r][p]
            Good == {k \in 0..Len(seqs) : Holds(k)}
<1>3. 0 \in Good
  BY <1>0
<1>4. ASSUME NEW k \in 1..Len(seqs), k - 1 \in Good PROVE k \in Good
  <2>1. Holds(k - 1) /\ k \in 0..Len(seqs)
    BY <1>0, <1>4
  <2>2. /\ Len(f[k - 1]) \in Nat /\ Len(seqs[k]) \in Nat
        /\ Len(f[k]) = Len(f[k - 1]) + Len(seqs[k])
        /\ \A x \in 1..Len(f[k - 1]) : f[k][x] = f[k - 1][x]
        /\ \A p \in 1..Len(seqs[k]) : f[k][Len(f[k - 1]) + p] = seqs[k][p]
    <3>. HIDE DEF Good
    <3>1. Grown(S, seqs, f, k)
      BY JoinStep
    <3>. QED  BY <3>1 DEF Grown
  <2>3. ASSUME NEW r \in 1..k, NEW p \in 1..Len(seqs[r])
        PROVE  Len(f[r - 1]) + p \in 1..Len(f[k]) /\ f[k][Len(f[r - 1]) + p] = seqs[r][p]
    <3>1. CASE r = k
      <4>1. p \in 1..Len(seqs[k])
        BY <3>1
      <4>2. Len(f[k - 1]) + p \in 1..Len(f[k])
        BY <2>2, <4>1, Places
      <4>3. f[k][Len(f[k - 1]) + p] = seqs[k][p]
        BY <2>2, <4>1
      <4>. QED  BY <3>1, <4>2, <4>3
    <3>2. CASE r # k
      <4>1. r \in 1..(k - 1) /\ r - 1 \in 0..Len(seqs)
        BY <3>2, <1>0
      <4>2. /\ Len(f[r - 1]) + p \in 1..Len(f[k - 1])
            /\ f[k - 1][Len(f[r - 1]) + p] = seqs[r][p]
        BY <2>1, <4>1
      <4>3. Len(f[r - 1]) + p \in 1..Len(f[k])
        BY <2>2, <4>2, Places
      <4>. QED  BY <2>2, <4>2, <4>3
    <3>. QED  BY <3>1, <3>2
  <2>4. ASSUME NEW x \in 1..Len(f[k])
        PROVE  \E r \in 1..k : \E p \in 1..Len(seqs[r]) : f[k][x] = seqs[r][p]
    <3>1. CASE x <= Len(f[k - 1])
      <4>1. x \in 1..Len(f[k - 1])
        BY <2>2, <3>1
      <4>2. PICK r \in 1..(k - 1) : \E p \in 1..Len(seqs[r]) : f[k - 1][x] = seqs[r][p]
        BY <2>1, <4>1
      <4>3. f[k][x] = f[k - 1][x] /\ r \in 1..k
        BY <2>2, <4>1
      <4>. QED  BY <4>2, <4>3
    <3>2. CASE ~(x <= Len(f[k - 1]))
      <4>. DEFINE p == x - Len(f[k - 1])
      <4>1. p \in 1..Len(seqs[k]) /\ x = Len(f[k - 1]) + p
        BY <2>2, <3>2, Places
      <4>2. f[k][x] = seqs[k][p] /\ k \in 1..k
        BY <2>2, <4>1
      <4>. QED  BY <4>1, <4>2
    <3>. QED  BY <3>1, <3>2
  <2>5. Holds(k)
    BY <2>3, <2>4
  <2>. QED  BY <2>1, <2>5
<1>5. \A k \in 0..Len(seqs) : k \in Good
  <2>. HIDE DEF Good
  <2>. QED  BY <1>0, <1>3, <1>4, Counted
<1>. QED  BY <1>5 DEF Placed

(* How long the whole is.                                                  *)
LEMMA JoinedLength ==
  ASSUME NEW S, NEW seqs, NEW f, Joined(S, seqs, f),
         NEW most \in Nat, \A i \in 1..Len(seqs) : Len(seqs[i]) <= most
  PROVE  Len(f[Len(seqs)]) <= most * Len(seqs)
<1>. DEFINE Good == {k \in 0..Len(seqs) : Len(f[k]) <= most * k}
<1>1. Len(seqs) \in Nat /\ 0 \in Good
  BY JoinStart
<1>2. ASSUME NEW k \in 1..Len(seqs), k - 1 \in Good PROVE k \in Good
  <2>1. Len(f[k - 1]) <= most * (k - 1) /\ Len(seqs[k]) <= most /\ k \in 0..Len(seqs)
    BY <1>1, <1>2
  <2>2. /\ Len(f[k - 1]) \in Nat /\ Len(seqs[k]) \in Nat
        /\ Len(f[k]) = Len(f[k - 1]) + Len(seqs[k])
    <3>. HIDE DEF Good
    <3>1. Grown(S, seqs, f, k)
      BY JoinStep
    <3>. QED  BY <3>1 DEF Grown
  <2>3. k \in Nat \ {0}
    BY <1>1
  <2>4. Len(f[k]) <= most * k
    BY <2>1, <2>2, <2>3, OneMore
  <2>. QED  BY <2>1, <2>4
<1>3. \A k \in 0..Len(seqs) : k \in Good
  <2>. HIDE DEF Good
  <2>. QED  BY <1>1, <1>2, Counted
<1>. QED  BY <1>1, <1>3

-----------------------------------------------------------------------------
(* The rows.                                                               *)

Entries == [token : Int, pos : Nat, seq : Nat]
Vectors == [of : Entries, saw : SUBSET Entries]
Capacities == [tokens : Nat, seqs : Nat, ctx : Nat, live : BOOLEAN]

(* The entries of a row, and what the row is answered with.                *)
CellsOf(r) == {Rows!Entry(given[r][p], p - 1, r) : p \in DOMAIN given[r]}
Answer(r) == {[of |-> c, saw |-> CellsOf(r)] : c \in CellsOf(r)}

(* The contexts are as large as they claim.                                *)
RowsHeld ==
  /\ job \in Rows!Jobs
  /\ sessions \in [Rows!Jobs -> Capacities] /\ kvCells \in [Rows!Jobs -> SUBSET Entries]
  /\ \A j \in Rows!Jobs :
       /\ sessions[j].ctx <= MaxContext
       /\ sessions[j].live =>
            sessions[j].seqs # 0 /\ sessions[j].ctx = sessions[j].tokens * sessions[j].seqs

RowsGiven ==
  /\ given \in Seq(Seq(Int))
  /\ \A r \in 1..Len(given) : Rows!RowTaken(given[r])

RowsCalled ==
  /\ rowStage \in {"idle", "accepted", "ready", "pooling"}
  /\ rowStage # "idle" => given # <<>>
  /\ rowStage \in {"accepted", "ready"} => result = <<>>
  /\ rowStage = "ready" => Rows!Enough(sessions[job]) /\ kvCells[job] = {}
  /\ rowStage = "pooling" => batch = Rows!Packed /\ kvCells[job] = Rows!Range(Rows!Packed)

RowsAnswered ==
  /\ result \in Seq(SUBSET Vectors) /\ Len(result) <= Len(given)
  /\ \A r \in 1..Len(result) : result[r] = Answer(r)
  /\ rowStage = "idle" => result = <<>> \/ (rowCode = "ok" /\ Len(result) = Len(given))

RowsInv == RowsHeld /\ RowsGiven /\ RowsCalled /\ RowsAnswered

(* A list that is joined has a longest row.                                *)
LEMMA LongestIs ==
  ASSUME NEW S, NEW list \in Seq(Seq(S))
  PROVE  /\ Rows!Longest(list) \in Nat
         /\ \A r \in 1..Len(list) : Len(list[r]) <= Rows!Longest(list)
<1>. DEFINE T == {0} \cup {Len(row) : row \in Rows!Range(list)}
<1>0. Len(list) \in Nat /\ Len(list) \in 0..Len(list)
  OBVIOUS
<1>1. PICK f : Joined(S, list, f)
  BY JoinExists
<1>. DEFINE n == Len(f[Len(list)])
<1>2. n \in Nat
  BY <1>0, <1>1 DEF Joined
<1>3. ASSUME NEW r \in 1..Len(list) PROVE Len(list[r]) \in 0..n
  <2>1. list[r] \in Seq(S) /\ Len(list[r]) \in Nat
    OBVIOUS
  <2>2. Len(f[r - 1]) \in Nat
    <3>1. Grown(S, list, f, r)
      BY <1>1, JoinStep
    <3>. QED  BY <3>1 DEF Grown
  <2>3. CASE Len(list[r]) # 0
    <3>1. Len(list[r]) \in 1..Len(list[r])
      BY <2>1, <2>3
    <3>2. Len(f[r - 1]) + Len(list[r]) \in 1..n
      <4>1. Placed(list, f, Len(list))
        BY <1>0, <1>1, JoinedIs
      <4>. QED  BY <3>1, <4>1 DEF Placed
    <3>. HIDE DEF n
    <3>. QED  BY <1>2, <2>1, <2>2, <3>2, PartFits
  <2>. QED  BY <1>2, <2>1, <2>3
<1>4. T \in SUBSET (0..n) /\ T # {}
  <2>1. \A row \in Rows!Range(list) : Len(row) \in 0..n
    BY <1>3 DEF Rows!Range
  <2>. QED  BY <1>2, <2>1
<1>5. Max(T) \in T /\ \A y \in T : Max(T) >= y
  <2>. HIDE DEF T, n
  <2>. QED  BY <1>2, <1>4, MaxIsMember
<1>6. Rows!Longest(list) = Max(T)
  BY DEF Rows!Longest, Rows!Max, Max
<1>7. ASSUME NEW r \in 1..Len(list) PROVE Len(list[r]) \in T
  BY DEF Rows!Range
<1>8. Max(T) \in 0..n
  <2>. HIDE DEF T, n
  <2>. QED  BY <1>4, <1>5
<1>9. ASSUME NEW r \in 1..Len(list) PROVE Len(list[r]) <= Max(T)
  <2>1. Max(T) >= Len(list[r])
    <3>. HIDE DEF T
    <3>. QED  BY <1>5, <1>7
  <2>2. Max(T) \in Int /\ Len(list[r]) \in Int
    <3>. HIDE DEF T
    <3>. QED  BY <1>2, <1>3, <1>8
  <2>. HIDE DEF T
  <2>. QED  BY <2>1, <2>2
<1>10. Max(T) \in Nat
  <2>. HIDE DEF T, n
  <2>. QED  BY <1>2, <1>8
<1>. QED  BY <1>6, <1>9, <1>10

(* The rows, turned into the entries of a batch.                           *)
Parts == [r \in DOMAIN given |-> [p \in DOMAIN given[r] |-> Rows!Entry(given[r][p], p - 1, r)]]

LEMMA PartsAre ==
  ASSUME RowsGiven
  PROVE  /\ Parts \in Seq(Seq(Entries)) /\ Len(Parts) = Len(given)
         /\ Len(given) \in Nat /\ Rows!Packed = Rows!FlattenSeq(Parts)
         /\ \A r \in 1..Len(given) :
              /\ given[r] \in Seq(Int) /\ Parts[r] \in Seq(Entries)
              /\ Len(Parts[r]) = Len(given[r]) /\ Len(given[r]) \in Nat
              /\ \A p \in 1..Len(given[r]) : Parts[r][p] = Rows!Entry(given[r][p], p - 1, r)
<1>1. /\ given \in Seq(Seq(Int)) /\ DOMAIN given = 1..Len(given) /\ Len(given) \in Nat
      /\ \A r \in 1..Len(given) :
           given[r] \in Seq(Int) /\ DOMAIN given[r] = 1..Len(given[r]) /\ Len(given[r]) \in Nat
  BY DEF RowsGiven
<1>2. ASSUME NEW r \in 1..Len(given)
      PROVE  /\ Parts[r] = [p \in 1..Len(given[r]) |-> Rows!Entry(given[r][p], p - 1, r)]
             /\ Parts[r] \in Seq(Entries) /\ Len(Parts[r]) = Len(given[r])
  <2>1. Parts[r] = [p \in 1..Len(given[r]) |-> Rows!Entry(given[r][p], p - 1, r)]
    BY <1>1 DEF Parts
  <2>2. \A p \in 1..Len(given[r]) : Rows!Entry(given[r][p], p - 1, r) \in Entries
    <3>. SUFFICES ASSUME NEW p \in 1..Len(given[r])
                  PROVE  Rows!Entry(given[r][p], p - 1, r) \in Entries
      OBVIOUS
    <3>1. given[r][p] \in Int /\ p - 1 \in Nat /\ r \in Nat
      BY <1>1
    <3>. QED  BY <3>1 DEF Rows!Entry, Entries
  <2>3. [p \in 1..Len(given[r]) |-> Rows!Entry(given[r][p], p - 1, r)]
          \in [1..Len(given[r]) -> Entries]
    BY <2>2
  <2>4. Len(given[r]) \in Nat
    BY <1>1
  <2>. QED  BY <2>1, <2>3, <2>4
<1>3. Parts = [r \in 1..Len(given) |-> Parts[r]]
  BY <1>1 DEF Parts
<1>4. Parts \in [1..Len(given) -> Seq(Entries)]
  BY <1>2, <1>3
<1>5. Parts \in Seq(Seq(Entries)) /\ Len(Parts) = Len(given)
  <2>1. Parts \in Seq(Seq(Entries))
    BY <1>1, <1>4, ListIs
  <2>2. DOMAIN Parts = 1..Len(given)
    BY <1>4
  <2>. QED  BY <1>1, <2>1, <2>2
<1>6. Rows!Packed = Rows!FlattenSeq(Parts)
  BY DEF Rows!Packed, Parts
<1>. QED  BY <1>1, <1>2, <1>5, <1>6

(* The batch: the rows one after the other, each entry with its row.       *)
LEMMA PackedIs ==
  ASSUME RowsGiven
  PROVE  /\ Rows!Packed \in Seq(Entries)
         /\ Len(Rows!Packed) <= Rows!Longest(given) * Len(given)
         /\ Rows!Range(Rows!Packed) \in SUBSET Entries
         /\ \A r \in 1..Len(given) :
              /\ {x \in Rows!Range(Rows!Packed) : x.seq = r} = CellsOf(r)
              /\ \A p \in 1..Len(given[r]) :
                   Rows!Packed[Rows!First(r) + (p - 1)] = Rows!Entry(given[r][p], p - 1, r)
<1>. DEFINE n == Len(given)
<1>1. PICK h : Joined(Entries, Parts, h)
  BY PartsAre, JoinExists
<1>2. PICK g : Joined(Int, given, g)
  BY JoinExists DEF RowsGiven
<1>3. n \in Nat /\ n \in 0..n /\ Len(Parts) = n
  BY PartsAre
<1>4. ASSUME NEW k \in 0..n PROVE Rows!FlattenSeq(SubSeq(Parts, 1, k)) = h[k]
  BY <1>1, <1>3, FlattenJoins
<1>5. ASSUME NEW k \in 0..n PROVE Rows!FlattenSeq(SubSeq(given, 1, k)) = g[k]
  BY <1>2, FlattenJoins
<1>6. Rows!Packed = h[n]
  <2>1. SubSeq(Parts, 1, n) = Parts
    BY <1>3, PartsAre
  <2>. QED  BY <1>3, <1>4, <2>1, PartsAre
<1>7. h[n] \in Seq(Entries) /\ Len(h[n]) \in Nat
  BY <1>1, <1>3 DEF Joined
<1>. DEFINE Good == {k \in 0..n : Len(h[k]) = Len(g[k])}
<1>8. 0 \in Good
  <2>1. h[0] = <<>> /\ g[0] = <<>>
    BY <1>1, <1>2, JoinStart
  <2>. QED  BY <1>3, <2>1
<1>9. ASSUME NEW k \in 1..n, k - 1 \in Good PROVE k \in Good
  <2>1. Grown(Entries, Parts, h, k) /\ Grown(Int, given, g, k)
    BY <1>1, <1>2, <1>3, JoinStep
  <2>2. Len(h[k]) = Len(h[k - 1]) + Len(Parts[k]) /\ Len(g[k]) = Len(g[k - 1]) + Len(given[k])
    BY <2>1 DEF Grown
  <2>3. Len(Parts[k]) = Len(given[k])
    BY PartsAre
  <2>4. Len(h[k - 1]) = Len(g[k - 1]) /\ k \in 0..n
    BY <1>9
  <2>. QED  BY <2>2, <2>3, <2>4
<1>10. \A k \in 0..n : k \in Good
  <2>. HIDE DEF Good, n
  <2>. QED  BY <1>3, <1>8, <1>9, Counted
<1>11. ASSUME NEW r \in 1..n, NEW p \in 1..Len(given[r])
       PROVE  /\ Len(h[r - 1]) + p \in 1..Len(h[n])
              /\ h[n][Len(h[r - 1]) + p] = Rows!Entry(given[r][p], p - 1, r)
              /\ Len(h[r - 1]) + p = Rows!First(r) + (p - 1)
  <2>0. Placed(Parts, h, n)
    BY <1>1, <1>3, JoinedIs
  <2>1. p \in 1..Len(Parts[r]) /\ Parts[r][p] = Rows!Entry(given[r][p], p - 1, r)
    BY PartsAre
  <2>2. Len(h[r - 1]) + p \in 1..Len(h[n]) /\ h[n][Len(h[r - 1]) + p] = Parts[r][p]
    BY <2>0, <2>1 DEF Placed
  <2>3. Len(h[r - 1]) + p = Rows!First(r) + (p - 1)
    <3>1. r - 1 \in 0..n
      BY <1>3
    <3>2. Rows!First(r) = 1 + Len(g[r - 1])
      BY <1>5, <3>1 DEF Rows!First
    <3>3. Len(h[r - 1]) = Len(g[r - 1])
      BY <1>10, <3>1
    <3>4. Len(g[r - 1]) \in Nat
      BY <1>2, <3>1 DEF Joined
    <3>. QED  BY <3>2, <3>3, <3>4
  <2>. QED  BY <2>1, <2>2, <2>3
<1>12. ASSUME NEW x \in 1..Len(h[n])
       PROVE  \E r \in 1..n : \E p \in 1..Len(given[r]) :
                h[n][x] = Rows!Entry(given[r][p], p - 1, r)
  <2>1. PICK r \in 1..n : \E p \in 1..Len(Parts[r]) : h[n][x] = Parts[r][p]
    <3>1. Placed(Parts, h, n)
      BY <1>1, <1>3, JoinedIs
    <3>. QED  BY <3>1 DEF Placed
  <2>2. PICK p \in 1..Len(Parts[r]) : h[n][x] = Parts[r][p]
    BY <2>1
  <2>3. p \in 1..Len(given[r]) /\ Parts[r][p] = Rows!Entry(given[r][p], p - 1, r)
    BY <2>2, PartsAre
  <2>. QED  BY <2>2, <2>3
<1>13. DOMAIN h[n] = 1..Len(h[n])
  BY <1>7
<1>14. ASSUME NEW r \in 1..n
       PROVE  {x \in Rows!Range(h[n]) : x.seq = r} = CellsOf(r)
  <2>1. DOMAIN given[r] = 1..Len(given[r])
    BY PartsAre
  <2>2. ASSUME NEW x \in Rows!Range(h[n]), x.seq = r PROVE x \in CellsOf(r)
    <3>1. PICK i \in 1..Len(h[n]) : x = h[n][i]
      BY <1>13 DEF Rows!Range
    <3>2. PICK q \in 1..n : \E p \in 1..Len(given[q]) : x = Rows!Entry(given[q][p], p - 1, q)
      BY <1>12, <3>1
    <3>3. q = r
      BY <2>2, <3>2 DEF Rows!Entry
    <3>. QED  BY <2>1, <3>2, <3>3 DEF CellsOf
  <2>3. ASSUME NEW x \in CellsOf(r) PROVE x \in Rows!Range(h[n]) /\ x.seq = r
    <3>1. PICK p \in 1..Len(given[r]) : x = Rows!Entry(given[r][p], p - 1, r)
      BY <2>1 DEF CellsOf
    <3>2. Len(h[r - 1]) + p \in DOMAIN h[n] /\ h[n][Len(h[r - 1]) + p] = x
      BY <1>11, <1>13, <3>1
    <3>3. x \in Rows!Range(h[n])
      BY <3>2 DEF Rows!Range
    <3>4. x.seq = r
      BY <3>1 DEF Rows!Entry
    <3>. QED  BY <3>3, <3>4
  <2>. QED  BY <2>2, <2>3
<1>15. Len(h[n]) <= Rows!Longest(given) * n
  <2>1. Rows!Longest(given) \in Nat
    BY LongestIs DEF RowsGiven
  <2>2. \A i \in 1..Len(Parts) : Len(Parts[i]) <= Rows!Longest(given)
    BY <1>3, PartsAre, LongestIs DEF RowsGiven
  <2>. QED  BY <1>1, <1>3, <2>1, <2>2, JoinedLength
<1>16. Rows!Range(h[n]) \in SUBSET Entries
  BY <1>7, <1>13 DEF Rows!Range
<1>. QED  BY <1>6, <1>7, <1>11, <1>14, <1>15, <1>16

LEMMA VisibleIs ==
  ASSUME NEW row \in Seq(Int)
  PROVE  Rows!Visible(row) \in Seq(Int)
<1>. DEFINE n == Len(row)
            S == Seq(Int)
            More(list, i) == IF row[i] = Rows!Pad THEN list ELSE Append(list, row[i])
            step == [x \in S \X (1..n) |-> More(x[1], x[2])]
            Is(h) == h = [i \in 0..n |->
                            IF i = 0 THEN <<>>
                            ELSE IF row[i] = Rows!Pad THEN h[i - 1]
                            ELSE Append(h[i - 1], row[i])]
<1>1. n \in Nat /\ n \in 0..n /\ 0 \in 0..n /\ <<>> \in S /\ \A i \in 1..n : row[i] \in Int
  OBVIOUS
<1>2. step \in [S \X (1..n) -> S]
  <2>1. ASSUME NEW x \in S \X (1..n) PROVE More(x[1], x[2]) \in S
    <3>1. x[1] \in S /\ x[2] \in 1..n /\ row[x[2]] \in Int
      BY <1>1
    <3>. QED  BY <3>1
  <2>. QED  BY <2>1
<1>3. PICK f \in [0..n -> S] : Steps(<<>>, n, step, f)
  <2>. HIDE DEF step, S, n
  <2>. QED  BY <1>1, <1>2, Iterated
<1>4. Is(f)
  <2>1. ASSUME NEW i \in 0..n PROVE f[i] = IF i = 0 THEN <<>> ELSE More(f[i - 1], i)
    <3>1. f[i] = IF i = 0 THEN <<>> ELSE step[<<f[i - 1], i>>]
      <4>. HIDE DEF step
      <4>. QED  BY <1>3 DEF Steps
    <3>2. CASE i # 0
      <4>1. <<f[i - 1], i>> \in S \X (1..n)
        <5>1. i \in 1..n /\ i - 1 \in 0..n
          BY <1>1, <3>2
        <5>. QED  BY <5>1
      <4>2. step[<<f[i - 1], i>>] = More(f[i - 1], i)
        BY <4>1
      <4>. HIDE DEF step, More
      <4>. QED  BY <3>1, <3>2, <4>2
    <3>. QED  BY <3>1, <3>2
  <2>2. f = [i \in 0..n |-> f[i]]
    OBVIOUS
  <2>. QED  BY <2>1, <2>2
<1>5. PICK w : Is(w) /\ Rows!Visible(row) = w[n]
  <2>1. Is(CHOOSE w : Is(w))
    <3>. HIDE DEF Is
    <3>. QED  BY <1>4, Zenon
  <2>2. Rows!Visible(row) = (CHOOSE w : Is(w))[n]
    BY DEF Rows!Visible
  <2>. QED  BY <2>1, <2>2
<1>. DEFINE Good == {m \in 0..n : w[m] \in S}
<1>6. 0 \in Good
  <2>1. w[0] = <<>>
    BY <1>1, <1>5
  <2>. HIDE DEF Is
  <2>. QED  BY <1>1, <2>1
<1>7. ASSUME NEW m \in 1..n, m - 1 \in Good PROVE m \in Good
  <2>1. m \in 0..n /\ m # 0 /\ w[m - 1] \in S /\ row[m] \in Int
    BY <1>1, <1>7
  <2>2. w[m] = IF row[m] = Rows!Pad THEN w[m - 1] ELSE Append(w[m - 1], row[m])
    BY <1>5, <2>1
  <2>3. Append(w[m - 1], row[m]) \in S
    <3>. HIDE DEF Is
    <3>. QED  BY <2>1
  <2>4. w[m] \in S
    <3>. HIDE DEF Is, S
    <3>. QED  BY <2>1, <2>2, <2>3
  <2>. HIDE DEF Is, S
  <2>. QED  BY <2>1, <2>4
<1>8. n \in Good
  <2>1. \A m \in 0..n : m \in Good
    <3>. HIDE DEF Good, n, Is
    <3>. QED  BY <1>1, <1>6, <1>7, Counted
  <2>. HIDE DEF Good
  <2>. QED  BY <1>1, <2>1
<1>. QED  BY <1>5, <1>8

LEMMA RowsInit == Rows!Init => RowsInv
<1>. SUFFICES ASSUME Rows!Init PROVE RowsInv
  OBVIOUS
<1>1. RowsHeld
  <2>1. MaxContext \in Nat
    BY BackendsAssumption DEF Rows!EmbeddingAssumption
  <2>. QED  BY <2>1 DEF Rows!Init, Rows!NoSession, Rows!Jobs, RowsHeld, Capacities
<1>2. RowsGiven
  BY DEF Rows!Init, RowsGiven
<1>3. RowsCalled
  BY DEF Rows!Init, RowsCalled
<1>4. RowsAnswered
  BY DEF Rows!Init, RowsAnswered
<1>. QED  BY <1>1, <1>2, <1>3, <1>4 DEF RowsInv

(* A call that is taken has rows, and rows that are taken are not empty.   *)
LEMMA RowsTaken ==
  ASSUME given' \in Seq(Seq(Int)), \A row \in Rows!Range(given') : Rows!RowTaken(row),
         given' # <<>>, rowStage' = "accepted", result' = <<>>, job' \in Rows!Jobs,
         UNCHANGED <<sessions, kvCells>>, RowsHeld
  PROVE  RowsInv'
<1>1. RowsHeld'
  BY DEF RowsHeld
<1>2. RowsGiven'
  <2>1. \A r \in 1..Len(given') : given'[r] \in Rows!Range(given')
    BY DEF Rows!Range
  <2>2. \A row : Rows!RowTaken(row)' <=> Rows!RowTaken(row)
    BY DEF Rows!RowTaken
  <2>. QED  BY <2>1, <2>2 DEF RowsGiven
<1>3. RowsCalled'
  BY DEF RowsCalled
<1>4. RowsAnswered'
  <2>1. Len(given') \in Nat /\ Len(result') = 0
    OBVIOUS
  <2>. QED  BY <2>1 DEF RowsAnswered
<1>. QED  BY <1>1, <1>2, <1>3, <1>4 DEF RowsInv

(* A call that returns early leaves nothing.                               *)
LEMMA RowsRefused ==
  ASSUME RowsHeld', rowStage' = "idle", given' = <<>>, result' = <<>>
  PROVE  RowsInv'
<1>1. RowsGiven'
  BY DEF RowsGiven
<1>2. RowsCalled'
  BY DEF RowsCalled
<1>3. RowsAnswered'
  BY DEF RowsAnswered
<1>. QED  BY <1>1, <1>2, <1>3 DEF RowsInv

LEMMA RowsEncode ==
  ASSUME RowsInv, NEW b \in Sentences, Rows!Encode(b)
  PROVE  RowsInv'
<1>. DEFINE visible == [r \in DOMAIN b |-> Rows!Visible(b[r])]
<1>1. /\ result' = <<>> /\ job' \in Rows!Jobs /\ UNCHANGED <<sessions, kvCells>> /\ b # <<>>
  BY DEF Rows!Encode, Rows!Jobs
<1>2. b \in Seq(Seq(Int))
  BY BackendsAssumption DEF Rows!EmbeddingAssumption
<1>3. CASE \A row \in Rows!Range(visible) :
             Rows!RowTaken(row) /\ Rows!Range(row) \subseteq 0..(VocabSize - 1)
  <2>1. rowStage' = "accepted" /\ given' = visible
    BY <1>3 DEF Rows!Encode
  <2>2. visible \in Seq(Seq(Int)) /\ visible # <<>>
    <3>1. DOMAIN b = 1..Len(b) /\ Len(b) \in Nat \ {0}
      BY <1>1, <1>2
    <3>2. \A r \in 1..Len(b) : Rows!Visible(b[r]) \in Seq(Int)
      BY <1>2, VisibleIs
    <3>3. visible \in [1..Len(b) -> Seq(Int)]
      BY <3>1, <3>2
    <3>4. visible \in Seq(Seq(Int))
      <4>. HIDE DEF visible
      <4>. QED  BY <3>1, <3>3, ListIs
    <3>5. 1 \in DOMAIN visible
      BY <3>1
    <3>. HIDE DEF visible
    <3>. QED  BY <3>4, <3>5
  <2>. HIDE DEF visible
  <2>. QED  BY <1>1, <1>3, <2>1, <2>2, RowsTaken DEF RowsInv
<1>4. CASE ~(\A row \in Rows!Range(visible) :
               Rows!RowTaken(row) /\ Rows!Range(row) \subseteq 0..(VocabSize - 1))
  <2>1. rowStage' = "idle" /\ given' = <<>>
    BY <1>4 DEF Rows!Encode, Rows!Return
  <2>2. RowsHeld'
    BY <1>1 DEF RowsInv, RowsHeld
  <2>. QED  BY <1>1, <2>1, <2>2, RowsRefused
<1>. QED  BY <1>3, <1>4

LEMMA RowsRerank ==
  ASSUME RowsInv, NEW q \in Questions, Rows!Rerank(q)
  PROVE  RowsInv'
<1>. DEFINE pairs == [i \in DOMAIN q[2] |-> Rows!Pair(q[1], q[2][i])]
            taken == Classifier /\ \A row \in Rows!Range(pairs) : Rows!RowTaken(row)
<1>1. /\ result' = <<>> /\ job' \in Rows!Jobs /\ UNCHANGED <<sessions, kvCells>>
  BY DEF Rows!Rerank, Rows!Jobs
<1>2. q[1] \in Seq(Nat) /\ q[2] \in Seq(Seq(Nat)) /\ q[2] # <<>> /\ VocabSize \in Nat
  BY BackendsAssumption DEF Rows!EmbeddingAssumption
<1>3. CASE taken
  <2>1. rowStage' = "accepted" /\ given' = pairs
    BY <1>3 DEF Rows!Rerank
  <2>2. pairs \in Seq(Seq(Int)) /\ pairs # <<>>
    <3>1. DOMAIN q[2] = 1..Len(q[2]) /\ Len(q[2]) \in Nat \ {0}
      BY <1>2
    <3>2. ASSUME NEW i \in 1..Len(q[2]) PROVE Rows!Pair(q[1], q[2][i]) \in Seq(Int)
      <4>1. q[1] \in Seq(Int)
        BY <1>2
      <4>2. q[2][i] \in Seq(Int)
        BY <1>2
      <4>3. <<Rows!Bos>> \in Seq(Int) /\ <<Rows!Eos>> \in Seq(Int)
        BY <1>2 DEF Rows!Bos, Rows!Eos
      <4>. QED  BY <4>1, <4>2, <4>3 DEF Rows!Pair
    <3>3. pairs \in [1..Len(q[2]) -> Seq(Int)]
      BY <3>1, <3>2
    <3>4. pairs \in Seq(Seq(Int))
      <4>. HIDE DEF pairs
      <4>. QED  BY <3>1, <3>3, ListIs
    <3>5. 1 \in DOMAIN pairs
      BY <3>1
    <3>. HIDE DEF pairs
    <3>. QED  BY <3>4, <3>5
  <2>. HIDE DEF pairs
  <2>. QED  BY <1>1, <1>3, <2>1, <2>2, RowsTaken DEF RowsInv
<1>4. CASE ~taken
  <2>1. rowStage' = "idle" /\ given' = <<>>
    BY <1>4 DEF Rows!Rerank, Rows!Return
  <2>2. RowsHeld'
    BY <1>1 DEF RowsInv, RowsHeld
  <2>. QED  BY <1>1, <2>1, <2>2, RowsRefused
<1>. QED  BY <1>3, <1>4

(* A context that is made, or grown, for a call has room for its rows.     *)
LEMMA RowsEnsure == RowsInv /\ Rows!Ensure => RowsInv'
<1>. SUFFICES ASSUME RowsInv, Rows!Ensure PROVE RowsInv'
  OBVIOUS
<1>1. /\ rowStage = "accepted" /\ result = <<>> /\ result' = <<>> /\ job' = job /\ job \in Rows!Jobs
      /\ kvCells' = [kvCells EXCEPT ![job] = {}] /\ given # <<>>
  BY DEF RowsInv, RowsHeld, RowsCalled, Rows!Ensure
<1>2. kvCells' \in [Rows!Jobs -> SUBSET Entries] /\ kvCells'[job] = {}
  BY <1>1 DEF RowsInv, RowsHeld
<1>3. Rows!Longest(given) \in Nat /\ Len(given) \in Nat \ {0} /\ MaxContext \in Nat
  BY <1>1, LongestIs, BackendsAssumption DEF RowsInv, RowsGiven, Rows!EmbeddingAssumption
<1>4. ASSUME rowStage' = "ready", given' = given, RowsHeld', Rows!Enough(sessions'[job])
      PROVE  RowsInv'
  <2>1. RowsGiven'
    BY <1>4 DEF RowsInv, RowsGiven, Rows!RowTaken
  <2>2. Rows!Enough(sessions[job])'
    BY <1>1, <1>4 DEF Rows!Enough, Rows!Longest
  <2>3. RowsCalled'
    BY <1>1, <1>2, <1>4, <2>2 DEF RowsCalled
  <2>4. RowsAnswered'
    BY <1>1, <1>3, <1>4 DEF RowsAnswered
  <2>. QED  BY <1>4, <2>1, <2>3, <2>4 DEF RowsInv
<1>5. CASE rowStage' = "ready" /\ UNCHANGED <<given, sessions>> /\ Rows!Enough(sessions[job])
  <2>1. RowsHeld'
    BY <1>1, <1>2, <1>5 DEF RowsInv, RowsHeld
  <2>. QED  BY <1>4, <1>5, <2>1
<1>6. CASE /\ rowStage' = "ready" /\ UNCHANGED given
           /\ Rows!Longest(given) * Len(given) <= MaxContext
           /\ sessions' = [sessions EXCEPT ![job] =
                [tokens |-> Rows!Longest(given), seqs |-> Len(given),
                 ctx |-> Rows!Longest(given) * Len(given), live |-> TRUE]]
  <2>. DEFINE new == [tokens |-> Rows!Longest(given), seqs |-> Len(given),
                      ctx |-> Rows!Longest(given) * Len(given), live |-> TRUE]
  <2>1. new \in Capacities /\ new.ctx <= MaxContext /\ new.seqs # 0
    <3>1. Rows!Longest(given) * Len(given) \in Nat
      BY <1>3
    <3>. QED  BY <1>3, <1>6, <3>1 DEF Capacities
  <2>2. sessions'[job] = new /\ \A j \in Rows!Jobs : j # job => sessions'[j] = sessions[j]
    BY <1>1, <1>6 DEF RowsInv, RowsHeld
  <2>3. sessions' \in [Rows!Jobs -> Capacities]
    BY <1>1, <1>6, <2>1 DEF RowsInv, RowsHeld
  <2>4. RowsHeld'
    <3>1. \A j \in Rows!Jobs :
            /\ sessions'[j].ctx <= MaxContext
            /\ sessions'[j].live =>
                 sessions'[j].seqs # 0 /\ sessions'[j].ctx = sessions'[j].tokens * sessions'[j].seqs
      <4>. SUFFICES ASSUME NEW j \in Rows!Jobs
                    PROVE  /\ sessions'[j].ctx <= MaxContext
                           /\ sessions'[j].live =>
                                /\ sessions'[j].seqs # 0
                                /\ sessions'[j].ctx = sessions'[j].tokens * sessions'[j].seqs
        OBVIOUS
      <4>1. CASE j = job
        BY <4>1, <2>1, <2>2
      <4>2. CASE j # job
        BY <4>2, <2>2 DEF RowsInv, RowsHeld
      <4>. QED  BY <4>1, <4>2
    <3>. QED  BY <1>1, <1>2, <2>3, <3>1 DEF RowsHeld
  <2>5. Rows!Enough(new)
    BY <1>3 DEF Rows!Enough
  <2>. QED  BY <1>4, <1>6, <2>2, <2>4, <2>5
<1>7. CASE /\ rowStage' = "idle" /\ given' = <<>>
           /\ sessions' = [sessions EXCEPT ![job] = Rows!NoSession]
  <2>1. Rows!NoSession \in Capacities /\ Rows!NoSession.ctx = 0 /\ ~Rows!NoSession.live
    BY DEF Rows!NoSession, Capacities
  <2>2. sessions'[job] = Rows!NoSession /\ \A j \in Rows!Jobs : j # job => sessions'[j] = sessions[j]
    BY <1>1, <1>7 DEF RowsInv, RowsHeld
  <2>3. sessions' \in [Rows!Jobs -> Capacities]
    BY <1>1, <1>7, <2>1 DEF RowsInv, RowsHeld
  <2>4. RowsHeld'
    <3>1. \A j \in Rows!Jobs :
            /\ sessions'[j].ctx <= MaxContext
            /\ sessions'[j].live =>
                 sessions'[j].seqs # 0 /\ sessions'[j].ctx = sessions'[j].tokens * sessions'[j].seqs
      BY <1>3, <2>1, <2>2 DEF RowsInv, RowsHeld
    <3>. QED  BY <1>1, <1>2, <2>3, <3>1 DEF RowsHeld
  <2>. QED  BY <1>1, <1>7, <2>4, RowsRefused
<1>. QED  BY <1>5, <1>6, <1>7 DEF Rows!Ensure, Rows!Return

(* The rows fit the context that was kept or made for them.                *)
LEMMA RowsFit == RowsInv /\ rowStage = "ready" => Rows!Fits(sessions[job])
<1>. SUFFICES ASSUME RowsInv, rowStage = "ready" PROVE Rows!Fits(sessions[job])
  OBVIOUS
<1>. DEFINE s == sessions[job]
            most == Rows!Longest(given)
<1>1. /\ s \in Capacities /\ s.live /\ s.tokens >= most /\ s.seqs >= Len(given)
      /\ s.seqs # 0 /\ s.ctx = s.tokens * s.seqs
  BY DEF RowsInv, RowsHeld, RowsCalled, Rows!Enough
<1>2. most \in Nat /\ \A r \in 1..Len(given) : Len(given[r]) <= most
  BY LongestIs DEF RowsInv, RowsGiven
<1>3. Len(given) \in Nat /\ DOMAIN given = 1..Len(given)
  BY DEF RowsInv, RowsGiven
<1>4. s.tokens \in Nat /\ s.seqs \in Nat \ {0}
  BY <1>1 DEF Capacities
<1>5. Rows!Packed \in Seq(Entries) /\ Len(Rows!Packed) <= most * Len(given)
  BY PackedIs DEF RowsInv
<1>6. most * Len(given) <= s.tokens * s.seqs
  <2>. HIDE DEF s, most
  <2>. QED  BY <1>1, <1>2, <1>3, <1>4, ProductGrows
<1>7. Len(Rows!Packed) <= s.ctx
  <2>1. Len(Rows!Packed) \in Nat /\ most * Len(given) \in Int /\ s.tokens * s.seqs \in Int
    BY <1>2, <1>3, <1>4, <1>5
  <2>. HIDE DEF s, most
  <2>. QED  BY <1>1, <1>5, <1>6, <2>1
<1>8. s.ctx \div s.seqs = s.tokens
  <2>. HIDE DEF s
  <2>. QED  BY <1>1, <1>4, ShareOf
<1>9. ASSUME NEW r \in 1..Len(given) PROVE Len(given[r]) <= s.tokens
  <2>1. Len(given[r]) \in Nat
    BY PartsAre DEF RowsInv
  <2>. HIDE DEF s, most
  <2>. QED  BY <1>1, <1>2, <1>4, <2>1
<1>. QED  BY <1>3, <1>7, <1>8, <1>9 DEF Rows!Fits

(* What is said of the rows does not change while they do not.             *)
LEMMA SameRows ==
  ASSUME given' = given
  PROVE  /\ RowsGiven => RowsGiven'
         /\ Rows!Packed' = Rows!Packed
         /\ \A r : Answer(r)' = Answer(r)
BY DEF RowsGiven, Rows!RowTaken, Rows!Packed, Answer, CellsOf

(* The memory is cleared before a batch is evaluated.                      *)
LEMMA RowsEvaluate == RowsInv /\ Rows!Evaluate => RowsInv'
<1>. SUFFICES ASSUME RowsInv, Rows!Evaluate PROVE RowsInv'
  OBVIOUS
<1>1. /\ rowStage = "ready" /\ rowStage' = "pooling" /\ job' = job /\ given' = given
      /\ job \in Rows!Jobs /\ kvCells[job] = {} /\ result' = <<>> /\ given # <<>>
      /\ batch' = Rows!Packed /\ UNCHANGED sessions
      /\ kvCells' = [kvCells EXCEPT ![job] = @ \cup Rows!Range(Rows!Packed)]
  BY DEF RowsInv, RowsHeld, RowsCalled, Rows!Evaluate
<1>2. Rows!Range(Rows!Packed) \in SUBSET Entries
  BY PackedIs DEF RowsInv
<1>3. /\ kvCells' \in [Rows!Jobs -> SUBSET Entries]
      /\ kvCells'[job] = Rows!Range(Rows!Packed)
  BY <1>1, <1>2 DEF RowsInv, RowsHeld
<1>4. RowsHeld'
  BY <1>1, <1>3 DEF RowsInv, RowsHeld
<1>5. RowsGiven' /\ Rows!Packed' = Rows!Packed
  BY <1>1, SameRows DEF RowsInv
<1>6. Rows!Range(Rows!Packed)' = Rows!Range(Rows!Packed)
  BY <1>5 DEF Rows!Range
<1>7. RowsCalled'
  BY <1>1, <1>3, <1>5, <1>6 DEF RowsCalled
<1>8. RowsAnswered'
  <2>1. Len(given') \in Nat
    BY <1>1, PartsAre DEF RowsInv
  <2>. QED  BY <1>1, <2>1 DEF RowsAnswered
<1>. QED  BY <1>4, <1>5, <1>7, <1>8 DEF RowsInv

(* A failure may leave cells of this call, never a result.                 *)
LEMMA RowsFail == RowsInv /\ (Rows!EvaluateFails \/ Rows!PoolFails) => RowsInv'
<1>. SUFFICES ASSUME RowsInv, Rows!EvaluateFails \/ Rows!PoolFails PROVE RowsInv'
  OBVIOUS
<1>1. CASE Rows!EvaluateFails
  <2>1. /\ rowStage = "ready" /\ rowStage' = "idle" /\ given' = <<>> /\ result' = <<>>
        /\ UNCHANGED <<job, sessions>> /\ job \in Rows!Jobs
        /\ kvCells' \in {kvCells, [kvCells EXCEPT ![job] = @ \cup Rows!Range(Rows!Packed)]}
    BY <1>1 DEF RowsInv, RowsHeld, RowsCalled, Rows!EvaluateFails, Rows!Return
  <2>2. Rows!Range(Rows!Packed) \in SUBSET Entries
    BY PackedIs DEF RowsInv
  <2>3. kvCells' \in [Rows!Jobs -> SUBSET Entries]
    BY <2>1, <2>2 DEF RowsInv, RowsHeld
  <2>4. RowsHeld'
    BY <2>1, <2>3 DEF RowsInv, RowsHeld
  <2>. QED  BY <2>1, <2>4, RowsRefused
<1>2. CASE Rows!PoolFails
  <2>1. /\ rowStage' = "idle" /\ given' = <<>> /\ result' = <<>>
        /\ UNCHANGED <<job, sessions, kvCells>>
    BY <1>2 DEF Rows!PoolFails, Rows!Return
  <2>2. RowsHeld'
    BY <2>1 DEF RowsInv, RowsHeld
  <2>. QED  BY <2>1, <2>2, RowsRefused
<1>. QED  BY <1>1, <1>2

(* What a row's entries were evaluated to.                                 *)
LEMMA VectorIs ==
  ASSUME RowsInv, rowStage = "pooling", NEW r \in 1..Len(given), NEW e, e.seq = r
  PROVE  Rows!Vector(e) = [of |-> e, saw |-> CellsOf(r)]
<1>1. {x \in Rows!Range(Rows!Packed) : x.seq = r} = CellsOf(r)
  BY PackedIs DEF RowsInv
<1>2. kvCells[job] = Rows!Range(Rows!Packed)
  BY DEF RowsInv, RowsCalled
<1>3. {c \in kvCells[job] : c.seq = e.seq} = CellsOf(r)
  BY <1>1, <1>2
<1>. QED  BY <1>3 DEF Rows!Vector

(* Pooled either way, a row's answer is made of the row.                   *)
LEMMA PooledIs ==
  ASSUME RowsInv, rowStage = "pooling", NEW r \in 1..Len(given)
  PROVE  /\ {Rows!Vector(e) : e \in {x \in Rows!Range(batch) : x.seq = r}} = Answer(r)
         /\ {Rows!Vector(batch[Rows!First(r) + p]) : p \in 0..(Len(given[r]) - 1)} = Answer(r)
<1>1. batch = Rows!Packed
  BY DEF RowsInv, RowsCalled
<1>2. {x \in Rows!Range(Rows!Packed) : x.seq = r} = CellsOf(r)
  BY PackedIs DEF RowsInv
<1>3. ASSUME NEW e \in CellsOf(r)
      PROVE  Rows!Vector(e) = [of |-> e, saw |-> CellsOf(r)]
  <2>1. e.seq = r
    BY <1>2
  <2>. QED  BY <2>1, VectorIs
<1>4. {Rows!Vector(e) : e \in CellsOf(r)} = Answer(r)
  BY <1>3 DEF Answer
<1>5. Len(given[r]) \in Nat /\ DOMAIN given[r] = 1..Len(given[r])
  BY PartsAre DEF RowsInv, RowsGiven
<1>6. ASSUME NEW p \in 1..Len(given[r])
      PROVE  batch[Rows!First(r) + (p - 1)] = Rows!Entry(given[r][p], p - 1, r)
  BY <1>1, PackedIs DEF RowsInv
<1>. DEFINE At(p) == batch[Rows!First(r) + p]
<1>7. {At(p) : p \in 0..(Len(given[r]) - 1)} = CellsOf(r)
  <2>1. ASSUME NEW p \in 0..(Len(given[r]) - 1) PROVE At(p) \in CellsOf(r)
    <3>1. p + 1 \in 1..Len(given[r]) /\ (p + 1) - 1 = p
      BY <1>5
    <3>2. At(p) = Rows!Entry(given[r][p + 1], (p + 1) - 1, r)
      BY <1>6, <3>1
    <3>. HIDE DEF At
    <3>. QED  BY <1>5, <3>1, <3>2 DEF CellsOf
  <2>2. ASSUME NEW c \in CellsOf(r) PROVE \E p \in 0..(Len(given[r]) - 1) : c = At(p)
    <3>1. PICK p \in 1..Len(given[r]) : c = Rows!Entry(given[r][p], p - 1, r)
      BY <1>5 DEF CellsOf
    <3>2. p - 1 \in 0..(Len(given[r]) - 1)
      BY <1>5
    <3>3. At(p - 1) = c
      BY <1>6, <3>1
    <3>. HIDE DEF At
    <3>. QED  BY <3>2, <3>3
  <2>. HIDE DEF At
  <2>. QED  BY <2>1, <2>2
<1>8. {Rows!Vector(At(p)) : p \in 0..(Len(given[r]) - 1)} = {Rows!Vector(e) : e \in CellsOf(r)}
  <2>. HIDE DEF At
  <2>. QED  BY <1>7
<1>. QED  BY <1>1, <1>2, <1>4, <1>8

(* A vector is pooled over what its row sees, which is all of itself.      *)
LEMMA RowsPool == RowsInv /\ Rows!PoolRow => RowsInv'
<1>. SUFFICES ASSUME RowsInv, Rows!PoolRow PROVE RowsInv'
  OBVIOUS
<1>. DEFINE r == Len(result) + 1
<1>1. /\ rowStage = "pooling" /\ Len(result) < Len(given)
      /\ UNCHANGED <<rowStage, job, given, sessions, kvCells, batch, rowCode>>
  BY DEF Rows!PoolRow
<1>2. /\ result \in Seq(SUBSET Vectors) /\ Len(result) \in Nat /\ Len(given) \in Nat
      /\ \A q \in 1..Len(result) : result[q] = Answer(q)
  <2>1. result \in Seq(SUBSET Vectors) /\ \A q \in 1..Len(result) : result[q] = Answer(q)
    BY DEF RowsInv, RowsAnswered
  <2>2. Len(result) \in Nat
    BY <2>1
  <2>3. Len(given) \in Nat
    BY PartsAre DEF RowsInv
  <2>. QED  BY <2>1, <2>2, <2>3
<1>3. r \in 1..Len(given) /\ r \in Nat
  BY <1>1, <1>2
<1>4. result' = Append(result, Answer(r))
  <2>. HIDE DEF r
  <2>1. \/ result' = Append(result,
             {Rows!Vector(e) : e \in {x \in Rows!Range(batch) : x.seq = r}})
        \/ result' = Append(result,
             {Rows!Vector(batch[Rows!First(r) + p]) : p \in 0..(Len(given[r]) - 1)})
    BY DEF Rows!PoolRow, r
  <2>. QED  BY <1>1, <1>3, <2>1, PooledIs
<1>5. Answer(r) \in SUBSET Vectors
  <2>1. {x \in Rows!Range(Rows!Packed) : x.seq = r} = CellsOf(r)
    BY <1>3, PackedIs DEF RowsInv
  <2>2. CellsOf(r) \in SUBSET Entries
    BY <2>1, PackedIs DEF RowsInv
  <2>. QED  BY <2>2 DEF Answer, Vectors
<1>6. RowsHeld'
  BY <1>1 DEF RowsInv, RowsHeld
<1>7. RowsGiven' /\ Rows!Packed' = Rows!Packed /\ \A q : Answer(q)' = Answer(q)
  BY <1>1, SameRows DEF RowsInv
<1>8. RowsCalled'
  BY <1>1, <1>7 DEF RowsInv, RowsCalled, Rows!Range
<1>9. RowsAnswered'
  <2>. HIDE DEF r
  <2>1. result' \in Seq(SUBSET Vectors)
    BY <1>2, <1>4, <1>5
  <2>2. Len(result') = r
    BY <1>2, <1>4 DEF r
  <2>3. ASSUME NEW q \in 1..r PROVE result'[q] = Answer(q)
    <3>1. CASE q = r
      BY <1>2, <1>4, <3>1 DEF r
    <3>2. CASE q # r
      <4>1. q \in 1..Len(result)
        BY <1>2, <1>3, <3>2 DEF r
      <4>. QED  BY <1>2, <1>4, <4>1
    <3>. QED  BY <3>1, <3>2
  <2>4. Len(result') <= Len(given')
    BY <1>1, <1>2, <1>3, <2>2
  <2>5. \A q \in 1..Len(result') : result'[q] = Answer(q)'
    BY <1>7, <2>2, <2>3
  <2>. QED  BY <1>1, <2>1, <2>4, <2>5 DEF RowsAnswered
<1>. QED  BY <1>6, <1>7, <1>8, <1>9 DEF RowsInv

LEMMA RowsDeliver == RowsInv /\ Rows!Deliver => RowsInv'
<1>. SUFFICES ASSUME RowsInv, Rows!Deliver PROVE RowsInv'
  OBVIOUS
<1>1. /\ rowStage' = "idle" /\ rowCode' = "ok" /\ Len(result) = Len(given)
      /\ UNCHANGED <<job, given, sessions, kvCells, batch, result>>
  BY DEF Rows!Deliver
<1>2. RowsGiven' /\ \A q : Answer(q)' = Answer(q)
  BY <1>1, SameRows DEF RowsInv
<1>3. RowsHeld'
  BY <1>1 DEF RowsInv, RowsHeld
<1>4. RowsCalled'
  BY <1>1 DEF RowsCalled
<1>5. RowsAnswered'
  BY <1>1, <1>2 DEF RowsInv, RowsAnswered
<1>. QED  BY <1>2, <1>3, <1>4, <1>5 DEF RowsInv

(* Every step keeps the invariant.                                         *)
LEMMA RowsStep == RowsInv /\ [Rows!Next]_(Rows!vars) => RowsInv'
<1>. SUFFICES ASSUME RowsInv, [Rows!Next]_(Rows!vars) PROVE RowsInv'
  OBVIOUS
<1>1. CASE UNCHANGED Rows!vars
  <2>1. UNCHANGED <<rowStage, job, given, sessions, kvCells, batch, result, rowCode>>
    BY <1>1 DEF Rows!vars
  <2>2. RowsGiven' /\ Rows!Packed' = Rows!Packed /\ \A q : Answer(q)' = Answer(q)
    BY <2>1, SameRows DEF RowsInv
  <2>3. RowsHeld'
    BY <2>1 DEF RowsInv, RowsHeld
  <2>4. RowsCalled'
    BY <2>1, <2>2 DEF RowsInv, RowsCalled, Rows!Range, Rows!Enough, Rows!Longest
  <2>5. RowsAnswered'
    BY <2>1, <2>2 DEF RowsInv, RowsAnswered
  <2>. QED  BY <2>2, <2>3, <2>4, <2>5 DEF RowsInv
<1>. QED
  BY <1>1, RowsEncode, RowsRerank, RowsEnsure, RowsEvaluate, RowsFail, RowsPool, RowsDeliver
  DEF Rows!Next

LEMMA RowsShow == RowsInv => RowsAnswerThemselves /\ Rows!AllRowsOrNone
<1>. SUFFICES ASSUME RowsInv PROVE RowsAnswerThemselves /\ Rows!AllRowsOrNone
  OBVIOUS
<1>1. Rows!TypeOK
  <2>1. ASSUME NEW row \in Rows!Range(given)
        PROVE  Len(row) > 0 /\ (MaxRowTokens > 0 => Len(row) <= MaxRowTokens)
    <3>1. PICK r \in 1..Len(given) : row = given[r]
      <4>1. DOMAIN given = 1..Len(given)
        BY DEF RowsInv, RowsGiven
      <4>. QED  BY <4>1 DEF Rows!Range
    <3>2. row \in Seq(Int) /\ Rows!RowTaken(row)
      BY <3>1 DEF RowsInv, RowsGiven
    <3>3. Len(row) > 0
      BY <3>2 DEF Rows!RowTaken
    <3>. QED  BY <3>2, <3>3 DEF Rows!RowTaken
  <2>2. ASSUME NEW j \in Rows!Jobs PROVE sessions[j].ctx \in 0..MaxContext
    <3>1. sessions[j].ctx \in Nat /\ sessions[j].ctx <= MaxContext
      BY DEF RowsInv, RowsHeld, Capacities
    <3>2. MaxContext \in Nat
      BY BackendsAssumption DEF Rows!EmbeddingAssumption
    <3>. QED  BY <3>1, <3>2
  <2>. QED  BY <2>1, <2>2 DEF RowsInv, RowsHeld, RowsCalled, RowsAnswered, Rows!TypeOK
<1>2. Rows!RowsAnswerThemselves
  <2>1. DOMAIN result = 1..Len(result)
    BY DEF RowsInv, RowsAnswered
  <2>2. \A r \in 1..Len(result) : result[r] = Answer(r)
    BY DEF RowsInv, RowsAnswered
  <2>. QED  BY <2>1, <2>2 DEF Rows!RowsAnswerThemselves, Answer, CellsOf
<1>3. Rows!EveryRowFits
  BY RowsFit DEF Rows!EveryRowFits
<1>4. Rows!AllRowsOrNone
  BY DEF RowsInv, RowsAnswered, Rows!AllRowsOrNone
<1>. QED  BY <1>1, <1>2, <1>3, <1>4 DEF RowsAnswerThemselves

(* However rows are packed, and whichever context they are put through,    *)
(* each vector was pooled over the cells of its own row and all of them,   *)
(* and no row is longer than its share of the context.                     *)
THEOREM RowsAlwaysAnswerThemselves == Rows!Spec => []RowsAnswerThemselves
BY RowsInit, RowsStep, RowsShow, PTL DEF Rows!Spec

-----------------------------------------------------------------------------
(* The graph.                                                              *)

Specs == [kind : STRING, int32 : BOOLEAN, shape : Seq(Int)]

(* What the graph is fed of the batch at hand.                             *)
Feed == [i \in DOMAIN inputs |-> Graph!Fed(inputs[i])]

(* The handle: what it was opened with, or nothing of any call.            *)
GraphOpened ==
  /\ loaded \in BOOLEAN /\ graphStage \in {"idle", "checked", "ran"}
  /\ loaded <=> tensor.rank \in {2, 3}
  /\ inputs \in Seq(Specs)
  /\ \A i \in DOMAIN inputs : inputs[i].kind \in Graph!Kinds
  /\ asked \in Rectangles \cup {Graph!NoBatch}
  /\ ~loaded => asked = Graph!NoBatch /\ pooled = <<>> /\ fed = <<>>

(* The call: checked before it is fed, fed before it is pooled, and its    *)
(* rows are there when it says so.                                         *)
GraphCalled ==
  /\ graphStage # "idle" =>
       loaded /\ asked \in Rectangles /\ Graph!Acceptable(asked) /\ pooled = <<>>
  /\ graphStage = "checked" => fed = <<>>
  /\ graphStage = "ran" => \A i \in DOMAIN inputs : Graph!Narrows(inputs[i])
  /\ fed = <<>> \/ fed = Feed
  /\ graphStage = "ran" => fed = Feed
  /\ pooled # <<>> =>
       /\ asked \in Rectangles
       /\ pooled = [r \in 1..Graph!Batch |-> Graph!Pooled(r)]
       /\ \A r \in 1..Graph!Batch : Graph!Pools(r)
  /\ graphStage = "idle" /\ asked # Graph!NoBatch => (pooled # <<>> <=> graphCode = "ok")

GraphInv == GraphOpened /\ GraphCalled

(* What the assumption says of a batch.                                    *)
LEMMA RectangleIs ==
  ASSUME NEW b \in Rectangles
  PROVE  /\ b.ids \in Seq(Seq(Int)) /\ Len(b.ids) \in Nat \ {0}
         /\ Len(b.ids[1]) \in Nat \ {0}
         /\ \A r \in 1..Len(b.ids) : b.ids[r] \in Seq(Int) /\ Len(b.ids[r]) = Len(b.ids[1])
         /\ b.mask # Graph!None =>
              /\ b.mask \in Seq(Seq(Int)) /\ Len(b.mask) = Len(b.ids)
              /\ \A r \in 1..Len(b.ids) : b.mask[r] \in Seq(Int) /\ Len(b.mask[r]) = Len(b.ids[1])
         /\ b.types # Graph!None =>
              /\ b.types \in Seq(Seq(Int)) /\ Len(b.types) = Len(b.ids)
              /\ \A r \in 1..Len(b.ids) : b.types[r] \in Seq(Int) /\ Len(b.types[r]) = Len(b.ids[1])
<1>1. /\ b.ids # <<>> /\ b.ids[1] # <<>> /\ Graph!Shaped(b.ids, b.ids)
      /\ b.mask = Graph!None \/ Graph!Shaped(b.mask, b.ids)
      /\ b.types = Graph!None \/ Graph!Shaped(b.types, b.ids)
  BY BackendsAssumption DEF Graph!OnnxAssumption
<1>2. /\ b.ids \in Seq(Seq(Int)) /\ Len(b.ids) \in Nat \ {0}
      /\ \A r \in 1..Len(b.ids) : b.ids[r] \in Seq(Int) /\ Len(b.ids[r]) = Len(b.ids[1])
  BY <1>1 DEF Graph!Shaped
<1>3. Len(b.ids[1]) \in Nat \ {0}
  BY <1>1, <1>2
<1>4. ASSUME b.mask # Graph!None
      PROVE  /\ b.mask \in Seq(Seq(Int)) /\ Len(b.mask) = Len(b.ids)
             /\ \A r \in 1..Len(b.ids) : b.mask[r] \in Seq(Int) /\ Len(b.mask[r]) = Len(b.ids[1])
  BY <1>1, <1>4 DEF Graph!Shaped
<1>5. ASSUME b.types # Graph!None
      PROVE  /\ b.types \in Seq(Seq(Int)) /\ Len(b.types) = Len(b.ids)
             /\ \A r \in 1..Len(b.ids) : b.types[r] \in Seq(Int) /\ Len(b.types[r]) = Len(b.ids[1])
  BY <1>1, <1>5 DEF Graph!Shaped
<1>. QED  BY <1>2, <1>3, <1>4, <1>5

LEMMA GraphInit == Graph!Init => GraphInv
<1>. SUFFICES ASSUME Graph!Init PROVE GraphInv
  OBVIOUS
<1>1. inputs \in Seq(Specs) /\ \A i \in DOMAIN inputs : FALSE
  BY DEF Graph!Init
<1>2. ~(tensor.rank \in {2, 3})
  <2>1. tensor.rank = 0
    BY DEF Graph!Init, Graph!NoOutput
  <2>. QED  BY <2>1
<1>3. GraphOpened
  BY <1>1, <1>2 DEF Graph!Init, GraphOpened
<1>4. GraphCalled
  BY DEF Graph!Init, GraphCalled
<1>. QED  BY <1>3, <1>4 DEF GraphInv

LEMMA ChosenIsPoolable ==
  ASSUME NEW outputs, NEW name, NEW o \in Graph!Selected(outputs, name)
  PROVE  o.rank \in {2, 3}
BY DEF Graph!Selected, Graph!Best, Graph!Poolable

LEMMA GraphCreate ==
  ASSUME GraphInv, NEW g \in Graphs, NEW name \in Requested, NEW p \in Poolings,
         Graph!Create(g, name, p)
  PROVE  GraphInv'
<1>1. /\ asked = Graph!NoBatch /\ pooled = <<>> /\ fed = <<>> /\ ~loaded /\ graphStage = "idle"
      /\ asked' = asked /\ pooled' = pooled /\ fed' = fed /\ graphStage' = graphStage
  BY DEF GraphInv, GraphOpened, Graph!Create
<1>2. GraphOpened'
  <2>1. CASE Graph!InputsTaken(g.inputs) /\ Graph!Selected(g.outputs, name) # {}
    <3>1. /\ loaded' = TRUE /\ inputs' = g.inputs
          /\ \E o \in Graph!Selected(g.outputs, name) : tensor' = [name |-> o.name, rank |-> o.rank]
      BY <2>1 DEF Graph!Create
    <3>2. tensor'.rank \in {2, 3}
      BY <3>1, ChosenIsPoolable
    <3>3. inputs' \in Seq(Specs)
      BY <3>1, BackendsAssumption DEF Graph!OnnxAssumption, Specs
    <3>4. \A i \in DOMAIN inputs' : inputs'[i].kind \in Graph!Kinds
      BY <3>1, <2>1 DEF Graph!InputsTaken, Graph!InputTaken, Graph!Range
    <3>. QED  BY <1>1, <3>1, <3>2, <3>3, <3>4 DEF GraphOpened
  <2>2. CASE ~(Graph!InputsTaken(g.inputs) /\ Graph!Selected(g.outputs, name) # {})
    <3>1. UNCHANGED <<loaded, inputs, tensor>>
      BY <2>2 DEF Graph!Create
    <3>. QED  BY <1>1, <3>1 DEF GraphInv, GraphOpened
  <2>. QED  BY <2>1, <2>2
<1>3. GraphCalled'
  BY <1>1 DEF GraphCalled
<1>. QED  BY <1>2, <1>3 DEF GraphInv

LEMMA GraphDestroy == GraphInv /\ Graph!Destroy => GraphInv'
<1>. SUFFICES ASSUME GraphInv, Graph!Destroy PROVE GraphInv'
  OBVIOUS
<1>1. inputs' \in Seq(Specs) /\ \A i \in DOMAIN inputs' : FALSE
  BY DEF Graph!Destroy
<1>2. ~(tensor'.rank \in {2, 3})
  <2>1. tensor'.rank = 0
    BY DEF Graph!Destroy, Graph!NoOutput
  <2>. QED  BY <2>1
<1>3. GraphOpened'
  BY <1>1, <1>2 DEF Graph!Destroy, GraphInv, GraphOpened
<1>4. GraphCalled'
  BY DEF Graph!Destroy, GraphCalled
<1>. QED  BY <1>3, <1>4 DEF GraphInv

LEMMA GraphEncode ==
  ASSUME GraphInv, NEW b \in Rectangles, Graph!Encode(b)
  PROVE  GraphInv'
<1>1. Graph!Acceptable(b)' <=> Graph!Acceptable(b)
  BY DEF Graph!Encode, Graph!Acceptable, Graph!ShapeAccepts
<1>. QED
  BY <1>1 DEF GraphInv, GraphOpened, GraphCalled, Graph!Encode, Graph!Return

LEMMA SameFeed ==
  ASSUME UNCHANGED <<inputs, tensor, pooling, asked>>
  PROVE  /\ Graph!Acceptable(asked)' <=> Graph!Acceptable(asked)
         /\ \A spec : Graph!Fed(spec)' = Graph!Fed(spec) /\ (Graph!Narrows(spec)' <=> Graph!Narrows(spec))
         /\ Feed' = Feed
         /\ \A r : Graph!Pooled(r)' = Graph!Pooled(r) /\ (Graph!Pools(r)' <=> Graph!Pools(r))
         /\ Graph!Batch' = Graph!Batch
BY DEF Graph!Acceptable, Graph!ShapeAccepts, Graph!Fed, Graph!Raw, Graph!Matrix, Feed, Graph!Narrows,
       Graph!Pooled, Graph!Pools, Graph!VisibleAt, Graph!Batch, Graph!Width

LEMMA GraphRun == GraphInv /\ Graph!Run => GraphInv'
<1>. SUFFICES ASSUME GraphInv, Graph!Run PROVE GraphInv'
  OBVIOUS
<1>1. UNCHANGED <<loaded, inputs, tensor, pooling, asked, pooled>>
  BY DEF Graph!Run
<1>2. /\ Graph!Acceptable(asked)' <=> Graph!Acceptable(asked)
      /\ \A spec : Graph!Narrows(spec)' <=> Graph!Narrows(spec)
      /\ Feed' = Feed
  BY <1>1, SameFeed
<1>4. pooled = <<>> /\ loaded
  BY DEF GraphInv, GraphCalled, Graph!Run
<1>5. CASE \A spec \in Graph!Range(inputs) : Graph!Narrows(spec)
  <2>1. fed' = Feed /\ graphStage' = "ran"
    BY <1>5 DEF Graph!Run, Feed
  <2>2. \A i \in DOMAIN inputs : Graph!Narrows(inputs[i])
    BY <1>5 DEF Graph!Range
  <2>. QED
    BY <1>1, <1>2, <1>4, <2>1, <2>2 DEF GraphInv, GraphOpened, GraphCalled, Graph!Run
<1>6. CASE ~(\A spec \in Graph!Range(inputs) : Graph!Narrows(spec))
  <2>1. /\ graphStage' = "idle" /\ graphCode' = "invalid_input" /\ fed' = fed
    BY <1>6 DEF Graph!Run, Graph!Return
  <2>2. fed = <<>>
    BY DEF GraphInv, GraphCalled, Graph!Run
  <2>. QED
    BY <1>1, <1>4, <2>1, <2>2 DEF GraphInv, GraphOpened, GraphCalled
<1>. QED  BY <1>5, <1>6

LEMMA GraphFails ==
  ASSUME GraphInv, Graph!RunFails \/ Graph!PoolFails
  PROVE  GraphInv'
<1>1. /\ UNCHANGED <<loaded, inputs, tensor, pooling, asked, fed, pooled>>
      /\ graphStage' = "idle" /\ graphCode' # "ok" /\ graphStage # "idle"
  BY DEF Graph!RunFails, Graph!PoolFails, Graph!Return
<1>2. Feed' = Feed
  BY <1>1, SameFeed
<1>3. fed' = <<>> \/ fed' = Feed'
  BY <1>1, <1>2 DEF GraphInv, GraphCalled
<1>. QED
  BY <1>1, <1>3 DEF GraphInv, GraphOpened, GraphCalled

LEMMA GraphPool == GraphInv /\ Graph!Pool => GraphInv'
<1>. SUFFICES ASSUME GraphInv, Graph!Pool PROVE GraphInv'
  OBVIOUS
<1>1. UNCHANGED <<loaded, inputs, tensor, pooling, asked, fed>> /\ graphStage = "ran"
  BY DEF Graph!Pool
<1>2. /\ Feed' = Feed
      /\ \A r : Graph!Pooled(r)' = Graph!Pooled(r) /\ (Graph!Pools(r)' <=> Graph!Pools(r))
      /\ Graph!Batch' = Graph!Batch
  BY <1>1, SameFeed
<1>3. fed' = <<>> \/ fed' = Feed'
  BY <1>1, <1>2 DEF GraphInv, GraphCalled
<1>4. asked \in Rectangles /\ pooled = <<>>
  BY <1>1 DEF GraphInv, GraphCalled
<1>5. GraphOpened'
  BY <1>1, <1>4 DEF GraphInv, GraphOpened, GraphCalled, Graph!Pool, Graph!Return
<1>6. CASE \A r \in 1..Graph!Batch : Graph!Pools(r)
  <2>1. /\ pooled' = [r \in 1..Graph!Batch |-> Graph!Pooled(r)]
        /\ graphStage' = "idle" /\ graphCode' = "ok"
    BY <1>6 DEF Graph!Pool, Graph!Return
  <2>2. pooled' # <<>>
    <3>1. Graph!Batch \in Nat \ {0}
      BY <1>4, RectangleIs DEF Graph!Batch
    <3>2. 1 \in DOMAIN pooled'
      BY <2>1, <3>1
    <3>. QED  BY <3>2
  <2>3. pooled' = [r \in 1..Graph!Batch' |-> Graph!Pooled(r)']
    BY <2>1, <1>2
  <2>. QED
    BY <1>1, <1>2, <1>3, <1>4, <1>5, <1>6, <2>1, <2>2, <2>3 DEF GraphInv, GraphCalled
<1>7. CASE ~(\A r \in 1..Graph!Batch : Graph!Pools(r))
  <2>1. pooled' = pooled /\ graphStage' = "idle" /\ graphCode' = "invalid_input"
    BY <1>7 DEF Graph!Pool, Graph!Return
  <2>. QED
    BY <1>1, <1>3, <1>4, <1>5, <2>1 DEF GraphInv, GraphCalled
<1>. QED  BY <1>6, <1>7

(* Every step keeps the invariant.                                         *)
LEMMA GraphStep == GraphInv /\ [Graph!Next]_(Graph!vars) => GraphInv'
<1>. SUFFICES ASSUME GraphInv, [Graph!Next]_(Graph!vars) PROVE GraphInv'
  OBVIOUS
<1>1. CASE UNCHANGED Graph!vars
  <2>1. UNCHANGED <<loaded, inputs, tensor, pooling, asked, fed, pooled, graphStage, graphCode>>
    BY <1>1 DEF Graph!vars
  <2>2. /\ Graph!Acceptable(asked)' <=> Graph!Acceptable(asked)
        /\ \A spec : Graph!Narrows(spec)' <=> Graph!Narrows(spec)
        /\ Feed' = Feed
        /\ \A r : Graph!Pooled(r)' = Graph!Pooled(r) /\ (Graph!Pools(r)' <=> Graph!Pools(r))
        /\ Graph!Batch' = Graph!Batch
    BY <2>1, SameFeed
  <2>. QED
    BY <2>1, <2>2 DEF GraphInv, GraphOpened, GraphCalled
<1>. QED
  BY <1>1, GraphCreate, GraphDestroy, GraphEncode, GraphRun, GraphFails, GraphPool
  DEF Graph!Next

-----------------------------------------------------------------------------
(* What it shows.                                                          *)

LEMMA SmallRemainder ==
  ASSUME NEW m \in Nat, NEW v \in 0..m
  PROVE  ((v + m + 1) % (2 * (m + 1))) - m - 1 = v
<1>1. v + m + 1 \in 0..(2 * (m + 1) - 1)
  OBVIOUS
<1>. QED  BY <1>1

(* What a call feeds, before it is narrowed: a matrix of the batch's shape *)
(* without negative numbers.                                               *)
Plain(m) ==
  /\ m \in Seq(Seq(Int)) /\ Len(m) = Graph!Batch
  /\ \A r \in 1..Graph!Batch :
       Len(m[r]) = Graph!Width(asked) /\ \A c \in 1..Graph!Width(asked) : m[r][c] \in Nat

(* A matrix that is made cell by cell.                                     *)
LEMMA Rebuilt ==
  ASSUME asked \in Rectangles, NEW m, Plain(m)
  PROVE  m = [r \in DOMAIN asked.ids |-> [c \in DOMAIN asked.ids[1] |-> m[r][c]]]
<1>1. /\ DOMAIN asked.ids = 1..Graph!Batch /\ DOMAIN asked.ids[1] = 1..Graph!Width(asked)
      /\ Graph!Batch \in Nat /\ Graph!Width(asked) \in Nat
  BY RectangleIs DEF Graph!Batch, Graph!Width
<1>2. ASSUME NEW r \in 1..Graph!Batch
      PROVE  m[r] = [c \in 1..Graph!Width(asked) |-> m[r][c]]
  <2>1. m[r] \in Seq(Int) /\ Len(m[r]) = Graph!Width(asked)
    BY <1>1 DEF Plain
  <2>. QED  BY <2>1, <1>1
<1>3. m = [r \in 1..Graph!Batch |-> m[r]]
  BY <1>1 DEF Plain
<1>. QED  BY <1>1, <1>2, <1>3

(* Cells that are numbers make such a matrix.                              *)
LEMMA MadeIsPlain ==
  ASSUME asked \in Rectangles, NEW v \in [1..Graph!Batch -> [1..Graph!Width(asked) -> Nat]]
  PROVE  Plain(v)
<1>1. Graph!Batch \in Nat /\ Graph!Width(asked) \in Nat
  BY RectangleIs DEF Graph!Batch, Graph!Width
<1>2. v \in Seq(Seq(Int)) /\ Len(v) = Graph!Batch
  BY <1>1
<1>. QED  BY <1>1, <1>2 DEF Plain

(* The cells of a matrix whose entries are as they should be.              *)
LEMMA EntriesAre ==
  ASSUME NEW a, NEW r \in DOMAIN a, NEW c \in DOMAIN a[r]
  PROVE  a[r][c] \in Graph!Entries(a)
BY DEF Graph!Entries, Graph!Range

LEMMA InMatrix ==
  ASSUME NEW a \in Seq(Seq(Int)), NEW n \in Nat, NEW r \in 1..Len(a), Len(a[r]) = n, NEW c \in 1..n
  PROVE  a[r][c] \in Int /\ a[r][c] \in Graph!Entries(a)
<1>1. r \in DOMAIN a /\ a[r] \in Seq(Int)
  OBVIOUS
<1>2. c \in DOMAIN a[r]
  BY <1>1
<1>. QED  BY <1>1, <1>2, EntriesAre

LEMMA RawIsPlain ==
  ASSUME asked \in Rectangles, Graph!Acceptable(asked), NEW kind \in Graph!Kinds
  PROVE  Plain(Graph!Raw(kind))
<1>. DEFINE R == 1..Graph!Batch
            C == 1..Graph!Width(asked)
<1>1. /\ DOMAIN asked.ids = R /\ DOMAIN asked.ids[1] = C
      /\ Graph!Batch \in Nat /\ Graph!Width(asked) \in Nat
  BY RectangleIs DEF Graph!Batch, Graph!Width
<1>2. CASE kind = "input_ids"
  <2>1. \A r \in R : \A c \in C : asked.ids[r][c] \in Nat
    <3>. SUFFICES ASSUME NEW r \in R, NEW c \in C PROVE asked.ids[r][c] \in Nat
      OBVIOUS
    <3>1. /\ asked.ids \in Seq(Seq(Int)) /\ r \in 1..Len(asked.ids)
          /\ Len(asked.ids[r]) = Graph!Width(asked)
      BY RectangleIs DEF Graph!Batch, Graph!Width
    <3>2. asked.ids[r][c] \in Int /\ asked.ids[r][c] \in Graph!Entries(asked.ids)
      BY <1>1, <3>1, InMatrix
    <3>. QED  BY <3>2 DEF Graph!Acceptable
  <2>. QED  BY <2>1, <1>2, RectangleIs DEF Plain, Graph!Raw, Graph!Batch, Graph!Width
<1>3. CASE kind = "attention_mask"
  <2>1. CASE asked.mask = Graph!None
    <3>1. Graph!Raw(kind) = [r \in R |-> [c \in C |-> 1]]
      BY <1>1, <1>3, <2>1 DEF Graph!Raw, Graph!Matrix
    <3>. QED  BY <3>1, MadeIsPlain
  <2>2. CASE asked.mask # Graph!None
    <3>1. Graph!Raw(kind) = asked.mask
      BY <1>3, <2>2 DEF Graph!Raw
    <3>2. \A r \in R : \A c \in C : asked.mask[r][c] \in Nat
      <4>. SUFFICES ASSUME NEW r \in R, NEW c \in C PROVE asked.mask[r][c] \in Nat
        OBVIOUS
      <4>1. /\ asked.mask \in Seq(Seq(Int)) /\ r \in 1..Len(asked.mask)
            /\ Len(asked.mask[r]) = Graph!Width(asked)
        BY <2>2, RectangleIs DEF Graph!Batch, Graph!Width
      <4>2. asked.mask[r][c] \in Graph!Entries(asked.mask)
        BY <1>1, <4>1, InMatrix
      <4>3. asked.mask[r][c] \in {0, 1}
        BY <2>2, <4>2 DEF Graph!Acceptable
      <4>. QED  BY <4>3
    <3>3. /\ asked.mask \in Seq(Seq(Int)) /\ Len(asked.mask) = Graph!Batch
          /\ \A r \in R : Len(asked.mask[r]) = Graph!Width(asked)
      BY <2>2, RectangleIs DEF Graph!Batch, Graph!Width
    <3>. QED  BY <3>1, <3>2, <3>3 DEF Plain
  <2>. QED  BY <2>1, <2>2
<1>4. CASE kind = "token_type_ids"
  <2>1. CASE asked.types = Graph!None
    <3>1. Graph!Raw(kind) = [r \in R |-> [c \in C |-> 0]]
      BY <1>1, <1>4, <2>1 DEF Graph!Raw, Graph!Matrix
    <3>. QED  BY <3>1, MadeIsPlain
  <2>2. CASE asked.types # Graph!None
    <3>1. Graph!Raw(kind) = asked.types
      BY <1>4, <2>2 DEF Graph!Raw
    <3>2. \A r \in R : \A c \in C : asked.types[r][c] \in Nat
      <4>. SUFFICES ASSUME NEW r \in R, NEW c \in C PROVE asked.types[r][c] \in Nat
        OBVIOUS
      <4>1. /\ asked.types \in Seq(Seq(Int)) /\ r \in 1..Len(asked.types)
            /\ Len(asked.types[r]) = Graph!Width(asked)
        BY <2>2, RectangleIs DEF Graph!Batch, Graph!Width
      <4>2. asked.types[r][c] \in Int /\ asked.types[r][c] \in Graph!Entries(asked.types)
        BY <1>1, <4>1, InMatrix
      <4>. QED  BY <2>2, <4>2 DEF Graph!Acceptable
    <3>. QED  BY <2>2, <3>1, <3>2, RectangleIs DEF Plain, Graph!Batch, Graph!Width
  <2>. QED  BY <2>1, <2>2
<1>5. CASE kind = "position_ids"
  <2>1. Graph!Raw(kind) = [r \in R |-> [c \in C |-> c - 1]]
    BY <1>1, <1>5 DEF Graph!Raw, Graph!Matrix
  <2>2. [r \in R |-> [c \in C |-> c - 1]] \in [R -> [C -> Nat]]
    OBVIOUS
  <2>. QED  BY <2>1, <2>2, MadeIsPlain
<1>. QED  BY <1>2, <1>3, <1>4, <1>5 DEF Graph!Kinds

(* Whatever width the graph declares, it is fed what was passed.           *)
LEMMA FedIsRaw ==
  ASSUME GraphInv, graphStage = "ran", NEW i \in DOMAIN inputs
  PROVE  fed[i] = Graph!Raw(inputs[i].kind) /\ Plain(fed[i])
<1>. DEFINE spec == inputs[i]
            m == Graph!Raw(spec.kind)
<1>1. /\ asked \in Rectangles /\ Graph!Acceptable(asked) /\ spec.kind \in Graph!Kinds
      /\ Graph!Narrows(spec) /\ fed[i] = Graph!Fed(spec)
  BY DEF GraphInv, GraphOpened, GraphCalled, Feed
<1>2. Plain(m)
  BY <1>1, RawIsPlain
<1>3. CASE ~spec.int32
  BY <1>1, <1>2, <1>3 DEF Graph!Fed
<1>4. CASE spec.int32
  <2>. DEFINE R == 1..Graph!Batch
              C == 1..Graph!Width(asked)
  <2>1. /\ DOMAIN asked.ids = R /\ DOMAIN asked.ids[1] = C
    BY <1>1, RectangleIs DEF Graph!Batch, Graph!Width
  <2>2. ASSUME NEW r \in R, NEW c \in C PROVE Graph!Narrowed(m[r][c]) = m[r][c]
    <3>1. \A v \in Graph!Entries(m) : v <= Int32Max
      BY <1>1, <1>4 DEF Graph!Narrows
    <3>. HIDE DEF m
    <3>2. /\ m \in Seq(Seq(Int)) /\ r \in 1..Len(m) /\ Len(m[r]) = Graph!Width(asked)
          /\ m[r][c] \in Nat
      BY <1>2 DEF Plain
    <3>3. Graph!Width(asked) \in Nat
      BY <1>1, RectangleIs DEF Graph!Width
    <3>4. m[r][c] \in Graph!Entries(m)
      BY <3>2, <3>3, InMatrix
    <3>5. Int32Max \in Nat
      BY BackendsAssumption DEF Graph!OnnxAssumption
    <3>6. m[r][c] <= Int32Max
      BY <3>1, <3>4
    <3>7. m[r][c] \in 0..Int32Max
      BY <3>2, <3>5, <3>6
    <3>. QED  BY <3>5, <3>7, SmallRemainder DEF Graph!Narrowed
  <2>3. fed[i] = [r \in R |-> [c \in C |-> Graph!Narrowed(m[r][c])]]
    BY <1>1, <1>4, <2>1 DEF Graph!Fed, Graph!Matrix
  <2>4. fed[i] = [r \in R |-> [c \in C |-> m[r][c]]]
    <3>. HIDE DEF m
    <3>. QED  BY <2>2, <2>3
  <2>5. fed[i] = m
    <3>. HIDE DEF m
    <3>. QED  BY <1>1, <1>2, <2>1, <2>4, Rebuilt
  <2>. QED  BY <1>2, <2>5
<1>. QED  BY <1>3, <1>4

(* What the invariant says of the tensors.                                 *)
LEMMA GraphIsFed == GraphInv => Graph!FedWhatWasAsked
<1>. DEFINE Entry(kind, r, c) ==
              CASE kind = "input_ids" -> asked.ids[r][c]
                [] kind = "attention_mask" -> IF c \in Graph!VisibleAt(r) THEN 1 ELSE 0
                [] kind = "token_type_ids" ->
                     IF asked.types = Graph!None THEN 0 ELSE asked.types[r][c]
                [] kind = "position_ids" -> c - 1
<1>. SUFFICES ASSUME GraphInv, graphStage = "ran", NEW i \in DOMAIN inputs,
                     NEW r \in 1..Graph!Batch, NEW c \in 1..Graph!Width(asked)
              PROVE  fed[i][r][c] = Entry(inputs[i].kind, r, c)
  BY Zenon DEF Graph!FedWhatWasAsked
<1>. DEFINE kind == inputs[i].kind
<1>1. fed[i] = Graph!Raw(kind) /\ Plain(fed[i]) /\ kind \in Graph!Kinds
  BY FedIsRaw DEF GraphInv, GraphOpened
<1>2. asked \in Rectangles /\ Graph!Acceptable(asked)
  BY DEF GraphInv, GraphCalled
<1>3. /\ DOMAIN asked.ids = 1..Graph!Batch /\ DOMAIN asked.ids[1] = 1..Graph!Width(asked)
      /\ Graph!Width(asked) \in Nat \ {0}
  BY <1>2, RectangleIs DEF Graph!Batch, Graph!Width
<1>4. CASE kind = "input_ids"
  BY <1>1, <1>4 DEF Graph!Raw
<1>5. CASE kind = "attention_mask"
  <2>1. CASE asked.mask = Graph!None
    <3>1. fed[i][r][c] = 1
      BY <1>1, <1>3, <1>5, <2>1 DEF Graph!Raw, Graph!Matrix
    <3>2. c \in Graph!VisibleAt(r)
      BY <2>1 DEF Graph!VisibleAt
    <3>. QED  BY <1>5, <3>1, <3>2
  <2>2. CASE asked.mask # Graph!None
    <3>1. fed[i] = asked.mask
      BY <1>1, <1>5, <2>2 DEF Graph!Raw
    <3>2. r \in DOMAIN asked.mask /\ c \in DOMAIN asked.mask[r]
      BY <1>1, <3>1, <1>3 DEF Plain
    <3>3. asked.mask[r][c] \in {0, 1}
      BY <1>2, <2>2, <3>2, EntriesAre DEF Graph!Acceptable
    <3>4. c \in Graph!VisibleAt(r) <=> asked.mask[r][c] # 0
      BY <2>2 DEF Graph!VisibleAt
    <3>. QED  BY <1>5, <3>1, <3>3, <3>4
  <2>. QED  BY <2>1, <2>2
<1>6. CASE kind = "token_type_ids"
  <2>1. CASE asked.types # Graph!None
    BY <1>1, <1>6, <2>1 DEF Graph!Raw
  <2>2. CASE asked.types = Graph!None
    <3>1. fed[i] = [s \in 1..Graph!Batch |-> [d \in 1..Graph!Width(asked) |-> 0]]
      BY <1>1, <1>3, <1>6, <2>2 DEF Graph!Raw, Graph!Matrix
    <3>. QED  BY <1>6, <2>2, <3>1
  <2>. QED  BY <2>1, <2>2
<1>7. CASE kind = "position_ids"
  <2>1. fed[i] = [s \in 1..Graph!Batch |-> [d \in 1..Graph!Width(asked) |-> d - 1]]
    BY <1>1, <1>3, <1>7 DEF Graph!Raw, Graph!Matrix
  <2>. QED  BY <1>7, <2>1
<1>. QED  BY <1>1, <1>4, <1>5, <1>6, <1>7 DEF Graph!Kinds

(* What the invariant says of the vectors.                                 *)
LEMMA GraphIsPooled == GraphInv => Graph!PooledAsDeclared
<1>. DEFINE V(r) == Graph!VisibleAt(r)
            Declared(r) ==
              CASE pooling = "cls" -> pooled[r] = {1}
                [] pooling = "last" ->
                     \E d \in V(r) : pooled[r] = {d} /\ \A c \in V(r) : c <= d
                [] OTHER -> pooled[r] = V(r) /\ pooled[r] # {}
<1>. SUFFICES ASSUME GraphInv, pooled # <<>>, tensor.rank = 3, NEW r \in DOMAIN pooled
              PROVE  Declared(r)
  BY Zenon DEF Graph!PooledAsDeclared
<1>1. /\ pooled[r] = Graph!Pooled(r) /\ Graph!Pools(r) /\ asked \in Rectangles
  BY DEF GraphInv, GraphCalled
<1>2. Graph!Width(asked) \in Nat /\ V(r) \in SUBSET (0..Graph!Width(asked))
  BY <1>1, RectangleIs DEF Graph!VisibleAt, Graph!Width
<1>3. pooling # "cls" => V(r) # {}
  BY <1>1 DEF Graph!Pools
<1>4. CASE pooling = "cls"
  BY <1>1, <1>4 DEF Graph!Pooled
<1>5. CASE pooling = "last"
  <2>. HIDE DEF V
  <2>1. Max(V(r)) \in V(r) /\ \A c \in V(r) : Max(V(r)) >= c
    BY <1>2, <1>3, <1>5, MaxIsMember
  <2>2. pooled[r] = {Max(V(r))}
    BY <1>1, <1>5 DEF Graph!Pooled, Graph!Max, Max, V
  <2>3. V(r) \subseteq Int
    BY <1>2
  <2>4. \A c \in V(r) : c <= Max(V(r))
    BY <2>1, <2>3
  <2>. QED  BY <1>5, <2>1, <2>2, <2>4
<1>6. CASE pooling \notin {"cls", "last"}
  BY <1>1, <1>3, <1>6 DEF Graph!Pooled
<1>. QED  BY <1>4, <1>5, <1>6

LEMMA GraphIsTyped == GraphInv => Graph!TypeOK /\ Graph!AllRowsOrNone
<1>. SUFFICES ASSUME GraphInv PROVE Graph!TypeOK /\ Graph!AllRowsOrNone
  OBVIOUS
<1>1. Len(pooled) \in {0, Graph!Batch}
  <2>1. CASE pooled # <<>>
    <3>1. Graph!Batch \in Nat
      BY <2>1, RectangleIs DEF GraphInv, GraphCalled, Graph!Batch
    <3>. QED  BY <2>1, <3>1 DEF GraphInv, GraphCalled
  <2>. QED  BY <2>1
<1>2. Len(fed) \in {0, Len(inputs)}
  <2>1. DOMAIN inputs = 1..Len(inputs) /\ Len(inputs) \in Nat
    BY DEF GraphInv, GraphOpened
  <2>2. CASE fed = Feed
    <3>1. Len(Feed) = Len(inputs)
      BY <2>1 DEF Feed
    <3>. QED  BY <2>2, <3>1
  <2>. QED  BY <2>2 DEF GraphInv, GraphCalled
<1>. QED
  BY <1>1, <1>2 DEF GraphInv, GraphOpened, GraphCalled, Graph!TypeOK, Graph!AllRowsOrNone

(* Whatever graph was opened, and whatever fails, it is fed the batch that *)
(* was asked, number by number in tensors of its own types, or nothing; a  *)
(* mean is over exactly the visible tokens, the last token is the last     *)
(* visible one, and CLS is the token at index zero, masked or not.         *)
THEOREM GraphAlwaysAnswers == Graph!Spec => []GraphAnswersRequest
<1>1. GraphInv => GraphAnswersRequest
  BY GraphIsTyped, GraphIsFed, GraphIsPooled DEF GraphAnswersRequest
<1>. QED  BY <1>1, GraphInit, GraphStep, PTL DEF Graph!Spec

(* The parts share no state: whatever the whole does is, to each of them,  *)
(* a step of its own or none.                                              *)
THEOREM PartsAreApart == BackendsSpec => Spec /\ Vision!Spec /\ Rows!Spec /\ Graph!Spec
<1>1. BackendsInit => Init /\ Vision!Init /\ Rows!Init /\ Graph!Init
  BY DEF BackendsInit
<1>2. ASSUME [BackendsNext]_backendVars
      PROVE  /\ [Next]_vars /\ [Vision!Next]_(Vision!vars)
             /\ [Rows!Next]_(Rows!vars) /\ [Graph!Next]_(Graph!vars)
  <2>1. \/ UNCHANGED <<vars, visionVars, rowVars, graphVars>>
        \/ Next /\ UNCHANGED <<visionVars, rowVars, graphVars>>
        \/ Vision!Next /\ UNCHANGED <<vars, rowVars, graphVars>>
        \/ Rows!Next /\ UNCHANGED <<vars, visionVars, graphVars>>
        \/ Graph!Next /\ UNCHANGED <<vars, visionVars, rowVars>>
    BY <1>2, Zenon DEF BackendsNext, backendVars
  <2>2. /\ UNCHANGED visionVars => UNCHANGED Vision!vars
        /\ UNCHANGED rowVars => UNCHANGED Rows!vars
        /\ UNCHANGED graphVars => UNCHANGED Graph!vars
    BY DEF visionVars, Vision!vars, rowVars, Rows!vars, graphVars, Graph!vars
  <2>. QED  BY <2>1, <2>2, Zenon
<1>. QED  BY <1>1, <1>2, PTL DEF BackendsSpec, Spec, Vision!Spec, Rows!Spec, Graph!Spec

(* Both embedding handles hand out every row of a batch or none, at        *)
(* whichever step a call fails.                                            *)
THEOREM EveryRowOrNone == BackendsSpec => []AllRowsOrNone
<1>1. RowsInv /\ GraphInv => AllRowsOrNone
  BY RowsShow, GraphIsTyped DEF AllRowsOrNone
<1>2. Rows!Spec => []RowsInv
  BY RowsInit, RowsStep, PTL DEF Rows!Spec
<1>3. Graph!Spec => []GraphInv
  BY GraphInit, GraphStep, PTL DEF Graph!Spec
<1>. QED  BY <1>1, <1>2, <1>3, PartsAreApart, PTL

-----------------------------------------------------------------------------
(* Constrained decoding.  What is proved for any family of schemas is      *)
(* taken over for the three that share the variables of the whole: the     *)
(* definitions reached through one module or the other say the same.       *)

ShapesOnes == INSTANCE JsonConstraint_proofs WITH
  Schemas <- ShapeFamily.schemas, Compiled <- ShapeCompiled, Language <- ShapeSpelled,
  Means <- ShapeMeans, Vocabulary <- ShapeFamily.tokens, Printable <- ShapeFamily.printable,
  Control <- ShapeFamily.control, MaxText <- ShapeFamily.maxText,
  phase <- constraining, code <- verdict

RecordsOnes == INSTANCE JsonConstraint_proofs WITH
  Schemas <- RecordFamily.schemas, Compiled <- RecordCompiled, Language <- RecordSpelled,
  Means <- RecordMeans, Vocabulary <- RecordFamily.tokens, Printable <- RecordFamily.printable,
  Control <- RecordFamily.control, MaxText <- RecordFamily.maxText,
  phase <- constraining, code <- verdict

AnythingOnes == INSTANCE JsonConstraint_proofs WITH
  Schemas <- AnyFamily.schemas, Compiled <- AnyCompiled, Language <- AnySpelled,
  Means <- AnyMeans, Vocabulary <- AnyFamily.tokens, Printable <- AnyFamily.printable,
  Control <- AnyFamily.control, MaxText <- AnyFamily.maxText,
  phase <- constraining, code <- verdict

(* Alternatives, arrays and nesting.                                       *)
LEMMA SameShapesMoves ==
  /\ \A g, T, piece : Shapes!After(g, T, piece) = ShapesOnes!After(g, T, piece)
  /\ \A g, T : Shapes!MaskOf(g, T) = ShapesOnes!MaskOf(g, T)
<1>1. \A g, T, piece : Shapes!After(g, T, piece) = ShapesOnes!After(g, T, piece)
  BY SMT DEF
     Shapes!Alternatives, ShapesOnes!Alternatives, Shapes!Range, ShapesOnes!Range, Shapes!Full,
     ShapesOnes!Full, Shapes!Digit, ShapesOnes!Digit, Shapes!Escapes, ShapesOnes!Escapes,
     Shapes!Marks, ShapesOnes!Marks, Shapes!Byte, ShapesOnes!Byte, Shapes!Frame,
     ShapesOnes!Frame, Shapes!With, ShapesOnes!With, Shapes!StepLiteral,
     ShapesOnes!StepLiteral, Shapes!StepString, ShapesOnes!StepString, Shapes!NumberCanStop,
     ShapesOnes!NumberCanStop, Shapes!NumberPhase, ShapesOnes!NumberPhase, Shapes!StepNumber,
     ShapesOnes!StepNumber, Shapes!OpenNode, ShapesOnes!OpenNode, Shapes!Open, ShapesOnes!Open,
     Shapes!Descend, ShapesOnes!Descend, Shapes!StepArray, ShapesOnes!StepArray,
     Shapes!StepFree, ShapesOnes!StepFree, Shapes!AllOptional, ShapesOnes!AllOptional,
     Shapes!Candidates, ShapesOnes!Candidates, Shapes!CloseObject, ShapesOnes!CloseObject,
     Shapes!StepObject, ShapesOnes!StepObject, Shapes!Follow, ShapesOnes!Follow, Shapes!Last,
     ShapesOnes!Last, Shapes!Front, ShapesOnes!Front, Shapes!Step, ShapesOnes!Step,
     Shapes!Advance, ShapesOnes!Advance, Shapes!After, ShapesOnes!After
<1>2. \A g, T : Shapes!CanStop(g, T) <=> ShapesOnes!CanStop(g, T)
  BY Zenon DEF
     Shapes!CanStop, ShapesOnes!CanStop, Shapes!Complete, ShapesOnes!Complete,
     Shapes!NumberCanStop, ShapesOnes!NumberCanStop
<1>3. \A g, T, piece : Shapes!Allows(g, T, piece) <=> ShapesOnes!Allows(g, T, piece)
  BY <1>1, Zenon DEF Shapes!Allows, ShapesOnes!Allows
<1>4. \A g, T : Shapes!MaskOf(g, T) = ShapesOnes!MaskOf(g, T)
  BY <1>2, <1>3, Zenon DEF Shapes!MaskOf, ShapesOnes!MaskOf, Shapes!Eos, ShapesOnes!Eos
<1>. QED  BY <1>1, <1>4

LEMMA SameShapes ==
  /\ Shapes!Init => ShapesOnes!Init
  /\ [Shapes!Next]_(Shapes!vars) => [ShapesOnes!Next]_(ShapesOnes!vars)
<1>1. Shapes!Init => ShapesOnes!Init
  BY Zenon DEF Shapes!Init, ShapesOnes!Init
<1>2. \A s : Shapes!Begin(s) => ShapesOnes!Begin(s)
  BY Zenon DEF
     Shapes!Begin, ShapesOnes!Begin, Shapes!Frame, ShapesOnes!Frame
<1>3. \A s : Shapes!BeginRefused(s) => ShapesOnes!BeginRefused(s)
  BY Zenon DEF
     Shapes!BeginRefused, ShapesOnes!BeginRefused
<1>4. Shapes!Score => ShapesOnes!Score
  BY SameShapesMoves, Zenon DEF
     Shapes!Score, ShapesOnes!Score, Shapes!Return, ShapesOnes!Return, Shapes!Cardinality,
     ShapesOnes!Cardinality
<1>5. Shapes!End => ShapesOnes!End
  BY Zenon DEF
     Shapes!End, ShapesOnes!End, Shapes!Return, ShapesOnes!Return, Shapes!Eos, ShapesOnes!Eos
<1>6. \A piece : Shapes!Sample(piece) => ShapesOnes!Sample(piece)
  BY SameShapesMoves, Zenon DEF
     Shapes!Sample, ShapesOnes!Sample, Shapes!Return, ShapesOnes!Return, Shapes!Eos,
     ShapesOnes!Eos
<1>. QED
  BY <1>1, <1>2, <1>3, <1>4, <1>5, <1>6, Zenon DEF
     Shapes!Next, ShapesOnes!Next, Shapes!vars, ShapesOnes!vars

LEMMA SameShapesAssumption == ShapesOnes!JsonAssumption /\ ShapesOnes!SpellableAssumption
<1>1. \A g, language, id : Shapes!Spelled(g, language, id) = ShapesOnes!Spelled(g, language, id)
  BY SMT DEF
     Shapes!UpTo, ShapesOnes!UpTo, Shapes!OfSize, ShapesOnes!OfSize, Shapes!Pairs,
     ShapesOnes!Pairs, Shapes!Cat, ShapesOnes!Cat, Shapes!Chain, ShapesOnes!Chain, Shapes!Many,
     ShapesOnes!Many, Shapes!Single, ShapesOnes!Single, Shapes!Maybe, ShapesOnes!Maybe,
     Shapes!Quote, ShapesOnes!Quote, Shapes!Symbols, ShapesOnes!Symbols, Shapes!Digits,
     ShapesOnes!Digits, Shapes!Integral, ShapesOnes!Integral, Shapes!Exponent,
     ShapesOnes!Exponent, Shapes!Decimals, ShapesOnes!Decimals, Shapes!Unsigned,
     ShapesOnes!Unsigned, Shapes!Full, ShapesOnes!Full, Shapes!Closing, ShapesOnes!Closing,
     Shapes!MoreItems, ShapesOnes!MoreItems, Shapes!Items, ShapesOnes!Items, Shapes!Member,
     ShapesOnes!Member, Shapes!MoreMembers, ShapesOnes!MoreMembers, Shapes!Onward,
     ShapesOnes!Onward, Shapes!Properties, ShapesOnes!Properties, Shapes!Alternatives,
     ShapesOnes!Alternatives, Shapes!Range, ShapesOnes!Range, Shapes!SpelledBy,
     ShapesOnes!SpelledBy, Shapes!Spelled, ShapesOnes!Spelled, Shapes!Digit, ShapesOnes!Digit,
     Shapes!Escapes, ShapesOnes!Escapes
<1>2. \A g, language : Shapes!IsLanguage(g, language) <=> ShapesOnes!IsLanguage(g, language)
  BY <1>1, Zenon DEF
     Shapes!IsLanguage, ShapesOnes!IsLanguage, Shapes!Byte, ShapesOnes!Byte, Shapes!Digit,
     ShapesOnes!Digit, Shapes!Escapes, ShapesOnes!Escapes, Shapes!Marks, ShapesOnes!Marks
<1>3. \A g : Shapes!WellFormed(g) <=> ShapesOnes!WellFormed(g)
  BY Zenon DEF
     Shapes!WellFormed, ShapesOnes!WellFormed, Shapes!NodeOf, ShapesOnes!NodeOf, Shapes!Byte,
     ShapesOnes!Byte, Shapes!Digit, ShapesOnes!Digit, Shapes!Escapes, ShapesOnes!Escapes,
     Shapes!Marks, ShapesOnes!Marks
<1>4. \A t : Shapes!Tidy(t) = ShapesOnes!Tidy(t)
  BY Zenon DEF
     Shapes!Tidy, ShapesOnes!Tidy, Shapes!FlattenSeq, ShapesOnes!FlattenSeq
<1>5. \A s : Shapes!CompiledRight(s) <=> ShapesOnes!CompiledRight(s)
  BY <1>2, <1>3, <1>4, Zenon DEF
     Shapes!CompiledRight, ShapesOnes!CompiledRight
<1>6. \A g : Shapes!Passable(g) <=> ShapesOnes!Passable(g)
  BY Zenon DEF
     Shapes!Passable, ShapesOnes!Passable, Shapes!Alternatives, ShapesOnes!Alternatives,
     Shapes!Range, ShapesOnes!Range
<1>7. ShapesOnes!JsonAssumption
  BY FamiliesAssumption, <1>5, Zenon DEF
     Shapes!JsonAssumption, ShapesOnes!JsonAssumption, Shapes!Byte, ShapesOnes!Byte,
     Shapes!Digit, ShapesOnes!Digit, Shapes!Escapes, ShapesOnes!Escapes, Shapes!Marks,
     ShapesOnes!Marks, Shapes!Eos, ShapesOnes!Eos
<1>8. ShapesOnes!SpellableAssumption
  BY FamiliesAssumption, <1>6, Zenon DEF
     Shapes!SpellableAssumption, ShapesOnes!SpellableAssumption, Shapes!Byte, ShapesOnes!Byte,
     Shapes!Digit, ShapesOnes!Digit, Shapes!Escapes, ShapesOnes!Escapes, Shapes!Marks,
     ShapesOnes!Marks
<1>. QED  BY <1>7, <1>8

LEMMA SameShapesPromises ==
  /\ ShapesOnes!TypeOK /\ ShapesOnes!CachedMaskIsExact => Shapes!TypeOK /\ Shapes!CachedMaskIsExact
  /\ ShapesOnes!NothingValidRefused => Shapes!NothingValidRefused
  /\ ShapesOnes!StopsOnlyAtValues /\ ShapesOnes!NeverStuck => Shapes!StopsOnlyAtValues /\ Shapes!NeverStuck
<1>1. ShapesOnes!TypeOK /\ ShapesOnes!CachedMaskIsExact => Shapes!TypeOK /\ Shapes!CachedMaskIsExact
  BY SameShapesMoves, Zenon DEF
     Shapes!TypeOK, ShapesOnes!TypeOK, Shapes!CachedMaskIsExact, ShapesOnes!CachedMaskIsExact,
     Shapes!Byte, ShapesOnes!Byte, Shapes!Digit, ShapesOnes!Digit, Shapes!Escapes,
     ShapesOnes!Escapes, Shapes!Marks, ShapesOnes!Marks, Shapes!Eos, ShapesOnes!Eos,
     Shapes!Cardinality, ShapesOnes!Cardinality
<1>2. ShapesOnes!NothingValidRefused => Shapes!NothingValidRefused
  BY SameShapesMoves, Zenon DEF
     Shapes!NothingValidRefused, ShapesOnes!NothingValidRefused, Shapes!Meant,
     ShapesOnes!Meant, Shapes!IsPrefix, ShapesOnes!IsPrefix, Shapes!Complete,
     ShapesOnes!Complete, Shapes!NumberCanStop, ShapesOnes!NumberCanStop
<1>3. ShapesOnes!StopsOnlyAtValues /\ ShapesOnes!NeverStuck => Shapes!StopsOnlyAtValues /\ Shapes!NeverStuck
  BY Zenon DEF
     Shapes!StopsOnlyAtValues, ShapesOnes!StopsOnlyAtValues, Shapes!NeverStuck,
     ShapesOnes!NeverStuck, Shapes!Meant, ShapesOnes!Meant, Shapes!Tidy, ShapesOnes!Tidy,
     Shapes!FlattenSeq, ShapesOnes!FlattenSeq, Shapes!Eos, ShapesOnes!Eos
<1>. QED  BY <1>1, <1>2, <1>3

(* Objects with properties.                                                *)
LEMMA SameRecordsMoves ==
  /\ \A g, T, piece : Records!After(g, T, piece) = RecordsOnes!After(g, T, piece)
  /\ \A g, T : Records!MaskOf(g, T) = RecordsOnes!MaskOf(g, T)
<1>1. \A g, T, piece : Records!After(g, T, piece) = RecordsOnes!After(g, T, piece)
  BY SMT DEF
     Records!Alternatives, RecordsOnes!Alternatives, Records!Range, RecordsOnes!Range,
     Records!Full, RecordsOnes!Full, Records!Digit, RecordsOnes!Digit, Records!Escapes,
     RecordsOnes!Escapes, Records!Marks, RecordsOnes!Marks, Records!Byte, RecordsOnes!Byte,
     Records!Frame, RecordsOnes!Frame, Records!With, RecordsOnes!With, Records!StepLiteral,
     RecordsOnes!StepLiteral, Records!StepString, RecordsOnes!StepString,
     Records!NumberCanStop, RecordsOnes!NumberCanStop, Records!NumberPhase,
     RecordsOnes!NumberPhase, Records!StepNumber, RecordsOnes!StepNumber, Records!OpenNode,
     RecordsOnes!OpenNode, Records!Open, RecordsOnes!Open, Records!Descend,
     RecordsOnes!Descend, Records!StepArray, RecordsOnes!StepArray, Records!StepFree,
     RecordsOnes!StepFree, Records!AllOptional, RecordsOnes!AllOptional, Records!Candidates,
     RecordsOnes!Candidates, Records!CloseObject, RecordsOnes!CloseObject, Records!StepObject,
     RecordsOnes!StepObject, Records!Follow, RecordsOnes!Follow, Records!Last,
     RecordsOnes!Last, Records!Front, RecordsOnes!Front, Records!Step, RecordsOnes!Step,
     Records!Advance, RecordsOnes!Advance, Records!After, RecordsOnes!After
<1>2. \A g, T : Records!CanStop(g, T) <=> RecordsOnes!CanStop(g, T)
  BY Zenon DEF
     Records!CanStop, RecordsOnes!CanStop, Records!Complete, RecordsOnes!Complete,
     Records!NumberCanStop, RecordsOnes!NumberCanStop
<1>3. \A g, T, piece : Records!Allows(g, T, piece) <=> RecordsOnes!Allows(g, T, piece)
  BY <1>1, Zenon DEF Records!Allows, RecordsOnes!Allows
<1>4. \A g, T : Records!MaskOf(g, T) = RecordsOnes!MaskOf(g, T)
  BY <1>2, <1>3, Zenon DEF Records!MaskOf, RecordsOnes!MaskOf, Records!Eos, RecordsOnes!Eos
<1>. QED  BY <1>1, <1>4

LEMMA SameRecords ==
  /\ Records!Init => RecordsOnes!Init
  /\ [Records!Next]_(Records!vars) => [RecordsOnes!Next]_(RecordsOnes!vars)
<1>1. Records!Init => RecordsOnes!Init
  BY Zenon DEF Records!Init, RecordsOnes!Init
<1>2. \A s : Records!Begin(s) => RecordsOnes!Begin(s)
  BY Zenon DEF
     Records!Begin, RecordsOnes!Begin, Records!Frame, RecordsOnes!Frame
<1>3. \A s : Records!BeginRefused(s) => RecordsOnes!BeginRefused(s)
  BY Zenon DEF
     Records!BeginRefused, RecordsOnes!BeginRefused
<1>4. Records!Score => RecordsOnes!Score
  BY SameRecordsMoves, Zenon DEF
     Records!Score, RecordsOnes!Score, Records!Return, RecordsOnes!Return, Records!Cardinality,
     RecordsOnes!Cardinality
<1>5. Records!End => RecordsOnes!End
  BY Zenon DEF
     Records!End, RecordsOnes!End, Records!Return, RecordsOnes!Return, Records!Eos,
     RecordsOnes!Eos
<1>6. \A piece : Records!Sample(piece) => RecordsOnes!Sample(piece)
  BY SameRecordsMoves, Zenon DEF
     Records!Sample, RecordsOnes!Sample, Records!Return, RecordsOnes!Return, Records!Eos,
     RecordsOnes!Eos
<1>. QED
  BY <1>1, <1>2, <1>3, <1>4, <1>5, <1>6, Zenon DEF
     Records!Next, RecordsOnes!Next, Records!vars, RecordsOnes!vars

LEMMA SameRecordsAssumption == RecordsOnes!JsonAssumption /\ RecordsOnes!SpellableAssumption
<1>1. \A g, language, id : Records!Spelled(g, language, id) = RecordsOnes!Spelled(g, language, id)
  BY SMT DEF
     Records!UpTo, RecordsOnes!UpTo, Records!OfSize, RecordsOnes!OfSize, Records!Pairs,
     RecordsOnes!Pairs, Records!Cat, RecordsOnes!Cat, Records!Chain, RecordsOnes!Chain,
     Records!Many, RecordsOnes!Many, Records!Single, RecordsOnes!Single, Records!Maybe,
     RecordsOnes!Maybe, Records!Quote, RecordsOnes!Quote, Records!Symbols, RecordsOnes!Symbols,
     Records!Digits, RecordsOnes!Digits, Records!Integral, RecordsOnes!Integral,
     Records!Exponent, RecordsOnes!Exponent, Records!Decimals, RecordsOnes!Decimals,
     Records!Unsigned, RecordsOnes!Unsigned, Records!Full, RecordsOnes!Full, Records!Closing,
     RecordsOnes!Closing, Records!MoreItems, RecordsOnes!MoreItems, Records!Items,
     RecordsOnes!Items, Records!Member, RecordsOnes!Member, Records!MoreMembers,
     RecordsOnes!MoreMembers, Records!Onward, RecordsOnes!Onward, Records!Properties,
     RecordsOnes!Properties, Records!Alternatives, RecordsOnes!Alternatives, Records!Range,
     RecordsOnes!Range, Records!SpelledBy, RecordsOnes!SpelledBy, Records!Spelled,
     RecordsOnes!Spelled, Records!Digit, RecordsOnes!Digit, Records!Escapes,
     RecordsOnes!Escapes
<1>2. \A g, language : Records!IsLanguage(g, language) <=> RecordsOnes!IsLanguage(g, language)
  BY <1>1, Zenon DEF
     Records!IsLanguage, RecordsOnes!IsLanguage, Records!Byte, RecordsOnes!Byte, Records!Digit,
     RecordsOnes!Digit, Records!Escapes, RecordsOnes!Escapes, Records!Marks, RecordsOnes!Marks
<1>3. \A g : Records!WellFormed(g) <=> RecordsOnes!WellFormed(g)
  BY Zenon DEF
     Records!WellFormed, RecordsOnes!WellFormed, Records!NodeOf, RecordsOnes!NodeOf,
     Records!Byte, RecordsOnes!Byte, Records!Digit, RecordsOnes!Digit, Records!Escapes,
     RecordsOnes!Escapes, Records!Marks, RecordsOnes!Marks
<1>4. \A t : Records!Tidy(t) = RecordsOnes!Tidy(t)
  BY Zenon DEF
     Records!Tidy, RecordsOnes!Tidy, Records!FlattenSeq, RecordsOnes!FlattenSeq
<1>5. \A s : Records!CompiledRight(s) <=> RecordsOnes!CompiledRight(s)
  BY <1>2, <1>3, <1>4, Zenon DEF
     Records!CompiledRight, RecordsOnes!CompiledRight
<1>6. \A g : Records!Passable(g) <=> RecordsOnes!Passable(g)
  BY Zenon DEF
     Records!Passable, RecordsOnes!Passable, Records!Alternatives, RecordsOnes!Alternatives,
     Records!Range, RecordsOnes!Range
<1>7. RecordsOnes!JsonAssumption
  BY FamiliesAssumption, <1>5, Zenon DEF
     Records!JsonAssumption, RecordsOnes!JsonAssumption, Records!Byte, RecordsOnes!Byte,
     Records!Digit, RecordsOnes!Digit, Records!Escapes, RecordsOnes!Escapes, Records!Marks,
     RecordsOnes!Marks, Records!Eos, RecordsOnes!Eos
<1>8. RecordsOnes!SpellableAssumption
  BY FamiliesAssumption, <1>6, Zenon DEF
     Records!SpellableAssumption, RecordsOnes!SpellableAssumption, Records!Byte,
     RecordsOnes!Byte, Records!Digit, RecordsOnes!Digit, Records!Escapes, RecordsOnes!Escapes,
     Records!Marks, RecordsOnes!Marks
<1>. QED  BY <1>7, <1>8

LEMMA SameRecordsPromises ==
  /\ RecordsOnes!TypeOK /\ RecordsOnes!CachedMaskIsExact => Records!TypeOK /\ Records!CachedMaskIsExact
  /\ RecordsOnes!NothingValidRefused => Records!NothingValidRefused
  /\ RecordsOnes!StopsOnlyAtValues /\ RecordsOnes!NeverStuck => Records!StopsOnlyAtValues /\ Records!NeverStuck
<1>1. RecordsOnes!TypeOK /\ RecordsOnes!CachedMaskIsExact => Records!TypeOK /\ Records!CachedMaskIsExact
  BY SameRecordsMoves, Zenon DEF
     Records!TypeOK, RecordsOnes!TypeOK, Records!CachedMaskIsExact,
     RecordsOnes!CachedMaskIsExact, Records!Byte, RecordsOnes!Byte, Records!Digit,
     RecordsOnes!Digit, Records!Escapes, RecordsOnes!Escapes, Records!Marks, RecordsOnes!Marks,
     Records!Eos, RecordsOnes!Eos, Records!Cardinality, RecordsOnes!Cardinality
<1>2. RecordsOnes!NothingValidRefused => Records!NothingValidRefused
  BY SameRecordsMoves, Zenon DEF
     Records!NothingValidRefused, RecordsOnes!NothingValidRefused, Records!Meant,
     RecordsOnes!Meant, Records!IsPrefix, RecordsOnes!IsPrefix, Records!Complete,
     RecordsOnes!Complete, Records!NumberCanStop, RecordsOnes!NumberCanStop
<1>3. RecordsOnes!StopsOnlyAtValues /\ RecordsOnes!NeverStuck => Records!StopsOnlyAtValues /\ Records!NeverStuck
  BY Zenon DEF
     Records!StopsOnlyAtValues, RecordsOnes!StopsOnlyAtValues, Records!NeverStuck,
     RecordsOnes!NeverStuck, Records!Meant, RecordsOnes!Meant, Records!Tidy, RecordsOnes!Tidy,
     Records!FlattenSeq, RecordsOnes!FlattenSeq, Records!Eos, RecordsOnes!Eos
<1>. QED  BY <1>1, <1>2, <1>3

(* Strings and values of no stated shape.                                  *)
LEMMA SameAnythingMoves ==
  /\ \A g, T, piece : Anything!After(g, T, piece) = AnythingOnes!After(g, T, piece)
  /\ \A g, T : Anything!MaskOf(g, T) = AnythingOnes!MaskOf(g, T)
<1>1. \A g, T, piece : Anything!After(g, T, piece) = AnythingOnes!After(g, T, piece)
  BY SMT DEF
     Anything!Alternatives, AnythingOnes!Alternatives, Anything!Range, AnythingOnes!Range,
     Anything!Full, AnythingOnes!Full, Anything!Digit, AnythingOnes!Digit, Anything!Escapes,
     AnythingOnes!Escapes, Anything!Marks, AnythingOnes!Marks, Anything!Byte,
     AnythingOnes!Byte, Anything!Frame, AnythingOnes!Frame, Anything!With, AnythingOnes!With,
     Anything!StepLiteral, AnythingOnes!StepLiteral, Anything!StepString,
     AnythingOnes!StepString, Anything!NumberCanStop, AnythingOnes!NumberCanStop,
     Anything!NumberPhase, AnythingOnes!NumberPhase, Anything!StepNumber,
     AnythingOnes!StepNumber, Anything!OpenNode, AnythingOnes!OpenNode, Anything!Open,
     AnythingOnes!Open, Anything!Descend, AnythingOnes!Descend, Anything!StepArray,
     AnythingOnes!StepArray, Anything!StepFree, AnythingOnes!StepFree, Anything!AllOptional,
     AnythingOnes!AllOptional, Anything!Candidates, AnythingOnes!Candidates,
     Anything!CloseObject, AnythingOnes!CloseObject, Anything!StepObject,
     AnythingOnes!StepObject, Anything!Follow, AnythingOnes!Follow, Anything!Last,
     AnythingOnes!Last, Anything!Front, AnythingOnes!Front, Anything!Step, AnythingOnes!Step,
     Anything!Advance, AnythingOnes!Advance, Anything!After, AnythingOnes!After
<1>2. \A g, T : Anything!CanStop(g, T) <=> AnythingOnes!CanStop(g, T)
  BY Zenon DEF
     Anything!CanStop, AnythingOnes!CanStop, Anything!Complete, AnythingOnes!Complete,
     Anything!NumberCanStop, AnythingOnes!NumberCanStop
<1>3. \A g, T, piece : Anything!Allows(g, T, piece) <=> AnythingOnes!Allows(g, T, piece)
  BY <1>1, Zenon DEF Anything!Allows, AnythingOnes!Allows
<1>4. \A g, T : Anything!MaskOf(g, T) = AnythingOnes!MaskOf(g, T)
  BY <1>2, <1>3, Zenon DEF Anything!MaskOf, AnythingOnes!MaskOf, Anything!Eos, AnythingOnes!Eos
<1>. QED  BY <1>1, <1>4

LEMMA SameAnything ==
  /\ Anything!Init => AnythingOnes!Init
  /\ [Anything!Next]_(Anything!vars) => [AnythingOnes!Next]_(AnythingOnes!vars)
<1>1. Anything!Init => AnythingOnes!Init
  BY Zenon DEF Anything!Init, AnythingOnes!Init
<1>2. \A s : Anything!Begin(s) => AnythingOnes!Begin(s)
  BY Zenon DEF
     Anything!Begin, AnythingOnes!Begin, Anything!Frame, AnythingOnes!Frame
<1>3. \A s : Anything!BeginRefused(s) => AnythingOnes!BeginRefused(s)
  BY Zenon DEF
     Anything!BeginRefused, AnythingOnes!BeginRefused
<1>4. Anything!Score => AnythingOnes!Score
  BY SameAnythingMoves, Zenon DEF
     Anything!Score, AnythingOnes!Score, Anything!Return, AnythingOnes!Return,
     Anything!Cardinality, AnythingOnes!Cardinality
<1>5. Anything!End => AnythingOnes!End
  BY Zenon DEF
     Anything!End, AnythingOnes!End, Anything!Return, AnythingOnes!Return, Anything!Eos,
     AnythingOnes!Eos
<1>6. \A piece : Anything!Sample(piece) => AnythingOnes!Sample(piece)
  BY SameAnythingMoves, Zenon DEF
     Anything!Sample, AnythingOnes!Sample, Anything!Return, AnythingOnes!Return, Anything!Eos,
     AnythingOnes!Eos
<1>. QED
  BY <1>1, <1>2, <1>3, <1>4, <1>5, <1>6, Zenon DEF
     Anything!Next, AnythingOnes!Next, Anything!vars, AnythingOnes!vars

LEMMA SameAnythingAssumption == AnythingOnes!JsonAssumption /\ AnythingOnes!SpellableAssumption
<1>1. \A g, language, id : Anything!Spelled(g, language, id) = AnythingOnes!Spelled(g, language, id)
  BY SMT DEF
     Anything!UpTo, AnythingOnes!UpTo, Anything!OfSize, AnythingOnes!OfSize, Anything!Pairs,
     AnythingOnes!Pairs, Anything!Cat, AnythingOnes!Cat, Anything!Chain, AnythingOnes!Chain,
     Anything!Many, AnythingOnes!Many, Anything!Single, AnythingOnes!Single, Anything!Maybe,
     AnythingOnes!Maybe, Anything!Quote, AnythingOnes!Quote, Anything!Symbols,
     AnythingOnes!Symbols, Anything!Digits, AnythingOnes!Digits, Anything!Integral,
     AnythingOnes!Integral, Anything!Exponent, AnythingOnes!Exponent, Anything!Decimals,
     AnythingOnes!Decimals, Anything!Unsigned, AnythingOnes!Unsigned, Anything!Full,
     AnythingOnes!Full, Anything!Closing, AnythingOnes!Closing, Anything!MoreItems,
     AnythingOnes!MoreItems, Anything!Items, AnythingOnes!Items, Anything!Member,
     AnythingOnes!Member, Anything!MoreMembers, AnythingOnes!MoreMembers, Anything!Onward,
     AnythingOnes!Onward, Anything!Properties, AnythingOnes!Properties, Anything!Alternatives,
     AnythingOnes!Alternatives, Anything!Range, AnythingOnes!Range, Anything!SpelledBy,
     AnythingOnes!SpelledBy, Anything!Spelled, AnythingOnes!Spelled, Anything!Digit,
     AnythingOnes!Digit, Anything!Escapes, AnythingOnes!Escapes
<1>2. \A g, language : Anything!IsLanguage(g, language) <=> AnythingOnes!IsLanguage(g, language)
  BY <1>1, Zenon DEF
     Anything!IsLanguage, AnythingOnes!IsLanguage, Anything!Byte, AnythingOnes!Byte,
     Anything!Digit, AnythingOnes!Digit, Anything!Escapes, AnythingOnes!Escapes,
     Anything!Marks, AnythingOnes!Marks
<1>3. \A g : Anything!WellFormed(g) <=> AnythingOnes!WellFormed(g)
  BY Zenon DEF
     Anything!WellFormed, AnythingOnes!WellFormed, Anything!NodeOf, AnythingOnes!NodeOf,
     Anything!Byte, AnythingOnes!Byte, Anything!Digit, AnythingOnes!Digit, Anything!Escapes,
     AnythingOnes!Escapes, Anything!Marks, AnythingOnes!Marks
<1>4. \A t : Anything!Tidy(t) = AnythingOnes!Tidy(t)
  BY Zenon DEF
     Anything!Tidy, AnythingOnes!Tidy, Anything!FlattenSeq, AnythingOnes!FlattenSeq
<1>5. \A s : Anything!CompiledRight(s) <=> AnythingOnes!CompiledRight(s)
  BY <1>2, <1>3, <1>4, Zenon DEF
     Anything!CompiledRight, AnythingOnes!CompiledRight
<1>6. \A g : Anything!Passable(g) <=> AnythingOnes!Passable(g)
  BY Zenon DEF
     Anything!Passable, AnythingOnes!Passable, Anything!Alternatives,
     AnythingOnes!Alternatives, Anything!Range, AnythingOnes!Range
<1>7. AnythingOnes!JsonAssumption
  BY FamiliesAssumption, <1>5, Zenon DEF
     Anything!JsonAssumption, AnythingOnes!JsonAssumption, Anything!Byte, AnythingOnes!Byte,
     Anything!Digit, AnythingOnes!Digit, Anything!Escapes, AnythingOnes!Escapes,
     Anything!Marks, AnythingOnes!Marks, Anything!Eos, AnythingOnes!Eos
<1>8. AnythingOnes!SpellableAssumption
  BY FamiliesAssumption, <1>6, Zenon DEF
     Anything!SpellableAssumption, AnythingOnes!SpellableAssumption, Anything!Byte,
     AnythingOnes!Byte, Anything!Digit, AnythingOnes!Digit, Anything!Escapes,
     AnythingOnes!Escapes, Anything!Marks, AnythingOnes!Marks
<1>. QED  BY <1>7, <1>8

LEMMA SameAnythingPromises ==
  /\ AnythingOnes!TypeOK /\ AnythingOnes!CachedMaskIsExact => Anything!TypeOK /\ Anything!CachedMaskIsExact
  /\ AnythingOnes!NothingValidRefused => Anything!NothingValidRefused
  /\ AnythingOnes!StopsOnlyAtValues /\ AnythingOnes!NeverStuck => Anything!StopsOnlyAtValues /\ Anything!NeverStuck
<1>1. AnythingOnes!TypeOK /\ AnythingOnes!CachedMaskIsExact => Anything!TypeOK /\ Anything!CachedMaskIsExact
  BY SameAnythingMoves, Zenon DEF
     Anything!TypeOK, AnythingOnes!TypeOK, Anything!CachedMaskIsExact,
     AnythingOnes!CachedMaskIsExact, Anything!Byte, AnythingOnes!Byte, Anything!Digit,
     AnythingOnes!Digit, Anything!Escapes, AnythingOnes!Escapes, Anything!Marks,
     AnythingOnes!Marks, Anything!Eos, AnythingOnes!Eos, Anything!Cardinality,
     AnythingOnes!Cardinality
<1>2. AnythingOnes!NothingValidRefused => Anything!NothingValidRefused
  BY SameAnythingMoves, Zenon DEF
     Anything!NothingValidRefused, AnythingOnes!NothingValidRefused, Anything!Meant,
     AnythingOnes!Meant, Anything!IsPrefix, AnythingOnes!IsPrefix, Anything!Complete,
     AnythingOnes!Complete, Anything!NumberCanStop, AnythingOnes!NumberCanStop
<1>3. AnythingOnes!StopsOnlyAtValues /\ AnythingOnes!NeverStuck => Anything!StopsOnlyAtValues /\ Anything!NeverStuck
  BY Zenon DEF
     Anything!StopsOnlyAtValues, AnythingOnes!StopsOnlyAtValues, Anything!NeverStuck,
     AnythingOnes!NeverStuck, Anything!Meant, AnythingOnes!Meant, Anything!Tidy,
     AnythingOnes!Tidy, Anything!FlattenSeq, AnythingOnes!FlattenSeq, Anything!Eos,
     AnythingOnes!Eos
<1>. QED  BY <1>1, <1>2, <1>3

-----------------------------------------------------------------------------
(* A behaviour of the whole that is about a family is one of that family.  *)
LEMMA ShapesBehave ==
  BackendsSpec =>
    [](part = "shapes" =>
         /\ Shapes!TypeOK /\ Shapes!CachedMaskIsExact
         /\ Shapes!NothingValidRefused
         /\ Shapes!StopsOnlyAtValues /\ Shapes!NeverStuck)
<1>. DEFINE Ours == part = "shapes"
<1>1. BackendsInit => Shapes!Init
  BY Zenon DEF BackendsInit, Shapes!Init, Shapes!Init
<1>2. ASSUME [BackendsNext]_backendVars
      PROVE  (Ours <=> Ours') /\ (Ours => [Shapes!Next]_(Shapes!vars))
  <2>1. CASE UNCHANGED backendVars
    BY <2>1, Zenon DEF backendVars, jsonVars, Shapes!vars
  <2>2. CASE BackendsNext
    BY <2>2, Zenon DEF BackendsNext, Json, jsonVars, Shapes!vars
  <2>. QED  BY <1>2, <2>1, <2>2
<1>3. ShapesOnes!Spec => [](ShapesOnes!TypeOK /\ ShapesOnes!CachedMaskIsExact)
  BY SameShapesAssumption, ShapesOnes!JsonTyping, ShapesOnes!CachedMaskStaysExact, PTL
<1>4. ShapesOnes!Spec => []ShapesOnes!NothingValidRefused
  BY SameShapesAssumption, ShapesOnes!NothingValidIsRefused
<1>5. ShapesOnes!Spec => []ShapesOnes!StopsOnlyAtValues
  BY SameShapesAssumption, ShapesOnes!StopsAtValues
<1>6. ShapesOnes!Spec => []ShapesOnes!NeverStuck
  BY SameShapesAssumption, ShapesOnes!SomethingAlwaysFollows
<1>7. BackendsSpec => [](Ours => /\ ShapesOnes!TypeOK /\ ShapesOnes!CachedMaskIsExact
                                /\ ShapesOnes!NothingValidRefused
                                /\ ShapesOnes!StopsOnlyAtValues /\ ShapesOnes!NeverStuck)
  <2>. HIDE DEF Ours
  <2>. QED  BY <1>1, <1>2, <1>3, <1>4, <1>5, <1>6, SameShapes, PTL
            DEF BackendsSpec, ShapesOnes!Spec
<1>. QED  BY <1>7, SameShapesPromises, PTL

LEMMA RecordsBehave ==
  BackendsSpec =>
    [](part = "records" =>
         /\ Records!TypeOK /\ Records!CachedMaskIsExact
         /\ Records!NothingValidRefused
         /\ Records!StopsOnlyAtValues /\ Records!NeverStuck)
<1>. DEFINE Ours == part = "records"
<1>1. BackendsInit => Records!Init
  BY Zenon DEF BackendsInit, Shapes!Init, Records!Init
<1>2. ASSUME [BackendsNext]_backendVars
      PROVE  (Ours <=> Ours') /\ (Ours => [Records!Next]_(Records!vars))
  <2>1. CASE UNCHANGED backendVars
    BY <2>1, Zenon DEF backendVars, jsonVars, Records!vars
  <2>2. CASE BackendsNext
    BY <2>2, Zenon DEF BackendsNext, Json, jsonVars, Records!vars
  <2>. QED  BY <1>2, <2>1, <2>2
<1>3. RecordsOnes!Spec => [](RecordsOnes!TypeOK /\ RecordsOnes!CachedMaskIsExact)
  BY SameRecordsAssumption, RecordsOnes!JsonTyping, RecordsOnes!CachedMaskStaysExact, PTL
<1>4. RecordsOnes!Spec => []RecordsOnes!NothingValidRefused
  BY SameRecordsAssumption, RecordsOnes!NothingValidIsRefused
<1>5. RecordsOnes!Spec => []RecordsOnes!StopsOnlyAtValues
  BY SameRecordsAssumption, RecordsOnes!StopsAtValues
<1>6. RecordsOnes!Spec => []RecordsOnes!NeverStuck
  BY SameRecordsAssumption, RecordsOnes!SomethingAlwaysFollows
<1>7. BackendsSpec => [](Ours => /\ RecordsOnes!TypeOK /\ RecordsOnes!CachedMaskIsExact
                                /\ RecordsOnes!NothingValidRefused
                                /\ RecordsOnes!StopsOnlyAtValues /\ RecordsOnes!NeverStuck)
  <2>. HIDE DEF Ours
  <2>. QED  BY <1>1, <1>2, <1>3, <1>4, <1>5, <1>6, SameRecords, PTL
            DEF BackendsSpec, RecordsOnes!Spec
<1>. QED  BY <1>7, SameRecordsPromises, PTL

LEMMA AnythingBehave ==
  BackendsSpec =>
    [](part = "anything" =>
         /\ Anything!TypeOK /\ Anything!CachedMaskIsExact
         /\ Anything!NothingValidRefused
         /\ Anything!StopsOnlyAtValues /\ Anything!NeverStuck)
<1>. DEFINE Ours == part = "anything"
<1>1. BackendsInit => Anything!Init
  BY Zenon DEF BackendsInit, Shapes!Init, Anything!Init
<1>2. ASSUME [BackendsNext]_backendVars
      PROVE  (Ours <=> Ours') /\ (Ours => [Anything!Next]_(Anything!vars))
  <2>1. CASE UNCHANGED backendVars
    BY <2>1, Zenon DEF backendVars, jsonVars, Anything!vars
  <2>2. CASE BackendsNext
    BY <2>2, Zenon DEF BackendsNext, Json, jsonVars, Anything!vars
  <2>. QED  BY <1>2, <2>1, <2>2
<1>3. AnythingOnes!Spec => [](AnythingOnes!TypeOK /\ AnythingOnes!CachedMaskIsExact)
  BY SameAnythingAssumption, AnythingOnes!JsonTyping, AnythingOnes!CachedMaskStaysExact, PTL
<1>4. AnythingOnes!Spec => []AnythingOnes!NothingValidRefused
  BY SameAnythingAssumption, AnythingOnes!NothingValidIsRefused
<1>5. AnythingOnes!Spec => []AnythingOnes!StopsOnlyAtValues
  BY SameAnythingAssumption, AnythingOnes!StopsAtValues
<1>6. AnythingOnes!Spec => []AnythingOnes!NeverStuck
  BY SameAnythingAssumption, AnythingOnes!SomethingAlwaysFollows
<1>7. BackendsSpec => [](Ours => /\ AnythingOnes!TypeOK /\ AnythingOnes!CachedMaskIsExact
                                /\ AnythingOnes!NothingValidRefused
                                /\ AnythingOnes!StopsOnlyAtValues /\ AnythingOnes!NeverStuck)
  <2>. HIDE DEF Ours
  <2>. QED  BY <1>1, <1>2, <1>3, <1>4, <1>5, <1>6, SameAnything, PTL
            DEF BackendsSpec, AnythingOnes!Spec
<1>. QED  BY <1>7, SameAnythingPromises, PTL

(* json_constraint.h:65-68: for whatever text and schema a mask was first  *)
(* computed, it is what this state of the automaton gives, and the cache   *)
(* of masks stays within its bound.                                        *)
THEOREM CachedMasksAlwaysExact == BackendsSpec => []CachedMaskIsExact
BY ShapesBehave, RecordsBehave, AnythingBehave, PTL DEF CachedMaskIsExact

(* json_constraint.h:33-36: every value of the schema that begins with the *)
(* text so far can be spelled out from here.                               *)
THEOREM NothingValidEverRefused == BackendsSpec => []NothingValidRefused
BY ShapesBehave, RecordsBehave, AnythingBehave, PTL DEF NothingValidRefused

(* plugin.cpp:484-486: the end of turn may be sampled only where the text  *)
(* is a value of the schema, up to commas before closing brackets, and     *)
(* nothing but the limit of a reply stops it before.                       *)
THEOREM AlwaysStopsAtValues == BackendsSpec => []StopsOnlyAtValues
BY ShapesBehave, RecordsBehave, AnythingBehave, PTL DEF StopsOnlyAtValues

=============================================================================
