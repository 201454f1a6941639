--------------------------- MODULE Bridge_proofs ----------------------------
(* What holds of the handle table, of the plugins' lifecycle and of calls  *)
(* across the C ABI, for any number of slots, threads, plugins, objects,   *)
(* tables and inputs.                                                      *)
EXTENDS Bridge, FiniteSetTheorems, SequenceTheorems, TLAPS

-----------------------------------------------------------------------------
(* The handle table: stale handles fail cleanly as long as the counter of  *)
(* a slot cannot come around.                                              *)

(* Fewer handles are opened than the counter has values to give out.       *)
NoWrap == MaxOpens + 1 < Generations

(* A slot's counter is never zero once it is used, and counts no more      *)
(* openings than there were.                                               *)
CountersKeepUp ==
  \A i \in DOMAIN slots :
    /\ slots[i].generation \in 1..(opens + 1)
    /\ Live(i) => slots[i].generation <= opens

(* A word that was released is behind the counter of its slot.             *)
StaleIsBehind ==
  \A w \in stale :
    /\ w.index \in DOMAIN slots
    /\ w.generation < slots[w.index].generation

(* The inductive invariant.                                                *)
TableInv == TypeOK /\ FreeListsTheDead /\ CountersKeepUp /\ StaleIsBehind

(* A counter below its limit does not come around.                         *)
LEMMA NoCarry ==
  ASSUME NEW n \in Nat, NEW d \in Nat \ {0}, n < d
  PROVE  n % d = n
BY SMT

(* A sequence without its last element.                                    *)
LEMMA AllButLast ==
  ASSUME NEW S, NEW s \in Seq(S), NEW l \in Nat, Len(s) = l + 1
  PROVE  /\ SubSeq(s, 1, l) \in Seq(S)
         /\ Len(SubSeq(s, 1, l)) = l
         /\ \A n \in 1..l : SubSeq(s, 1, l)[n] = s[n]
<1>1. \A n \in 1..l : s[n] \in S
  BY ElementOfSeq
<1>2. /\ SubSeq(s, 1, l) \in Seq(S)
      /\ Len(SubSeq(s, 1, l)) = IF 1 <= l THEN l - 1 + 1 ELSE 0
      /\ \A n \in 1..(l - 1 + 1) : SubSeq(s, 1, l)[n] = s[1 + n - 1]
  BY <1>1, SubSeqProperties
<1>3. QED
  BY <1>2

(* The last free slot is a dead one, and without it the rest are others.   *)
LEMMA LastFree ==
  ASSUME TypeOK, FreeListsTheDead, free # <<>>
  PROVE  /\ Last(free) \in DOMAIN slots
         /\ ~Live(Last(free))
         /\ Front(free) \in Seq(Nat)
         /\ ToSet(Front(free)) = ToSet(free) \ {Last(free)}
         /\ \A m, n \in DOMAIN Front(free) : Front(free)[m] = Front(free)[n] => m = n
<1>1. free \in Seq(Nat) /\ Len(free) \in Nat \ {0}
  BY DEF TypeOK
<1>2. Last(free) = free[Len(free)] /\ Last(free) \in ToSet(free)
  BY <1>1 DEF Last, ToSet
<1>3. /\ Front(free) \in Seq(Nat)
      /\ Len(Front(free)) = Len(free) - 1
      /\ \A n \in 1..(Len(free) - 1) : Front(free)[n] = free[n]
  <2>1. Len(free) - 1 \in Nat /\ Len(free) = (Len(free) - 1) + 1
    BY <1>1
  <2>2. QED
    BY <1>1, <2>1, AllButLast DEF Front
<1>4. ToSet(Front(free)) = ToSet(free) \ {Last(free)}
  <2>1. \A n \in 1..(Len(free) - 1) : free[n] # Last(free)
    BY <1>1, <1>2 DEF FreeListsTheDead
  <2>2. DOMAIN Front(free) = 1..(Len(free) - 1) /\ DOMAIN free = 1..Len(free)
    BY <1>1, <1>3
  <2>3. \A x : x \in ToSet(Front(free)) <=> \E n \in 1..(Len(free) - 1) : x = free[n]
    BY <1>3, <2>2 DEF ToSet
  <2>4. \A x : x \in ToSet(free) <=> x = Last(free) \/ \E n \in 1..(Len(free) - 1) : x = free[n]
    <3>1. \A n : n \in 1..Len(free) <=> n = Len(free) \/ n \in 1..(Len(free) - 1)
      BY <1>1
    <3>2. QED
      BY <1>2, <2>2, <3>1 DEF ToSet
  <2>5. QED
    BY <2>1, <2>3, <2>4
<1>5. \A m, n \in DOMAIN Front(free) : Front(free)[m] = Front(free)[n] => m = n
  <2>1. DOMAIN Front(free) = 1..(Len(free) - 1) /\ DOMAIN free = 1..Len(free)
    BY <1>1, <1>3
  <2>2. QED
    <3>1. SUFFICES ASSUME NEW m \in 1..(Len(free) - 1), NEW n \in 1..(Len(free) - 1),
                          Front(free)[m] = Front(free)[n]
                   PROVE  m = n
      BY <2>1
    <3>2. free[m] = free[n]
      BY <1>3, <3>1
    <3>3. m \in DOMAIN free /\ n \in DOMAIN free
      BY <1>1, <2>1
    <3>4. QED
      BY <3>2, <3>3 DEF FreeListsTheDead
<1>6. QED
  BY <1>2, <1>3, <1>4, <1>5 DEF FreeListsTheDead

(* What any minting leaves: one slot at i is live under its old counter,   *)
(* which is not behind; the others are as they were.                       *)
LEMMA MintKeeps ==
  ASSUME TableInv, NEW b \in Backend, NEW k \in Kind, Mint(b, k)
  PROVE  TableInv'
<1>0. NoBackend \notin Backend /\ Generations \in Nat \ {0, 1} /\ MaxOpens \in Nat
  BY TableAssumption
<1>1. opens \in Nat /\ opens' = opens + 1 /\ opens' \in 0..MaxOpens /\ stale' = stale
  BY <1>0 DEF TableInv, TypeOK, Mint
<1>2. CASE MintReused(b, k)
  <2> DEFINE i == Last(free)
  <2>1. /\ i \in DOMAIN slots /\ ~Live(i)
        /\ Front(free) \in Seq(Nat)
        /\ ToSet(Front(free)) = ToSet(free) \ {i}
        /\ \A m, n \in DOMAIN Front(free) : Front(free)[m] = Front(free)[n] => m = n
    BY <1>2, LastFree DEF TableInv, MintReused
  <2>2. slots[i].generation \in 1..(opens + 1) /\ Stamp(slots[i].generation) = slots[i].generation
    BY <1>1, <2>1 DEF TableInv, CountersKeepUp, Stamp
  <2>3. /\ slots' = [slots EXCEPT ![i] = [backend |-> b, generation |-> slots[i].generation, kind |-> k]]
        /\ free' = Front(free)
    BY <1>2, <2>2 DEF MintReused
  <2>4. slots \in Seq(Slot) /\ slots' \in Seq(Slot) /\ DOMAIN slots' = DOMAIN slots
    <3>1. slots \in Seq(Slot) /\ slots[i] \in Slot
      BY <2>1, ElementOfSeq DEF TableInv, TypeOK
    <3>2. [backend |-> b, generation |-> slots[i].generation, kind |-> k] \in Slot
      BY <3>1 DEF Slot
    <3>3. slots' \in Seq(Slot)
      BY <2>1, <2>3, <3>1, <3>2, ExceptSeq
    <3>4. QED
      BY <2>3, <3>1, <3>3
  <2>5. /\ slots'[i] = [backend |-> b, generation |-> slots[i].generation, kind |-> k]
        /\ \A j \in DOMAIN slots : j # i => slots'[j] = slots[j]
    BY <2>1, <2>3, <2>4
  <2>6. TypeOK'
    BY <1>1, <2>1, <2>3, <2>4 DEF TableInv, TypeOK
  <2>7. FreeListsTheDead'
    <3>1. \A j \in DOMAIN slots : Live(j)' <=> (j = i \/ Live(j))
      BY <1>0, <2>1, <2>4, <2>5 DEF Live
    <3>2. QED
      BY <2>1, <2>3, <2>4, <3>1 DEF TableInv, FreeListsTheDead
  <2>8. CountersKeepUp'
    BY <1>1, <2>2, <2>4, <2>5 DEF TableInv, CountersKeepUp, Live
  <2>9. StaleIsBehind'
    BY <1>1, <2>4, <2>5 DEF TableInv, StaleIsBehind
  <2>10. QED
    BY <2>6, <2>7, <2>8, <2>9 DEF TableInv
<1>3. CASE MintFresh(b, k)
  <2> DEFINE n == Len(slots) + 1
  <2>1. slots \in Seq(Slot) /\ Stamp(0) = 1 /\ free = <<>> /\ free' = free
    BY <1>3 DEF TableInv, TypeOK, MintFresh, Stamp
  <2>2. /\ slots' \in Seq(Slot)
        /\ DOMAIN slots = 1..Len(slots) /\ DOMAIN slots' = 1..n /\ Len(slots) \in Nat
        /\ slots'[n] = [backend |-> b, generation |-> 1, kind |-> k]
        /\ \A j \in DOMAIN slots : slots'[j] = slots[j]
    BY <1>0, <1>3, <2>1 DEF MintFresh, Slot
  <2>3. TypeOK'
    BY <1>1, <2>1, <2>2 DEF TableInv, TypeOK
  <2>4. FreeListsTheDead'
    <3>1. \A j \in DOMAIN slots' : Live(j)'
      BY <1>0, <2>1, <2>2 DEF TableInv, FreeListsTheDead, Live, ToSet
    <3>2. ToSet(free') = {} /\ DOMAIN free' = {}
      BY <2>1 DEF ToSet
    <3>3. QED
      BY <3>1, <3>2 DEF FreeListsTheDead
  <2>5. CountersKeepUp'
    BY <1>1, <2>2 DEF TableInv, CountersKeepUp, Live
  <2>6. StaleIsBehind'
    BY <1>1, <2>2 DEF TableInv, StaleIsBehind
  <2>7. QED
    BY <2>3, <2>4, <2>5, <2>6 DEF TableInv
<1>4. QED
  BY <1>2, <1>3 DEF Mint

(* A released slot's counter moves past the word that was released.        *)
LEMMA ReleaseKeeps ==
  ASSUME NoWrap, TableInv, NEW w \in Held, NEW k \in Kind, Release(w, k)
  PROVE  TableInv'
<1> DEFINE i == w.index
<1>0. NoBackend \notin Backend /\ Generations \in Nat \ {0, 1} /\ MaxOpens \in Nat
  BY TableAssumption
<1>1. /\ i \in DOMAIN slots /\ Live(i)
      /\ slots[i].generation = w.generation
  BY DEF Release, Resolve
<1>2. /\ slots \in Seq(Slot) /\ free \in Seq(Nat)
      /\ opens \in 0..MaxOpens /\ opens' = opens
      /\ i \in 1..Len(slots) /\ Len(slots) \in Nat
  BY <1>1 DEF TableInv, TypeOK, Release
<1>3. w.generation \in 1..opens /\ Bump(slots[i].generation) = w.generation + 1
  <2>1. w.generation \in 1..opens
    BY <1>1, <1>2 DEF TableInv, CountersKeepUp
  <2>2. w.generation + 1 < Generations
    BY <1>0, <1>2, <2>1 DEF NoWrap
  <2>3. (w.generation + 1) % Generations = w.generation + 1
    BY <1>0, <1>2, <2>1, <2>2, NoCarry
  <2>4. QED
    BY <1>1, <2>1, <2>3 DEF Bump
<1>4. slots' = [slots EXCEPT ![i] = [slots[i] EXCEPT !.backend = NoBackend, !.generation = w.generation + 1]]
  BY <1>1, <1>2, <1>3 DEF Release, Slot
<1>5. /\ slots' \in Seq(Slot) /\ DOMAIN slots' = DOMAIN slots
      /\ slots'[i].backend = NoBackend /\ slots'[i].generation = w.generation + 1
      /\ \A j \in DOMAIN slots : j # i => slots'[j] = slots[j]
  <2>1. slots[i] \in Slot
    BY <1>2
  <2>2a. w.generation + 1 \in 0..(Generations - 1)
    BY <1>0, <1>2, <1>3 DEF NoWrap
  <2>2. [slots[i] EXCEPT !.backend = NoBackend, !.generation = w.generation + 1] \in Slot
    BY <2>1, <2>2a DEF Slot
  <2>3. slots' \in Seq(Slot) /\ DOMAIN slots' = DOMAIN slots
    BY <1>2, <1>4, <2>2
  <2>4. QED
    BY <1>2, <1>4, <2>1, <2>3 DEF Slot
<1>6. w \in Word
  <2>1. CASE w \in stale
    BY <2>1 DEF TableInv, TypeOK
  <2>2. CASE w \in {Encode(j, slots[j].generation) : j \in {l \in DOMAIN slots : Live(l)}}
    <3>1. PICK j \in DOMAIN slots : w = Encode(j, slots[j].generation)
      BY <2>2
    <3>2. j \in Nat /\ slots[j] \in Slot
      BY <1>2
    <3>3. slots[j].generation \in Nat
      BY <1>0, <3>2 DEF Slot
    <3>4. QED
      BY <3>1, <3>2, <3>3 DEF Encode, Word
  <2>3. QED
    BY <2>1, <2>2 DEF Held
<1>7. /\ free' \in Seq(Nat) /\ Len(free') = Len(free) + 1 /\ Len(free) \in Nat
      /\ free'[Len(free) + 1] = i
      /\ \A n \in 1..Len(free) : free'[n] = free[n]
  BY <1>2 DEF Release
<1>8. TypeOK'
  BY <1>2, <1>5, <1>6, <1>7 DEF TableInv, TypeOK, Release
<1>9. FreeListsTheDead'
  <2>1. ToSet(free') = ToSet(free) \cup {i}
    <3>1. DOMAIN free' = 1..(Len(free) + 1) /\ DOMAIN free = 1..Len(free)
      BY <1>2, <1>7
    <3>2. QED
      BY <1>7, <3>1 DEF ToSet
  <2>2. \A j \in DOMAIN slots : Live(j)' <=> (j # i /\ Live(j))
    BY <1>5 DEF Live
  <2>3. i \notin ToSet(free)
    BY <1>1 DEF TableInv, FreeListsTheDead
  <2>4. \A m, n \in DOMAIN free' : free'[m] = free'[n] => m = n
    <3>1. \A n \in 1..Len(free) : free[n] # i
      BY <1>2, <2>3 DEF ToSet
    <3>2. DOMAIN free' = 1..(Len(free) + 1) /\ DOMAIN free = 1..Len(free)
      BY <1>2, <1>7
    <3>3. QED
      BY <1>7, <3>1, <3>2 DEF TableInv, FreeListsTheDead
  <2>5. QED
    BY <1>1, <1>5, <2>1, <2>2, <2>4 DEF TableInv, FreeListsTheDead
<1>10. CountersKeepUp'
  <2> SUFFICES ASSUME NEW j \in DOMAIN slots
               PROVE  /\ slots'[j].generation \in 1..(opens + 1)
                      /\ slots'[j].backend # NoBackend => slots'[j].generation <= opens
    BY <1>2, <1>5 DEF CountersKeepUp, Live
  <2>1. CASE j = i
    BY <1>2, <1>3, <1>5, <2>1
  <2>2. CASE j # i
    BY <1>5, <2>2 DEF TableInv, CountersKeepUp, Live
  <2>3. QED
    BY <2>1, <2>2
<1>11. StaleIsBehind'
  <2>1. stale' = stale \cup {w}
    BY DEF Release
  <2>2. \A v \in stale : v.index \in DOMAIN slots /\ v.generation < slots'[v.index].generation
    BY <1>1, <1>2, <1>3, <1>5 DEF TableInv, TypeOK, StaleIsBehind, Word
  <2>3. QED
    BY <1>1, <1>3, <1>5, <2>1, <2>2, <1>2 DEF StaleIsBehind
<1>12. QED
  BY <1>8, <1>9, <1>10, <1>11 DEF TableInv

(* The invariant holds of every reachable table.                           *)
LEMMA TableInvariant ==
  ASSUME NoWrap
  PROVE  Spec => []TableInv
<1>1. Init => TableInv
  BY TableAssumption
  DEF Init, TableInv, TypeOK, FreeListsTheDead, CountersKeepUp, StaleIsBehind, ToSet
<1>2. TableInv /\ [Next]_vars => TableInv'
  <2> SUFFICES ASSUME TableInv, [Next]_vars PROVE TableInv'
    OBVIOUS
  <2>1. CASE \E b \in Backend, k \in Kind : Mint(b, k)
    BY <2>1, MintKeeps
  <2>2. CASE \E w \in Held, k \in Kind : Release(w, k)
    BY <2>2, ReleaseKeeps
  <2>3. CASE UNCHANGED vars
    BY <2>3 DEF vars, TableInv, TypeOK, FreeListsTheDead, CountersKeepUp, StaleIsBehind, Live
  <2>4. QED
    BY <2>1, <2>2, <2>3 DEF Next
<1>3. QED
  BY <1>1, <1>2, PTL DEF Spec

(* handle_registry.h:15-18: for as long as a slot's counter does not come  *)
(* around, a released handle never resolves again, and nothing live is     *)
(* offered a second time.                                                  *)
THEOREM StaleHandlesFail ==
  ASSUME NoWrap
  PROVE  Spec => []TableIsSound
<1>1. TableInv => TableIsSound
  <2> SUFFICES ASSUME TableInv, NEW w \in stale, NEW k \in Kind
               PROVE  Resolve(w, k) = NoBackend
    BY DEF TableInv, TableIsSound, StaleFailsCleanly
  <2>1. w.index \in DOMAIN slots /\ w.generation < slots[w.index].generation
    BY DEF TableInv, StaleIsBehind
  <2>2. w.generation \in Nat /\ slots[w.index].generation \in Nat
    BY <2>1 DEF TableInv, TypeOK, Word, CountersKeepUp
  <2>3. w.generation # slots[w.index].generation
    BY <2>1, <2>2
  <2>4. QED
    BY <2>3 DEF Resolve
<1>2. QED
  BY <1>1, TableInvariant, PTL

-----------------------------------------------------------------------------
(* Where a backend is put: a slot nobody uses, under a counter that no     *)
(* word given out for it has reached.                                      *)
LEMMA MintPlaces ==
  ASSUME TableInv, NEW b \in Backend, NEW k \in Kind, Mint(b, k)
  PROVE  \E i \in Nat, g \in Nat :
           /\ ~(i \in DOMAIN slots /\ Live(i))
           /\ DOMAIN slots' = DOMAIN slots \cup {i}
           /\ slots'[i] = [backend |-> b, generation |-> g, kind |-> k]
           /\ \A j \in DOMAIN slots : j # i => slots'[j] = slots[j]
           /\ Encode(i, g) \notin stale
<1>0. slots \in Seq(Slot) /\ stale \subseteq Word /\ opens \in Nat
  BY TableAssumption DEF TableInv, TypeOK
<1>1. CASE MintReused(b, k)
  <2> DEFINE i == Last(free)
             g == slots[i].generation
  <2>1. i \in DOMAIN slots /\ ~Live(i)
    BY <1>1, LastFree DEF TableInv, MintReused
  <2>2. i \in Nat /\ g \in 1..(opens + 1)
    BY <1>0, <2>1 DEF TableInv, CountersKeepUp
  <2>3. Stamp(g) = g /\ g \in Nat
    BY <1>0, <2>2 DEF Stamp
  <2>4. slots' = [slots EXCEPT ![i] = [backend |-> b, generation |-> g, kind |-> k]]
    BY <1>1, <2>3 DEF MintReused
  <2>5. DOMAIN slots' = DOMAIN slots \cup {i}
    BY <1>0, <2>1, <2>4
  <2>6. Encode(i, g) \notin stale
    <3>1. SUFFICES ASSUME Encode(i, g) \in stale PROVE FALSE
      OBVIOUS
    <3>2. Encode(i, g).index = i /\ Encode(i, g).generation = g
      BY DEF Encode
    <3>3. g < slots[i].generation
      BY <3>1, <3>2 DEF TableInv, StaleIsBehind
    <3>4. QED
      BY <2>3, <3>3
  <2>7. /\ slots'[i] = [backend |-> b, generation |-> g, kind |-> k]
        /\ \A j \in DOMAIN slots : j # i => slots'[j] = slots[j]
    BY <1>0, <2>1, <2>4
  <2>8. QED
    BY <2>1, <2>2, <2>3, <2>5, <2>6, <2>7
<1>2. CASE MintFresh(b, k)
  <2> DEFINE i == Len(slots) + 1
  <2>1. slots' = Append(slots, [backend |-> b, generation |-> 1, kind |-> k])
    BY <1>2 DEF MintFresh, Stamp
  <2>2. i \in Nat /\ DOMAIN slots = 1..Len(slots) /\ Len(slots) \in Nat
    BY <1>0
  <2>3. i \notin DOMAIN slots /\ DOMAIN slots' = DOMAIN slots \cup {i}
    BY <1>0, <2>1, <2>2
  <2>4. /\ slots'[i] = [backend |-> b, generation |-> 1, kind |-> k]
        /\ \A j \in DOMAIN slots : j # i => slots'[j] = slots[j]
    BY <1>0, <2>1, <2>2
  <2>5. Encode(i, 1) \notin stale
    BY <2>3 DEF TableInv, StaleIsBehind, Encode
  <2>6. QED
    BY <2>2, <2>3, <2>4, <2>5
<1>3. QED
  BY <1>1, <1>2 DEF Mint

(* What a slot shows of its handle.                                        *)
Handle(i) == [word |-> Encode(i, slots[i].generation),
              backend |-> slots[i].backend, kind |-> slots[i].kind]

LEMMA OpenIsLive ==
  \A h : h \in OpenHandles <=> \E i \in DOMAIN slots : Live(i) /\ h = Handle(i)
BY DEF OpenHandles, Handle

(* A handle is opened, under a word that nobody was ever given.            *)
LEMMA MintOpens ==
  ASSUME TableInv, NEW b \in Backend, NEW k \in Kind, Mint(b, k)
  PROVE  Abstract!Open(b, k)
<1>1. PICK i \in Nat, g \in Nat :
        /\ ~(i \in DOMAIN slots /\ Live(i))
        /\ DOMAIN slots' = DOMAIN slots \cup {i}
        /\ slots'[i] = [backend |-> b, generation |-> g, kind |-> k]
        /\ \A j \in DOMAIN slots : j # i => slots'[j] = slots[j]
        /\ Encode(i, g) \notin stale
  BY MintPlaces
<1> DEFINE h == [word |-> Encode(i, g), backend |-> b, kind |-> k]
<1>2. /\ Live(i)' /\ Handle(i)' = h
      /\ \A j \in DOMAIN slots : j # i => (Live(j)' <=> Live(j)) /\ Handle(j)' = Handle(j)
  BY <1>1, TableAssumption DEF Live, Handle
<1>3. \A o : o \in OpenHandles' <=> \E j \in DOMAIN slots' : Live(j)' /\ o = Handle(j)'
  BY OpenIsLive DEF OpenHandles, Handle
<1>4. OpenHandles' = OpenHandles \cup {h}
  BY <1>1, <1>2, <1>3, OpenIsLive
<1>5. h.word \notin {o.word : o \in OpenHandles}
  <2>1. SUFFICES ASSUME NEW j \in DOMAIN slots, Live(j), Handle(j).word = Encode(i, g)
                 PROVE  FALSE
    BY OpenIsLive
  <2>2. j = i
    BY <2>1 DEF Handle, Encode
  <2>3. QED
    BY <1>1, <2>1, <2>2
<1>6. h \in OpenHandles' /\ h.word \notin stale
  BY <1>1, <1>4
<1>7. UNCHANGED stale
  BY DEF Mint
<1>8. QED
  BY <1>4, <1>5, <1>6, <1>7 DEF Abstract!Open

(* A handle is closed: it alone, and its word with it.                     *)
LEMMA ReleaseCloses ==
  ASSUME TableInv, NEW w \in Held, NEW k \in Kind, Release(w, k)
  PROVE  \E h \in OpenHandles : Abstract!Close(h)
<1> DEFINE i == w.index
           h == Handle(i)
<1>0. slots \in Seq(Slot)
  BY DEF TableInv, TypeOK
<1>1. i \in DOMAIN slots /\ Live(i) /\ slots[i].generation = w.generation
  BY DEF Release, Resolve
<1>2. Encode(i, slots[i].generation) = w
  <2>1. CASE w \in stale
    <3>1. w \in Word
      BY <2>1 DEF TableInv, TypeOK
    <3>2. QED
      BY <1>1, <3>1 DEF Word, Encode
  <2>2. CASE w \in {Encode(j, slots[j].generation) : j \in {l \in DOMAIN slots : Live(l)}}
    BY <1>1, <2>2 DEF Encode
  <2>3. QED
    BY <2>1, <2>2 DEF Held
<1>3. /\ DOMAIN slots' = DOMAIN slots /\ ~Live(i)'
      /\ \A j \in DOMAIN slots : j # i => slots'[j] = slots[j]
  <2>1. slots' = [slots EXCEPT ![i] =
                   [slots[i] EXCEPT !.backend = NoBackend, !.generation = Bump(@)]]
    BY <1>0, <1>1 DEF Release, Slot
  <2>2. slots[i] \in Slot
    BY <1>0, <1>1, ElementOfSeq
  <2>3. slots'[i].backend = NoBackend
    BY <1>0, <1>1, <2>1, <2>2 DEF Slot
  <2>4. QED
    BY <1>0, <1>1, <2>1, <2>3 DEF Live
<1>4. \A j \in DOMAIN slots : j # i => (Live(j)' <=> Live(j)) /\ Handle(j)' = Handle(j)
  BY <1>3 DEF Live, Handle
<1>5. \A o : o \in OpenHandles' <=> \E j \in DOMAIN slots' : Live(j)' /\ o = Handle(j)'
  BY OpenIsLive DEF OpenHandles, Handle
<1>6. \A j \in DOMAIN slots : Handle(j) = h => j = i
  BY DEF Handle, Encode
<1>7. OpenHandles' = OpenHandles \ {h}
  BY <1>1, <1>3, <1>4, <1>5, <1>6, OpenIsLive
<1>8. h \in OpenHandles /\ h.word = w
  BY <1>1, <1>2, OpenIsLive DEF Handle
<1>9. stale' = stale \cup {h.word}
  BY <1>8 DEF Release
<1>10. QED
  BY <1>7, <1>8, <1>9 DEF Abstract!Close

(* The table implements the map that it stands for: every word is new when *)
(* it is given out, and resolves until it is released and never again.     *)
THEOREM TableImplementsMap ==
  ASSUME NoWrap
  PROVE  Spec => ImplementsHandleMap
<1>1. Init => Abstract!Init
  BY DEF Init, Abstract!Init, OpenHandles
<1>2. TableInv /\ [Next]_vars => [Abstract!Next]_<<OpenHandles, stale>>
  <2> SUFFICES ASSUME TableInv, [Next]_vars PROVE [Abstract!Next]_<<OpenHandles, stale>>
    OBVIOUS
  <2>1. CASE \E b \in Backend, k \in Kind : Mint(b, k)
    BY <2>1, MintOpens DEF Abstract!Next
  <2>2. CASE \E w \in Held, k \in Kind : Release(w, k)
    BY <2>2, ReleaseCloses DEF Abstract!Next
  <2>3. CASE UNCHANGED vars
    BY <2>3 DEF vars, OpenHandles, Live
  <2>4. QED
    BY <2>1, <2>2, <2>3 DEF Next
<1>3. QED
  BY <1>1, <1>2, TableInvariant, PTL DEF Spec, ImplementsHandleMap, Abstract!Spec

-----------------------------------------------------------------------------
(* The lifecycle.                                                          *)

(* What callers are asked to keep to, but for one thread per handle, which *)
(* nothing here depends on.                                                *)
PromisesKept == {"init first", "lifecycle calls alone", "no id twice"} \subseteq Promises

(* The nested layout: a plugin's file is known by its id.                  *)
NamesAreIds == \A f \in Files : ~f.good => f.name = f.id

Object == [code : [id : Plugin, n : Nat \ {0}], state : Lifecycle!ObjectState]

Errand == [at : {"out", "deinit", "open", "call", "close", "query"},
           on : Nat \cup [id : Plugin, n : Nat \ {0}]]

LifecycleTyped ==
  /\ running \in BOOLEAN
  /\ directory \in [Plugin -> 0..MaxLoads]
  /\ loads \in [Plugin -> 0..MaxLoads]
  /\ broken \subseteq {f.name : f \in Files}
  /\ \E n \in Nat : objects \in [1..n -> Object]
  /\ doing \in [Thread -> Errand]
  /\ registered \subseteq Static

(* Whoever makes or deletes an object is alone with it, and an object that *)
(* is neither behind a handle nor deleted has such a thread.               *)
Attended ==
  /\ \A t \in Thread : doing[t].at = "open" =>
       doing[t].on \in DOMAIN objects /\ objects[doing[t].on].state = "made"
  /\ \A t \in Thread : doing[t].at = "close" =>
       doing[t].on \in DOMAIN objects /\ objects[doing[t].on].state = "forgotten"
  /\ \A t, u \in Thread :
       t # u /\ doing[t].at \in {"open", "close"} /\ doing[u].at = doing[t].at =>
         doing[t].on # doing[u].on
  /\ \A o \in DOMAIN objects : objects[o].state = "made" =>
       \E t \in Thread : doing[t].at = "open" /\ doing[t].on = o
  /\ \A o \in DOMAIN objects : objects[o].state = "forgotten" =>
       \E t \in Thread : doing[t].at = "close" /\ doing[t].on = o

AllDeleted == \A o \in DOMAIN objects : objects[o].state = "deleted"

(* Nothing lives while the runtime is down or on its way down, and then    *)
(* nobody else is inside it.                                               *)
Quiet ==
  /\ ~running => AllDeleted
  /\ \A t \in Thread : doing[t].at = "deinit" => AllDeleted /\ Lifecycle!OthersIdle(t)

(* A package is asked under the code it was looked up with.                *)
QueriesNamed ==
  \A t \in Thread : doing[t].at = "query" => doing[t].on \in [id : Plugin, n : Nat \ {0}]

(* While the runtime is up, the files it rejected are on its list.         *)
RejectionsListed == running => \A f \in Files : ~f.good => f.name \in broken

(* The objects are numbered from one.                                      *)
LEMMA ObjectsNumbered ==
  ASSUME NEW n \in Nat, objects \in [1..n -> Object]
  PROVE  Lifecycle!Cardinality(DOMAIN objects) = n /\ DOMAIN objects = 1..n
<1>1. Cardinality(1..n) = n
  BY FS_Interval
<1>2. Lifecycle!Cardinality(1..n) = Cardinality(1..n)
  BY DEF Lifecycle!Cardinality, Cardinality
<1>. QED  BY <1>1, <1>2

LEMMA RuntimeSizes ==
  ASSUME Lifecycle!RuntimeAssumption
  PROVE  MaxLoads \in Nat /\ 0 \in 0..MaxLoads /\ Static \subseteq Plugin
BY DEF Lifecycle!RuntimeAssumption

LEMMA LifecycleTypedInit ==
  ASSUME Lifecycle!RuntimeAssumption, Lifecycle!Init
  PROVE  LifecycleTyped /\ Attended
<1>1. objects \in [1..0 -> Object]
  BY DEF Lifecycle!Init
<1>2. DOMAIN objects = {}
  BY DEF Lifecycle!Init
<1>3. \E n \in Nat : objects \in [1..n -> Object]
  BY <1>1
<1>4. [at |-> "out", on |-> 0] \in Errand
  BY DEF Errand
<1>5. LifecycleTyped
  BY <1>3, <1>4, RuntimeSizes DEF Lifecycle!Init, LifecycleTyped
<1>6. Attended
  BY <1>2 DEF Lifecycle!Init, Attended
<1>. QED  BY <1>5, <1>6

(* One thread's errand changes.                                            *)
LEMMA GoTyped ==
  ASSUME doing \in [Thread -> Errand], NEW t \in Thread, NEW where, NEW what,
         [at |-> where, on |-> what] \in Errand, Lifecycle!Go(t, where, what)
  PROVE  doing' \in [Thread -> Errand]
BY DEF Lifecycle!Go

LEMMA LeaveTyped ==
  ASSUME doing \in [Thread -> Errand], NEW t \in Thread, Lifecycle!Leave(t)
  PROVE  doing' \in [Thread -> Errand]
BY DEF Lifecycle!Go, Lifecycle!Leave, Errand

LEMMA StateTyped ==
  ASSUME \E n \in Nat : objects \in [1..n -> Object], NEW o,
         NEW s \in Lifecycle!ObjectState, Lifecycle!SetState(o, s)
  PROVE  \E n \in Nat : objects' \in [1..n -> Object]
<1>1. PICK n \in Nat : objects \in [1..n -> Object]
  OBVIOUS
<1>2. objects' \in [1..n -> Object]
  BY <1>1 DEF Lifecycle!SetState, Object
<1>. QED  BY <1>2

LEMMA DiscoverTyped ==
  ASSUME Lifecycle!RuntimeAssumption, LifecycleTyped, Lifecycle!Discover
  PROVE  /\ directory' \in [Plugin -> 0..MaxLoads]
         /\ loads' \in [Plugin -> 0..MaxLoads]
         /\ broken' \subseteq {f.name : f \in Files}
<1>. DEFINE found == {f.id : f \in {g \in Files : g.good}}
<1>1. \A p \in Plugin : loads[p] \in 0..MaxLoads /\ directory[p] \in 0..MaxLoads
  BY DEF LifecycleTyped
<1>2. /\ \A p \in found : loads[p] < MaxLoads
      /\ loads' = [p \in Plugin |-> IF p \in found THEN loads[p] + 1 ELSE loads[p]]
      /\ directory' = [p \in Plugin |-> IF p \in found THEN loads[p] + 1 ELSE directory[p]]
      /\ broken' = broken \cup {f.name : f \in {g \in Files : ~g.good}}
  BY DEF Lifecycle!Discover
<1>3. MaxLoads \in Nat
  BY DEF Lifecycle!RuntimeAssumption
<1>4. broken' \subseteq {f.name : f \in Files}
  BY <1>2 DEF LifecycleTyped
<1>. HIDE DEF found
<1>. QED  BY <1>1, <1>2, <1>3, <1>4

LEMMA LifecycleTypedStep ==
  ASSUME Lifecycle!RuntimeAssumption, LifecycleTyped, [Lifecycle!Next]_(Lifecycle!vars)
  PROVE  LifecycleTyped'
<1>. USE DEF LifecycleTyped
<1>1. ASSUME NEW t \in Thread, Lifecycle!InitRuntime(t) PROVE LifecycleTyped'
  BY <1>1, DiscoverTyped DEF Lifecycle!InitRuntime
<1>2. ASSUME NEW t \in Thread, Lifecycle!InitFails(t) PROVE LifecycleTyped'
  BY <1>2, RuntimeSizes DEF Lifecycle!InitFails, Lifecycle!UnloadAll
<1>3. ASSUME NEW t \in Thread, Lifecycle!DeinitChecks(t) PROVE LifecycleTyped'
  <2>1. [at |-> "deinit", on |-> 0] \in Errand
    BY DEF Errand
  <2>. QED  BY <1>3, <2>1, GoTyped DEF Lifecycle!DeinitChecks
<1>4. ASSUME NEW t \in Thread, Lifecycle!DeinitUnloads(t) PROVE LifecycleTyped'
  <2>1. doing' \in [Thread -> Errand]
    BY <1>4, LeaveTyped DEF Lifecycle!DeinitUnloads
  <2>. QED
    BY <1>4, <2>1, RuntimeSizes DEF Lifecycle!DeinitUnloads, Lifecycle!UnloadAll
<1>5. ASSUME NEW t \in Thread, NEW p \in Static, Lifecycle!Register(t, p) PROVE LifecycleTyped'
  <2>1. p \in Plugin /\ loads[p] + 1 \in 0..MaxLoads
    <3>1. p \in Plugin /\ loads[p] < MaxLoads /\ MaxLoads \in Nat
      BY <1>5, RuntimeSizes DEF Lifecycle!Register
    <3>. QED  BY <3>1
  <2>. QED  BY <1>5, <2>1 DEF Lifecycle!Register
<1>6. ASSUME NEW t \in Thread, NEW p \in Plugin, Lifecycle!OpenMakes(t, p) PROVE LifecycleTyped'
  <2>1. PICK n \in Nat : objects \in [1..n -> Object]
    OBVIOUS
  <2>2. Lifecycle!Cardinality(DOMAIN objects) = n /\ DOMAIN objects = 1..n
    BY <2>1, ObjectsNumbered
  <2>. DEFINE new == [code |-> Lifecycle!Current(p), state |-> "made"]
  <2>3. new \in Object
    BY <1>6 DEF Lifecycle!OpenMakes, Lifecycle!Lookup, Lifecycle!Current, Lifecycle!Code, Object,
                Lifecycle!ObjectState
  <2>4. /\ objects' = [x \in 1..n \cup {n + 1} |-> IF x = n + 1 THEN new ELSE objects[x]]
        /\ Lifecycle!Go(t, "open", n + 1)
    <3>. DEFINE o == Lifecycle!Cardinality(DOMAIN objects) + 1
    <3>1. /\ objects' = [x \in DOMAIN objects \cup {o} |-> IF x = o THEN new ELSE objects[x]]
          /\ Lifecycle!Go(t, "open", o)
      BY <1>6 DEF Lifecycle!OpenMakes
    <3>2. o = n + 1
      BY <2>2
    <3>. HIDE DEF o, new
    <3>. QED  BY <2>2, <3>1, <3>2
  <2>. HIDE DEF new
  <2>5. objects' \in [1..(n + 1) -> Object]
    BY <2>1, <2>3, <2>4
  <2>6. Lifecycle!Go(t, "open", n + 1)
    BY <2>4
  <2>7. [at |-> "open", on |-> n + 1] \in Errand
    BY DEF Errand
  <2>8. doing' \in [Thread -> Errand]
    BY <2>6, <2>7, GoTyped
  <2>9. \E m \in Nat : objects' \in [1..m -> Object]
    BY <2>5
  <2>. QED  BY <1>6, <2>8, <2>9 DEF Lifecycle!OpenMakes
<1>7. ASSUME NEW t \in Thread,
             Lifecycle!OpenTracks(t) \/ Lifecycle!OpenFails(t) \/ Lifecycle!CloseDeletes(t)
      PROVE  LifecycleTyped'
  <2>1. Lifecycle!Leave(t) /\ UNCHANGED <<running, directory, loads, broken, registered>>
    BY <1>7 DEF Lifecycle!OpenTracks, Lifecycle!OpenFails, Lifecycle!CloseDeletes
  <2>2. \E s \in Lifecycle!ObjectState : Lifecycle!SetState(doing[t].on, s)
    BY <1>7 DEF Lifecycle!OpenTracks, Lifecycle!OpenFails, Lifecycle!CloseDeletes,
                Lifecycle!ObjectState
  <2>3. \E n \in Nat : objects' \in [1..n -> Object]
    BY <2>2, StateTyped
  <2>. QED  BY <2>1, <2>3, LeaveTyped
<1>8. ASSUME NEW t \in Thread, Lifecycle!CallReturns(t) PROVE LifecycleTyped'
  BY <1>8, LeaveTyped DEF Lifecycle!CallReturns
<1>9. ASSUME NEW t \in Thread, NEW o \in DOMAIN objects, Lifecycle!CallResolves(t, o)
      PROVE  LifecycleTyped'
  <2>1. o \in Nat /\ [at |-> "call", on |-> o] \in Errand
    BY DEF Errand
  <2>. QED  BY <1>9, <2>1, GoTyped DEF Lifecycle!CallResolves
<1>10. ASSUME NEW t \in Thread, NEW o \in DOMAIN objects, Lifecycle!CloseForgets(t, o)
       PROVE  LifecycleTyped'
  <2>1. o \in Nat /\ [at |-> "close", on |-> o] \in Errand
    BY DEF Errand
  <2>2. \E n \in Nat : objects' \in [1..n -> Object]
    BY <1>10, StateTyped DEF Lifecycle!CloseForgets, Lifecycle!ObjectState
  <2>. QED  BY <1>10, <2>1, <2>2, GoTyped DEF Lifecycle!CloseForgets
<1>11. ASSUME NEW t \in Thread, NEW p \in Plugin, Lifecycle!QueryLooksUp(t, p)
       PROVE  LifecycleTyped'
  <2>1. [at |-> "query", on |-> Lifecycle!Current(p)] \in Errand
    BY <1>11 DEF Lifecycle!QueryLooksUp, Lifecycle!Lookup, Lifecycle!Current, Lifecycle!Code, Errand
  <2>. QED  BY <1>11, <2>1, GoTyped DEF Lifecycle!QueryLooksUp
<1>12. CASE UNCHANGED Lifecycle!vars
  BY <1>12 DEF Lifecycle!vars
<1>. QED
  BY <1>1, <1>2, <1>3, <1>4, <1>5, <1>6, <1>7, <1>8, <1>9, <1>10, <1>11, <1>12 DEF Lifecycle!Next

(* What a step leaves of the other threads' errands, and of the objects.   *)
LEMMA GoSays ==
  ASSUME doing \in [Thread -> Errand], NEW t \in Thread, NEW where, NEW what,
         Lifecycle!Go(t, where, what)
  PROVE  /\ doing'[t].at = where /\ doing'[t].on = what
         /\ \A u \in Thread \ {t} : doing'[u] = doing[u]
BY DEF Lifecycle!Go

LEMMA LeaveSays ==
  ASSUME doing \in [Thread -> Errand], NEW t \in Thread, Lifecycle!Leave(t)
  PROVE  /\ doing'[t].at = "out"
         /\ \A u \in Thread \ {t} : doing'[u] = doing[u]
BY DEF Lifecycle!Go, Lifecycle!Leave

LEMMA SetStateSays ==
  ASSUME LifecycleTyped, NEW o \in DOMAIN objects, NEW s, Lifecycle!SetState(o, s)
  PROVE  /\ DOMAIN objects' = DOMAIN objects
         /\ objects'[o].state = s
         /\ \A x \in DOMAIN objects : objects'[x].code = objects[x].code
         /\ \A x \in DOMAIN objects \ {o} : objects'[x].state = objects[x].state
BY DEF Lifecycle!SetState, LifecycleTyped, Object

(* A new object.                                                           *)
LEMMA OpenMakesSays ==
  ASSUME LifecycleTyped, NEW t \in Thread, NEW p \in Plugin, Lifecycle!OpenMakes(t, p)
  PROVE  \E o :
           /\ o \notin DOMAIN objects
           /\ DOMAIN objects' = DOMAIN objects \cup {o}
           /\ objects'[o] = [code |-> Lifecycle!Current(p), state |-> "made"]
           /\ \A x \in DOMAIN objects : objects'[x] = objects[x]
           /\ Lifecycle!Go(t, "open", o)
<1>1. PICK n \in Nat : objects \in [1..n -> Object]
  BY DEF LifecycleTyped
<1>. DEFINE o == Lifecycle!Cardinality(DOMAIN objects) + 1
            new == [code |-> Lifecycle!Current(p), state |-> "made"]
<1>2. o = n + 1 /\ DOMAIN objects = 1..n
  BY <1>1, ObjectsNumbered
<1>3. /\ objects' = [x \in DOMAIN objects \cup {o} |-> IF x = o THEN new ELSE objects[x]]
      /\ Lifecycle!Go(t, "open", o)
  BY DEF Lifecycle!OpenMakes
<1>4. o \notin DOMAIN objects
  BY <1>2
<1>. HIDE DEF o, new
<1>5. /\ DOMAIN objects' = DOMAIN objects \cup {o}
      /\ objects'[o] = new
      /\ \A x \in DOMAIN objects : objects'[x] = objects[x]
  BY <1>3, <1>4
<1>. QED  BY <1>3, <1>4, <1>5 DEF new

(* A thread that is in neither of the two delicate places goes to a third. *)
LEMMA AttendedElsewhere ==
  ASSUME LifecycleTyped, Attended, NEW t \in Thread, doing[t].at \notin {"open", "close"},
         doing'[t].at \notin {"open", "close"},
         \A u \in Thread \ {t} : doing'[u] = doing[u], UNCHANGED objects
  PROVE  Attended'
BY DEF Attended

LEMMA AttendedStep ==
  ASSUME LifecycleTyped, Attended, [Lifecycle!Next]_(Lifecycle!vars)
  PROVE  Attended'
<1>0. doing \in [Thread -> Errand]
  BY DEF LifecycleTyped
<1>1. ASSUME NEW t \in Thread, Lifecycle!InitRuntime(t) \/ Lifecycle!InitFails(t)
      PROVE  Attended'
  BY <1>1 DEF Lifecycle!InitRuntime, Lifecycle!InitFails, Attended
<1>3. ASSUME NEW t \in Thread, Lifecycle!DeinitChecks(t) PROVE Attended'
  BY <1>0, <1>3, GoSays, AttendedElsewhere DEF Lifecycle!DeinitChecks, Lifecycle!Idle
<1>4. ASSUME NEW t \in Thread, Lifecycle!DeinitUnloads(t) PROVE Attended'
  BY <1>0, <1>4, LeaveSays, AttendedElsewhere DEF Lifecycle!DeinitUnloads
<1>5. ASSUME NEW t \in Thread, NEW p \in Static, Lifecycle!Register(t, p) PROVE Attended'
  <2>1. UNCHANGED <<objects, doing>>
    BY <1>5 DEF Lifecycle!Register
  <2>. QED  BY <2>1 DEF Attended
<1>6. ASSUME NEW t \in Thread, NEW p \in Plugin, Lifecycle!OpenMakes(t, p) PROVE Attended'
  <2>1. PICK o : /\ o \notin DOMAIN objects
                 /\ DOMAIN objects' = DOMAIN objects \cup {o}
                 /\ objects'[o] = [code |-> Lifecycle!Current(p), state |-> "made"]
                 /\ \A x \in DOMAIN objects : objects'[x] = objects[x]
                 /\ Lifecycle!Go(t, "open", o)
    BY <1>6, OpenMakesSays
  <2>2. /\ doing'[t].at = "open" /\ doing'[t].on = o
        /\ \A u \in Thread \ {t} : doing'[u] = doing[u]
    BY <1>0, <2>1, GoSays
  <2>3. doing[t].at = "out" /\ objects'[o].state = "made"
    BY <1>6, <2>1 DEF Lifecycle!OpenMakes, Lifecycle!Idle
  <2>. QED  BY <2>1, <2>2, <2>3 DEF Attended
<1>7. ASSUME NEW t \in Thread, Lifecycle!OpenTracks(t) \/ Lifecycle!OpenFails(t)
      PROVE  Attended'
  <2>. DEFINE o == doing[t].on
  <2>1. doing[t].at = "open" /\ Lifecycle!Leave(t)
    BY <1>7 DEF Lifecycle!OpenTracks, Lifecycle!OpenFails
  <2>2. o \in DOMAIN objects /\ objects[o].state = "made"
    BY <2>1 DEF Attended
  <2>3. PICK s : s \in {"open", "deleted"} /\ Lifecycle!SetState(o, s)
    BY <1>7 DEF Lifecycle!OpenTracks, Lifecycle!OpenFails
  <2>4. /\ doing'[t].at = "out"
        /\ \A u \in Thread \ {t} : doing'[u] = doing[u]
    BY <1>0, <2>1, LeaveSays
  <2>5. /\ DOMAIN objects' = DOMAIN objects
        /\ objects'[o].state = s
        /\ \A x \in DOMAIN objects \ {o} : objects'[x].state = objects[x].state
    BY <2>2, <2>3, SetStateSays
  <2>6. \A u \in Thread \ {t} : doing[u].at \in {"open", "close"} => doing[u].on # o
    BY <2>1, <2>2 DEF Attended
  <2>. HIDE DEF o
  <2>. QED  BY <2>1, <2>2, <2>3, <2>4, <2>5, <2>6 DEF Attended, o
<1>8. ASSUME NEW t \in Thread, Lifecycle!CloseDeletes(t) PROVE Attended'
  <2>. DEFINE o == doing[t].on
  <2>1. doing[t].at = "close" /\ Lifecycle!Leave(t) /\ Lifecycle!SetState(o, "deleted")
    BY <1>8 DEF Lifecycle!CloseDeletes
  <2>2. o \in DOMAIN objects /\ objects[o].state = "forgotten"
    BY <2>1 DEF Attended
  <2>4. /\ doing'[t].at = "out"
        /\ \A u \in Thread \ {t} : doing'[u] = doing[u]
    BY <1>0, <2>1, LeaveSays
  <2>5. /\ DOMAIN objects' = DOMAIN objects
        /\ objects'[o].state = "deleted"
        /\ \A x \in DOMAIN objects \ {o} : objects'[x].state = objects[x].state
    BY <2>1, <2>2, SetStateSays
  <2>6. \A u \in Thread \ {t} : doing[u].at \in {"open", "close"} => doing[u].on # o
    BY <2>1, <2>2 DEF Attended
  <2>. HIDE DEF o
  <2>. QED  BY <2>1, <2>2, <2>4, <2>5, <2>6 DEF Attended, o
<1>9. ASSUME NEW t \in Thread, Lifecycle!CallReturns(t) PROVE Attended'
  BY <1>0, <1>9, LeaveSays, AttendedElsewhere DEF Lifecycle!CallReturns
<1>10. ASSUME NEW t \in Thread, NEW o \in DOMAIN objects, Lifecycle!CallResolves(t, o)
       PROVE  Attended'
  BY <1>0, <1>10, GoSays, AttendedElsewhere DEF Lifecycle!CallResolves, Lifecycle!Idle
<1>11. ASSUME NEW t \in Thread, NEW o \in DOMAIN objects, Lifecycle!CloseForgets(t, o)
       PROVE  Attended'
  <2>1. /\ doing[t].at = "out" /\ objects[o].state = "open"
        /\ Lifecycle!SetState(o, "forgotten") /\ Lifecycle!Go(t, "close", o)
    BY <1>11 DEF Lifecycle!CloseForgets, Lifecycle!Idle, Lifecycle!OpenObjects
  <2>2. /\ doing'[t].at = "close" /\ doing'[t].on = o
        /\ \A u \in Thread \ {t} : doing'[u] = doing[u]
    BY <1>0, <2>1, GoSays
  <2>3. /\ DOMAIN objects' = DOMAIN objects
        /\ objects'[o].state = "forgotten"
        /\ \A x \in DOMAIN objects \ {o} : objects'[x].state = objects[x].state
    BY <2>1, SetStateSays
  <2>. QED  BY <2>1, <2>2, <2>3 DEF Attended
<1>12. ASSUME NEW t \in Thread, NEW p \in Plugin, Lifecycle!QueryLooksUp(t, p)
       PROVE  Attended'
  BY <1>0, <1>12, GoSays, AttendedElsewhere DEF Lifecycle!QueryLooksUp, Lifecycle!Idle
<1>13. CASE UNCHANGED Lifecycle!vars
  BY <1>13 DEF Lifecycle!vars, Attended
<1>. QED
  BY <1>1, <1>3, <1>4, <1>5, <1>6, <1>7, <1>8, <1>9, <1>10, <1>11, <1>12, <1>13 DEF Lifecycle!Next

(* When every thread is outside, each object is behind a handle or gone.   *)
LEMMA AttendedShows ==
  ASSUME LifecycleTyped, Attended
  PROVE  Lifecycle!TypeOK /\ Lifecycle!NothingLeaks
<1>1. PICK n \in Nat : objects \in [1..n -> Object]
  BY DEF LifecycleTyped
<1>2. Lifecycle!Cardinality(DOMAIN objects) = n /\ DOMAIN objects = 1..n
  BY <1>1, ObjectsNumbered
<1>3. DOMAIN objects = 1..Lifecycle!Cardinality(DOMAIN objects)
  BY <1>2
<1>4. \A o \in DOMAIN objects :
        objects[o].code.id \in Plugin /\ objects[o].state \in Lifecycle!ObjectState
  BY <1>1 DEF Object
<1>5. \A t \in Thread : doing[t].at \in {"out", "deinit", "open", "call", "close", "query"}
  BY DEF LifecycleTyped, Errand
<1>6. Lifecycle!TypeOK
  BY <1>3, <1>4, <1>5 DEF Lifecycle!TypeOK, LifecycleTyped
<1>7. Lifecycle!NothingLeaks
  BY <1>4 DEF Attended, Lifecycle!NothingLeaks, Lifecycle!Idle, Lifecycle!ObjectState
<1>. QED  BY <1>6, <1>7

(* The promises, as the guards of the steps use them.                      *)
LEMMA Entering ==
  ASSUME PromisesKept, LifecycleTyped, Attended, Quiet, NEW t \in Thread
  PROVE  /\ Lifecycle!MayEnter(t) <=> Lifecycle!LifecycleFree
         /\ Lifecycle!MayUsePlugins(t) <=> Lifecycle!LifecycleFree /\ running
         /\ Lifecycle!MayChangeLifecycle(t) <=> Lifecycle!OthersIdle(t)
         /\ ~AllDeleted => running /\ Lifecycle!LifecycleFree
<1>1. running \in BOOLEAN
  BY DEF LifecycleTyped
<1>2. {"init first", "lifecycle calls alone"} \subseteq Promises
  BY DEF PromisesKept
<1>. QED
  BY <1>1, <1>2 DEF Lifecycle!MayEnter, Lifecycle!MayUsePlugins, Lifecycle!MayChangeLifecycle,
                    Lifecycle!LifecycleFree, Quiet

LEMMA LifecycleQuietInit ==
  ASSUME Lifecycle!Init
  PROVE  Quiet /\ QueriesNamed /\ Lifecycle!CodeStaysMapped /\ Lifecycle!PackageStaysMapped
BY DEF Lifecycle!Init, Quiet, AllDeleted, QueriesNamed, Lifecycle!CodeStaysMapped,
       Lifecycle!PackageStaysMapped

(* A thread that has been inside a call is not about to take down the      *)
(* runtime when it leaves or stays.                                        *)
LEMMA QuietElsewhere ==
  ASSUME Quiet, NEW t \in Thread, doing'[t].at # "deinit", Lifecycle!LifecycleFree, AllDeleted => AllDeleted',
         \A u \in Thread \ {t} : doing'[u] = doing[u], UNCHANGED running
  PROVE  Quiet'
BY DEF Quiet, Lifecycle!LifecycleFree

LEMMA QuietStep ==
  ASSUME PromisesKept, LifecycleTyped, Attended, Quiet, [Lifecycle!Next]_(Lifecycle!vars)
  PROVE  Quiet'
<1>0. doing \in [Thread -> Errand]
  BY DEF LifecycleTyped
<1>1. ASSUME NEW t \in Thread, Lifecycle!InitRuntime(t) PROVE Quiet'
  <2>1. ~running /\ Lifecycle!LifecycleFree /\ running' = TRUE /\ UNCHANGED <<objects, doing>>
    BY <1>1 DEF Lifecycle!InitRuntime
  <2>. QED  BY <2>1 DEF Quiet, Lifecycle!LifecycleFree
<1>2. ASSUME NEW t \in Thread, Lifecycle!InitFails(t) PROVE Quiet'
  <2>1. UNCHANGED <<running, objects, doing>>
    BY <1>2 DEF Lifecycle!InitFails
  <2>. QED  BY <2>1 DEF Quiet, AllDeleted, Lifecycle!OthersIdle, Lifecycle!Idle
<1>3. ASSUME NEW t \in Thread, Lifecycle!DeinitChecks(t) PROVE Quiet'
  <2>1. /\ doing[t].at = "out" /\ Lifecycle!OthersIdle(t) /\ Lifecycle!OpenObjects = {}
        /\ Lifecycle!Go(t, "deinit", 0) /\ UNCHANGED <<running, objects>>
    BY <1>3, Entering DEF Lifecycle!DeinitChecks, Lifecycle!Idle, Lifecycle!NoneLive
  <2>2. \A u \in Thread : Lifecycle!Idle(u)
    BY <2>1 DEF Lifecycle!OthersIdle, Lifecycle!Idle
  <2>3. AllDeleted
    BY <2>1, <2>2, AttendedShows DEF Lifecycle!NothingLeaks, AllDeleted, Lifecycle!OpenObjects
  <2>4. /\ doing'[t].at = "deinit"
        /\ \A u \in Thread \ {t} : doing'[u] = doing[u]
    BY <1>0, <2>1, GoSays
  <2>5. \A u \in Thread \ {t} : doing'[u].at = "out"
    BY <2>2, <2>4 DEF Lifecycle!Idle
  <2>6. AllDeleted'
    BY <2>1, <2>3 DEF AllDeleted
  <2>. QED  BY <2>5, <2>6 DEF Quiet, Lifecycle!OthersIdle, Lifecycle!Idle
<1>4. ASSUME NEW t \in Thread, Lifecycle!DeinitUnloads(t) PROVE Quiet'
  <2>1. doing[t].at = "deinit" /\ Lifecycle!Leave(t) /\ UNCHANGED objects
    BY <1>4 DEF Lifecycle!DeinitUnloads
  <2>2. AllDeleted /\ Lifecycle!OthersIdle(t)
    BY <2>1 DEF Quiet
  <2>3. /\ doing'[t].at = "out"
        /\ \A u \in Thread \ {t} : doing'[u] = doing[u]
    BY <1>0, <2>1, LeaveSays
  <2>4. \A u \in Thread : doing'[u].at = "out"
    BY <2>2, <2>3 DEF Lifecycle!OthersIdle, Lifecycle!Idle
  <2>5. AllDeleted'
    BY <2>1, <2>2 DEF AllDeleted
  <2>. QED  BY <2>4, <2>5 DEF Quiet
<1>5. ASSUME NEW t \in Thread, NEW p \in Static, Lifecycle!Register(t, p) PROVE Quiet'
  <2>1. UNCHANGED <<running, objects, doing>>
    BY <1>5 DEF Lifecycle!Register
  <2>. QED  BY <2>1 DEF Quiet, AllDeleted, Lifecycle!OthersIdle, Lifecycle!Idle
<1>6. ASSUME NEW t \in Thread, NEW p \in Plugin, Lifecycle!OpenMakes(t, p) PROVE Quiet'
  <2>1. \E o : Lifecycle!Go(t, "open", o)
    BY <1>6, OpenMakesSays
  <2>2. /\ doing'[t].at = "open"
        /\ \A u \in Thread \ {t} : doing'[u] = doing[u]
    BY <1>0, <2>1, GoSays
  <2>3. Lifecycle!LifecycleFree /\ running /\ UNCHANGED running
    BY <1>6, Entering DEF Lifecycle!OpenMakes
  <2>. QED  BY <2>2, <2>3 DEF Quiet, Lifecycle!LifecycleFree
<1>7. ASSUME NEW t \in Thread,
             \/ Lifecycle!OpenTracks(t) \/ Lifecycle!OpenFails(t) \/ Lifecycle!CloseDeletes(t)
      PROVE  Quiet'
  <2>. DEFINE o == doing[t].on
  <2>1. doing[t].at \in {"open", "close"} /\ Lifecycle!Leave(t) /\ UNCHANGED running
    BY <1>7 DEF Lifecycle!OpenTracks, Lifecycle!OpenFails, Lifecycle!CloseDeletes
  <2>2. o \in DOMAIN objects /\ objects[o].state \in {"made", "forgotten"}
    BY <2>1 DEF Attended
  <2>3. running /\ Lifecycle!LifecycleFree
    BY <2>2, Entering DEF AllDeleted
  <2>4. /\ doing'[t].at = "out"
        /\ \A u \in Thread \ {t} : doing'[u] = doing[u]
    BY <1>0, <2>1, LeaveSays
  <2>. QED  BY <2>1, <2>3, <2>4 DEF Quiet, Lifecycle!LifecycleFree
<1>8. ASSUME NEW t \in Thread, Lifecycle!CallReturns(t) PROVE Quiet'
  <2>1. /\ doing[t].at \in {"call", "query"} /\ Lifecycle!Leave(t)
        /\ UNCHANGED <<running, objects>>
    BY <1>8 DEF Lifecycle!CallReturns
  <2>2. Lifecycle!LifecycleFree
    BY <2>1 DEF Quiet, Lifecycle!LifecycleFree, Lifecycle!OthersIdle, Lifecycle!Idle
  <2>3. /\ doing'[t].at = "out"
        /\ \A u \in Thread \ {t} : doing'[u] = doing[u]
    BY <1>0, <2>1, LeaveSays
  <2>. QED  BY <2>1, <2>2, <2>3, QuietElsewhere DEF AllDeleted
<1>9. ASSUME NEW t \in Thread, NEW o \in DOMAIN objects, Lifecycle!CallResolves(t, o)
      PROVE  Quiet'
  <2>1. /\ Lifecycle!LifecycleFree /\ Lifecycle!Go(t, "call", o)
        /\ UNCHANGED <<running, objects>>
    BY <1>9, Entering DEF Lifecycle!CallResolves
  <2>2. /\ doing'[t].at = "call"
        /\ \A u \in Thread \ {t} : doing'[u] = doing[u]
    BY <1>0, <2>1, GoSays
  <2>. QED  BY <2>1, <2>2, QuietElsewhere DEF AllDeleted
<1>10. ASSUME NEW t \in Thread, NEW o \in DOMAIN objects, Lifecycle!CloseForgets(t, o)
       PROVE  Quiet'
  <2>1. /\ objects[o].state = "open" /\ Lifecycle!Go(t, "close", o) /\ UNCHANGED running
    BY <1>10 DEF Lifecycle!CloseForgets, Lifecycle!OpenObjects
  <2>2. running /\ Lifecycle!LifecycleFree
    BY <2>1, Entering DEF AllDeleted
  <2>3. /\ doing'[t].at = "close"
        /\ \A u \in Thread \ {t} : doing'[u] = doing[u]
    BY <1>0, <2>1, GoSays
  <2>. QED  BY <2>1, <2>2, <2>3 DEF Quiet, Lifecycle!LifecycleFree
<1>11. ASSUME NEW t \in Thread, NEW p \in Plugin, Lifecycle!QueryLooksUp(t, p) PROVE Quiet'
  <2>1. /\ Lifecycle!LifecycleFree /\ Lifecycle!Go(t, "query", Lifecycle!Current(p))
        /\ UNCHANGED <<running, objects>>
    BY <1>11, Entering DEF Lifecycle!QueryLooksUp
  <2>2. /\ doing'[t].at = "query"
        /\ \A u \in Thread \ {t} : doing'[u] = doing[u]
    BY <1>0, <2>1, GoSays
  <2>. QED  BY <2>1, <2>2, QuietElsewhere DEF AllDeleted
<1>12. CASE UNCHANGED Lifecycle!vars
  <2>1. UNCHANGED <<running, objects, doing>>
    BY <1>12 DEF Lifecycle!vars
  <2>. QED  BY <2>1 DEF Quiet, AllDeleted, Lifecycle!OthersIdle, Lifecycle!Idle
<1>. QED
  BY <1>1, <1>2, <1>3, <1>4, <1>5, <1>6, <1>7, <1>8, <1>9, <1>10, <1>11, <1>12 DEF Lifecycle!Next

(* Where the directory changes nothing is alive and nobody asks a package, *)
(* or the id was free: so no code is unmapped under its users.             *)
LEMMA MappedStep ==
  ASSUME PromisesKept, LifecycleTyped, Attended, Quiet, QueriesNamed,
         Lifecycle!CodeStaysMapped, Lifecycle!PackageStaysMapped,
         [Lifecycle!Next]_(Lifecycle!vars)
  PROVE  QueriesNamed' /\ Lifecycle!CodeStaysMapped' /\ Lifecycle!PackageStaysMapped'
<1>. DEFINE Goal == QueriesNamed' /\ Lifecycle!CodeStaysMapped' /\ Lifecycle!PackageStaysMapped'
<1>. USE DEF Lifecycle!Mapped
<1>0. doing \in [Thread -> Errand]
  BY DEF LifecycleTyped
<1>k. \A o \in DOMAIN objects : objects[o].code.id \in Plugin /\ objects[o].code.n \in Nat \ {0}
  BY DEF LifecycleTyped, Object
<1>e. ASSUME AllDeleted, \A t \in Thread : doing[t].at # "query", UNCHANGED <<objects, doing>>
      PROVE  Goal
  BY <1>e DEF AllDeleted, QueriesNamed, Lifecycle!CodeStaysMapped, Lifecycle!PackageStaysMapped
<1>q. ASSUME NEW t \in Thread, doing'[t].at # "query",
             \A u \in Thread \ {t} : doing'[u] = doing[u], UNCHANGED directory
      PROVE  QueriesNamed' /\ Lifecycle!PackageStaysMapped'
  BY <1>q DEF QueriesNamed, Lifecycle!PackageStaysMapped
<1>1. ASSUME NEW t \in Thread, Lifecycle!InitRuntime(t) \/ Lifecycle!InitFails(t) PROVE Goal
  <2>1. /\ ~running /\ doing[t].at = "out" /\ Lifecycle!OthersIdle(t)
        /\ UNCHANGED <<objects, doing>>
    BY <1>1, Entering DEF Lifecycle!InitRuntime, Lifecycle!InitFails, Lifecycle!Idle
  <2>2. AllDeleted /\ \A u \in Thread : doing[u].at # "query"
    BY <2>1 DEF Quiet, Lifecycle!OthersIdle, Lifecycle!Idle
  <2>. QED  BY <1>e, <2>1, <2>2
<1>3. ASSUME NEW t \in Thread, Lifecycle!DeinitChecks(t) PROVE Goal
  <2>1. Lifecycle!Go(t, "deinit", 0) /\ UNCHANGED <<directory, objects>>
    BY <1>3 DEF Lifecycle!DeinitChecks
  <2>2. /\ doing'[t].at = "deinit"
        /\ \A u \in Thread \ {t} : doing'[u] = doing[u]
    BY <1>0, <2>1, GoSays
  <2>. QED  BY <1>q, <2>1, <2>2 DEF Lifecycle!CodeStaysMapped
<1>4. ASSUME NEW t \in Thread, Lifecycle!DeinitUnloads(t) PROVE Goal
  <2>1. doing[t].at = "deinit" /\ Lifecycle!Leave(t) /\ UNCHANGED objects
    BY <1>4 DEF Lifecycle!DeinitUnloads
  <2>2. AllDeleted /\ Lifecycle!OthersIdle(t)
    BY <2>1 DEF Quiet
  <2>3. /\ doing'[t].at = "out"
        /\ \A u \in Thread \ {t} : doing'[u] = doing[u]
    BY <1>0, <2>1, LeaveSays
  <2>4. \A u \in Thread : doing'[u].at = "out"
    BY <2>2, <2>3 DEF Lifecycle!OthersIdle, Lifecycle!Idle
  <2>. QED
    BY <2>1, <2>2, <2>4 DEF AllDeleted, QueriesNamed, Lifecycle!CodeStaysMapped,
                            Lifecycle!PackageStaysMapped
<1>5. ASSUME NEW t \in Thread, NEW p \in Static, Lifecycle!Register(t, p) PROVE Goal
  <2>1. /\ directory[p] = 0 /\ directory' = [directory EXCEPT ![p] = loads[p] + 1]
        /\ UNCHANGED <<objects, doing>>
    BY <1>5 DEF Lifecycle!Register, PromisesKept
  <2>2. ASSUME NEW c \in [id : Plugin, n : Nat \ {0}], directory[c.id] = c.n
        PROVE  directory'[c.id] = c.n
    BY <2>1, <2>2 DEF LifecycleTyped
  <2>3. Lifecycle!CodeStaysMapped'
    <3>1. \A o \in DOMAIN objects : objects[o].code \in [id : Plugin, n : Nat \ {0}]
      BY DEF LifecycleTyped, Object
    <3>. QED  BY <2>1, <2>2, <3>1 DEF Lifecycle!CodeStaysMapped
  <2>4. QueriesNamed' /\ Lifecycle!PackageStaysMapped'
    BY <2>1, <2>2 DEF QueriesNamed, Lifecycle!PackageStaysMapped
  <2>. QED  BY <2>3, <2>4
<1>6. ASSUME NEW t \in Thread, NEW p \in Plugin, Lifecycle!OpenMakes(t, p) PROVE Goal
  <2>1. PICK o : /\ o \notin DOMAIN objects
                 /\ DOMAIN objects' = DOMAIN objects \cup {o}
                 /\ objects'[o] = [code |-> Lifecycle!Current(p), state |-> "made"]
                 /\ \A x \in DOMAIN objects : objects'[x] = objects[x]
                 /\ Lifecycle!Go(t, "open", o)
    BY <1>6, OpenMakesSays
  <2>2. /\ doing'[t].at = "open"
        /\ \A u \in Thread \ {t} : doing'[u] = doing[u]
    BY <1>0, <2>1, GoSays
  <2>3. UNCHANGED directory
    BY <1>6 DEF Lifecycle!OpenMakes
  <2>4. Lifecycle!CodeStaysMapped'
    BY <2>1, <2>3 DEF Lifecycle!CodeStaysMapped, Lifecycle!Current, Lifecycle!Code
  <2>. QED  BY <1>q, <2>2, <2>3, <2>4
<1>7. ASSUME NEW t \in Thread,
             \/ Lifecycle!OpenTracks(t) \/ Lifecycle!OpenFails(t) \/ Lifecycle!CloseDeletes(t)
      PROVE  Goal
  <2>. DEFINE o == doing[t].on
  <2>1. doing[t].at \in {"open", "close"} /\ Lifecycle!Leave(t) /\ UNCHANGED directory
    BY <1>7 DEF Lifecycle!OpenTracks, Lifecycle!OpenFails, Lifecycle!CloseDeletes
  <2>2. o \in DOMAIN objects /\ objects[o].state # "deleted"
    BY <2>1 DEF Attended
  <2>3. PICK s : Lifecycle!SetState(o, s)
    BY <1>7 DEF Lifecycle!OpenTracks, Lifecycle!OpenFails, Lifecycle!CloseDeletes
  <2>4. /\ doing'[t].at = "out"
        /\ \A u \in Thread \ {t} : doing'[u] = doing[u]
    BY <1>0, <2>1, LeaveSays
  <2>5. /\ DOMAIN objects' = DOMAIN objects
        /\ \A x \in DOMAIN objects : objects'[x].code = objects[x].code
        /\ \A x \in DOMAIN objects \ {o} : objects'[x].state = objects[x].state
    BY <2>2, <2>3, SetStateSays
  <2>. HIDE DEF o
  <2>6. Lifecycle!CodeStaysMapped'
    BY <2>1, <2>2, <2>5 DEF Lifecycle!CodeStaysMapped
  <2>. QED  BY <1>q, <2>1, <2>4, <2>6
<1>8. ASSUME NEW t \in Thread, Lifecycle!CallReturns(t) PROVE Goal
  <2>1. Lifecycle!Leave(t) /\ UNCHANGED <<directory, objects>>
    BY <1>8 DEF Lifecycle!CallReturns
  <2>2. /\ doing'[t].at = "out"
        /\ \A u \in Thread \ {t} : doing'[u] = doing[u]
    BY <1>0, <2>1, LeaveSays
  <2>. QED  BY <1>q, <2>1, <2>2 DEF Lifecycle!CodeStaysMapped
<1>9. ASSUME NEW t \in Thread, NEW o \in DOMAIN objects, Lifecycle!CallResolves(t, o)
      PROVE  Goal
  <2>1. Lifecycle!Go(t, "call", o) /\ UNCHANGED <<directory, objects>>
    BY <1>9 DEF Lifecycle!CallResolves
  <2>2. /\ doing'[t].at = "call"
        /\ \A u \in Thread \ {t} : doing'[u] = doing[u]
    BY <1>0, <2>1, GoSays
  <2>. QED  BY <1>q, <2>1, <2>2 DEF Lifecycle!CodeStaysMapped
<1>10. ASSUME NEW t \in Thread, NEW o \in DOMAIN objects, Lifecycle!CloseForgets(t, o)
       PROVE  Goal
  <2>1. /\ objects[o].state = "open" /\ Lifecycle!SetState(o, "forgotten")
        /\ Lifecycle!Go(t, "close", o) /\ UNCHANGED directory
    BY <1>10 DEF Lifecycle!CloseForgets, Lifecycle!OpenObjects
  <2>2. /\ doing'[t].at = "close"
        /\ \A u \in Thread \ {t} : doing'[u] = doing[u]
    BY <1>0, <2>1, GoSays
  <2>3. /\ DOMAIN objects' = DOMAIN objects
        /\ \A x \in DOMAIN objects : objects'[x].code = objects[x].code
        /\ \A x \in DOMAIN objects \ {o} : objects'[x].state = objects[x].state
    BY <2>1, SetStateSays
  <2>4. Lifecycle!CodeStaysMapped'
    BY <2>1, <2>3 DEF Lifecycle!CodeStaysMapped
  <2>. QED  BY <1>q, <2>1, <2>2, <2>4
<1>11. ASSUME NEW t \in Thread, NEW p \in Plugin, Lifecycle!QueryLooksUp(t, p) PROVE Goal
  <2>1. /\ Lifecycle!Go(t, "query", Lifecycle!Current(p))
        /\ directory[p] # 0 /\ UNCHANGED <<directory, objects>>
    BY <1>11 DEF Lifecycle!QueryLooksUp, Lifecycle!Lookup
  <2>2. /\ doing'[t].on = [id |-> p, n |-> directory[p]]
        /\ \A u \in Thread \ {t} : doing'[u] = doing[u]
    BY <1>0, <2>1, GoSays DEF Lifecycle!Current, Lifecycle!Code
  <2>3. directory[p] \in Nat \ {0}
    BY <2>1 DEF LifecycleTyped
  <2>. QED
    BY <2>1, <2>2, <2>3 DEF QueriesNamed, Lifecycle!CodeStaysMapped, Lifecycle!PackageStaysMapped
<1>12. CASE UNCHANGED Lifecycle!vars
  <2>1. UNCHANGED <<directory, objects, doing>>
    BY <1>12 DEF Lifecycle!vars
  <2>. QED
    BY <2>1 DEF QueriesNamed, Lifecycle!CodeStaysMapped, Lifecycle!PackageStaysMapped
<1>. HIDE DEF Lifecycle!Mapped
<1>13. Goal
  BY Zenon, <1>1, <1>3, <1>4, <1>5, <1>6, <1>7, <1>8, <1>9, <1>10, <1>11, <1>12 DEF Lifecycle!Next
<1>. QED  BY <1>13 DEF Goal

(* The list is made when the runtime comes up and kept until it goes down. *)
LEMMA RejectionsStep ==
  ASSUME LifecycleTyped, RejectionsListed, [Lifecycle!Next]_(Lifecycle!vars)
  PROVE  RejectionsListed'
<1>1. ASSUME NEW t \in Thread, Lifecycle!InitRuntime(t) PROVE RejectionsListed'
  BY <1>1 DEF Lifecycle!InitRuntime, Lifecycle!Discover, RejectionsListed
<1>2. ASSUME NEW t \in Thread, Lifecycle!InitFails(t) PROVE RejectionsListed'
  BY <1>2 DEF Lifecycle!InitFails, RejectionsListed
<1>3. ASSUME NEW t \in Thread, Lifecycle!DeinitUnloads(t) PROVE RejectionsListed'
  BY <1>3 DEF Lifecycle!DeinitUnloads, RejectionsListed
<1>4. ASSUME NEW t \in Thread,
             \/ Lifecycle!DeinitChecks(t) \/ (\E p \in Static : Lifecycle!Register(t, p))
             \/ (\E p \in Plugin : Lifecycle!OpenMakes(t, p) \/ Lifecycle!QueryLooksUp(t, p))
             \/ Lifecycle!OpenTracks(t) \/ Lifecycle!OpenFails(t)
             \/ Lifecycle!CallReturns(t) \/ Lifecycle!CloseDeletes(t)
             \/ (\E o \in DOMAIN objects : Lifecycle!CallResolves(t, o) \/ Lifecycle!CloseForgets(t, o))
      PROVE  RejectionsListed'
  <2>1. UNCHANGED <<running, broken>>
    BY <1>4 DEF Lifecycle!DeinitChecks, Lifecycle!Register, Lifecycle!OpenMakes,
                Lifecycle!QueryLooksUp, Lifecycle!OpenTracks, Lifecycle!OpenFails,
                Lifecycle!CallReturns, Lifecycle!CloseDeletes, Lifecycle!CallResolves,
                Lifecycle!CloseForgets
  <2>. QED  BY <2>1 DEF RejectionsListed
<1>5. CASE UNCHANGED Lifecycle!vars
  BY <1>5 DEF Lifecycle!vars, RejectionsListed
<1>. QED  BY <1>1, <1>2, <1>3, <1>4, <1>5 DEF Lifecycle!Next

(* Backends that were made are owned by a thread, behind a handle, or      *)
(* deleted, whatever callers do: bridge_support.h:97-159.                  *)
THEOREM NothingIsLeaked == Lifecycle!Spec => [](Lifecycle!TypeOK /\ Lifecycle!NothingLeaks)
<1>0. Lifecycle!RuntimeAssumption
  BY PartsAssumption
<1>1. Lifecycle!Init => LifecycleTyped /\ Attended
  BY <1>0, LifecycleTypedInit
<1>2. LifecycleTyped /\ Attended /\ [Lifecycle!Next]_(Lifecycle!vars) => (LifecycleTyped /\ Attended)'
  BY <1>0, LifecycleTypedStep, AttendedStep
<1>3. LifecycleTyped /\ Attended => Lifecycle!TypeOK /\ Lifecycle!NothingLeaks
  BY AttendedShows
<1>. QED  BY <1>1, <1>2, <1>3, PTL DEF Lifecycle!Spec

(* For callers who keep their promises and plugins known by their ids:     *)
(* plugin code is never unmapped under a live object or a package that is  *)
(* being asked something, no object is leaked, and a rejected plugin is    *)
(* told apart from an unknown one: runtime.cpp:105-133, registry.cpp.      *)
THEOREM LifecycleIsSound ==
  ASSUME PromisesKept, NamesAreIds
  PROVE  Lifecycle!Spec => []LifecycleHolds
<1>0. Lifecycle!RuntimeAssumption
  BY PartsAssumption
<1>. DEFINE IInv == /\ LifecycleTyped /\ Attended /\ Quiet /\ QueriesNamed /\ RejectionsListed
                    /\ Lifecycle!CodeStaysMapped /\ Lifecycle!PackageStaysMapped
<1>1. Lifecycle!Init => IInv
  <2>1. Lifecycle!Init => RejectionsListed
    BY DEF Lifecycle!Init, RejectionsListed
  <2>. QED  BY <1>0, <2>1, LifecycleTypedInit, LifecycleQuietInit
<1>2. IInv /\ [Lifecycle!Next]_(Lifecycle!vars) => IInv'
  BY <1>0, LifecycleTypedStep, AttendedStep, QuietStep, MappedStep, RejectionsStep
<1>3. IInv => LifecycleHolds
  <2>1. RejectionsListed => Lifecycle!BrokenIsTold
    BY DEF RejectionsListed, NamesAreIds, Lifecycle!BrokenIsTold, Lifecycle!Lookup
  <2>. QED  BY <2>1, AttendedShows DEF LifecycleHolds
<1>. QED  BY <1>1, <1>2, <1>3, PTL DEF Lifecycle!Spec

-----------------------------------------------------------------------------
(* One call through the C boundary.                                        *)

TableKind == Boundary!Kinds \cup {"package"}

(* No field is in a table twice.                                           *)
LEMMA FieldsDiffer ==
  ASSUME NEW kind \in TableKind, NEW i \in DOMAIN Boundary!Fields[kind],
         NEW j \in DOMAIN Boundary!Fields[kind],
         Boundary!Fields[kind][i] = Boundary!Fields[kind][j]
  PROVE  i = j
<1>1. CASE kind = "llm"
  BY <1>1 DEF Boundary!Fields
<1>2. CASE kind = "vlm"
  BY <1>2 DEF Boundary!Fields
<1>3. CASE kind = "embedding"
  BY <1>3 DEF Boundary!Fields
<1>4. CASE kind = "package"
  BY <1>4 DEF Boundary!Fields
<1>. QED  BY <1>1, <1>2, <1>3, <1>4 DEF TableKind, Boundary!Kinds

LEMMA PlaceIs ==
  ASSUME NEW kind \in TableKind, NEW i \in DOMAIN Boundary!Fields[kind]
  PROVE  Boundary!Place(kind, Boundary!Fields[kind][i]) = i
<1>. DEFINE f == Boundary!Fields[kind]
<1>1. \A x, y \in DOMAIN f : f[x] = f[y] => x = y
  BY FieldsDiffer
<1>2. Boundary!Place(kind, f[i]) = CHOOSE x \in DOMAIN f : f[x] = f[i]
  BY DEF Boundary!Place
<1>3. i \in DOMAIN f
  OBVIOUS
<1>. HIDE DEF f
<1>4. (CHOOSE x \in DOMAIN f : f[x] = f[i]) = i
  BY <1>1, <1>3
<1>5. Boundary!Place(kind, f[i]) = i
  BY <1>2, <1>4
<1>. QED  BY <1>5 DEF f

LEMMA NoFieldsAppended == Boundary!Cardinality({}) = 0
<1>1. Boundary!Cardinality({}) = Cardinality({})
  BY DEF Boundary!Cardinality, Cardinality
<1>. QED  BY <1>1, FS_EmptySet

LEMMA OneFieldAppended == ASSUME NEW x PROVE Boundary!Cardinality({x}) = 1
<1>1. Boundary!Cardinality({x}) = Cardinality({x})
  BY DEF Boundary!Cardinality, Cardinality
<1>. QED  BY <1>1, FS_Singleton

LEMMA RequiredIs ==
  /\ Boundary!Required("llm") = 9 /\ Boundary!Required("vlm") = 6
  /\ Boundary!Required("embedding") = 4 /\ Boundary!Required("package") = 6
<1>1. /\ Len(Boundary!Fields["llm"]) = 9 /\ Len(Boundary!Fields["vlm"]) = 7
      /\ Len(Boundary!Fields["embedding"]) = 5 /\ Len(Boundary!Fields["package"]) = 7
  BY DEF Boundary!Fields
<1>2. /\ Boundary!Appended["llm"] = {} /\ Boundary!Appended["vlm"] = {"stats"}
      /\ Boundary!Appended["embedding"] = {"rerank"} /\ Boundary!Appended["package"] = {"modalities"}
  BY DEF Boundary!Appended
<1>3. /\ Boundary!Cardinality({"stats"}) = 1
      /\ Boundary!Cardinality({"rerank"}) = 1
      /\ Boundary!Cardinality({"modalities"}) = 1
  BY OneFieldAppended
<1>. QED  BY <1>1, <1>2, <1>3, NoFieldsAppended DEF Boundary!Required

(* The fields that every table must have come before those added later.    *)
LEMMA RequiredFirst ==
  ASSUME NEW kind \in TableKind, NEW i \in DOMAIN Boundary!Fields[kind],
         Boundary!Fields[kind][i] \notin Boundary!Appended[kind]
  PROVE  i <= Boundary!Required(kind)
<1>1. CASE kind = "llm"
  BY <1>1, RequiredIs DEF Boundary!Fields, Boundary!Appended
<1>2. CASE kind = "vlm"
  BY <1>2, RequiredIs DEF Boundary!Fields, Boundary!Appended
<1>3. CASE kind = "embedding"
  BY <1>3, RequiredIs DEF Boundary!Fields, Boundary!Appended
<1>4. CASE kind = "package"
  BY <1>4, RequiredIs DEF Boundary!Fields, Boundary!Appended
<1>. QED  BY <1>1, <1>2, <1>3, <1>4 DEF TableKind, Boundary!Kinds

(* Of a table that is complete, a field that is covered is inside.         *)
LEMMA CoveredFits ==
  ASSUME NEW t, t.kind \in TableKind, t.size \in Nat,
         NEW field \in Boundary!Entrypoints(t.kind),
         Boundary!TableComplete(t.kind, t.size), Boundary!Covers(t, field)
  PROVE  Boundary!Place(t.kind, field) <= t.size
<1>1. PICK i \in DOMAIN Boundary!Fields[t.kind] : field = Boundary!Fields[t.kind][i]
  BY DEF Boundary!Entrypoints, Boundary!Range
<1>2. CASE field \in Boundary!Appended[t.kind]
  BY <1>2 DEF Boundary!Covers
<1>3. CASE field \notin Boundary!Appended[t.kind]
  <2>1. Boundary!Place(t.kind, field) = i
    BY <1>1, PlaceIs
  <2>2. i <= Boundary!Required(t.kind) /\ i \in Nat
    BY <1>1, <1>3, RequiredFirst DEF Boundary!Fields, TableKind, Boundary!Kinds
  <2>3. Boundary!Required(t.kind) \in Nat
    BY RequiredIs DEF TableKind, Boundary!Kinds
  <2>. QED  BY <2>1, <2>2, <2>3 DEF Boundary!TableComplete
<1>. QED  BY <1>2, <1>3

(* The functions that open and close a table are not among those appended. *)
LEMMA MainFields ==
  /\ \A k \in Boundary!Kinds : {"create", "destroy"} \subseteq Boundary!Entrypoints(k) \ Boundary!Appended[k]
  /\ Boundary!Kinds \cup {"destroy"} \subseteq Boundary!Entrypoints("package") \ Boundary!Appended["package"]
<1>1. /\ Boundary!Fields["llm"][1] = "create" /\ Boundary!Fields["llm"][9] = "destroy"
      /\ Boundary!Fields["vlm"][1] = "create" /\ Boundary!Fields["vlm"][6] = "destroy"
      /\ Boundary!Fields["embedding"][1] = "create" /\ Boundary!Fields["embedding"][4] = "destroy"
      /\ Boundary!Fields["package"][3] = "llm" /\ Boundary!Fields["package"][4] = "vlm"
      /\ Boundary!Fields["package"][5] = "embedding" /\ Boundary!Fields["package"][6] = "destroy"
  BY DEF Boundary!Fields
<1>2. /\ DOMAIN Boundary!Fields["llm"] = 1..9 /\ DOMAIN Boundary!Fields["vlm"] = 1..7
      /\ DOMAIN Boundary!Fields["embedding"] = 1..5 /\ DOMAIN Boundary!Fields["package"] = 1..7
  BY DEF Boundary!Fields
<1>. QED
  BY <1>1, <1>2 DEF Boundary!Kinds, Boundary!Entrypoints, Boundary!Range, Boundary!Appended

(* What encode() is given can be counted.                                  *)
LEMMA ProductFits ==
  ASSUME NEW n \in Nat, NEW a \in Int, NEW w \in Int, a > 0, w > 0, a <= n \div w
  PROVE  a * w \in 1..n
<1>1. PICK q \in Nat : q = n \div w /\ q * w <= n
  OBVIOUS
<1>2. a * w <= q * w
  BY <1>1
<1>3. a * w >= 1
  OBVIOUS
<1>. QED  BY <1>1, <1>2, <1>3

-----------------------------------------------------------------------------
TableRec == [kind : TableKind, size : Nat, out : SUBSET STRING, destroys : {0, 1}, lost : BOOLEAN]

Stages == {"idle", "shielded", "inside", "minted", "adopted", "loaded"}

Ops == {"none"} \cup UNION {Boundary!Entrypoints(k) : k \in Boundary!Kinds}

BoundaryTyped ==
  /\ tables \in Seq(TableRec)
  /\ package \in 0..Len(tables)
  /\ handles \subseteq 1..Len(tables)
  /\ call \in [kind : Boundary!Kinds, op : Ops, stage : Stages, table : 0..Len(tables),
               input : Boundary!Input]
  /\ detail \in {"none", "this", "earlier"} /\ output \in {"blank", "this", "earlier"}

(* The table of the call in progress, between its making and its handle.   *)
InFlight(t) == call.stage \in {"minted", "adopted", "loaded"} /\ t = call.table

Complete(t) == Boundary!TableComplete(tables[t].kind, tables[t].size)

(* Each table has one owner or none: the handles, the package, the call in *)
(* progress, or nobody because its adapter could not be allocated.  It has *)
(* been destroyed exactly when it has none of them.                        *)
Owned ==
  /\ package # 0 => tables[package].kind = "package" /\ Complete(package)
  /\ \A t \in handles : tables[t].kind \in Boundary!Kinds /\ Complete(t)
  /\ call.stage \in {"minted", "adopted", "loaded"} =>
       /\ call.table # 0 /\ call.table \notin handles
       /\ tables[call.table].kind = call.kind
  /\ call.stage \in {"adopted", "loaded"} => Complete(call.table)
  /\ \A t \in DOMAIN tables :
       tables[t].lost => t \notin handles /\ t # package /\ ~InFlight(t)
  /\ \A t \in DOMAIN tables :
       tables[t].destroys =
         IF t \in handles \/ t = package \/ tables[t].lost \/ InFlight(t) THEN 0 ELSE 1

(* A call past the checks has passed them, and only an open makes a table. *)
Checked ==
  /\ call.stage # "idle" =>
       /\ call.op \in Boundary!Entrypoints(call.kind)
       /\ Boundary!Sane(call.kind, call.op, call.input)
  /\ call.stage \in {"minted", "adopted", "loaded"} => call.op = "create"

BoundaryInv == BoundaryTyped /\ Owned /\ Checked /\ Boundary!OutputIsOfThisCall

LEMMA PlainTyped ==
  ASSUME Boundary!BoundaryAssumption
  PROVE  Boundary!Plain \in Boundary!Input
<1>1. \E i \in Inputs : Boundary!CreateSane(i)
  BY DEF Boundary!BoundaryAssumption, Boundary!CreateSane
<1>. QED  BY <1>1 DEF Boundary!BoundaryAssumption, Boundary!Plain

(* What a producer hands out.                                              *)
LEMMA MadeTyped ==
  ASSUME Boundary!BoundaryAssumption, NEW k \in TableKind, NEW p \in Producers[k]
  PROVE  Boundary!Made(k, p) \in TableRec
<1>1. p \in Nat \X SUBSET STRING
  BY DEF Boundary!BoundaryAssumption, TableKind
<1>. QED  BY <1>1 DEF Boundary!Made, TableRec

LEMMA BoundaryInit ==
  ASSUME Boundary!BoundaryAssumption, Boundary!Init
  PROVE  BoundaryInv
<1>1. BoundaryTyped
  <2>1. /\ package = 0 /\ tables = <<>> /\ handles = {} /\ output = "blank" /\ detail = "none"
        /\ call = [kind |-> "llm", op |-> "none", stage |-> "idle", table |-> 0,
                   input |-> Boundary!Plain]
    BY DEF Boundary!Init
  <2>2. tables \in Seq(TableRec) /\ Len(tables) = 0
    BY <2>1
  <2>3. call \in [kind : Boundary!Kinds, op : Ops, stage : Stages, table : 0..Len(tables),
                 input : Boundary!Input]
    <3>1. 0 \in 0..Len(tables)
      BY <2>2
    <3>2. "llm" \in Boundary!Kinds /\ "idle" \in Stages
      BY DEF Boundary!Kinds, Stages
    <3>3. Boundary!Plain \in Boundary!Input
      BY PlainTyped
    <3>4. "none" \in Ops
      BY DEF Ops
    <3>. QED  BY <2>1, <3>1, <3>2, <3>3, <3>4
  <2>. QED  BY <2>1, <2>2, <2>3 DEF BoundaryTyped
<1>2. Owned /\ Checked /\ Boundary!OutputIsOfThisCall
  BY DEF Boundary!Init, Owned, Checked, Boundary!OutputIsOfThisCall, Boundary!HasOutput
<1>. QED  BY <1>1, <1>2 DEF BoundaryInv

(* The three things that happen to the tables.                             *)
LEMMA TableAdded ==
  ASSUME BoundaryTyped, NEW r \in TableRec, tables' = Append(tables, r)
  PROVE  /\ tables' \in Seq(TableRec)
         /\ Len(tables') = Len(tables) + 1 /\ Boundary!Fresh = Len(tables) + 1
         /\ DOMAIN tables' = DOMAIN tables \cup {Boundary!Fresh}
         /\ Boundary!Fresh \notin DOMAIN tables
         /\ tables'[Boundary!Fresh] = r
         /\ \A t \in DOMAIN tables : tables'[t] = tables[t]
BY DEF BoundaryTyped, Boundary!Fresh

LEMMA TableDestroyed ==
  ASSUME BoundaryTyped, NEW d \in DOMAIN tables, tables[d].destroys = 0,
         tables' = Boundary!Destroyed(d)
  PROVE  /\ tables' \in Seq(TableRec) /\ Len(tables') = Len(tables)
         /\ DOMAIN tables' = DOMAIN tables
         /\ tables'[d] = [tables[d] EXCEPT !.destroys = 1]
         /\ \A t \in DOMAIN tables \ {d} : tables'[t] = tables[t]
<1>1. tables[d] \in TableRec
  BY DEF BoundaryTyped
<1>2. [tables[d] EXCEPT !.destroys = @ + 1] = [tables[d] EXCEPT !.destroys = 1]
  BY <1>1 DEF TableRec
<1>3. [tables[d] EXCEPT !.destroys = 1] \in TableRec
  BY <1>1 DEF TableRec
<1>4. tables' = [tables EXCEPT ![d] = [tables[d] EXCEPT !.destroys = 1]]
  BY <1>2 DEF Boundary!Destroyed
<1>. QED  BY <1>3, <1>4 DEF BoundaryTyped

LEMMA TableLost ==
  ASSUME BoundaryTyped, NEW d \in DOMAIN tables, tables' = [tables EXCEPT ![d].lost = TRUE]
  PROVE  /\ tables' \in Seq(TableRec) /\ Len(tables') = Len(tables)
         /\ DOMAIN tables' = DOMAIN tables
         /\ tables'[d] = [tables[d] EXCEPT !.lost = TRUE]
         /\ \A t \in DOMAIN tables \ {d} : tables'[t] = tables[t]
<1>1. tables[d] \in TableRec
  BY DEF BoundaryTyped
<1>2. [tables[d] EXCEPT !.lost = TRUE] \in TableRec
  BY <1>1 DEF TableRec
<1>. QED  BY <1>2 DEF BoundaryTyped

(* The steps of a call: it goes on, or it ends.                            *)
LEMMA CallGoes ==
  ASSUME BoundaryTyped, NEW stage \in Stages, NEW t, Boundary!Go(stage, t)
  PROVE  /\ call'.stage = stage /\ call'.table = t /\ call'.kind = call.kind
         /\ call'.op = call.op /\ call'.input = call.input
         /\ call' = [call EXCEPT !.stage = stage, !.table = t]
BY DEF BoundaryTyped, Boundary!Go

LEMMA CallEnds ==
  ASSUME Boundary!BoundaryAssumption, BoundaryTyped, NEW c, Boundary!Answer(c)
  PROVE  /\ call' \in [kind : Boundary!Kinds, op : Ops, stage : Stages, table : {0},
                       input : Boundary!Input]
         /\ call'.stage = "idle" /\ call'.op = call.op
BY PlainTyped DEF BoundaryTyped, Boundary!Answer, Stages

(* A table that the call in progress is about.                             *)
LEMMA FlightTable ==
  ASSUME BoundaryTyped, Owned, call.stage \in {"minted", "adopted", "loaded"}
  PROVE  /\ call.table \in DOMAIN tables /\ call.table \in 1..Len(tables)
         /\ tables[call.table].destroys = 0 /\ ~tables[call.table].lost
         /\ call.table \notin handles /\ call.table # package
         /\ tables[call.table].kind = call.kind /\ call.kind \in Boundary!Kinds
         /\ call.table # 0 /\ InFlight(call.table)
<1>1. call.table \in 1..Len(tables) /\ InFlight(call.table)
  BY DEF BoundaryTyped, Owned, InFlight
<1>2. call.kind # "package" /\ call.kind \in Boundary!Kinds
  BY DEF BoundaryTyped, Boundary!Kinds
<1>3. call.table \in DOMAIN tables /\ tables[call.table] \in TableRec
  BY <1>1 DEF BoundaryTyped
<1>4. call.table # package
  BY <1>1, <1>2 DEF Owned
<1>. QED  BY <1>1, <1>2, <1>3, <1>4 DEF Owned, TableRec

(* A step that leaves the tables and their owners alone.                   *)
LEMMA OwnedElsewhere ==
  ASSUME Owned, call.stage \notin {"minted", "adopted", "loaded"},
         call'.stage \notin {"minted", "adopted", "loaded"}, UNCHANGED <<package, tables, handles>>
  PROVE  Owned'
BY DEF Owned, InFlight, Complete

(* Which of the calls' steps leave tables, package and handles alone.      *)
LEMMA Bystanders ==
  ASSUME Boundary!BoundaryAssumption, BoundaryTyped, Owned,
         \/ \E kind \in Boundary!Kinds, i \in Inputs :
              \E op \in Boundary!Entrypoints(kind) : Boundary!Arrive(kind, op, i)
         \/ Boundary!HandleRefused \/ Boundary!Returns \/ Boundary!MintFails
         \/ \E t \in handles : Boundary!Dispatch(t)
  PROVE  Owned'
<1>. USE DEF Boundary!At, Boundary!Idle
<1>1. ASSUME NEW kind \in Boundary!Kinds, NEW i \in Inputs, NEW op \in Boundary!Entrypoints(kind),
             Boundary!Arrive(kind, op, i)
      PROVE  Owned'
  <2>1. call.stage = "idle" /\ call'.stage \in {"shielded", "idle"} /\ UNCHANGED <<package, tables, handles>>
    BY <1>1 DEF Boundary!Arrive
  <2>. QED  BY <2>1, OwnedElsewhere
<1>2. ASSUME Boundary!HandleRefused \/ Boundary!Returns \/ Boundary!MintFails PROVE Owned'
  <2>1. /\ call.stage \in {"shielded", "inside"} /\ UNCHANGED <<package, tables, handles>>
        /\ \E c : Boundary!Answer(c)
    BY <1>2 DEF Boundary!HandleRefused, Boundary!Returns, Boundary!MintFails, Boundary!Told
  <2>2. call'.stage = "idle"
    BY <2>1, CallEnds
  <2>. QED  BY <2>1, <2>2, OwnedElsewhere
<1>3. ASSUME NEW t \in handles, Boundary!Dispatch(t) PROVE Owned'
  <2>1. /\ call.stage = "shielded" /\ UNCHANGED <<package, tables, handles>>
        /\ Boundary!Go("inside", t) \/ \E c : Boundary!Answer(c)
    BY <1>3 DEF Boundary!Dispatch
  <2>2. call'.stage \in {"inside", "idle"}
    BY <2>1, CallGoes, CallEnds DEF Stages
  <2>. QED  BY <2>1, <2>2, OwnedElsewhere
<1>. QED  BY <1>1, <1>2, <1>3

(* The call in progress gives its table back, and ends.                    *)
LEMMA FlightGivenBack ==
  ASSUME Boundary!BoundaryAssumption, BoundaryTyped, Owned,
         call.stage \in {"minted", "adopted", "loaded"}, NEW c, Boundary!Answer(c),
         tables' = Boundary!Destroyed(call.table), UNCHANGED <<package, handles>>
  PROVE  Owned'
<1>1. call'.stage = "idle"
  BY CallEnds
<1>. DEFINE d == call.table
<1>2. /\ d \in DOMAIN tables /\ tables[d].destroys = 0 /\ ~tables[d].lost /\ d \notin handles
      /\ d # package
  BY FlightTable
<1>3. /\ DOMAIN tables' = DOMAIN tables
      /\ tables'[d] = [tables[d] EXCEPT !.destroys = 1]
      /\ \A t \in DOMAIN tables \ {d} : tables'[t] = tables[t]
  BY <1>2, TableDestroyed
<1>4. tables[d] \in TableRec
  BY <1>2 DEF BoundaryTyped
<1>5. /\ package # 0 => package \in DOMAIN tables /\ package # d
      /\ \A t \in handles : t \in DOMAIN tables /\ t # d
  BY <1>2 DEF BoundaryTyped
<1>6. \A t : ~InFlight(t)'
  BY <1>1 DEF InFlight
<1>7. \A t \in DOMAIN tables \ {d} : ~InFlight(t)
  BY DEF InFlight
<1>. HIDE DEF d
<1>8. package' # 0 => tables'[package'].kind = "package" /\ Complete(package)'
  BY <1>3, <1>5 DEF Owned, Complete
<1>9. \A t \in handles' : tables'[t].kind \in Boundary!Kinds /\ Complete(t)'
  BY <1>3, <1>5 DEF Owned, Complete
<1>10. tables'[d].destroys = 1 /\ ~tables'[d].lost
  BY <1>2, <1>3, <1>4 DEF TableRec
<1>11. ASSUME NEW t \in DOMAIN tables'
       PROVE  /\ tables'[t].lost => t \notin handles' /\ t # package' /\ ~InFlight(t)'
              /\ tables'[t].destroys =
                   IF t \in handles' \/ t = package' \/ tables'[t].lost \/ InFlight(t)'
                     THEN 0 ELSE 1
  <2>1. CASE t = d
    BY <1>2, <1>6, <1>10, <2>1
  <2>2. CASE t # d
    <3>1. /\ t \in DOMAIN tables /\ tables'[t] = tables[t] /\ ~InFlight(t) /\ ~InFlight(t)'
          /\ (t \in handles' <=> t \in handles)
          /\ (t = package' <=> t = package)
      BY <1>3, <1>6, <1>7, <2>2
    <3>. QED  BY <3>1 DEF Owned
  <2>. QED  BY <2>1, <2>2
<1>. QED  BY <1>1, <1>8, <1>9, <1>11 DEF Owned

(* Nobody owns it when its adapter cannot be allocated.                    *)
LEMMA FlightLost ==
  ASSUME Boundary!BoundaryAssumption, BoundaryTyped, Owned, Boundary!AdoptLoses
  PROVE  Owned'
<1>0. /\ call.stage = "minted" /\ Boundary!Answer("memory") /\ UNCHANGED <<package, handles>>
      /\ tables' = [tables EXCEPT ![call.table].lost = TRUE]
  BY DEF Boundary!AdoptLoses, Boundary!At, Boundary!Told
<1>1. call'.stage = "idle"
  BY <1>0, CallEnds
<1>. DEFINE d == call.table
<1>2. /\ d \in DOMAIN tables /\ tables[d].destroys = 0 /\ d \notin handles /\ d # package
  BY <1>0, FlightTable
<1>3. /\ DOMAIN tables' = DOMAIN tables
      /\ tables'[d] = [tables[d] EXCEPT !.lost = TRUE]
      /\ \A t \in DOMAIN tables \ {d} : tables'[t] = tables[t]
  BY <1>0, <1>2, TableLost
<1>4. tables[d] \in TableRec
  BY <1>2 DEF BoundaryTyped
<1>5. /\ package # 0 => package \in DOMAIN tables /\ package # d
      /\ \A t \in handles : t \in DOMAIN tables /\ t # d
  BY <1>2 DEF BoundaryTyped
<1>6. \A t : ~InFlight(t)'
  BY <1>1 DEF InFlight
<1>7. \A t \in DOMAIN tables \ {d} : ~InFlight(t)
  BY DEF InFlight
<1>. HIDE DEF d
<1>8. package' # 0 => tables'[package'].kind = "package" /\ Complete(package)'
  BY <1>0, <1>3, <1>5 DEF Owned, Complete
<1>9. \A t \in handles' : tables'[t].kind \in Boundary!Kinds /\ Complete(t)'
  BY <1>0, <1>3, <1>5 DEF Owned, Complete
<1>10. tables'[d].destroys = 0 /\ tables'[d].lost
  BY <1>2, <1>3, <1>4 DEF TableRec
<1>11. ASSUME NEW t \in DOMAIN tables'
       PROVE  /\ tables'[t].lost => t \notin handles' /\ t # package' /\ ~InFlight(t)'
              /\ tables'[t].destroys =
                   IF t \in handles' \/ t = package' \/ tables'[t].lost \/ InFlight(t)'
                     THEN 0 ELSE 1
  <2>1. CASE t = d
    BY <1>0, <1>2, <1>6, <1>10, <2>1
  <2>2. CASE t # d
    <3>1. /\ t \in DOMAIN tables /\ tables'[t] = tables[t] /\ ~InFlight(t) /\ ~InFlight(t)'
          /\ (t \in handles' <=> t \in handles)
          /\ (t = package' <=> t = package)
      BY <1>0, <1>3, <1>6, <1>7, <2>2
    <3>. QED  BY <3>1 DEF Owned
  <2>. QED  BY <2>1, <2>2
<1>. QED  BY <1>1, <1>8, <1>9, <1>11 DEF Owned

(* A handle or the package gives its table back between calls, or as the   *)
(* call that closes it ends.                                               *)
LEMMA OwnerGivesBack ==
  ASSUME BoundaryTyped, Owned, call.stage \notin {"minted", "adopted", "loaded"},
         call'.stage = "idle", NEW d \in DOMAIN tables, ~tables[d].lost,
         tables' = Boundary!Destroyed(d),
         \/ d \in handles /\ handles' = handles \ {d} /\ package' = package
         \/ d = package /\ package' = 0 /\ handles = {} /\ handles' = {}
  PROVE  Owned'
<1>1. tables[d].destroys = 0
  BY DEF Owned
<1>2. d # 0 /\ (d \in handles => d # package)
  BY DEF BoundaryTyped, Owned, Boundary!Kinds
<1>3. /\ DOMAIN tables' = DOMAIN tables
      /\ tables'[d] = [tables[d] EXCEPT !.destroys = 1]
      /\ \A t \in DOMAIN tables \ {d} : tables'[t] = tables[t]
  BY <1>1, TableDestroyed
<1>4. tables[d] \in TableRec
  BY DEF BoundaryTyped
<1>5. /\ package' # 0 => package' = package /\ package \in DOMAIN tables /\ package # d
      /\ \A t \in handles' : t \in handles /\ t \in DOMAIN tables /\ t # d
      /\ d \notin handles' /\ d # package'
      /\ \A t \in DOMAIN tables \ {d} : (t \in handles' <=> t \in handles)
      /\ \A t \in DOMAIN tables \ {d} : (t = package' <=> t = package)
  <2>1. package \in 0..Len(tables) /\ handles \subseteq DOMAIN tables /\ 0 \notin DOMAIN tables
        /\ DOMAIN tables = 1..Len(tables)
    BY DEF BoundaryTyped
  <2>2. CASE d \in handles /\ handles' = handles \ {d} /\ package' = package
    BY <1>2, <2>1, <2>2
  <2>3. CASE d = package /\ package' = 0 /\ handles = {} /\ handles' = {}
    BY <1>2, <2>1, <2>3
  <2>. QED  BY <2>2, <2>3
<1>6. \A t : ~InFlight(t)' /\ ~InFlight(t)
  BY DEF InFlight
<1>8. package' # 0 => tables'[package'].kind = "package" /\ Complete(package)'
  BY <1>3, <1>5 DEF Owned, Complete
<1>9. \A t \in handles' : tables'[t].kind \in Boundary!Kinds /\ Complete(t)'
  BY <1>3, <1>5 DEF Owned, Complete
<1>10. tables'[d].destroys = 1 /\ ~tables'[d].lost
  BY <1>3, <1>4 DEF TableRec
<1>11. ASSUME NEW t \in DOMAIN tables'
       PROVE  /\ tables'[t].lost => t \notin handles' /\ t # package' /\ ~InFlight(t)'
              /\ tables'[t].destroys =
                   IF t \in handles' \/ t = package' \/ tables'[t].lost \/ InFlight(t)'
                     THEN 0 ELSE 1
  <2>1. CASE t = d
    BY <1>5, <1>6, <1>10, <2>1
  <2>2. CASE t # d
    <3>1. /\ t \in DOMAIN tables /\ tables'[t] = tables[t] /\ ~InFlight(t) /\ ~InFlight(t)'
          /\ (t \in handles' <=> t \in handles)
          /\ (t = package' <=> t = package)
      BY <1>3, <1>5, <1>6, <2>2
    <3>. QED  BY <3>1 DEF Owned
  <2>. QED  BY <2>1, <2>2
<1>. QED  BY <1>8, <1>9, <1>11 DEF Owned

(* The last element of a sequence is put in place of another.              *)
LEMMA LastReplaced ==
  ASSUME NEW S, NEW s \in Seq(S), NEW a \in S
  PROVE  /\ Append(s, a)[Len(s) + 1] = a
         /\ \A b \in S : [Append(s, a) EXCEPT ![Len(s) + 1] = b] = Append(s, b)
<1>1. Append(s, a)[Len(s) + 1] = a
  BY AppendProperties
<1>2. ASSUME NEW b \in S
      PROVE  [Append(s, a) EXCEPT ![Len(s) + 1] = b] = Append(s, b)
  <2>1. PICK n \in Nat : n = Len(s)
    BY LenProperties
  <2>. DEFINE f == [Append(s, a) EXCEPT ![n + 1] = b]
  <2>2. /\ Append(s, a) \in Seq(S) /\ Len(Append(s, a)) = n + 1
        /\ Append(s, b) \in Seq(S) /\ Len(Append(s, b)) = n + 1
        /\ Append(s, b)[n + 1] = b
        /\ \A i \in 1..n : Append(s, a)[i] = s[i] /\ Append(s, b)[i] = s[i]
    BY <2>1, AppendProperties
  <2>3. f \in Seq(S) /\ Len(f) = n + 1
    BY <2>2
  <2>4. ASSUME NEW i \in 1..(n + 1) PROVE f[i] = Append(s, b)[i]
    <3>1. DOMAIN Append(s, a) = 1..(n + 1)
      BY <2>2
    <3>2. CASE i = n + 1
      BY <2>2, <3>1, <3>2
    <3>3. CASE i # n + 1
      <4>1. i \in 1..n
        BY <3>3
      <4>. QED  BY <2>2, <3>1, <3>3, <4>1
    <3>. QED  BY <3>2, <3>3
  <2>. HIDE DEF f
  <2>5. f = Append(s, b)
    BY <2>2, <2>3, <2>4, SeqEqual
  <2>. QED  BY <2>1, <2>5 DEF f
<1>. QED  BY <1>1, <1>2

(* A new table that someone has, or that is settled at once.               *)
LEMMA OwnedAdded ==
  ASSUME BoundaryTyped, Owned, call.stage \notin {"minted", "adopted", "loaded"},
         NEW r \in TableRec, tables' = Append(tables, r), UNCHANGED handles,
         r.kind \in Boundary!Kinds \cup {"package"},
         \/ /\ call'.stage = "minted" /\ call'.table = Boundary!Fresh /\ call'.kind = r.kind
            /\ ~r.lost /\ r.destroys = 0 /\ package' = package
         \/ /\ call'.stage \notin {"minted", "adopted", "loaded"} /\ package' = package
            /\ r.destroys = IF r.lost THEN 0 ELSE 1
         \/ /\ call'.stage \notin {"minted", "adopted", "loaded"}
            /\ package = 0 /\ package' = Boundary!Fresh /\ r.kind = "package"
            /\ Boundary!TableComplete(r.kind, r.size) /\ ~r.lost /\ r.destroys = 0
  PROVE  Owned'
<1>. DEFINE n == Boundary!Fresh
<1>1. /\ DOMAIN tables' = DOMAIN tables \cup {n} /\ n \notin DOMAIN tables
      /\ tables'[n] = r /\ \A t \in DOMAIN tables : tables'[t] = tables[t]
  BY TableAdded
<1>2. /\ package \in DOMAIN tables \cup {0} /\ handles \subseteq DOMAIN tables
      /\ 0 \notin DOMAIN tables /\ n # 0
  BY DEF BoundaryTyped, Boundary!Fresh
<1>3. package' \in {package, n}
  OBVIOUS
<1>4. \A t : ~InFlight(t)
  BY DEF InFlight
<1>5. \A t : InFlight(t)' <=> call'.stage = "minted" /\ t = n
  BY DEF InFlight
<1>. HIDE DEF n
<1>6. package' # 0 => tables'[package'].kind = "package" /\ Complete(package)'
  <2>1. CASE package' = package
    BY <1>1, <1>2, <2>1 DEF Owned, Complete
  <2>2. CASE package' # package
    <3>1. package' = n /\ r.kind = "package" /\ Boundary!TableComplete(r.kind, r.size)
      BY <2>2 DEF n
    <3>. QED  BY <1>1, <3>1 DEF Complete
  <2>. QED  BY <2>1, <2>2
<1>7. \A t \in handles' : tables'[t].kind \in Boundary!Kinds /\ Complete(t)'
  BY <1>1, <1>2 DEF Owned, Complete
<1>8. call'.stage \in {"minted", "adopted", "loaded"} =>
        /\ call'.table # 0 /\ call'.table \notin handles'
        /\ tables'[call'.table].kind = call'.kind /\ call'.stage = "minted"
  BY <1>1, <1>2 DEF n
<1>9. ASSUME NEW t \in DOMAIN tables'
      PROVE  /\ tables'[t].lost => t \notin handles' /\ t # package' /\ ~InFlight(t)'
             /\ tables'[t].destroys =
                  IF t \in handles' \/ t = package' \/ tables'[t].lost \/ InFlight(t)'
                    THEN 0 ELSE 1
  <2>1. CASE t = n
    <3>1. t \notin handles' /\ tables'[t] = r /\ t # package
      BY <1>1, <1>2, <2>1
    <3>2. InFlight(t)' <=> call'.stage = "minted"
      BY <1>5, <2>1
    <3>3. t = package' <=> package' # package
      BY <1>3, <2>1, <3>1
    <3>4. r.lost \in BOOLEAN
      BY DEF TableRec
    <3>. QED  BY <1>2, <2>1, <3>1, <3>2, <3>3, <3>4 DEF n
  <2>2. CASE t # n
    <3>1. /\ t \in DOMAIN tables /\ tables'[t] = tables[t] /\ ~InFlight(t) /\ ~InFlight(t)'
          /\ (t = package' <=> t = package)
      <4>1. t \in DOMAIN tables /\ t # 0
        BY <1>1, <1>2, <2>2
      <4>2. t = package' <=> t = package
        <5>1. CASE package' = package
          BY <5>1
        <5>2. CASE package' = n /\ package = 0
          BY <2>2, <4>1, <5>2
        <5>. QED  BY <5>1, <5>2 DEF n
      <4>. QED  BY <1>1, <1>4, <1>5, <2>2, <4>1, <4>2
    <3>. QED  BY <3>1 DEF Owned
  <2>. QED  BY <2>1, <2>2
<1>. QED  BY <1>6, <1>7, <1>8, <1>9 DEF Owned

LEMMA OwnedStep ==
  ASSUME Boundary!BoundaryAssumption, BoundaryTyped, Owned, [Boundary!Next]_(Boundary!vars)
  PROVE  Owned'
<1>. USE DEF Boundary!At, Boundary!Idle
<1>1. CASE \/ \E kind \in Boundary!Kinds, i \in Inputs :
                \E op \in Boundary!Entrypoints(kind) : Boundary!Arrive(kind, op, i)
           \/ Boundary!HandleRefused \/ Boundary!Returns \/ Boundary!MintFails
           \/ \E t \in handles : Boundary!Dispatch(t)
  BY <1>1, Bystanders
<1>2. ASSUME NEW t \in handles, Boundary!Close(t) PROVE Owned'
  <2>1. /\ call.stage = "shielded" /\ handles' = handles \ {t} /\ tables' = Boundary!Destroyed(t)
        /\ Boundary!Answer("ok") /\ package' = package
    BY <1>2 DEF Boundary!Close
  <2>2. call'.stage = "idle"
    BY <2>1, CallEnds
  <2>3. t \in DOMAIN tables
    BY DEF BoundaryTyped
  <2>4. ~tables[t].lost
    BY <2>3 DEF Owned
  <2>. QED  BY <2>1, <2>2, <2>3, <2>4, OwnerGivesBack
<1>3. ASSUME NEW p \in Producers.package, Boundary!OpenPackage(p) PROVE Owned'
  <2>. DEFINE r    == Boundary!Made("package", p)
              made == Append(tables, r)
              n    == Boundary!Fresh
  <2>1. r \in TableRec /\ r.kind = "package" /\ ~r.lost /\ r.destroys = 0 /\ r.size = p[1]
    <3>1. r \in TableRec
      BY MadeTyped DEF TableKind
    <3>. QED  BY <3>1 DEF Boundary!Made
  <2>2. call.stage = "shielded" /\ package = 0 /\ UNCHANGED handles
    BY <1>3 DEF Boundary!OpenPackage
  <2>3. made[n] = r /\ \A x \in TableRec : [made EXCEPT ![n] = x] = Append(tables, x)
    BY <2>1, LastReplaced DEF BoundaryTyped, Boundary!Fresh
  <2>4. CASE Boundary!Told("model_load") /\ touched' = {} /\ UNCHANGED <<package, tables>>
    <3>1. call'.stage = "idle"
      BY <2>4, CallEnds DEF Boundary!Told
    <3>. QED  BY <2>2, <2>4, <3>1, OwnedElsewhere
  <2>5. CASE /\ tables' = [made EXCEPT ![n].destroys = 1]
             /\ Boundary!Told("model_load") /\ UNCHANGED package
    <3>. DEFINE x == [r EXCEPT !.destroys = 1]
    <3>1. x \in TableRec /\ x.destroys = 1 /\ ~x.lost /\ x.kind = "package"
      BY <2>1 DEF TableRec
    <3>2. tables' = Append(tables, x)
      BY <2>3, <2>5, <3>1
    <3>3. call'.stage = "idle"
      BY <2>5, CallEnds DEF Boundary!Told
    <3>. HIDE DEF x
    <3>. QED  BY <2>2, <2>5, <3>1, <3>2, <3>3, OwnedAdded
  <2>6. CASE /\ tables' = [made EXCEPT ![n].lost = TRUE]
             /\ Boundary!Told("memory") /\ UNCHANGED package
    <3>. DEFINE x == [r EXCEPT !.lost = TRUE]
    <3>1. x \in TableRec /\ x.destroys = 0 /\ x.lost /\ x.kind = "package"
      BY <2>1 DEF TableRec
    <3>2. tables' = Append(tables, x)
      BY <2>3, <2>6, <3>1
    <3>3. call'.stage = "idle"
      BY <2>6, CallEnds DEF Boundary!Told
    <3>. HIDE DEF x
    <3>. QED  BY <2>2, <2>6, <3>1, <3>2, <3>3, OwnedAdded
  <2>7. CASE /\ Boundary!TableComplete("package", p[1])
             /\ tables' = made /\ package' = n /\ UNCHANGED call
    <3>1. Boundary!TableComplete(r.kind, r.size) /\ tables' = Append(tables, r)
      BY <2>1, <2>7
    <3>. HIDE DEF r
    <3>. QED  BY <2>1, <2>2, <2>7, <3>1, OwnedAdded
  <2>. QED  BY <1>3, <2>4, <2>5, <2>6, <2>7 DEF Boundary!OpenPackage
<1>4. ASSUME NEW p \in Producers[call.kind], Boundary!Mint(p) PROVE Owned'
  <2>. DEFINE r == Boundary!Made(call.kind, p)
  <2>1. call.kind \in Boundary!Kinds
    BY DEF BoundaryTyped
  <2>2. r \in TableRec /\ r.kind = call.kind /\ ~r.lost /\ r.destroys = 0
    <3>1. r \in TableRec
      BY <2>1, MadeTyped DEF TableKind
    <3>. QED  BY <3>1 DEF Boundary!Made
  <2>3. /\ call.stage = "shielded" /\ tables' = Append(tables, r) /\ UNCHANGED <<package, handles>>
        /\ Boundary!Go("minted", Boundary!Fresh)
    BY <1>4 DEF Boundary!Mint
  <2>4. call'.stage = "minted" /\ call'.table = Boundary!Fresh /\ call'.kind = r.kind
    BY <2>2, <2>3, CallGoes DEF Stages
  <2>. HIDE DEF r
  <2>. QED  BY <2>1, <2>2, <2>3, <2>4, OwnedAdded
<1>5. CASE Boundary!AdoptRefuses \/ Boundary!LoadFails \/ Boundary!TrackFails
  <2>1. /\ call.stage \in {"minted", "adopted", "loaded"} /\ tables' = Boundary!Destroyed(call.table)
        /\ UNCHANGED <<package, handles>> /\ \E c : Boundary!Answer(c)
    BY <1>5 DEF Boundary!AdoptRefuses, Boundary!LoadFails, Boundary!TrackFails, Boundary!Told
  <2>. QED  BY <2>1, FlightGivenBack
<1>6. CASE Boundary!AdoptLoses
  BY <1>6, FlightLost
<1>7. CASE Boundary!Adopt \/ Boundary!Load
  <2>1. /\ call.stage \in {"minted", "adopted"} /\ UNCHANGED <<package, tables, handles>>
        /\ \E stage \in {"adopted", "loaded"} : Boundary!Go(stage, call.table)
        /\ call.stage = "minted" => Boundary!TableComplete(call.kind, tables[call.table].size)
    BY <1>7 DEF Boundary!Adopt, Boundary!Load
  <2>2. /\ call'.stage \in {"adopted", "loaded"} /\ call'.table = call.table
        /\ call'.kind = call.kind
    BY <2>1, CallGoes DEF Stages
  <2>3. Complete(call.table) /\ tables[call.table].kind = call.kind
    BY <2>1 DEF Owned, Complete
  <2>4. \A t : InFlight(t)' <=> InFlight(t)
    BY <2>1, <2>2 DEF InFlight
  <2>. QED  BY <2>1, <2>2, <2>3, <2>4 DEF Owned, Complete
<1>8. CASE Boundary!Track
  <2>. DEFINE d == call.table
  <2>1. /\ call.stage = "loaded" /\ handles' = handles \cup {d} /\ Boundary!Answer("ok")
        /\ UNCHANGED <<package, tables>>
    BY <1>8 DEF Boundary!Track
  <2>2. call'.stage = "idle"
    BY <2>1, CallEnds
  <2>3. /\ d \in DOMAIN tables /\ tables[d].destroys = 0 /\ ~tables[d].lost
        /\ tables[d].kind \in Boundary!Kinds /\ Complete(d) /\ d # package
    BY <2>1, FlightTable DEF Owned
  <2>4. \A t : (InFlight(t) <=> t = d) /\ ~InFlight(t)'
    BY <2>1, <2>2 DEF InFlight
  <2>. HIDE DEF d
  <2>5. \A t : t \in handles' <=> t \in handles \/ t = d
    BY <2>1
  <2>. QED  BY <2>1, <2>2, <2>3, <2>4, <2>5 DEF Owned, Complete
<1>9. CASE Boundary!Unload
  <2>1. /\ call.stage = "idle" /\ package # 0 /\ handles = {} /\ tables' = Boundary!Destroyed(package)
        /\ package' = 0 /\ UNCHANGED <<handles, call>>
    BY <1>9 DEF Boundary!Unload
  <2>2. package \in DOMAIN tables
    BY <2>1 DEF BoundaryTyped
  <2>3. ~tables[package].lost
    BY <2>2 DEF Owned
  <2>. QED  BY <2>1, <2>2, <2>3, OwnerGivesBack
<1>10. CASE UNCHANGED Boundary!vars
  BY <1>10 DEF Boundary!vars, Owned, InFlight, Complete
<1>. QED
  BY <1>1, <1>2, <1>3, <1>4, <1>5, <1>6, <1>7, <1>8, <1>9, <1>10 DEF Boundary!Next

(* The steps that make, end, lose or leave the tables, told apart.         *)
LEMMA BoundaryTypedStep ==
  ASSUME Boundary!BoundaryAssumption, BoundaryTyped, Owned, [Boundary!Next]_(Boundary!vars)
  PROVE  BoundaryTyped'
<1>. DEFINE CallType(n) == [kind : Boundary!Kinds, op : Ops, stage : Stages, table : 0..n,
                            input : Boundary!Input]
            TextType == /\ detail' \in {"none", "this", "earlier"}
                        /\ output' \in {"blank", "this", "earlier"}
<1>0. /\ tables \in Seq(TableRec) /\ Len(tables) \in Nat /\ call \in CallType(Len(tables))
      /\ package \in 0..Len(tables) /\ handles \subseteq 1..Len(tables)
      /\ DOMAIN tables = 1..Len(tables)
      /\ detail \in {"none", "this", "earlier"} /\ output \in {"blank", "this", "earlier"}
  BY DEF BoundaryTyped
<1>a. ASSUME NEW c, Boundary!Answer(c) PROVE \A n \in Nat : call' \in CallType(n)
  <2>1. call' \in CallType(0) /\ call'.table = 0
    BY <1>a, CallEnds
  <2>. QED  BY <2>1
<1>g. ASSUME NEW stage \in Stages, NEW n \in Nat, Len(tables) <= n, NEW t \in 0..n,
             Boundary!Go(stage, t)
      PROVE  call' \in CallType(n)
  <2>1. call' = [call EXCEPT !.stage = stage, !.table = t] /\ Len(tables) \in Nat
    BY <1>0, <1>g, CallGoes
  <2>. QED  BY <1>0, <2>1
<1>b. ASSUME UNCHANGED <<package, tables, handles>>, TextType, call' \in CallType(Len(tables))
      PROVE  BoundaryTyped'
  BY <1>0, <1>b DEF BoundaryTyped
<1>. USE DEF Boundary!At, Boundary!Idle
<1>1. ASSUME NEW kind \in Boundary!Kinds, NEW i \in Inputs, NEW op \in Boundary!Entrypoints(kind),
             Boundary!Arrive(kind, op, i)
      PROVE  BoundaryTyped'
  <2>1. /\ call'.kind = kind /\ call'.op = op /\ call'.table = 0 /\ call'.input = i
        /\ call'.stage \in {"shielded", "idle"}
        /\ call' = [kind |-> kind, op |-> op, table |-> 0, input |-> i, stage |-> call'.stage]
    BY <1>1 DEF Boundary!Arrive
  <2>2. i \in Boundary!Input /\ op \in Ops /\ 0 \in 0..Len(tables) /\ call'.stage \in Stages
    BY <1>0, <2>1 DEF Boundary!BoundaryAssumption, Ops, Stages
  <2>3. call' \in CallType(Len(tables))
    BY <2>1, <2>2
  <2>4. TextType
    BY <1>0, <1>1 DEF Boundary!Arrive, Boundary!Aged
  <2>. QED  BY <1>1, <1>b, <2>3, <2>4 DEF Boundary!Arrive
<1>2. CASE Boundary!HandleRefused \/ Boundary!Returns \/ Boundary!MintFails
  <2>1. UNCHANGED <<package, tables, handles>> /\ \E c : Boundary!Answer(c)
    BY <1>2 DEF Boundary!HandleRefused, Boundary!Returns, Boundary!MintFails, Boundary!Told
  <2>2. call' \in CallType(Len(tables))
    BY <1>0, <1>a, <2>1
  <2>3. TextType
    BY <1>0, <1>2 DEF Boundary!HandleRefused, Boundary!Returns, Boundary!MintFails, Boundary!Told
  <2>. QED  BY <1>b, <2>1, <2>2, <2>3
<1>3. ASSUME NEW t \in handles, Boundary!Dispatch(t) PROVE BoundaryTyped'
  <2>1. /\ UNCHANGED <<package, tables, handles, detail, output>>
        /\ Boundary!Go("inside", t) \/ \E c : Boundary!Answer(c)
    BY <1>3 DEF Boundary!Dispatch
  <2>2. t \in 0..Len(tables) /\ "inside" \in Stages
    BY <1>0 DEF Stages
  <2>3. call' \in CallType(Len(tables))
    BY <1>0, <1>a, <1>g, <2>1, <2>2
  <2>. QED  BY <1>0, <1>b, <2>1, <2>3
<1>4. ASSUME NEW t \in handles, Boundary!Close(t) PROVE BoundaryTyped'
  <2>1. /\ handles' = handles \ {t} /\ tables' = Boundary!Destroyed(t) /\ Boundary!Answer("ok")
        /\ UNCHANGED <<package, detail, output>>
    BY <1>4 DEF Boundary!Close
  <2>2. t \in DOMAIN tables /\ tables[t].destroys = 0
    BY <1>0 DEF Owned
  <2>3. tables' \in Seq(TableRec) /\ Len(tables') = Len(tables)
    BY <2>1, <2>2, TableDestroyed
  <2>. QED  BY <1>0, <1>a, <2>1, <2>3 DEF BoundaryTyped
<1>5. ASSUME NEW p \in Producers.package, Boundary!OpenPackage(p) PROVE BoundaryTyped'
  <2>. DEFINE r    == Boundary!Made("package", p)
              made == Append(tables, r)
              n    == Boundary!Fresh
  <2>1. r \in TableRec
    BY MadeTyped DEF TableKind
  <2>2. /\ made \in Seq(TableRec) /\ Len(made) = n /\ n = Len(tables) + 1 /\ n \in Nat
        /\ n \in DOMAIN made /\ made[n] = r
    BY <1>0, <2>1 DEF Boundary!Fresh
  <2>. HIDE DEF made, n
  <2>3. /\ [made EXCEPT ![n].destroys = 1] \in Seq(TableRec)
        /\ Len([made EXCEPT ![n].destroys = 1]) = n
        /\ [made EXCEPT ![n].lost = TRUE] \in Seq(TableRec)
        /\ Len([made EXCEPT ![n].lost = TRUE]) = n
    <3>1. [r EXCEPT !.destroys = 1] \in TableRec /\ [r EXCEPT !.lost = TRUE] \in TableRec
      BY <2>1 DEF TableRec
    <3>. HIDE DEF r
    <3>. QED  BY <2>1, <2>2, <3>1
  <2>4. /\ UNCHANGED <<handles, output>> /\ detail' \in {detail, "this"}
        /\ \/ UNCHANGED <<package, tables>> /\ \E c : Boundary!Answer(c)
           \/ tables' = [made EXCEPT ![n].destroys = 1] /\ UNCHANGED package /\ \E c : Boundary!Answer(c)
           \/ tables' = [made EXCEPT ![n].lost = TRUE] /\ UNCHANGED package /\ \E c : Boundary!Answer(c)
           \/ tables' = made /\ package' = n /\ UNCHANGED call
    BY <1>5 DEF Boundary!OpenPackage, Boundary!Told, made, n
  <2>5. CASE UNCHANGED <<package, tables>> /\ \E c : Boundary!Answer(c)
    BY <1>0, <1>a, <2>4, <2>5 DEF BoundaryTyped
  <2>6. CASE \/ tables' = [made EXCEPT ![n].destroys = 1] /\ UNCHANGED package /\ \E c : Boundary!Answer(c)
             \/ tables' = [made EXCEPT ![n].lost = TRUE] /\ UNCHANGED package /\ \E c : Boundary!Answer(c)
    <3>1. tables' \in Seq(TableRec) /\ Len(tables') = n
      BY <2>3, <2>6
    <3>2. package' = package /\ call' \in CallType(n)
      BY <1>a, <2>2, <2>6
    <3>3. package' \in 0..n /\ handles' \subseteq 1..n
      BY <1>0, <2>2, <2>4, <3>2
    <3>. QED  BY <1>0, <2>4, <3>1, <3>2, <3>3 DEF BoundaryTyped
  <2>7. CASE tables' = made /\ package' = n /\ UNCHANGED call
    <3>1. call \in CallType(n) /\ package' \in 0..n /\ handles' \subseteq 1..n
      BY <1>0, <2>2, <2>4, <2>7
    <3>. QED  BY <1>0, <2>2, <2>4, <2>7, <3>1 DEF BoundaryTyped
  <2>. QED  BY <2>4, <2>5, <2>6, <2>7
<1>6. ASSUME NEW p \in Producers[call.kind], Boundary!Mint(p) PROVE BoundaryTyped'
  <2>. DEFINE r == Boundary!Made(call.kind, p)
  <2>1. r \in TableRec
    <3>1. call.kind \in TableKind
      BY <1>0 DEF TableKind
    <3>. QED  BY <3>1, MadeTyped
  <2>2. /\ tables' = Append(tables, r) /\ UNCHANGED <<package, handles, detail, output>>
        /\ Boundary!Go("minted", Boundary!Fresh)
    BY <1>6 DEF Boundary!Mint
  <2>. HIDE DEF r
  <2>3. PICK n \in Nat : n = Len(tables) + 1
    BY <1>0
  <2>4. tables' \in Seq(TableRec) /\ Len(tables') = n /\ Boundary!Fresh = n
    BY <2>1, <2>2, <2>3, TableAdded
  <2>5. call' \in CallType(n)
    BY <1>0, <1>g, <2>2, <2>3, <2>4 DEF Stages
  <2>6. package' \in 0..n /\ handles' \subseteq 1..n
    BY <1>0, <2>2, <2>3
  <2>. QED  BY <1>0, <2>2, <2>4, <2>5, <2>6 DEF BoundaryTyped
<1>7. CASE Boundary!AdoptRefuses \/ Boundary!LoadFails \/ Boundary!TrackFails
  <2>1. /\ call.stage \in {"minted", "adopted", "loaded"} /\ tables' = Boundary!Destroyed(call.table)
        /\ UNCHANGED <<package, handles, output>> /\ \E c : Boundary!Answer(c)
        /\ detail' \in {detail, "this"}
    BY <1>7 DEF Boundary!AdoptRefuses, Boundary!LoadFails, Boundary!TrackFails, Boundary!Told
  <2>2. tables' \in Seq(TableRec) /\ Len(tables') = Len(tables)
    BY <2>1, FlightTable, TableDestroyed
  <2>3. call' \in CallType(Len(tables))
    BY <1>0, <1>a, <2>1
  <2>. QED  BY <1>0, <2>1, <2>2, <2>3 DEF BoundaryTyped
<1>8. CASE Boundary!AdoptLoses
  <2>1. /\ call.stage = "minted" /\ tables' = [tables EXCEPT ![call.table].lost = TRUE]
        /\ UNCHANGED <<package, handles, output>> /\ Boundary!Answer("memory")
        /\ detail' = "this"
    BY <1>8 DEF Boundary!AdoptLoses, Boundary!Told
  <2>2. tables' \in Seq(TableRec) /\ Len(tables') = Len(tables)
    BY <2>1, FlightTable, TableLost
  <2>3. call' \in CallType(Len(tables))
    BY <1>0, <1>a, <2>1
  <2>. QED  BY <1>0, <2>1, <2>2, <2>3 DEF BoundaryTyped
<1>9. CASE Boundary!Adopt \/ Boundary!Load
  <2>1. /\ UNCHANGED <<package, tables, handles, detail, output>>
        /\ \E stage \in {"adopted", "loaded"} : Boundary!Go(stage, call.table)
    BY <1>9 DEF Boundary!Adopt, Boundary!Load
  <2>2. call.table \in 0..Len(tables) /\ {"adopted", "loaded"} \subseteq Stages
    BY <1>0 DEF Stages
  <2>3. call' \in CallType(Len(tables))
    BY <1>0, <1>g, <2>1, <2>2
  <2>. QED  BY <1>0, <1>b, <2>1, <2>3
<1>10. CASE Boundary!Track
  <2>1. /\ call.stage = "loaded" /\ handles' = handles \cup {call.table} /\ Boundary!Answer("ok")
        /\ UNCHANGED <<package, tables, detail>> /\ output' = "this"
    BY <1>10 DEF Boundary!Track
  <2>2. call.table \in 1..Len(tables)
    BY <2>1, FlightTable
  <2>3. call' \in CallType(Len(tables)) /\ handles' \subseteq 1..Len(tables)
    BY <1>0, <1>a, <2>1, <2>2
  <2>. QED  BY <1>0, <2>1, <2>3 DEF BoundaryTyped
<1>11. CASE Boundary!Unload
  <2>1. /\ package # 0 /\ tables' = Boundary!Destroyed(package) /\ package' = 0
        /\ UNCHANGED <<handles, call, detail, output>>
    BY <1>11 DEF Boundary!Unload
  <2>2. package \in DOMAIN tables
    BY <1>0, <2>1
  <2>3. tables[package].destroys = 0
    BY <2>2 DEF Owned
  <2>4. tables' \in Seq(TableRec) /\ Len(tables') = Len(tables)
    BY <2>1, <2>2, <2>3, TableDestroyed
  <2>. QED  BY <1>0, <2>1, <2>4 DEF BoundaryTyped
<1>12. CASE UNCHANGED Boundary!vars
  BY <1>12 DEF Boundary!vars, BoundaryTyped
<1>. QED
  BY <1>1, <1>2, <1>3, <1>4, <1>5, <1>6, <1>7, <1>8, <1>9, <1>10, <1>11, <1>12 DEF Boundary!Next

(* A call gets past the checks by passing them, and goes on as what it is. *)
LEMMA CheckedStep ==
  ASSUME Boundary!BoundaryAssumption, BoundaryTyped, Checked, [Boundary!Next]_(Boundary!vars)
  PROVE  Checked'
<1>. USE DEF Boundary!At, Boundary!Idle
<1>e. ASSUME NEW c, Boundary!Answer(c) PROVE Checked'
  BY <1>e, CallEnds DEF Checked
<1>g. ASSUME call.stage # "idle", NEW stage \in Stages, NEW t, Boundary!Go(stage, t),
             stage \in {"minted", "adopted", "loaded"} => call.op = "create"
      PROVE  Checked'
  BY <1>g, CallGoes DEF Checked
<1>1. ASSUME NEW kind \in Boundary!Kinds, NEW i \in Inputs, NEW op \in Boundary!Entrypoints(kind),
             Boundary!Arrive(kind, op, i)
      PROVE  Checked'
  <2>1. /\ call'.kind = kind /\ call'.op = op /\ call'.input = i
        /\ call'.stage = IF Boundary!Sane(kind, op, i) THEN "shielded" ELSE "idle"
    BY <1>1 DEF Boundary!Arrive
  <2>2. CASE Boundary!Sane(kind, op, i)
    BY <2>1, <2>2 DEF Checked
  <2>3. CASE ~Boundary!Sane(kind, op, i)
    BY <2>1, <2>3 DEF Checked
  <2>. QED  BY <2>2, <2>3
<1>2. CASE \/ Boundary!HandleRefused \/ Boundary!Returns \/ Boundary!MintFails
           \/ Boundary!AdoptRefuses \/ Boundary!AdoptLoses \/ Boundary!LoadFails
           \/ Boundary!Track \/ Boundary!TrackFails \/ \E t \in handles : Boundary!Close(t)
  <2>1. \E c : Boundary!Answer(c)
    BY <1>2 DEF Boundary!HandleRefused, Boundary!Returns, Boundary!MintFails,
                Boundary!AdoptRefuses, Boundary!AdoptLoses, Boundary!LoadFails,
                Boundary!Track, Boundary!TrackFails, Boundary!Close, Boundary!Told
  <2>. QED  BY <1>e, <2>1
<1>3. ASSUME NEW t \in handles, Boundary!Dispatch(t) PROVE Checked'
  <2>1. call.stage = "shielded" /\ (Boundary!Go("inside", t) \/ \E c : Boundary!Answer(c))
    BY <1>3 DEF Boundary!Dispatch
  <2>. QED  BY <1>e, <1>g, <2>1 DEF Stages
<1>4. ASSUME NEW p \in Producers.package, Boundary!OpenPackage(p) PROVE Checked'
  <2>1. UNCHANGED call \/ \E c : Boundary!Answer(c)
    BY <1>4 DEF Boundary!OpenPackage, Boundary!Told
  <2>2. CASE UNCHANGED call
    BY <2>2 DEF Checked
  <2>. QED  BY <1>e, <2>1, <2>2
<1>5. ASSUME NEW p \in Producers[call.kind], Boundary!Mint(p) PROVE Checked'
  <2>1. call.stage = "shielded" /\ call.op = "create" /\ Boundary!Go("minted", Boundary!Fresh)
    BY <1>5 DEF Boundary!Mint
  <2>. QED  BY <1>g, <2>1 DEF Stages
<1>6. CASE Boundary!Adopt \/ Boundary!Load
  <2>1. /\ call.stage \in {"minted", "adopted"}
        /\ \E stage \in {"adopted", "loaded"} : Boundary!Go(stage, call.table)
    BY <1>6 DEF Boundary!Adopt, Boundary!Load
  <2>2. call.op = "create"
    BY <2>1 DEF Checked
  <2>. QED  BY <1>g, <2>1, <2>2 DEF Stages
<1>7. CASE Boundary!Unload
  BY <1>7 DEF Boundary!Unload, Checked
<1>8. CASE UNCHANGED Boundary!vars
  BY <1>8 DEF Boundary!vars, Checked
<1>. QED
  BY <1>1, <1>2, <1>3, <1>4, <1>5, <1>6, <1>7, <1>8 DEF Boundary!Next

(* Only an entrypoint without an output leaves an earlier one's.           *)
LEMMA OutputStep ==
  ASSUME Boundary!BoundaryAssumption, BoundaryTyped, Boundary!OutputIsOfThisCall,
         [Boundary!Next]_(Boundary!vars)
  PROVE  Boundary!OutputIsOfThisCall'
<1>. USE DEF Boundary!OutputIsOfThisCall
<1>1. ASSUME NEW kind \in Boundary!Kinds, NEW i \in Inputs, NEW op \in Boundary!Entrypoints(kind),
             Boundary!Arrive(kind, op, i)
      PROVE  Boundary!OutputIsOfThisCall'
  <2>1. /\ call'.op = op
        /\ output' = IF Boundary!HasOutput(op) THEN "blank" ELSE Boundary!Aged(output)
    BY <1>1 DEF Boundary!Arrive
  <2>2. (Boundary!HasOutput(call.op))' <=> Boundary!HasOutput(op)
    BY <2>1 DEF Boundary!HasOutput
  <2>. QED  BY <2>1, <2>2
<1>2. ASSUME call'.op = call.op, output' \in {output, "this"} PROVE Boundary!OutputIsOfThisCall'
  BY <1>2 DEF Boundary!HasOutput
<1>3. CASE \/ Boundary!HandleRefused \/ Boundary!Returns \/ Boundary!MintFails
           \/ Boundary!AdoptRefuses \/ Boundary!AdoptLoses \/ Boundary!LoadFails
           \/ Boundary!Track \/ Boundary!TrackFails \/ \E t \in handles : Boundary!Close(t)
  <2>1. \E c : Boundary!Answer(c)
    BY <1>3 DEF Boundary!HandleRefused, Boundary!Returns, Boundary!MintFails,
                Boundary!AdoptRefuses, Boundary!AdoptLoses, Boundary!LoadFails,
                Boundary!Track, Boundary!TrackFails, Boundary!Close, Boundary!Told
  <2>2. output' \in {output, "this"}
    BY <1>3 DEF Boundary!HandleRefused, Boundary!Returns, Boundary!MintFails,
                Boundary!AdoptRefuses, Boundary!AdoptLoses, Boundary!LoadFails,
                Boundary!Track, Boundary!TrackFails, Boundary!Close
  <2>. QED  BY <1>2, <2>1, <2>2, CallEnds
<1>4. CASE \/ \E t \in handles : Boundary!Dispatch(t)
           \/ \E p \in Producers.package : Boundary!OpenPackage(p)
           \/ \E p \in Producers[call.kind] : Boundary!Mint(p)
           \/ Boundary!Adopt \/ Boundary!Load \/ Boundary!Unload
  <2>1. /\ output' = output
        /\ \/ UNCHANGED call \/ \E c : Boundary!Answer(c)
           \/ \E t : \E stage \in {"inside", "minted", "adopted", "loaded"} : Boundary!Go(stage, t)
    BY <1>4 DEF Boundary!Dispatch, Boundary!OpenPackage, Boundary!Mint, Boundary!Adopt,
                Boundary!Load, Boundary!Unload, Boundary!Told
  <2>2. call'.op = call.op
    BY <2>1, CallEnds, CallGoes DEF Stages
  <2>. QED  BY <1>2, <2>1, <2>2
<1>5. CASE UNCHANGED Boundary!vars
  BY <1>2, <1>5 DEF Boundary!vars
<1>. QED  BY <1>1, <1>3, <1>4, <1>5 DEF Boundary!Next

(* A table is of one kind and size for good.                               *)
LEMMA KindsStay ==
  ASSUME BoundaryTyped, NEW d,
         \/ tables' = Boundary!Destroyed(d) \/ tables' = [tables EXCEPT ![d].lost = TRUE]
         \/ UNCHANGED tables \/ \E r \in TableRec : tables' = Append(tables, r)
  PROVE  \A t \in DOMAIN tables :
           /\ t \in DOMAIN tables' /\ tables'[t].kind = tables[t].kind
           /\ tables'[t].size = tables[t].size
<1>1. tables \in Seq(TableRec) /\ DOMAIN tables = 1..Len(tables)
  BY DEF BoundaryTyped
<1>2. \A t \in DOMAIN tables : tables[t] \in TableRec
  BY <1>1
<1>3. CASE tables' = Boundary!Destroyed(d)
  BY <1>2, <1>3 DEF Boundary!Destroyed, TableRec
<1>4. CASE tables' = [tables EXCEPT ![d].lost = TRUE]
  BY <1>2, <1>4 DEF TableRec
<1>5. ASSUME NEW r \in TableRec, tables' = Append(tables, r)
      PROVE  \A t \in DOMAIN tables : t \in DOMAIN tables' /\ tables'[t] = tables[t]
  BY <1>5, TableAdded
<1>6. CASE UNCHANGED tables
  BY <1>6
<1>. QED  BY <1>3, <1>4, <1>5, <1>6

(* A field that a table covers is inside it, once it is complete.          *)
LEMMA ReadFits ==
  ASSUME BoundaryTyped', NEW t \in DOMAIN tables', NEW k, tables'[t].kind = k,
         NEW f \in Boundary!Entrypoints(k),
         f \notin Boundary!Appended[k] \/ Boundary!Covers(tables'[t], f)
  PROVE  Boundary!TableComplete(tables'[t].kind, tables'[t].size) =>
           Boundary!Place(tables'[t].kind, f) <= tables'[t].size
<1>. DEFINE x == tables'[t]
<1>1. x \in TableRec
  BY DEF BoundaryTyped
<1>2. x.kind \in TableKind /\ x.size \in Nat
  BY <1>1 DEF TableRec
<1>3. Boundary!Covers(x, f)
  BY DEF Boundary!Covers
<1>. HIDE DEF x
<1>4. Boundary!TableComplete(x.kind, x.size) => Boundary!Place(x.kind, f) <= x.size
  <2>1. f \in Boundary!Entrypoints(x.kind)
    BY DEF x
  <2>. QED  BY <1>2, <1>3, <2>1, CoveredFits
<1>. QED  BY <1>4 DEF x

(* What a step reads of a table is inside it, and the table is alive.      *)
LEMMA ReadsStep ==
  ASSUME Boundary!BoundaryAssumption, BoundaryTyped, Owned, Checked, BoundaryTyped',
         Boundary!Next
  PROVE  /\ Boundary!AppendedFieldsGuarded'
         /\ \A read \in touched' : read[1] \in DOMAIN tables => tables[read[1]].destroys = 0
<1>. DEFINE Fine(t, f) == /\ t \in DOMAIN tables => tables[t].destroys = 0
                          /\ Boundary!TableComplete(tables'[t].kind, tables'[t].size) =>
                               Boundary!Place(tables'[t].kind, f) <= tables'[t].size
<1>. USE DEF Boundary!At, Boundary!Idle
<1>0. tables \in Seq(TableRec) /\ DOMAIN tables = 1..Len(tables) /\ call.kind \in Boundary!Kinds
  BY DEF BoundaryTyped
<1>q. ASSUME \/ touched' = {}
             \/ \E t, f : touched' = {<<t, f>>} /\ Fine(t, f)
             \/ \E t, f, g : touched' = {<<t, f>>, <<t, g>>} /\ Fine(t, f) /\ Fine(t, g)
      PROVE  /\ Boundary!AppendedFieldsGuarded'
             /\ \A read \in touched' : read[1] \in DOMAIN tables => tables[read[1]].destroys = 0
  BY <1>q DEF Boundary!AppendedFieldsGuarded
<1>f. ASSUME NEW t, NEW k, NEW f \in Boundary!Entrypoints(k),
             t \in DOMAIN tables' /\ tables'[t].kind = k,
             t \in DOMAIN tables => tables[t].destroys = 0,
             f \notin Boundary!Appended[k] \/ Boundary!Covers(tables'[t], f)
      PROVE  Fine(t, f)
  BY <1>f, ReadFits
<1>m. /\ \A k \in Boundary!Kinds : \A f \in {"create", "destroy"} :
           f \in Boundary!Entrypoints(k) /\ f \notin Boundary!Appended[k]
      /\ \A f \in Boundary!Kinds \cup {"destroy"} :
           f \in Boundary!Entrypoints("package") /\ f \notin Boundary!Appended["package"]
  BY MainFields
<1>. HIDE DEF Fine
<1>1. CASE \/ \E kind \in Boundary!Kinds, i \in Inputs :
                \E op \in Boundary!Entrypoints(kind) : Boundary!Arrive(kind, op, i)
           \/ Boundary!HandleRefused \/ Boundary!Returns \/ Boundary!AdoptLoses
           \/ Boundary!Adopt \/ Boundary!Track
  <2>1. touched' = {}
    BY <1>1 DEF Boundary!Arrive, Boundary!HandleRefused, Boundary!Returns, Boundary!AdoptLoses,
                Boundary!Adopt, Boundary!Track
  <2>. QED  BY <1>q, <2>1
<1>2. ASSUME NEW t \in handles, Boundary!Dispatch(t)
      PROVE  touched' = {} \/ \E f : touched' = {<<t, f>>} /\ Fine(t, f)
  <2>1. /\ call.stage = "shielded" /\ tables' = tables /\ tables[t].kind = call.kind
        /\ touched' = IF Boundary!Covers(tables[t], call.op) THEN {<<t, call.op>>} ELSE {}
    BY <1>2 DEF Boundary!Dispatch
  <2>2. t \in DOMAIN tables /\ tables[t].destroys = 0 /\ call.op \in Boundary!Entrypoints(call.kind)
    BY <2>1 DEF BoundaryTyped, Owned, Checked
  <2>3. CASE Boundary!Covers(tables[t], call.op)
    BY <1>f, <2>1, <2>2, <2>3
  <2>. QED  BY <2>1, <2>3
<1>3. ASSUME NEW t \in handles, Boundary!Close(t)
      PROVE  touched' = {<<t, "destroy">>} /\ Fine(t, "destroy")
  <2>1. /\ tables' = Boundary!Destroyed(t) /\ touched' = {<<t, "destroy">>}
        /\ tables[t].kind \in Boundary!Kinds
    BY <1>0, <1>3 DEF Boundary!Close
  <2>2. t \in DOMAIN tables /\ tables[t].destroys = 0
    BY DEF BoundaryTyped, Owned
  <2>3. t \in DOMAIN tables' /\ tables'[t].kind = tables[t].kind
    BY <2>1, <2>2, KindsStay
  <2>. QED  BY <1>f, <1>m, <2>1, <2>2, <2>3
<1>4. ASSUME NEW p \in Producers.package, Boundary!OpenPackage(p)
      PROVE  touched' = {} \/ \E t : touched' = {<<t, "destroy">>} /\ Fine(t, "destroy")
  <2>. DEFINE r    == Boundary!Made("package", p)
              made == Append(tables, r)
              n    == Boundary!Fresh
  <2>1. CASE touched' = {}
    BY <2>1
  <2>2. CASE touched' = {<<n, "destroy">>} /\ tables' = [made EXCEPT ![n].destroys = 1]
    <3>1. r \in TableRec /\ r.kind = "package"
      BY MadeTyped DEF TableKind, Boundary!Made
    <3>2. made \in Seq(TableRec) /\ n \in DOMAIN made /\ made[n] = r /\ n \notin DOMAIN tables
      BY <1>0, <3>1 DEF Boundary!Fresh
    <3>. HIDE DEF r, made, n
    <3>3. n \in DOMAIN tables' /\ tables'[n].kind = "package"
      BY <2>2, <3>1, <3>2 DEF TableRec
    <3>4. Fine(n, "destroy")
      BY <1>f, <1>m, <3>2, <3>3
    <3>. QED  BY <2>2, <3>4
  <2>. QED  BY <1>4, <2>1, <2>2 DEF Boundary!OpenPackage
<1>5. ASSUME \/ Boundary!MintFails \/ \E p \in Producers[call.kind] : Boundary!Mint(p)
      PROVE  touched' = {<<package, call.kind>>} /\ Fine(package, call.kind)
  <2>1. /\ package # 0 /\ touched' = {<<package, call.kind>>}
        /\ UNCHANGED tables \/ \E r \in TableRec : tables' = Append(tables, r)
    <3>1. call.kind \in TableKind
      BY <1>0 DEF TableKind
    <3>2. \A p \in Producers[call.kind] : Boundary!Made(call.kind, p) \in TableRec
      BY <3>1, MadeTyped
    <3>. QED  BY <1>5, <3>2 DEF Boundary!MintFails, Boundary!Mint
  <2>2. package \in DOMAIN tables /\ tables[package].destroys = 0 /\ tables[package].kind = "package"
    BY <2>1 DEF BoundaryTyped, Owned
  <2>3. package \in DOMAIN tables' /\ tables'[package].kind = "package"
    BY <2>1, <2>2, KindsStay
  <2>. QED  BY <1>0, <1>f, <1>m, <2>1, <2>2, <2>3
<1>6. ASSUME Boundary!AdoptRefuses \/ Boundary!Load \/ Boundary!LoadFails \/ Boundary!TrackFails
      PROVE  /\ touched' \in {{<<call.table, "create">>}, {<<call.table, "destroy">>},
                              {<<call.table, "create">>, <<call.table, "destroy">>}}
             /\ Fine(call.table, "create") /\ Fine(call.table, "destroy")
  <2>1. /\ call.stage \in {"minted", "adopted", "loaded"}
        /\ tables' = Boundary!Destroyed(call.table) \/ UNCHANGED tables
        /\ touched' \in {{<<call.table, "create">>}, {<<call.table, "destroy">>},
                         {<<call.table, "create">>, <<call.table, "destroy">>}}
    BY <1>6 DEF Boundary!AdoptRefuses, Boundary!Load, Boundary!LoadFails, Boundary!TrackFails
  <2>2. /\ call.table \in DOMAIN tables /\ tables[call.table].destroys = 0
        /\ tables[call.table].kind = call.kind
    BY <2>1, FlightTable
  <2>3. call.table \in DOMAIN tables' /\ tables'[call.table].kind = call.kind
    BY <2>1, <2>2, KindsStay
  <2>. QED  BY <1>0, <1>f, <1>m, <2>1, <2>2, <2>3
<1>7. ASSUME Boundary!Unload
      PROVE  touched' = {<<package, "destroy">>} /\ Fine(package, "destroy")
  <2>1. /\ package # 0 /\ touched' = {<<package, "destroy">>}
        /\ tables' = Boundary!Destroyed(package)
    BY <1>7 DEF Boundary!Unload
  <2>2. package \in DOMAIN tables /\ tables[package].destroys = 0 /\ tables[package].kind = "package"
    BY <2>1 DEF BoundaryTyped, Owned
  <2>3. package \in DOMAIN tables' /\ tables'[package].kind = "package"
    BY <2>1, <2>2, KindsStay
  <2>. QED  BY <1>f, <1>m, <2>1, <2>2, <2>3
<1>8. CASE \E t \in handles : Boundary!Dispatch(t) \/ Boundary!Close(t)
  BY <1>2, <1>3, <1>8, <1>q
<1>9. CASE \E p \in Producers.package : Boundary!OpenPackage(p)
  BY <1>4, <1>9, <1>q
<1>10. CASE Boundary!MintFails \/ \E p \in Producers[call.kind] : Boundary!Mint(p)
  BY <1>5, <1>10, <1>q
<1>11. CASE Boundary!AdoptRefuses \/ Boundary!Load \/ Boundary!LoadFails \/ Boundary!TrackFails
  BY <1>6, <1>11, <1>q
<1>12. CASE Boundary!Unload
  BY <1>7, <1>12, <1>q
<1>. QED  BY <1>1, <1>8, <1>9, <1>10, <1>11, <1>12, Zenon DEF Boundary!Next
(* What the inductive invariant says of the tables and of the request.     *)
LEMMA BoundaryShows ==
  ASSUME BoundaryInv
  PROVE  /\ Boundary!TypeOK /\ Boundary!EveryTableReleased
         /\ Boundary!BackendsReadWhatIsThere
<1>. USE DEF BoundaryInv
<1>1. Boundary!TypeOK
  <2>1. tables \in Seq(TableRec) /\ DOMAIN tables = 1..Len(tables)
    BY DEF BoundaryTyped
  <2>2. ASSUME NEW t \in DOMAIN tables PROVE tables[t].destroys \in {0, 1}
    BY DEF Owned
  <2>. QED  BY <2>1, <2>2 DEF BoundaryTyped, Boundary!TypeOK, Stages
<1>2. Boundary!EveryTableReleased
  BY DEF Owned, InFlight, Boundary!EveryTableReleased, Boundary!Idle
<1>3. ASSUME call.stage = "inside" PROVE Boundary!BackendsReadWhatIsThere
  <2>. DEFINE i == call.input
  <2>1. i \in Boundary!Input /\ call.kind \in Boundary!Kinds
    BY DEF BoundaryTyped
  <2>2. Boundary!Sane(call.kind, call.op, i)
    BY <1>3 DEF Checked
  <2>. HIDE DEF i
  <2>3. CASE call.op = "generate" /\ call.kind = "llm"
    <3>1. Boundary!LlmGenerationSane(i)
      BY <2>2, <2>3 DEF Boundary!Sane
    <3>2. /\ i.list.count >= 0 /\ (i.list.count > 0 => i.list.given)
          /\ (i.list.count = 0 => i.text)
          /\ (i.stops.count > 0 => i.stops.given /\ ~i.stops.blank)
      BY <3>1 DEF Boundary!LlmGenerationSane, Boundary!ConfigSane, Boundary!Stated,
                  Boundary!NoneBlank
    <3>3. i.list.count \in {-1, 0, 1}
      BY <2>1 DEF Boundary!Input, Boundary!Array
    <3>4. (i.list.count > 0 /\ i.list.given) \/ i.text
      BY <3>2, <3>3
    <3>. QED  BY <2>3, <3>2, <3>4 DEF Boundary!BackendsReadWhatIsThere, i
  <2>4. CASE call.op = "generate" /\ call.kind = "vlm"
    <3>1. Boundary!VlmGenerationSane(i)
      BY <2>2, <2>4 DEF Boundary!Sane
    <3>2. /\ i.text
          /\ (i.stops.count > 0 => i.stops.given /\ ~i.stops.blank)
          /\ (i.images.count > 0 => i.images.given /\ ~i.images.blank)
          /\ (i.audio.count > 0 => i.audio.given /\ ~i.audio.blank)
      BY <3>1 DEF Boundary!VlmGenerationSane, Boundary!ConfigSane, Boundary!Stated,
                  Boundary!NoneBlank
    <3>. QED  BY <2>4, <3>2 DEF Boundary!BackendsReadWhatIsThere, i
  <2>5. CASE call.op = "encode"
    <3>1. Boundary!EncodeSane(i)
      BY <2>2, <2>5 DEF Boundary!Sane
    <3>2. i.batch \in Int /\ i.width \in Int /\ SizeMax \in Nat
      BY <2>1, PartsAssumption DEF Boundary!Input, Boundary!BoundaryAssumption
    <3>3. i.batch * i.width \in 1..SizeMax
      BY <3>1, <3>2, ProductFits DEF Boundary!EncodeSane
    <3>. QED  BY <2>5, <3>3 DEF Boundary!BackendsReadWhatIsThere, i
  <2>8. CASE call.op = "template"
    <3>1. Boundary!TemplateSane(call.kind, i)
      BY <2>2, <2>8 DEF Boundary!Sane
    <3>2. i.list.count > 0 => i.list.given /\ (call.kind = "vlm" => ~i.list.blank)
      BY <3>1 DEF Boundary!TemplateSane, Boundary!Stated, Boundary!NoneBlank
    <3>. QED  BY <2>8, <3>2 DEF Boundary!BackendsReadWhatIsThere, i
  <2>6. CASE call.op \notin {"generate", "encode", "template"}
    BY <2>6 DEF Boundary!BackendsReadWhatIsThere
  <2>7. call.kind = "embedding" /\ call.op = "generate" => Boundary!BackendsReadWhatIsThere
    BY DEF Boundary!BackendsReadWhatIsThere
  <2>. QED  BY <2>1, <2>3, <2>4, <2>5, <2>6, <2>7, <2>8 DEF Boundary!Kinds
<1>4. ASSUME call.stage # "inside" PROVE Boundary!BackendsReadWhatIsThere
  BY <1>4 DEF Boundary!BackendsReadWhatIsThere
<1>. QED  BY <1>1, <1>2, <1>3, <1>4

(* The invariant is inductive.                                             *)
LEMMA BoundaryInvStep ==
  ASSUME BoundaryInv, [Boundary!Next]_(Boundary!vars)
  PROVE  BoundaryInv'
<1>1. Boundary!BoundaryAssumption
  BY PartsAssumption
<1>. QED  BY <1>1, OwnedStep, BoundaryTypedStep, CheckedStep, OutputStep DEF BoundaryInv

(* A table that a plugin made is released exactly once, and only when no   *)
(* handle, package or call has it any more, and functions appended later   *)
(* are called only of tables that hold them: plugin_adapters.h:32-208.     *)
THEOREM TablesAreAlwaysOwned == Boundary!Spec => []TablesAreOwned
<1>0. Boundary!BoundaryAssumption
  BY PartsAssumption
<1>1. Boundary!Init => BoundaryInv /\ Boundary!AppendedFieldsGuarded
  <2>1. Boundary!Init => Boundary!AppendedFieldsGuarded
    BY DEF Boundary!Init, Boundary!AppendedFieldsGuarded
  <2>. QED  BY <1>0, <2>1, BoundaryInit
<1>2. BoundaryInv /\ Boundary!AppendedFieldsGuarded /\ [Boundary!Next]_(Boundary!vars) =>
        (BoundaryInv /\ Boundary!AppendedFieldsGuarded)'
  <2>1. ASSUME BoundaryInv, Boundary!Next PROVE Boundary!AppendedFieldsGuarded'
    <3>1. BoundaryInv'
      BY <2>1, BoundaryInvStep
    <3>. QED  BY <1>0, <2>1, <3>1, ReadsStep DEF BoundaryInv
  <2>2. ASSUME Boundary!AppendedFieldsGuarded, UNCHANGED Boundary!vars
        PROVE  Boundary!AppendedFieldsGuarded'
    BY <2>2 DEF Boundary!AppendedFieldsGuarded, Boundary!vars
  <2>. QED  BY <2>1, <2>2, BoundaryInvStep
<1>3. BoundaryInv /\ Boundary!AppendedFieldsGuarded => TablesAreOwned
  BY BoundaryShows DEF TablesAreOwned
<1>. QED  BY <1>1, <1>2, <1>3, PTL DEF Boundary!Spec

(* No call leaves another's output with its caller, and no backend is sent *)
(* a count without the pointer: bridge_support.h:42-67, 216-239.           *)
THEOREM CallsAreAlwaysClean == Boundary!Spec => []CallsAreClean
<1>1. Boundary!Init => BoundaryInv
  BY PartsAssumption, BoundaryInit
<1>2. BoundaryInv /\ [Boundary!Next]_(Boundary!vars) => BoundaryInv'
  BY BoundaryInvStep
<1>3. BoundaryInv => CallsAreClean
  BY BoundaryShows DEF CallsAreClean, BoundaryInv
<1>. QED  BY <1>1, <1>2, <1>3, PTL DEF Boundary!Spec

(* destroy() is the last call on a table: plugin_abi.h:26-27.              *)
THEOREM NothingAfterDestroy == Boundary!Spec => DestroyIsLast
<1>1. Boundary!Init => BoundaryInv
  BY PartsAssumption, BoundaryInit
<1>2. BoundaryInv /\ [Boundary!Next]_(Boundary!vars) => BoundaryInv'
  BY BoundaryInvStep
<1>3. BoundaryInv /\ [Boundary!Next]_(Boundary!vars) =>
        [\A read \in touched' : read[1] \in DOMAIN tables =>
           tables[read[1]].destroys = 0]_(Boundary!vars)
  <2>1. ASSUME BoundaryInv, Boundary!Next
        PROVE  \A read \in touched' : read[1] \in DOMAIN tables => tables[read[1]].destroys = 0
    <3>1. BoundaryInv'
      BY <2>1, BoundaryInvStep
    <3>. QED  BY <2>1, <3>1, PartsAssumption, ReadsStep DEF BoundaryInv
  <2>. QED  BY <2>1
<1>. QED  BY <1>1, <1>2, <1>3, PTL DEF Boundary!Spec, DestroyIsLast, Boundary!DestroyIsLast

=============================================================================
