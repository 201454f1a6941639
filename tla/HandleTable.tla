---------------------------- MODULE HandleTable ----------------------------
(* The handle table of sdk/src/handle_registry.cpp.  A handle word packs a *)
(* slot's index with the generation the slot had when the handle was made; *)
(* releasing a slot bumps its generation, which is a 32-bit counter.  The  *)
(* critical sections of table_mutex are the actions.                       *)
EXTENDS Integers, Sequences, SequencesExt

CONSTANTS Backend,      \* addresses of backend objects; the heap reuses them
          NoBackend,    \* a null pointer
          Kind,         \* llm, vlm, embedding
          Generations,  \* how many values the counter has: 2^32
          MaxOpens      \* bound: how many handles a process opens

ASSUME TableAssumption ==
  /\ NoBackend \notin Backend
  /\ Generations \in Nat \ {0, 1}
  /\ MaxOpens \in Nat

VARIABLES slots,   \* the table, one record for each slot ever made
          free,    \* the free slots, last released on top
          opens,   \* how many handles were made
          stale    \* history: the words of the handles that were released

vars == <<slots, free, opens, stale>>

-----------------------------------------------------------------------------
Slot == [backend : Backend \cup {NoBackend}, generation : 0..(Generations - 1), kind : Kind]

(* A handle word: encode().                                                *)
Word == [index : Nat, generation : Nat]

Encode(i, g) == [index |-> i, generation |-> g]

Live(i) == slots[i].backend # NoBackend

(* A fault: the counter of a reused slot starts over.                      *)
AlwaysFirst(g) == 1

(* The generation a slot is minted with: a counter at zero is skipped.     *)
Stamp(g) == IF g = 0 THEN 1 ELSE g

(* resolve() without release: the backend, or null for a word that does    *)
(* not match the slot it points at.                                        *)
Resolve(w, k) ==
  IF /\ w.index \in DOMAIN slots
     /\ Live(w.index)
     /\ slots[w.index].kind = k
     /\ slots[w.index].generation = w.generation
    THEN slots[w.index].backend
    ELSE NoBackend

(* A fault: a released slot keeps its generation.                          *)
NeverBumped(g) == g

(* The next value of a released slot's counter.                            *)
Bump(g) == (g + 1) % Generations

-----------------------------------------------------------------------------
(* mint() when a released slot is there to be used again.                  *)
MintReused(b, k) ==
  /\ free # <<>>
  /\ slots' = [slots EXCEPT ![Last(free)] =
        [backend |-> b, generation |-> Stamp(@.generation), kind |-> k]]
  /\ free' = Front(free)

(* mint() when a slot has to be added.                                     *)
MintFresh(b, k) ==
  /\ free = <<>>
  /\ slots' = Append(slots, [backend |-> b, generation |-> Stamp(0), kind |-> k])
  /\ UNCHANGED free

Mint(b, k) ==
  /\ opens < MaxOpens
  /\ \A i \in DOMAIN slots : slots[i].backend # b
  /\ MintReused(b, k) \/ MintFresh(b, k)
  /\ opens' = opens + 1
  /\ UNCHANGED stale

(* resolve() with release, on a word that resolves: every copy of it is    *)
(* meant to be useless from here on.                                       *)
Release(w, k) ==
  /\ Resolve(w, k) # NoBackend
  /\ slots' = [slots EXCEPT ![w.index].backend = NoBackend,
                            ![w.index].generation = Bump(@)]
  /\ free' = Append(free, w.index)
  /\ stale' = stale \cup {w}
  /\ UNCHANGED opens

(* The words somebody may hold: those of the live handles and stale ones.  *)
Held == stale \cup {Encode(i, slots[i].generation) : i \in {j \in DOMAIN slots : Live(j)}}

Init == slots = <<>> /\ free = <<>> /\ opens = 0 /\ stale = {}

Next == \/ \E b \in Backend, k \in Kind : Mint(b, k)
        \/ \E w \in Held, k \in Kind : Release(w, k)

Spec == Init /\ [][Next]_vars

-----------------------------------------------------------------------------
TypeOK ==
  /\ slots \in Seq(Slot)
  /\ free \in Seq(Nat)
  /\ opens \in 0..MaxOpens
  /\ stale \subseteq Word

(* A stale handle resolves to nothing, of whatever kind it is taken to be. *)
StaleFailsCleanly ==
  \A w \in stale, k \in Kind : Resolve(w, k) = NoBackend

(* A handle that was not released resolves to its own backend, and no two  *)
(* handles share a slot: the free list names the dead slots, each once.    *)
FreeListsTheDead ==
  /\ \A i \in DOMAIN slots : Live(i) <=> i \notin ToSet(free)
  /\ \A m, n \in DOMAIN free : free[m] = free[n] => m = n
  /\ ToSet(free) \subseteq DOMAIN slots

(* handle_registry.h:15-18: stale handles fail cleanly even when the slot  *)
(* and the backend's address have been used again (the ABA case), and what *)
(* is live is never offered a second time.  This needs fewer openings than *)
(* the counter has values: after that many a slot mints old words again.   *)
TableIsSound == TypeOK /\ FreeListsTheDead /\ StaleFailsCleanly

(* The live handles, as the abstract table sees them.                      *)
OpenHandles ==
  {[word |-> Encode(i, slots[i].generation),
    backend |-> slots[i].backend, kind |-> slots[i].kind] :
      i \in {j \in DOMAIN slots : Live(j)}}

Abstract == INSTANCE HandleMap WITH open <- OpenHandles

(* Every word is new when it is given out, and resolves until it is        *)
(* released: the table implements the abstract one.                        *)
ImplementsHandleMap == Abstract!Spec

=============================================================================
