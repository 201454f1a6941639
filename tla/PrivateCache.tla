---------------------------- MODULE PrivateCache ----------------------------
(***************************************************************************)
(* What a handle on a batching engine is promised: a KV cache that behaves *)
(* as if nobody else were using it.  A cache is a set of placed tokens,    *)
(* <<position, token>>.  Every step changes the cache of one sequence, and *)
(* only in a way its own handle asked for: lay down tokens at the end,     *)
(* keep a prefix, shift the window, start again from a prefix some sibling *)
(* has already evaluated, or restore a saved session.                      *)
(*                                                                         *)
(* SharedCache, where sequences hold the same physical cells and one       *)
(* sequence's shift can move another's tokens, implements this module.     *)
(***************************************************************************)
EXTENDS Integers, Sequences, FiniteSets

CONSTANTS
  Sequences,    \* the sequence ids of one engine
  Token,        \* the vocabulary
  Chunks,       \* token runs one decode may lay down
  Sessions      \* token sequences a session file may hold

VARIABLE cache  \* sequence -> set of <<position, token>>

Placed(tokens, base) == {<<base + i - 1, tokens[i]>> : i \in DOMAIN tokens}

Size(s) == Cardinality(cache[s])

Prefix(rows, n) == {row \in rows : row[1] < n}

Init == cache = [s \in Sequences |-> {}]

(* The cache has no gaps and the next tokens go exactly behind it.         *)
Extend(s) ==
  /\ {row[1] : row \in cache[s]} = 0..(Size(s) - 1)
  /\ \E w \in Chunks :
       cache' = [cache EXCEPT ![s] = @ \cup Placed(w, Size(s))]

Truncate(s) ==
  \E n \in 0..(Size(s) - 1) : cache' = [cache EXCEPT ![s] = Prefix(@, n)]

(* A context shift: tokens head .. head+n-1 go, what follows moves down.   *)
Shift(s) ==
  \E n \in 1..Size(s) : \E head \in 0..(Size(s) - n) :
    cache' = [cache EXCEPT ![s] =
                Prefix(@, head) \cup
                {<<row[1] - n, row[2]>> : row \in {r \in @ : r[1] >= head + n}}]

Adopt(s) ==
  \E donor \in Sequences \ {s} : \E n \in 1..Size(donor) :
    cache' = [cache EXCEPT ![s] = Prefix(cache[donor], n)]

Restore(s) ==
  \E saved \in Sessions : cache' = [cache EXCEPT ![s] = Placed(saved, 0)]

Next == \E s \in Sequences : \/ Extend(s) \/ Truncate(s) \/ Shift(s)
                             \/ Adopt(s)  \/ Restore(s)

Spec == Init /\ [][Next]_cache
=============================================================================
