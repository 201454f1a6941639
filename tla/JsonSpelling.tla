---------------------------- MODULE JsonSpelling ----------------------------
(* What the nodes of a compiled grammar spell, written as equations between *)
(* sets of texts: the reference that the automaton of JsonConstraint is     *)
(* proved against.  A text is a sequence of bytes, a byte a one-character  *)
(* string; every set here is cut at MaxText bytes.                         *)
EXTENDS Integers, Sequences, Functions

CONSTANTS Printable,      \* the bytes that are no control characters
          Control,        \* and those that are
          MaxText         \* bound: bytes of a text

Digit == {"0", "1"}
Escapes == {"'", "\\", "n"}
Marks == {"-", ".", "e", "[", "]", "{", "}", ":", ","}
Byte == Printable \cup Control \cup Digit \cup Escapes \cup Marks

UpTo(A, n) == {t \in A : Len(t) <= n}
OfSize(A, n) == {t \in A : Len(t) = n}

(* A text of one set before one of another; grouped by length, so that     *)
(* only what fits is put together.                                         *)
Pairs(A, B, n) == {x \o y : x \in UpTo(A, MaxText - n), y \in OfSize(B, n)}
Cat(A, B) == UpTo(UNION {Pairs(A, B, n) : n \in 0..MaxText}, MaxText)

(* Exactly n texts of one set, then one of another; and up to n of them.   *)
Chain(A, B, n) ==
  LET chain[k \in 0..n] == IF k = 0 THEN B ELSE Cat(A, chain[k - 1])
  IN  chain[n]

Many(A, B, n) == UpTo(UNION {Chain(A, B, k) : k \in 0..n}, MaxText)

Single(bytes) == {<<byte>> : byte \in bytes}
Maybe(bytes, B) == B \cup Cat(Single(bytes), B)
Quote == Single({"'"})

-----------------------------------------------------------------------------
(* Strings and numbers: each part is followed by what may come behind it.  *)
Symbols == Single(Printable \ {"'", "\\"}) \cup {<<"\\", e>> : e \in Escapes}

Digits(B) == Many(Single(Digit), B, MaxText)
Integral(B) == Cat(Single(Digit), Digits(B))
Exponent(integer) ==
  {<<>>} \cup IF integer THEN {} ELSE Cat(Single({"e"}), Maybe({"-"}, Integral({<<>>})))
Decimals(integer) ==
  Exponent(integer) \cup IF integer THEN {} ELSE Cat(Single({"."}), Integral(Exponent(FALSE)))
Unsigned(integer) ==
  Cat(Single({"0"}), Decimals(integer))
    \cup Cat(Single(Digit \ {"0"}), Digits(Decimals(integer)))

-----------------------------------------------------------------------------
(* Arrays and objects, from where a count of items or of properties has    *)
(* been written.  They may close behind a comma that more could follow.    *)

Full(node, count) == node.max >= 0 /\ count >= node.max

Closing(node, count) ==
  IF count < node.min THEN {}
  ELSE Single({"]"}) \cup (IF Full(node, count) THEN {} ELSE {<<",", "]">>})

MoreItems(node, item, count) ==
  UNION {Chain(Cat(Single({","}), item), Closing(node, count + n), n) :
           n \in {m \in 0..MaxText : node.max < 0 \/ count + m <= node.max}}

Items(node, item, count) ==
  (IF count < node.min THEN {} ELSE Single({"]"}))
    \cup (IF Full(node, count) THEN {} ELSE Cat(item, MoreItems(node, item, count + 1)))

Member(key, value) == Cat(key, Cat(Single({":"}), value))
MoreMembers(key, value) == Many(Cat(Single({","}), Member(key, value)), Single({"}"}), MaxText)

(* Behind a property: a comma and what may follow it, or the end where     *)
(* nothing has to.                                                         *)
Onward(rest, left) ==
  (IF left = 0 THEN {} ELSE Cat(Single({","}), rest)) \cup (rest \cap Single({"}"}))

(* The last properties of an object, each left out only if optional.       *)
Properties(node, language, left) ==
  LET rest[n \in 0..left] ==
        IF n = 0 THEN Single({"}"})
        ELSE LET i == Len(node.keys) + 1 - n
                 later == rest[n - 1]
             IN  Cat({node.keys[i]}, Cat(language[node.values[i]], Onward(later, n - 1)))
                   \cup (IF node.required[i] THEN {} ELSE later)
  IN  rest[left]

-----------------------------------------------------------------------------
(* The nodes that a choice comes down to, through choices among choices.   *)
Alternatives(g, id) ==
  LET through[n \in 0..Len(g)] ==
        [c \in DOMAIN g |->
           IF g[c].kind # "anyOf" THEN {c}
           ELSE IF n = 0 THEN {}
           ELSE UNION {through[n - 1][option] : option \in Range(g[c].options)}]
  IN  through[Len(g)][id]

SpelledBy(node, language) ==
  CASE node.kind = "literal" -> {node.text}
    [] node.kind = "string" -> Cat(Quote, Many(Symbols, Quote, MaxText - 2))
    [] node.kind = "number" -> Maybe({"-"}, Unsigned(node.integer))
    [] node.kind = "array" -> Cat(Single({"["}), Items(node, language[node.item], 0))
    [] node.kind = "free" ->
         LET key == language[node.values[1]]
             value == language[node.values[2]]
         IN  Cat(Single({"{"}), Single({"}"}) \cup Cat(Member(key, value), MoreMembers(key, value)))
    [] node.kind = "object" ->
         Cat(Single({"{"}), Properties(node, language, Len(node.keys)))

(* What a node spells, if language says what its parts do.                 *)
Spelled(g, language, id) ==
  UpTo(UNION {SpelledBy(g[c], language) : c \in Alternatives(g, id)}, MaxText)

(* A solution of the equations, for every node of a grammar.               *)
IsLanguage(g, language) ==
  /\ language \in [DOMAIN g -> SUBSET (Seq(Byte) \ {<<>>})]
  /\ \A id \in DOMAIN g : language[id] = Spelled(g, language, id)

=============================================================================
