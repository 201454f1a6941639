---------------------------- MODULE JsonLanguage ----------------------------
(* What a JSON schema means: the compact spellings of its values, without  *)
(* regard to how the grammar of json_constraint.cpp is built or stepped.   *)
(* It is the reference that JsonConstraint is checked against.             *)
EXTENDS Integers, Sequences, SequencesExt, FiniteSetsExt, Functions, TLC

CONSTANT Printable    \* the bytes that strings are made of

Digit == {"0", "1"}

RECURSIVE Values(_, _), Joined(_, _)

(* One of each set, with commas between.                                   *)
Joined(sets, n) ==
  IF sets = <<>> THEN {<<>>}
  ELSE IF Len(sets) = 1 THEN {v \in sets[1] : Len(v) <= n}
  ELSE {v \in {x \o <<",">> \o y : x \in Head(sets), y \in Joined(Tail(sets), n - 2)} : Len(v) <= n}

Symbols ==
  {<<b>> : b \in Printable \ {"'", "\\"}}
    \cup {<<"\\", b>> : b \in {"'", "\\", "n"}}
Strings(n) ==
  {v \in {<<"'">> \o FlattenSeq(t) \o <<"'">> : t \in BoundedSeq(Symbols, Max({n - 2, 0}))} : Len(v) <= n}

Spell(n) == BoundedSeq(Digit, Max({n, 0})) \ {<<>>}
Signed(whole) == whole \cup {<<"-">> \o w : w \in whole}
Integers(n) == {v \in Signed({w \in Spell(n) : w[1] # "0" \/ Len(w) = 1}) : Len(v) <= n}
Numbers(n) ==
  LET fractions == {<<>>} \cup {<<".">> \o d : d \in Spell(n - 2)}
      exponents == {<<>>} \cup {<<"e">> \o d : d \in Signed(Spell(n - 2))}
      decimals == {v \in {i \o f : i \in Integers(n), f \in fractions} : Len(v) <= n}
  IN  {v \in {x \o y : x \in decimals, y \in exponents} : Len(v) <= n}

Objects(s, n) ==
  UNION {Joined([j \in 1..Cardinality(chosen) |->
                   LET i == SetToSortSeq(chosen, <)[j]
                   IN  {<<"'">> \o s.keys[i] \o <<"'", ":">> \o v : v \in Values(s.values[i], n - 5)}], n - 2) :
           chosen \in {c \in SUBSET DOMAIN s.keys :
                         \A i \in DOMAIN s.keys : s.keys[i] \in s.required => i \in c}}

FreeObjects(n) ==
  LET members == {k \o <<":">> \o v : k \in Strings(n - 4), v \in Values([type |-> "any"], n - 5)}
  IN  UNION {Joined([j \in 1..m |-> members], n - 2) : m \in 0..(n \div 4)}

Within(open, inner, close) == {<<open>> \o v \o <<close>> : v \in inner}

Values(s, n) ==
  IF n <= 0 THEN {}
  ELSE {v \in
    CASE s.type = "const" -> {s.text}
      [] s.type = "anyOf" -> UNION {Values(part, n) : part \in Range(s.of)}
      [] s.type = "string" -> Strings(n)
      [] s.type = "integer" -> Integers(n)
      [] s.type = "number" -> Numbers(n)
      [] s.type = "array" ->
           LET counts == {m \in s.min..n : s.max < 0 \/ m <= s.max} IN
           Within("[", UNION {Joined([j \in 1..m |-> Values(s.item, n - 2)], n - 2) : m \in counts}, "]")
      [] s.type = "object" /\ s.keys # <<>> -> Within("{", Objects(s, n), "}")
      [] s.type = "object" /\ s.keys = <<>> -> Within("{", FreeObjects(n), "}")
      [] s.type = "any" ->
           Strings(n) \cup Numbers(n) \cup {<<"n">>}
             \cup Within("{", FreeObjects(n), "}")
             \cup Within("[", UNION {Joined([j \in 1..m |-> Values([type |-> "any"], n - 2)], n - 2) :
                                       m \in 0..(n \div 2)}, "]")
      [] OTHER -> {} : Len(v) <= n}

(* The values of each schema that are at most n bytes long.                *)
Meanings(schemas, n) == FoldSet(LAMBDA s, f : f @@ (s :> Values(s, n)), << >>, schemas)

=============================================================================
