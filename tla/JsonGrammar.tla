---------------------------- MODULE JsonGrammar ----------------------------
(* The compiler of json_constraint.cpp: a JSON schema becomes grammar      *)
(* nodes that refer to each other by number, or it is refused.  RECURSIVE  *)
(* operators keep this module to TLC: what it computes for the schemas of  *)
(* a run is a parameter of JsonConstraint.                                 *)
EXTENDS Integers, Sequences, SequencesExt, FiniteSetsExt, TLC

CONSTANTS MaxDepth, MaxNodes,   \* kMaxDepth, kMaxNodes
          Printable, MaxText    \* bounds: the bytes of a text, and how many

-----------------------------------------------------------------------------
(* The compiler (Builder).                                                 *)

Blank == [kind |-> "literal", keys |-> <<>>, values |-> <<>>, required |-> <<>>,
          item |-> 0, min |-> 0, max |-> -1, integer |-> FALSE,
          text |-> <<>>, options |-> <<>>]

Built(nodeList, any, id) == [nodes |-> nodeList, any |-> any, id |-> id]
Failed(b) == [b EXCEPT !.id = 0]
Add(b, node) == Built(Append(b.nodes, node), b.any, Len(b.nodes) + 1)

Literal(b, spelled) == Add(b, [Blank EXCEPT !.text = spelled])

AnyOf(b, ids) ==
  IF Len(ids) = 1 THEN [b EXCEPT !.id = ids[1]]
  ELSE Add(b, [Blank EXCEPT !.kind = "anyOf", !.options = ids])

Spelled(keyword) == IF keyword = "null" THEN <<"n">> ELSE <<keyword>>

(* Any value, built once: it is among its own parts.                       *)
AnyValue(b) ==
  IF b.any # 0 THEN [b EXCEPT !.id = b.any]
  ELSE LET n == Len(b.nodes) IN
    Built(b.nodes \o
      <<[Blank EXCEPT !.kind = "anyOf", !.options = <<n + 3, n + 4, n + 2, n + 5, n + 6>>],
        [Blank EXCEPT !.kind = "string"],
        [Blank EXCEPT !.kind = "free", !.values = <<n + 2, n + 1>>],
        [Blank EXCEPT !.kind = "array", !.item = n + 1],
        [Blank EXCEPT !.kind = "number"],
        [Blank EXCEPT !.text = Spelled("null")]>>, n + 1, n + 1)

Quoted(key) == <<"'">> \o key \o <<"'", ":">>

RECURSIVE Build(_, _, _)

(* Builds the parts of a schema one after another: [b, ids].               *)
BuildAll(b, parts, depth) ==
  FoldLeft(LAMBDA acc, part :
             IF acc.b.id = 0 THEN acc
             ELSE LET child == Build(acc.b, part, depth)
                  IN  [b |-> child, ids |-> Append(acc.ids, child.id)],
           [b |-> b, ids |-> <<>>], parts)

Object(b, s, depth) ==
  IF s.keys = <<>>
    THEN LET any == AnyValue(b)
             key == Add(any, [Blank EXCEPT !.kind = "string"])
         IN  Add(key, [Blank EXCEPT !.kind = "free", !.values = <<key.id, any.id>>])
    ELSE LET children == BuildAll(b, s.values, depth + 1)
         IN  IF children.b.id = 0 THEN children.b
             ELSE Add(children.b,
                    [Blank EXCEPT !.kind = "object", !.values = children.ids,
                       !.keys = [i \in DOMAIN s.keys |-> Quoted(s.keys[i])],
                       !.required = [i \in DOMAIN s.keys |-> s.keys[i] \in s.required]])

Array(b, s, depth) ==
  LET item == Build(b, s.item, depth + 1)
  IN  IF item.id = 0 THEN item
      ELSE Add(item, [Blank EXCEPT !.kind = "array", !.item = item.id,
                        !.min = Max({s.min, 0}), !.max = s.max])

Build(b, s, depth) ==
  CASE depth > MaxDepth \/ Len(b.nodes) > MaxNodes \/ s.type = "$ref" -> Failed(b)
    [] s.type = "any" -> AnyValue(b)
    [] s.type = "const" -> Literal(b, s.text)
    [] s.type = "anyOf" -> LET children == BuildAll(b, s.of, depth + 1)
                           IN  IF children.b.id = 0 THEN children.b
                               ELSE AnyOf(children.b, children.ids)
    [] s.type = "object" -> Object(b, s, depth)
    [] s.type = "array" -> Array(b, s, depth)
    [] s.type = "string" -> Add(b, [Blank EXCEPT !.kind = "string"])
    [] s.type \in {"number", "integer"} ->
         Add(b, [Blank EXCEPT !.kind = "number", !.integer = (s.type = "integer")])

(* JsonConstraint::compile(): the nodes and the root, or no root.          *)
Compiled(s) ==
  LET root == Build(Built(<<>>, 0, -1), s, 0) IN [nodes |-> root.nodes, id |-> root.id]

-----------------------------------------------------------------------------
(* What the nodes spell, found by solving the equations of JsonSpelling    *)
(* from below: every level of nesting takes two bytes of MaxText.          *)
Spelling == INSTANCE JsonSpelling WITH Control <- {}

Leaf(node) == node.kind \in {"literal", "string", "number"}

(* A table of what the nodes of a set spell; and of what they all come to. *)
Table(nodes, language, ids) ==
  FoldSet(LAMBDA id, f : f @@ (id :> Spelling!SpelledBy(nodes[id], language)), << >>, ids)
Chosen(nodes, own) ==
  FoldSet(LAMBDA id, f :
            f @@ (id :> Spelling!UpTo(UNION {own[c] : c \in Spelling!Alternatives(nodes, id)}, MaxText)),
          << >>, DOMAIN nodes)

Solved(nodes) ==
  LET ids == {id \in DOMAIN nodes : nodes[id].kind # "anyOf"}
      leaves == Table(nodes, << >>, {id \in ids : Leaf(nodes[id])})
  IN  FoldLeft(LAMBDA language, n :
                 Chosen(nodes, leaves @@ Table(nodes, language, {id \in ids : ~Leaf(nodes[id])})),
               [id \in DOMAIN nodes |-> {}], [n \in 1..(MaxText + 1) \div 2 |-> n])

(* The grammar and the language of each schema.                            *)
Grammars(schemas) == FoldSet(LAMBDA s, f : f @@ (s :> Compiled(s)), << >>, schemas)
Languages(schemas) ==
  FoldSet(LAMBDA s, f : f @@ (s :> Solved(Compiled(s).nodes)), << >>, schemas)

=============================================================================
