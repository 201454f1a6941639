---------------------------- MODULE MCFamilies ----------------------------
(* Three small families of schemas for TLC: the tokens and bytes texts are *)
(* made of, what each schema compiles to, what can be spelled in its       *)
(* grammar, and what it means.  The last three are large, and a constant   *)
(* of Backends is given the name of each: TLC computes a named value once. *)
EXTENDS Integers, Sequences

Integer == [type |-> "integer"]
Yes == [type |-> "const", text |-> <<"a">>]
Either == [type |-> "anyOf", of |-> <<[type |-> "const", text |-> <<"a", "n">>], Yes, Integer>>]
Pair == [type |-> "array", item |-> [type |-> "number"], min |-> 1, max |-> 2]
Dangling == [type |-> "array", item |-> [type |-> "$ref"], min |-> 0, max |-> -1]
Nested == [type |-> "array", item |-> Pair, min |-> 0, max |-> -1]
Record(needed) ==
  [type |-> "object", keys |-> <<<<"a">>, <<"n">>>>, values |-> <<Yes, Yes>>, required |-> needed]
Text == [type |-> "string"]
Free == [type |-> "object", keys |-> <<>>, values |-> <<>>, required |-> {}]

Single(bytes) == {<<byte>> : byte \in bytes}

(* What JSON itself is written with.                                       *)
Plain == {"0", "1", "n", "{", "}", "[", "]", ":", ",", "'", "-", ".", "e", "\\"}

(* Alternatives, arrays with bounds, nesting and a reference that leads    *)
(* nowhere, over tokens of one and of several bytes.                       *)
ShapeSchemas == {Either, Pair, Dangling, Nested}
ShapeBytes == Plain \cup {"a"}
ShapeTokens ==
  Single(ShapeBytes)
    \cup {<<"1", ",">>, <<"'", "a", "'", ":">>, <<"a", "n">>, <<"1", "]">>}
ShapeLanguage == INSTANCE JsonLanguage WITH Printable <- ShapeBytes
ShapeText == 8
ShapeMeanings == ShapeLanguage!Meanings(ShapeSchemas, ShapeText)
ShapeGrammar == INSTANCE JsonGrammar WITH MaxDepth <- 2, MaxNodes <- 12,
  Printable <- ShapeBytes, MaxText <- ShapeText
ShapeNodes == ShapeGrammar!Grammars(ShapeSchemas)
ShapeWords == ShapeGrammar!Languages(ShapeSchemas)
MCShapeFamily ==
  [schemas |-> ShapeSchemas, tokens |-> ShapeTokens, printable |-> ShapeBytes,
   control |-> {}, maxText |-> ShapeText]
MCShapeCompiled == ShapeNodes
MCShapeSpelled == ShapeWords
MCShapeMeans == ShapeMeanings

(* Objects whose keys are optional, required, first or last.               *)
RecordSchemas == {Record({}), Record({<<"a">>}), Record({<<"n">>})}
RecordBytes == {"'", "a", "n", "{", "}", ":", ","}
RecordTokens ==
  Single(RecordBytes \cup Plain) \cup {<<"'", "a", "'", ":">>, <<"}", "}">>}
RecordLanguage == INSTANCE JsonLanguage WITH Printable <- RecordBytes
RecordText == 14
RecordMeanings == RecordLanguage!Meanings(RecordSchemas, RecordText)
RecordGrammar == INSTANCE JsonGrammar WITH MaxDepth <- 2, MaxNodes <- 12,
  Printable <- RecordBytes, MaxText <- RecordText
RecordNodes == RecordGrammar!Grammars(RecordSchemas)
RecordWords == RecordGrammar!Languages(RecordSchemas)
MCRecordFamily ==
  [schemas |-> RecordSchemas, tokens |-> RecordTokens, printable |-> RecordBytes,
   control |-> {}, maxText |-> RecordText]
MCRecordCompiled == RecordNodes
MCRecordSpelled == RecordWords
MCRecordMeans == RecordMeanings

(* Strings with escapes, and values of no stated shape.                    *)
AnySchemas == {Text, Free, [type |-> "any"]}
AnyBytes == {"'", "\\", "{", "}", "[", "]", ":", ",", "1"}
AnyControl == {"newline"}
AnyTokens == Single(AnyBytes \cup AnyControl \cup Plain)
AnyLanguage == INSTANCE JsonLanguage WITH Printable <- AnyBytes
AnyText == 6
AnyMeanings == AnyLanguage!Meanings(AnySchemas, AnyText)
AnyGrammar == INSTANCE JsonGrammar WITH MaxDepth <- 2, MaxNodes <- 12,
  Printable <- AnyBytes, MaxText <- AnyText
AnyNodes == AnyGrammar!Grammars(AnySchemas)
AnyWords == AnyGrammar!Languages(AnySchemas)
MCAnyFamily ==
  [schemas |-> AnySchemas, tokens |-> AnyTokens, printable |-> AnyBytes,
   control |-> AnyControl, maxText |-> AnyText]
MCAnyCompiled == AnyNodes
MCAnySpelled == AnyWords
MCAnyMeans == AnyMeanings

=============================================================================
