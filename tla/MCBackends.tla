----------------------------- MODULE MCBackends -----------------------------
(* The other backends under TLC: the prompts of the MLX session, the       *)
(* families of schemas, the files of the vision-language handle, the       *)
(* batches and graphs of the two embedding backends.                       *)
EXTENDS MCFamilies, Backends, TLC

CONSTANTS a, b, photo, scan, speech, noise

MCToken == {a, b}

(* A turn, the turn that extends it, one that departs from it, and one     *)
(* longer than any window.                                                 *)
MCPrompts == {<<a>>, <<a, a, b>>, <<a, b, b, b, b>>, <<b, a, a, b, a, b, b>>}

MCImage == {photo, scan}
MCAudio == {speech, noise}
MCBroken == {noise}

(* An image takes one position fewer than cells, as with M-RoPE.           *)
MCCells == [f \in MCImage |-> 2] @@ [f \in MCAudio |-> 1]
MCPositions == [f \in MCImage \cup MCAudio |-> 1]

(* Rows of equal and of different lengths, with tokens masked anywhere.    *)
MCSentences ==
  UNION {[1..n -> [1..m -> {-1, 0, 1}]] : n \in 1..2, m \in 1..2}
    \cup {<<<<0, 2>>>>, <<<<1>>, <<2>>>>, <<<<0>>, <<1>>, <<0>>>>, <<<<0, 1, 0>>>>,
          <<<<-1, 1, 0>>, <<0, -1, -1>>>>}
MCQuestions ==
  {<<q, docs>> : q \in {<<0>>, <<0, 1>>},
                 docs \in {<<<<0>>>>, <<<<1>>, <<0>>>>, <<<<1>>, <<0, 0>>, <<>>>>}}

In(kind, wide, shape) == [kind |-> kind, int32 |-> ~wide, shape |-> shape]
Out(name, rank, float) == [name |-> name, rank |-> rank, float |-> float]

(* Graphs with wide, narrow, fixed and unknown inputs, and with outputs of *)
(* every rank, some of which cannot be pooled.                             *)
MCGraphs ==
  {[inputs |-> <<In("input_ids", TRUE, <<-1, -1>>), In("attention_mask", FALSE, <<-1, -1>>)>>,
    outputs |-> <<Out("last_hidden_state", 3, TRUE), Out("logits", 2, FALSE)>>],
   [inputs |-> <<In("input_ids", FALSE, <<-1, 2>>), In("token_type_ids", FALSE, <<-1, 2>>),
                 In("position_ids", TRUE, <<-1, 2>>)>>,
    outputs |-> <<Out("scores", 4, TRUE), Out("last_hidden_state", 3, TRUE), Out("pooler_output", 2, TRUE)>>],
   [inputs |-> <<In("pixel_values", TRUE, <<-1, -1>>)>>, outputs |-> <<Out("logits", 2, TRUE)>>],
   [inputs |-> <<In("input_ids", TRUE, <<-1, -1>>)>>, outputs |-> <<Out("scores", 4, TRUE)>>]}

Rectangle(n, m, values) == [1..n -> [1..m -> values]]
MCRectangles ==
  UNION {{[ids |-> ids, mask |-> seen, types |-> types] :
            ids \in Rectangle(n, 2, {1, 5}),
            seen \in {<<>>} \cup Rectangle(n, 2, {0, 1}), types \in {<<>>}} : n \in {1, 2}}
    \cup {[ids |-> ids, mask |-> <<>>, types |-> types] :
            ids \in Rectangle(1, 2, {2}), types \in {<<<<0, 1>>>>, <<<<0, 6>>>>, <<<<0, -1>>>>}}
    \cup {[ids |-> ids, mask |-> <<>>, types |-> <<>>] : ids \in Rectangle(1, 3, {1}) \cup Rectangle(1, 1, {-1})}

=============================================================================
