--------------------------- MODULE MCSharedCache ---------------------------
(* Instances of SharedCache small enough for TLC.                          *)
EXTENDS SharedCache

CONSTANTS a, b

(* Two turns of one conversation and the start of another one.             *)
ShortPrompts == {<<a, a>>, <<a, b, a>>}

(* The last of these is longer than a window of four.                      *)
LongPrompts == {<<a, b>>, <<a, b, a, b, a>>}

(* A prompt that fills a window of five and the start of it, over a single *)
(* token: a borrowed prefix reaches past what a shift would remove.        *)
WindowPrompts == {<<a, a, a, a, a>>, <<a, a>>}

(* Over a single token again, for three sequences: lending two cells to    *)
(* one sibling and one cell to the other.                                  *)
TrioPrompts == {<<a, a, a>>, <<a, a>>}

ShortSession == {<<a>>}

OneSession == {<<a, b>>}
=============================================================================
