--------------------------- MODULE MCBatchRounds ---------------------------
(* Instances of BatchRounds small enough for TLC.                          *)
EXTENDS BatchRounds, TLC

CONSTANTS h1, h2, h3

(* The handles whose callers do the same thing are interchangeable.        *)
Others == Permutations(Members \ Sliding)

=============================================================================
