----------------------------- MODULE MCSession -----------------------------
(* Session with one or two write platforms against a poll of two requests. *)
EXTENDS Session, TLC

Symmetry == Permutations(Writers)
============================================================================
