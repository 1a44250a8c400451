------------------------------- MODULE Walks -------------------------------
(* What is made of a sequence, one element after the other.  (The operators *)
(* of SequencesExt would do; but they come with bags, which every step of a *)
(* proof about these rules would carry along.)                              *)
EXTENDS Integers, FiniteSets, Sequences, FiniteSetsExt, Folds, Functions

Along(op(_, _), base, seq) ==
  MapThenFoldSet(LAMBDA n, made : op(made, seq[n]), base, LAMBDA n : n, LAMBDA ns : Max(ns), DOMAIN seq)

Joined(seqs) ==
  LET upTo[n \in 1..Len(seqs)] == IF n = 1 THEN seqs[n] ELSE upTo[n - 1] \o seqs[n]
  IN IF seqs = <<>> THEN <<>> ELSE upTo[Len(seqs)]
=============================================================================
