----------------------------- MODULE MCProposals -----------------------------
(* Two requests at a time on one conversation with two questions. *)
EXTENDS Proposals, TLC

Handlers == Permutations(Workers)
Questions == Permutations(Gens)
Alike == Handlers \cup Questions
=============================================================================
