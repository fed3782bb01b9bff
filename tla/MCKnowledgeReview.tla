------------------------- MODULE MCKnowledgeReview -------------------------
(* A small instance of KnowledgeReview for TLC. *)
EXTENDS KnowledgeReview, TLC

CONSTANTS s1, s2, i1, c1, c2

Perms == Permutations({s1, s2}) \cup Permutations({c1, c2})
=============================================================================
