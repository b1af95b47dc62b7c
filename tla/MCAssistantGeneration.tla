----------------------- MODULE MCAssistantGeneration -----------------------
(* Instances of AssistantGeneration for TLC. *)
EXTENDS AssistantGeneration, TLC

CONSTANTS c1, c2, c3, u1, u2, turn, briefing

RequestSymmetry == Permutations(Requests)
UserSymmetry == Permutations(Users)
Symmetry == RequestSymmetry \cup UserSymmetry
=============================================================================
