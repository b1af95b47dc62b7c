---------------------------- MODULE MCVerseAudio ----------------------------
(* Instances of VerseAudio for TLC. *)
EXTENDS VerseAudio, TLC

CONSTANTS v1, v2, c1, c2, h1, h2

Verse(n) == [chapter |-> 1, verse |-> n]

(* Two neighbouring verses: a pericope that starts at v1 can reach v2.      *)
MCAnchor == [u \in Units |-> [book |-> 1, ref |-> Verse(IF u = v1 THEN 1 ELSE 2)]]
MCRangeEnds == {Verse(2)}

ClientSymmetry == Permutations(Clients)
=============================================================================
