------------------------- MODULE MCChapterWorkflow -------------------------
(* Instances of ChapterWorkflow for TLC. *)
EXTENDS ChapterWorkflow

CONSTANTS a, b, m, r1, r2

Item1(k, drafter, checker) == [id |-> k, drafter |-> drafter, checker |-> checker]

MCReviews == <<"community_review">>
MCNoReviews == <<>>

(* A chapter is given to a, or to a with b checking; assign-all gives b to *)
(* every chapter; assign-selected exchanges or takes away.                 *)
New(drafter) == [row |-> [Restarted EXCEPT !.drafter = drafter], past |-> <<"not_started">>]
InPeerCheck == [row |-> [Restarted EXCEPT !.drafter = a, !.status = "peer_check"],
                past |-> <<"not_started", "draft", "peer_check">>]
Deleted == [row |-> None, past |-> <<>>]
MCStarts == {<<InPeerCheck, New(None)>>, <<Deleted, New(a)>>}
MCStarts1 == {<<InPeerCheck>>, <<New(None)>>}

MCUpdates == {<<Item1(1, a, b)>>, <<Item1(1, Keep, b), Item1(2, Keep, b)>>}
MCSelections == {<<Item1(2, b, None), Item1(1, None, None)>>}

MCUpdates1 == {<<Item1(1, a, b)>>, <<Item1(1, Keep, b)>>}
MCSelections1 == {<<Item1(1, b, None)>>, <<Item1(1, None, None)>>}

RequestSymmetry == Permutations(Requests)
=============================================================================
