------------------------ MODULE MCVerseAudioCoverage ------------------------
(***************************************************************************)
(* Two units of a book are recorded and re-recorded with every shape their *)
(* routes accept, and with the anomalous pericope that has no bounds.      *)
(***************************************************************************)
EXTENDS VerseAudioCoverage, FiniteSets

CONSTANTS Chapters, Verses   \* the grid of references, as sizes

Refs == [chapter : 1 .. Chapters, verse : 1 .. Verses]

VARIABLES one, two   \* the recordings: where their unit is, and their shape

Anomalous == PericopeShape([start |-> NoRef, end |-> NoRef])

Recordings ==
    UNION {[anchor : {ref}, shape : AcceptedShapes(ref, Refs) \cup {Anomalous}] : ref \in Refs}

RangeOf(x) == coverageFromActive(x.shape, x.anchor)

Init == one \in Recordings /\ two \in Recordings

Next ==
    \/ one' \in {x \in Recordings : x.anchor = one.anchor} /\ UNCHANGED two
    \/ two' \in {x \in Recordings : x.anchor = two.anchor} /\ UNCHANGED one

Spec == Init /\ [][Next]_<<one, two>>

Common == {ref \in Refs : Covers(RangeOf(one), ref) /\ Covers(RangeOf(two), ref)}

(* The ranges the service compares mean what a listener hears.  Two        *)
(* recordings contend exactly when some verse is covered by both, also      *)
(* across a chapter boundary, in a single verse, or one within the other;   *)
(* equal ranges, which skip the scan of a re-recording, leave the covered   *)
(* verses as they were; and a recording covers its own unit's verse and     *)
(* none before it, so that a range upload cannot claim a stretch it is not  *)
(* at.                                                                      *)
RangesMeanVerses ==
    /\ rangesOverlap(RangeOf(one), RangeOf(two)) <=> Common # {}
    /\ rangesEqual(RangeOf(one), RangeOf(two)) <=>
          \A ref \in Refs : Covers(RangeOf(one), ref) <=> Covers(RangeOf(two), ref)
    /\ Covers(RangeOf(one), one.anchor)
    /\ \A ref \in Refs :
          compareVerseRef(ref, one.anchor) < 0 => ~Covers(RangeOf(one), ref)
=============================================================================
