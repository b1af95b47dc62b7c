-------------------------- MODULE AudioUnitContract --------------------------
(***************************************************************************)
(* What the verse-audio service promises about one recorded unit, whatever *)
(* the requests that race for it: the comments of verse-audio.upload.      *)
(* service.ts ("None of them clears an open conflict -- that is resolve's  *)
(* job alone") and schema.ts ("Monotonic token clients send as             *)
(* baseVersionToken") as a specification.                                  *)
(*                                                                         *)
(*   - the active take changes only together with the version token, which *)
(*     only grows;                                                         *)
(*   - a conflict ends only by Resolve, or with the recording;             *)
(*   - a resolved unit is reopened only by a step that bumps the token;    *)
(*   - overlaps are flagged without touching token or selection, and never *)
(*     on a resolved unit.                                                 *)
(***************************************************************************)
EXTENDS Naturals

CONSTANT Units

VARIABLES unit,   \* [Units -> [id, token, status, active]], id 0 when absent
          fresh   \* ids below it are used up: a recording id is never reused

Absent == [id |-> 0, token |-> 0, status |-> "clean", active |-> 0]

Present(u) == unit[u].id # 0

Init == unit = [u \in Units |-> Absent] /\ fresh = 1

Set(u, row) == unit' = [unit EXCEPT ![u] = row]

Create(u) ==
    /\ ~Present(u)
    /\ \E token \in {1, 2} :
          Set(u, [id |-> fresh, token |-> token, status |-> "clean",
                  active |-> unit'[u].active])
    /\ fresh' = fresh + 1

(* A version of the unit: one token further. *)
Advance(u, status, i) ==
    /\ Present(u)
    /\ Set(u, [id |-> unit[u].id, token |-> unit[u].token + 1,
               status |-> status, active |-> i])
    /\ UNCHANGED fresh

Select(u) == Advance(u, unit[u].status, unit'[u].active)

Contest(u) == Advance(u, "conflict", unit[u].active)

Resolve(u) ==
    /\ unit[u].status = "conflict"
    /\ Advance(u, "resolved", unit'[u].active)
    /\ unit'[u].active # 0

FlagOverlaps ==
    /\ \E S \in SUBSET {u \in Units : Present(u) /\ unit[u].status # "resolved"} :
          unit' = [u \in Units |->
                     IF u \in S THEN [unit[u] EXCEPT !.status = "conflict"] ELSE unit[u]]
    /\ UNCHANGED fresh

Remove(u) == Present(u) /\ Set(u, Absent) /\ UNCHANGED fresh

Next ==
    \/ \E u \in Units : Create(u) \/ Select(u) \/ Contest(u) \/ Resolve(u) \/ Remove(u)
    \/ FlagOverlaps

Spec == Init /\ [][Next]_<<unit, fresh>>
=============================================================================
