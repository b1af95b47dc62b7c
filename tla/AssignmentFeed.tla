--------------------------- MODULE AssignmentFeed ---------------------------
(***************************************************************************)
(* How a mobile client keeps the chapter assignments of its user's projects *)
(* up to date.  It asks for everything, for what is stamped after its       *)
(* cursor, for the projects it does not have, or for both, and its cursor   *)
(* is the time the server says the answer was made.  The server reads the   *)
(* projects, the rows and their stages one after the other; a writer stamps *)
(* a row with its own clock and commits it later.  A row stands for the     *)
(* assignments of a project.                                                *)
(***************************************************************************)
EXTENDS Naturals, FiniteSets

CONSTANTS
    Projects,
    Changing,             \* those of the projects that change
    MaxTime, MaxWrites,   \* of the check
    None

VARIABLES
    row,          \* [version, stamp, listed]: updatedAt, and whether the book is not removed
    writing,      \* of each project, the stamp of an update that has not committed
    member,       \* the projects the user has a grant for
    device,       \* [copy, known, cursor]
    request,      \* [pc, exclude, after, projects, found]
    now,
    late          \* projects whose last change no cursor can be relied on to find

vars == <<row, writing, member, device, request, now, late>>

Row == [version : 1 .. MaxWrites + 1, stamp : 0 .. now, listed : BOOLEAN]

Idle == [pc |-> "idle", exclude |-> {}, after |-> None, projects |-> {}, found |-> {}, missed |-> {}]

-----------------------------------------------------------------------------
(* Begin: $onUpdate takes the clock when the statement is built. *)
Begin(p) ==
    /\ writing[p] = None /\ row[p].version < MaxWrites
    /\ writing' = [writing EXCEPT ![p] = now]
    /\ UNCHANGED <<row, member, device, request, now, late>>

(* It may reach the database after an answer was made, or read, that will   *)
(* have a later time, or the time of the same millisecond.                  *)
Commit(p) ==
    /\ writing[p] # None
    /\ row' = [row EXCEPT ![p].version = @ + 1, ![p].stamp = writing[p]]
    /\ writing' = [writing EXCEPT ![p] = None]
    /\ late' = IF writing[p] <= device.cursor THEN late \cup {p} ELSE late \ {p}
    /\ request' = IF request.pc = "answer" THEN [request EXCEPT !.missed = @ \cup {p}] ELSE request
    /\ UNCHANGED <<member, device, now>>

(* A book is removed, restored, or moved to another milestone.  The foreign *)
(* key cascades to the assignments: the update of moveBookToMilestone finds *)
(* none left, and nothing stamps them.                                      *)
Remove(p) ==
    /\ row[p].listed
    /\ row' = [row EXCEPT ![p].listed = FALSE]
    /\ UNCHANGED <<writing, member, device, request, now, late>>
Move(p) ==
    /\ row[p].version < MaxWrites
    /\ row' = [row EXCEPT ![p].version = @ + 1, ![p].listed = TRUE]
    /\ late' = late \cup {p}
    /\ UNCHANGED <<writing, member, device, request, now>>

Join(p) ==
    /\ p \notin member
    /\ member' = member \cup {p}
    /\ UNCHANGED <<row, writing, device, request, now, late>>

-----------------------------------------------------------------------------
Ask(exclude, after) ==
    /\ request.pc = "idle"
    /\ request' = [Idle EXCEPT !.pc = "projects", !.exclude = exclude, !.after = after]
    /\ UNCHANGED <<row, writing, member, device, now, late>>

(* A user all of whose projects are excluded is answered at once. *)
ReadProjects ==
    /\ request.pc = "projects"
    /\ request' = [request EXCEPT !.projects = member \ request.exclude,
                                  !.pc = IF member \subseteq request.exclude THEN "answer" ELSE "rows"]
    /\ UNCHANGED <<row, writing, member, device, now, late>>

(* What is excluded is what the client has: beside the projects it does not *)
(* have, those are asked for what was stamped after the cursor.             *)
Stamped(projects) == {p \in projects : row[p].stamp > request.after}
(* Mutant of Filter: the cursor is applied to the projects that are left.   *)
FilterLeft ==
    IF request.after = None THEN request.projects
    ELSE Stamped(request.projects) \cup (IF request.exclude = {} THEN {} ELSE request.projects)
Filter ==
    IF request.after = None THEN request.projects
    ELSE IF request.exclude = {} THEN Stamped(request.projects)
    ELSE request.projects \cup Stamped(request.exclude)
ReadRows ==
    /\ request.pc = "rows"
    /\ request' = [request EXCEPT !.pc = "answer", !.found = {<<p, row[p].version>> : p \in {q \in Filter : row[q].listed}}]
    /\ UNCHANGED <<row, writing, member, device, now, late>>

(* syncedAt is taken after the stages have been read.  The client's cursor  *)
(* moves if it gave one and was told what is new since then, or asked for   *)
(* everything; it has a project when it has been sent all of it.            *)
Whole == IF request.after = None \/ request.exclude # {} THEN request.projects ELSE {}
Moves == request.projects # {} /\ (request.exclude = {} \/ request.after # None)
Answer ==
    /\ request.pc = "answer"
    /\ device' =
        [copy |-> [p \in Projects |->
            IF \E x \in request.found : x[1] = p THEN (CHOOSE x \in request.found : x[1] = p)[2] ELSE device.copy[p]],
         known |-> device.known \cup Whole,
         cursor |-> IF Moves THEN now ELSE device.cursor]
    /\ late' = IF Moves THEN late \cup request.missed ELSE late
    /\ request' = Idle
    /\ UNCHANGED <<row, writing, member, now>>

Fail ==
    /\ request.pc \in {"projects", "rows", "answer"}
    /\ request' = Idle
    /\ UNCHANGED <<row, writing, member, device, now, late>>

Tick == now < MaxTime /\ now' = now + 1 /\ UNCHANGED <<row, writing, member, device, request, late>>

Init ==
    /\ row = [p \in Projects |-> [version |-> 1, stamp |-> 0, listed |-> TRUE]]
    /\ writing = [p \in Projects |-> None]
    /\ member \in SUBSET Projects
    /\ device = [copy |-> [p \in Projects |-> 0], known |-> {}, cursor |-> 0]
    /\ request = Idle
    /\ now = 1 /\ late = {}

Next ==
    \/ \E p \in Changing : Begin(p) \/ Commit(p) \/ Remove(p) \/ Move(p)
    \/ \E p \in Projects : Join(p)
    \/ \E exclude \in {{}, device.known}, after \in {None, device.cursor} : Ask(exclude, after)
    \/ ReadProjects \/ ReadRows \/ Answer \/ Fail \/ Tick

Spec == Init /\ [][Next]_vars

-----------------------------------------------------------------------------
TypeOK ==
    /\ row \in [Projects -> Row]
    /\ writing \in [Projects -> (0 .. now) \cup {None}]
    /\ member \subseteq Projects /\ device.known \subseteq member /\ device.cursor <= now
    /\ request.pc \in {"idle", "projects", "rows", "answer"}
    /\ late \subseteq Projects

FeedOK == Changing \subseteq Projects /\ MaxTime \in Nat /\ MaxWrites \in Nat /\ None \notin Nat

(* What a client has of a project is as the database has it, or its next    *)
(* answer will tell: the row is stamped after its cursor.  Not so if the    *)
(* change was under way while an answer was made, or was a move or a        *)
(* restoration, which nothing stamps.                                       *)
NothingSkipped ==
    \A p \in device.known \ late :
        row[p].listed => device.copy[p] = row[p].version \/ row[p].stamp > device.cursor
=============================================================================
