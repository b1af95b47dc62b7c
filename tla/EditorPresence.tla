--------------------------- MODULE EditorPresence ---------------------------
(***************************************************************************)
(* Who has the editor of a chapter open.  Clients send a heartbeat while    *)
(* they have, and are told if somebody came before them; a client that goes *)
(* away says so or falls silent.  A registration is a transaction that      *)
(* holds an advisory lock of the chapter until it has committed; the row of *)
(* a user may be removed at any time.                                       *)
(***************************************************************************)
EXTENDS Naturals, FiniteSets

CONSTANTS
    Requests,
    Editors,      \* the ids of the users: naturals
    Stale,        \* STALE_THRESHOLD_MINUTES
    MaxTime, None

VARIABLES
    editor,       \* active_chapter_editors of the chapter: [since, seen, first]
    request,      \* [pc, user, at]
    now           \* of the clocks, which agree

vars == <<editor, request, now>>

Presence == [since : 0 .. now, seen : 0 .. now, first : BOOLEAN]

Present == {u \in Editors : editor[u] # None}
Idle == [pc |-> "idle", user |-> None, at |-> 0]
Locked == \E r \in Requests : request[r].pc = "commit"

Post(r, u) ==
    /\ request[r].pc = "idle"
    /\ request' = [request EXCEPT ![r] = [Idle EXCEPT !.pc = "lock", !.user = u]]
    /\ UNCHANGED <<editor, now>>

(* The clock is read when the lock has been obtained. *)
(* Mutant of Lock: the chapter is not locked.                               *)
LockNothing(r) ==
    /\ request[r].pc = "lock"
    /\ request' = [request EXCEPT ![r].pc = "commit", ![r].at = now]
    /\ UNCHANGED <<editor, now>>
Lock(r) ==
    /\ request[r].pc = "lock" /\ ~Locked
    /\ request' = [request EXCEPT ![r].pc = "commit", ![r].at = now]
    /\ UNCHANGED <<editor, now>>

(* A heartbeat does not change since when the user is there; a row that had *)
(* grown stale has been pruned, the user's own too.                         *)
(* Mutant of Heartbeat: the conflict updates both times.                    *)
HeartbeatAnew(row, t) == [since |-> t, seen |-> t, first |-> FALSE]
Heartbeat(row, t) == IF row = None THEN [since |-> t, seen |-> t, first |-> FALSE] ELSE [row EXCEPT !.seen = t]

(* The oldest registration, of the smallest id if there are several. *)
First(rows) ==
    CHOOSE u \in Editors : rows[u] # None /\ \A w \in Editors \ {u} :
        rows[w] # None =>
            \/ rows[u].since < rows[w].since
            \/ rows[u].since = rows[w].since /\ u < w

(* What is told is kept with the row, for the properties. *)
Commit(r) ==
    /\ request[r].pc = "commit"
    /\ LET u == request[r].user
           kept == [w \in Editors |->
                IF editor[w] # None /\ editor[w].seen + Stale < request[r].at THEN None ELSE editor[w]]
           rows == [kept EXCEPT ![u] = Heartbeat(@, request[r].at)]
       IN editor' = [rows EXCEPT ![u].first = First(rows) = u]
    /\ request' = [request EXCEPT ![r] = Idle]
    /\ UNCHANGED now

(* DELETE; the transaction of a registration may still be about to commit. *)
Leave(u) ==
    /\ u \in Present
    /\ editor' = [editor EXCEPT ![u] = None]
    /\ UNCHANGED <<request, now>>

Tick == now < MaxTime /\ now' = now + 1 /\ UNCHANGED <<editor, request>>

Init ==
    /\ editor = [u \in Editors |-> None]
    /\ request = [r \in Requests |-> Idle]
    /\ now = 0

Next ==
    \/ Tick
    \/ \E u \in Editors : Leave(u)
    \/ \E r \in Requests : Lock(r) \/ Commit(r) \/ \E u \in Editors : Post(r, u)

Spec == Init /\ [][Next]_vars

-----------------------------------------------------------------------------
TypeOK ==
    /\ editor \in [Editors -> Presence \cup {None}]
    /\ request \in [Requests -> [pc : {"idle", "lock", "commit"}, user : Editors \cup {None}, at : 0 .. now]]
    /\ now \in 0 .. MaxTime

(* Ids are numbers, and no row is a row. *)
EditorsOK ==
    /\ Editors \subseteq Nat /\ Stale \in Nat /\ MaxTime \in Nat
    /\ None \notin [since : Nat, seen : Nat, first : BOOLEAN]

(* Of the users that are there, only one was told that nobody came before   *)
(* it: "a near-simultaneous second registration must observe the first's    *)
(* committed row" (presence.repository.ts).  Two of the same millisecond,   *)
(* which the ids put in the other order, are the exception.                 *)
OneFirst ==
    \A u \in Present : \A w \in Present \ {u} :
        editor[u].first /\ editor[w].first => editor[u].since = editor[w].since

(* Who came first learns of nobody else for as long as its heartbeats go    *)
(* on: its row is not removed by those who come after, nor its turn lost.   *)
FirstStays ==
    \A u \in Present : editor[u].first /\ editor'[u] # None /\ ~editor'[u].first
                          /\ editor[u].seen + Stale >= now
        => \E w \in Present : w < u /\ editor[w].since = editor[u].since
=============================================================================
