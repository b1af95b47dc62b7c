---------------------------- MODULE ServerProofs ----------------------------
(***************************************************************************)
(* What MCServer checks on instances of its components that have no module *)
(* of proofs of their own, for any values of their constants.  They know   *)
(* nothing of each other: a theorem is about the specification of one, and *)
(* a name that several of them have is declared once.                      *)
(***************************************************************************)
EXTENDS Naturals, Sequences, FiniteSets, TLAPS, WellFoundedInduction, FiniteSetTheorems

CONSTANTS
    None, Requests, MaxTime,
    Editors, Stale,
    Projects, Changing, MaxWrites,
    Calls, MaxRequests, MaxFaults,
    Devices, Mobile, Member, Life, Threshold, Interval, Expiry, UpdateAge,
    Users, Chapters, Org, Project, Initially,
    Patches,
    Clients, Limit, Window, MaxBuckets,
    Offers, Workflow

VARIABLES
    request, now,
    editor,
    row, writing, member, device, late,
    started, faults,
    session, lastActive,
    grant, account, assignment,
    settings, resources, log,
    buckets, evicted, admitted,
    project

Presence == INSTANCE EditorPresence
Feed == INSTANCE AssignmentFeed
Stay == INSTANCE Sessions
Members == INSTANCE Memberships
Settings == INSTANCE Preferences
Limits == INSTANCE RateLimiter
Access == INSTANCE AccessRules WITH Tables <- Offers

-----------------------------------------------------------------------------
(* The smallest of a set of numbers.                                       *)
LEMMA SmallestOf ==
    ASSUME NEW T, T \subseteq Nat, T # {}
    PROVE  \E x \in T : \A y \in T : x <= y
<1>1. PICK x \in T : \A y \in T : <<y, x>> \notin OpToRel(<, Nat)
    BY NatLessThanWellFounded, WFMin
<1>2. \A y \in T : ~(y < x)
    BY <1>1 DEF OpToRel
<1> QED BY <1>2

-----------------------------------------------------------------------------
(* The editors of a chapter.                                               *)

EditorRow == [since : Nat, seen : Nat, first : BOOLEAN]

(* Who was told to be the first has come before all others that are there,  *)
(* and who registers now, has the time of the lock, after all of them.      *)
FirstIsOldest ==
    \A u, w \in Presence!Present : editor[u].first => editor[u].since <= editor[w].since
LockIsLatest ==
    \A r \in Requests : request[r].pc = "commit" =>
        /\ \A o \in Requests \ {r} : request[o].pc # "commit"
        /\ request[r].at <= now /\ request[r].user \in Editors
        /\ \A u \in Presence!Present : editor[u].since <= request[r].at
EditorsTyped ==
    /\ editor \in [Editors -> EditorRow \cup {None}]
    /\ request \in [Requests -> [pc : {"idle", "lock", "commit"}, user : Editors \cup {None}, at : Nat]]
    /\ now \in 0 .. MaxTime
    /\ \A r \in Requests : request[r].at <= now /\ (request[r].pc # "idle" => request[r].user \in Editors)
    /\ \A u \in Presence!Present : editor[u].since <= now /\ editor[u].seen <= now
PresenceInv == EditorsTyped /\ FirstIsOldest /\ LockIsLatest

(* Somebody came first, the smallest id of those of the same time.         *)
LEMMA FirstIs ==
    ASSUME Presence!EditorsOK, NEW rows \in [Editors -> EditorRow \cup {None}],
           NEW u \in Editors, rows[u] # None
    PROVE  \E x \in Editors :
             /\ x = Presence!First(rows) /\ rows[x] # None
             /\ \A w \in Editors \ {x} : rows[w] # None =>
                    rows[x].since < rows[w].since \/ (rows[x].since = rows[w].since /\ x < w)
<1>1. PICK present : present = {w \in Editors : rows[w] # None}
    OBVIOUS
<1>2. \A w \in present : rows[w] \in EditorRow
    BY <1>1
<1>3. PICK times : times = {rows[w].since : w \in present}
    OBVIOUS
<1>4. times \subseteq Nat /\ times # {}
    BY <1>1, <1>2, <1>3 DEF EditorRow
<1>5. PICK t \in times : \A s \in times : t <= s
    BY <1>4, SmallestOf
<1>6. PICK oldest : oldest = {w \in present : rows[w].since = t}
    OBVIOUS
<1>7. oldest \subseteq Nat /\ oldest # {}
    BY <1>1, <1>3, <1>5, <1>6 DEF Presence!EditorsOK
<1>8. PICK x \in oldest : \A w \in oldest : x <= w
    BY <1>7, SmallestOf
<1>9. ASSUME NEW w \in Editors \ {x}, rows[w] # None
      PROVE  rows[x].since < rows[w].since \/ (rows[x].since = rows[w].since /\ x < w)
  <2>1. w \in present /\ x \in present /\ rows[x].since = t /\ t <= rows[w].since
      BY <1>1, <1>3, <1>5, <1>6, <1>8, <1>9
  <2>2. CASE w \in oldest
    <3>1. x <= w /\ x \in Nat /\ w \in Nat
        BY <1>7, <1>8, <2>2
    <3> QED BY <1>6, <1>9, <2>1, <2>2, <3>1
  <2>3. CASE w \notin oldest
    <3>1. rows[w].since # t /\ rows[w].since \in Nat /\ t \in Nat
        BY <1>2, <1>4, <1>5, <1>6, <2>1, <2>3 DEF EditorRow
    <3> QED BY <2>1, <3>1
  <2> QED BY <2>2, <2>3
<1>10. x \in Editors /\ rows[x] # None
    BY <1>1, <1>6, <1>8
<1> QED BY <1>9, <1>10 DEF Presence!First

(* Before the first request nobody is there.                               *)
LEMMA PresenceStarts ==
    ASSUME Presence!EditorsOK, Presence!Init
    PROVE  PresenceInv
<1>1. Presence!Present = {}
    BY DEF Presence!Init, Presence!Present
<1>2. Presence!Idle \in [pc : {"idle", "lock", "commit"}, user : Editors \cup {None}, at : Nat]
    BY DEF Presence!Idle
<1>3. EditorsTyped
    BY <1>1, <1>2 DEF EditorsTyped, Presence!Init, Presence!EditorsOK, Presence!Idle
<1> QED BY <1>1, <1>3 DEF PresenceInv, FirstIsOldest, LockIsLatest, Presence!Init, Presence!Idle

(* What the commit of a registration makes of the rows: the stale ones go,  *)
(* and the user's own is there.                                            *)
LEMMA Registers ==
    ASSUME Presence!EditorsOK, PresenceInv, NEW r \in Requests, Presence!Commit(r)
    PROVE  \E u \in Editors : \E rows \in [Editors -> EditorRow \cup {None}] :
             /\ u = request[r].user /\ rows[u] # None
             /\ editor' = [rows EXCEPT ![u].first = Presence!First(rows) = u]
             /\ \A w \in Editors \ {u} : rows[w] # None => editor[w] # None /\ rows[w] = editor[w]
             /\ editor[u] # None /\ editor[u].seen + Stale >= request[r].at
                    => rows[u].since = editor[u].since
             /\ rows[u].since <= request[r].at /\ rows[u].seen <= request[r].at
             /\ \A w \in Editors \ {u} : rows[w] # None => rows[w].since <= request[r].at
             /\ rows[u].since = request[r].at \/ (editor[u] # None /\ rows[u].since = editor[u].since)
<1>1. PICK u \in Editors : u = request[r].user
    BY DEF PresenceInv, LockIsLatest, Presence!Commit
<1>2. PICK t \in Nat : t = request[r].at
    BY DEF PresenceInv, EditorsTyped
<1>3. PICK kept \in [Editors -> EditorRow \cup {None}] :
         kept = [w \in Editors |-> IF editor[w] # None /\ editor[w].seen + Stale < t THEN None ELSE editor[w]]
    BY DEF PresenceInv, EditorsTyped
<1>4. PICK own \in EditorRow :
         own = Presence!Heartbeat(kept[u], t)
  <2>1. CASE kept[u] = None
    <3>1. [since |-> t, seen |-> t, first |-> FALSE] \in EditorRow
        BY <1>2 DEF EditorRow
    <3>2. Presence!Heartbeat(kept[u], t) = [since |-> t, seen |-> t, first |-> FALSE]
        BY <2>1 DEF Presence!Heartbeat
    <3> QED BY <3>1, <3>2
  <2>2. CASE kept[u] # None
    <3>1. kept[u] \in EditorRow
        BY <1>1, <1>3, <2>2
    <3> QED BY <1>2, <2>2, <3>1 DEF Presence!Heartbeat, EditorRow
  <2> QED BY <2>1, <2>2
<1>5. PICK rows \in [Editors -> EditorRow \cup {None}] : rows = [kept EXCEPT ![u] = own]
    BY <1>3, <1>4
<1>6. editor' = [rows EXCEPT ![u].first = Presence!First(rows) = u]
    BY ZenonT(60), <1>1, <1>2, <1>3, <1>4, <1>5 DEF Presence!Commit
<1>7. rows[u] = own /\ own # None
    BY <1>4, <1>5 DEF Presence!EditorsOK, EditorRow
<1>8. ASSUME NEW w \in Editors \ {u}, rows[w] # None
      PROVE  w \in Presence!Present /\ rows[w] = editor[w] /\ rows[w].since <= t
  <2>1. rows[w] = kept[w] /\ kept[w] # None
      BY <1>5, <1>8
  <2>2. editor[w] # None /\ rows[w] = editor[w]
      BY <1>3, <2>1
  <2> QED BY <1>2, <2>2 DEF PresenceInv, LockIsLatest, Presence!Present, Presence!Commit
<1>9. /\ own.since = t \/ (editor[u] # None /\ own.since = editor[u].since)
      /\ own.since <= t /\ own.seen <= t
      /\ editor[u] # None /\ editor[u].seen + Stale >= t => own.since = editor[u].since
  <2>1. CASE kept[u] = None
    <3>1. own.since = t /\ own.seen = t
        BY <1>4, <2>1 DEF Presence!Heartbeat
    <3>2. editor[u] # None => editor[u].seen + Stale < t /\ editor[u] \in EditorRow
        BY <1>3, <2>1 DEF PresenceInv, EditorsTyped
    <3> QED BY <1>2, <3>1, <3>2 DEF Presence!EditorsOK, EditorRow
  <2>2. CASE kept[u] # None
    <3>1. kept[u] = editor[u] /\ editor[u] # None /\ kept[u] \in EditorRow
        BY <1>3, <2>2
    <3>2. own.since = editor[u].since /\ own.seen = t
        BY <1>4, <2>2, <3>1 DEF Presence!Heartbeat, EditorRow
    <3>3. editor[u].since <= t
        BY <1>1, <1>2, <3>1 DEF PresenceInv, LockIsLatest, Presence!Present, Presence!Commit
    <3> QED BY <1>2, <3>1, <3>2, <3>3
  <2> QED BY <2>1, <2>2
<1>10. /\ u = request[r].user /\ rows[u] # None
       /\ \A w \in Editors \ {u} : rows[w] # None => editor[w] # None /\ rows[w] = editor[w]
       /\ editor[u] # None /\ editor[u].seen + Stale >= request[r].at => rows[u].since = editor[u].since
       /\ rows[u].since <= request[r].at /\ rows[u].seen <= request[r].at
       /\ \A w \in Editors \ {u} : rows[w] # None => rows[w].since <= request[r].at
       /\ rows[u].since = request[r].at \/ (editor[u] # None /\ rows[u].since = editor[u].since)
    BY <1>1, <1>2, <1>7, <1>8, <1>9 DEF Presence!Present
<1> QED BY <1>6, <1>10

(* An editor enters under the lock.                                        *)
LEMMA CommitKeeps ==
    ASSUME Presence!EditorsOK, PresenceInv, NEW r \in Requests, Presence!Commit(r)
    PROVE  PresenceInv'
<1>1. PICK u \in Editors, rows \in [Editors -> EditorRow \cup {None}] :
         /\ u = request[r].user /\ rows[u] # None
         /\ editor' = [rows EXCEPT ![u].first = Presence!First(rows) = u]
         /\ \A w \in Editors \ {u} : rows[w] # None => editor[w] # None /\ rows[w] = editor[w]
         /\ rows[u].since <= request[r].at /\ rows[u].seen <= request[r].at
         /\ \A w \in Editors \ {u} : rows[w] # None => rows[w].since <= request[r].at
         /\ rows[u].since = request[r].at \/ (editor[u] # None /\ rows[u].since = editor[u].since)
    BY Registers
<1>2. PICK first \in BOOLEAN : first = (Presence!First(rows) = u)
    OBVIOUS
<1>3. PICK own \in EditorRow : own = [rows[u] EXCEPT !.first = first]
  <2>1. rows[u] \in EditorRow
      BY <1>1
  <2> QED BY <2>1 DEF EditorRow
<1>4. /\ own.first = first /\ own.since = rows[u].since /\ own.seen = rows[u].seen /\ own # None
  <2>1. rows[u] \in EditorRow
      BY <1>1
  <2> QED BY <1>3, <2>1 DEF EditorRow, Presence!EditorsOK
<1>5. editor' = [rows EXCEPT ![u] = own]
    BY <1>1, <1>2, <1>3
<1>6. /\ editor' \in [Editors -> EditorRow \cup {None}] /\ editor'[u] = own
      /\ \A w \in Editors \ {u} : editor'[w] = rows[w]
    BY <1>5
<1>7. PICK t \in Nat : t = request[r].at /\ t <= now
    BY DEF PresenceInv, EditorsTyped
<1>8. \A w \in Editors : rows[w] # None => rows[w] \in EditorRow
    OBVIOUS
<1>9. /\ now' = now /\ request' = [request EXCEPT ![r] = Presence!Idle]
      /\ Presence!Idle \in [pc : {"idle", "lock", "commit"}, user : Editors \cup {None}, at : Nat]
      /\ Presence!Idle.pc = "idle" /\ Presence!Idle.at = 0
    BY DEF Presence!Commit, Presence!Idle
<1>10. ASSUME NEW w \in Presence!Present'
       PROVE  /\ w \in Editors /\ editor'[w].since <= t /\ editor'[w].seen <= now
              /\ w # u => w \in Presence!Present /\ editor'[w] = editor[w]
  <2>1. w \in Editors /\ editor'[w] # None
      BY DEF Presence!Present
  <2>2. CASE w = u
      BY <1>1, <1>4, <1>6, <1>7, <1>8, <2>2 DEF EditorRow, PresenceInv, EditorsTyped
  <2>3. CASE w # u
    <3>1. editor[w] # None /\ editor'[w] = editor[w] /\ rows[w].since <= t
        BY <1>1, <1>6, <1>7, <2>1, <2>3
    <3> QED BY <1>6, <2>1, <2>3, <3>1 DEF PresenceInv, EditorsTyped, Presence!Present
  <2> QED BY <2>2, <2>3
<1>11. EditorsTyped'
  <2>1. request' \in [Requests -> [pc : {"idle", "lock", "commit"}, user : Editors \cup {None}, at : Nat]]
      BY <1>9 DEF PresenceInv, EditorsTyped
  <2>2. \A o \in Requests : request'[o].at <= now' /\ (request'[o].pc # "idle" => request'[o].user \in Editors)
      BY <1>9 DEF PresenceInv, EditorsTyped
  <2>3. \A w \in Presence!Present' : editor'[w].since <= now' /\ editor'[w].seen <= now'
    <3>1. ASSUME NEW w \in Presence!Present'
          PROVE  editor'[w].since <= now' /\ editor'[w].seen <= now'
      <4>1. editor'[w] \in EditorRow
          BY <1>6, <1>10 DEF Presence!Present
      <4> QED BY <1>7, <1>9, <1>10, <4>1 DEF EditorRow, PresenceInv, EditorsTyped
    <3> QED BY <3>1
  <2> QED BY <1>6, <1>9, <2>1, <2>2, <2>3 DEF PresenceInv, EditorsTyped
<1>12. FirstIsOldest'
  <2>1. SUFFICES ASSUME NEW v \in Presence!Present', NEW w \in Presence!Present', editor'[v].first
                 PROVE  editor'[v].since <= editor'[w].since
      BY DEF FirstIsOldest
  <2>2. v \in Editors /\ w \in Editors /\ editor'[v] \in EditorRow /\ editor'[w] \in EditorRow
      BY <1>6, <1>10 DEF Presence!Present
  <2>3. CASE v = u
    <3>1. PICK x \in Editors :
             /\ x = Presence!First(rows)
             /\ \A y \in Editors \ {x} : rows[y] # None =>
                    rows[x].since < rows[y].since \/ (rows[x].since = rows[y].since /\ x < y)
        BY <1>1, FirstIs
    <3>2. x = u
        BY <1>2, <1>4, <1>6, <2>1, <2>3, <3>1
    <3>3. CASE w = u
        BY <2>2, <2>3, <3>3 DEF EditorRow
    <3>4. CASE w # u
      <4>1. rows[w] # None /\ rows[w] = editor'[w]
          BY <1>6, <2>1, <2>2, <3>4 DEF Presence!Present
      <4>2. rows[u].since < rows[w].since \/ rows[u].since = rows[w].since
          BY <2>2, <3>1, <3>2, <3>4, <4>1
      <4>3. rows[u].since \in Nat /\ rows[w].since \in Nat
          BY <1>1, <1>8, <2>2, <4>1 DEF EditorRow
      <4> QED BY <1>4, <1>6, <2>3, <4>1, <4>2, <4>3
    <3> QED BY <3>3, <3>4
  <2>4. CASE v # u /\ w # u
      BY <1>10, <2>1, <2>4 DEF PresenceInv, FirstIsOldest
  <2>5. CASE v # u /\ w = u
    <3>1. v \in Presence!Present /\ editor'[v] = editor[v]
        BY <1>10, <2>5
    <3>2. editor[u] # None => editor[v].since <= editor[u].since
        BY <2>1, <3>1 DEF PresenceInv, FirstIsOldest, Presence!Present
    <3>3. editor'[v].since <= t
        BY <1>10
    <3> QED BY <1>1, <1>4, <1>6, <1>7, <2>5, <3>1, <3>2, <3>3
  <2> QED BY <2>3, <2>4, <2>5
<1>13. LockIsLatest'
  <2>1. request[r].pc = "commit"
      BY DEF Presence!Commit
  <2>2. \A o \in Requests : request'[o].pc # "commit"
      BY <1>9, <2>1 DEF PresenceInv, EditorsTyped, LockIsLatest
  <2> QED BY <2>2 DEF LockIsLatest
<1> QED BY <1>11, <1>12, <1>13 DEF PresenceInv

(* The steps of the editors and of the clock.                              *)
LEMMA PresenceStep ==
    ASSUME Presence!EditorsOK, PresenceInv, [Presence!Next]_Presence!vars
    PROVE  PresenceInv'
<1>1. CASE Presence!Tick
  <2>1. UNCHANGED <<editor, request>> /\ now' = now + 1 /\ now' \in 0 .. MaxTime
      BY <1>1 DEF Presence!Tick, Presence!EditorsOK, PresenceInv, EditorsTyped
  <2>2. \A n \in Nat : n <= now => n <= now'
      BY <2>1 DEF PresenceInv, EditorsTyped
  <2>3. \A u \in Presence!Present : editor[u].since \in Nat /\ editor[u].seen \in Nat
      BY DEF PresenceInv, EditorsTyped, Presence!Present, EditorRow
  <2>4. \A r \in Requests : request[r].at \in Nat
      BY DEF PresenceInv, EditorsTyped
  <2>5. EditorsTyped'
      BY <2>1, <2>2, <2>3, <2>4 DEF PresenceInv, EditorsTyped, Presence!Present
  <2>6. FirstIsOldest'
      BY <2>1 DEF PresenceInv, FirstIsOldest, Presence!Present
  <2>7. LockIsLatest'
      BY <2>1, <2>2, <2>4 DEF PresenceInv, LockIsLatest, Presence!Present
  <2> QED BY <2>5, <2>6, <2>7 DEF PresenceInv
<1>2. ASSUME NEW u \in Editors, Presence!Leave(u)
      PROVE  PresenceInv'
  <2>1. /\ UNCHANGED <<request, now>> /\ editor' \in [Editors -> EditorRow \cup {None}]
        /\ \A w \in Presence!Present' : w \in Presence!Present /\ editor'[w] = editor[w]
      BY <1>2 DEF Presence!Leave, Presence!Present, PresenceInv, EditorsTyped
  <2>2. EditorsTyped'
      BY <2>1 DEF PresenceInv, EditorsTyped
  <2>3. FirstIsOldest'
      BY <2>1 DEF PresenceInv, FirstIsOldest
  <2>4. LockIsLatest'
      BY <2>1 DEF PresenceInv, LockIsLatest
  <2> QED BY <2>2, <2>3, <2>4 DEF PresenceInv
<1>3. ASSUME NEW r \in Requests, NEW u \in Editors, Presence!Post(r, u)
      PROVE  PresenceInv'
  <2>1. PICK idle \in [pc : {"idle", "lock", "commit"}, user : Editors \cup {None}, at : Nat] :
           idle = Presence!Idle /\ idle.at = 0
    <3>1. /\ Presence!Idle \in [pc : {"idle", "lock", "commit"}, user : Editors \cup {None}, at : Nat]
          /\ Presence!Idle.at = 0
        BY DEF Presence!Idle
    <3> QED BY <3>1
  <2>2. PICK q \in [pc : {"idle", "lock", "commit"}, user : Editors \cup {None}, at : Nat] :
           /\ q.pc = "lock" /\ q.user = u /\ q.at = 0
           /\ UNCHANGED <<editor, now>> /\ request' = [request EXCEPT ![r] = q]
    <3>1. [idle EXCEPT !.pc = "lock", !.user = u] \in
             [pc : {"idle", "lock", "commit"}, user : Editors \cup {None}, at : Nat]
        OBVIOUS
    <3> QED BY <1>3, <2>1, <3>1 DEF Presence!Post
  <2>3. EditorsTyped' /\ FirstIsOldest'
      BY <2>2 DEF PresenceInv, EditorsTyped, FirstIsOldest, Presence!Present
  <2>4. LockIsLatest'
      BY <2>2 DEF PresenceInv, EditorsTyped, LockIsLatest, Presence!Present
  <2> QED BY <2>3, <2>4 DEF PresenceInv
<1>4. ASSUME NEW r \in Requests, Presence!Lock(r)
      PROVE  PresenceInv'
  <2>1. /\ UNCHANGED <<editor, now>> /\ request[r].pc = "lock" /\ ~Presence!Locked
        /\ request' = [request EXCEPT ![r].pc = "commit", ![r].at = now] /\ now \in Nat
      BY <1>4 DEF Presence!Lock, PresenceInv, EditorsTyped
  <2>2. /\ request' \in [Requests -> [pc : {"idle", "lock", "commit"}, user : Editors \cup {None}, at : Nat]]
        /\ request'[r].pc = "commit" /\ request'[r].at = now /\ request'[r].user = request[r].user
        /\ \A o \in Requests \ {r} : request'[o] = request[o] /\ request[o].pc # "commit"
      BY <2>1 DEF PresenceInv, EditorsTyped, Presence!Locked
  <2>3. EditorsTyped'
    <3>1. request[r].user \in Editors /\ now <= now
        BY <2>1 DEF PresenceInv, EditorsTyped
    <3>2. \A o \in Requests : request'[o].at <= now' /\ (request'[o].pc # "idle" => request'[o].user \in Editors)
        BY <2>1, <2>2, <3>1 DEF PresenceInv, EditorsTyped
    <3> QED BY <2>1, <2>2, <3>2 DEF PresenceInv, EditorsTyped, Presence!Present
  <2>4. LockIsLatest'
    <3>1. request'[r].user \in Editors /\ request'[r].at <= now
        BY <2>1, <2>2 DEF PresenceInv, EditorsTyped
    <3>2. \A w \in Presence!Present : editor[w].since <= request'[r].at
        BY <2>2 DEF PresenceInv, EditorsTyped
    <3> QED BY <2>1, <2>2, <3>1, <3>2 DEF LockIsLatest, Presence!Present
  <2> QED BY <2>1, <2>3, <2>4 DEF PresenceInv, FirstIsOldest, Presence!Present
<1>5. CASE UNCHANGED Presence!vars
    BY <1>5 DEF Presence!vars, PresenceInv, EditorsTyped, FirstIsOldest, LockIsLatest, Presence!Present
<1> QED BY <1>1, <1>2, <1>3, <1>4, <1>5, CommitKeeps DEF Presence!Next

(* Of the editors of a chapter only one was told that nobody came before    *)
(* it, but for two of the same time (presence.repository.ts).              *)
THEOREM OneIsFirst ==
    ASSUME Presence!EditorsOK
    PROVE  Presence!Spec => []Presence!OneFirst
<1>1. Presence!Init => PresenceInv
    BY PresenceStarts
<1>2. PresenceInv /\ [Presence!Next]_Presence!vars => PresenceInv'
    BY PresenceStep
<1>3. PresenceInv => Presence!OneFirst
  <2> SUFFICES ASSUME PresenceInv, NEW u \in Presence!Present, NEW w \in Presence!Present \ {u},
                      editor[u].first, editor[w].first
               PROVE  editor[u].since = editor[w].since
      BY DEF Presence!OneFirst
  <2>1. editor[u].since <= editor[w].since /\ editor[w].since <= editor[u].since
      BY DEF PresenceInv, FirstIsOldest
  <2>2. editor[u].since \in Nat /\ editor[w].since \in Nat
      BY DEF PresenceInv, EditorsTyped, EditorRow, Presence!Present
  <2> QED BY <2>1, <2>2
<1> QED BY <1>1, <1>2, <1>3, PTL DEF Presence!Spec

(* Who came first is told so by each of its heartbeats, as long as none of  *)
(* them is late: nobody takes its row or its turn (presence.repository.ts). *)
THEOREM FirstIsKept ==
    ASSUME Presence!EditorsOK
    PROVE  Presence!Spec => [][Presence!FirstStays]_Presence!vars
<1>1. Presence!Init => PresenceInv
    BY PresenceStarts
<1>2. PresenceInv /\ [Presence!Next]_Presence!vars => PresenceInv'
    BY PresenceStep
<1>3. PresenceInv /\ [Presence!Next]_Presence!vars => [Presence!FirstStays]_Presence!vars
  <2> SUFFICES ASSUME PresenceInv, [Presence!Next]_Presence!vars, NEW u \in Presence!Present,
                      editor[u].first, editor'[u] # None, ~editor'[u].first, editor[u].seen + Stale >= now
               PROVE  \E w \in Presence!Present : w < u /\ editor[w].since = editor[u].since
      BY DEF Presence!FirstStays
  <2>1. ~(UNCHANGED editor)
      OBVIOUS
  <2>2. ASSUME NEW w \in Editors, Presence!Leave(w)
        PROVE  FALSE
      BY <2>2 DEF Presence!Leave, Presence!Present, PresenceInv, EditorsTyped
  <2>3. ASSUME NEW r \in Requests, Presence!Commit(r)
        PROVE  \E w \in Presence!Present : w < u /\ editor[w].since = editor[u].since
    <3>1. PICK v \in Editors, rows \in [Editors -> EditorRow \cup {None}] :
             /\ v = request[r].user /\ rows[v] # None
             /\ editor' = [rows EXCEPT ![v].first = Presence!First(rows) = v]
             /\ \A w \in Editors \ {v} : rows[w] # None => editor[w] # None /\ rows[w] = editor[w]
             /\ editor[v] # None /\ editor[v].seen + Stale >= request[r].at => rows[v].since = editor[v].since
        BY <2>3, Registers, SMTT(60)
    <3>2. u \in Editors /\ editor[u] # None /\ editor[u] \in EditorRow
        BY DEF Presence!Present, PresenceInv, EditorsTyped
    <3>3. u = v
      <4>1. ASSUME u # v
            PROVE  editor'[u] = editor[u]
          BY <3>1, <3>2, <4>1
      <4> QED BY <4>1
    <3>4. rows[u].since = editor[u].since
      <4>1. request[r].at \in Nat /\ request[r].at <= now /\ now \in Nat /\ editor[u].seen + Stale \in Nat
          BY <3>2 DEF PresenceInv, EditorsTyped, Presence!EditorsOK, EditorRow
      <4>2. editor[u].seen + Stale >= request[r].at
          BY <4>1
      <4> QED BY <3>1, <3>2, <3>3, <4>2
    <3>5. PICK x \in Editors :
             /\ x = Presence!First(rows) /\ rows[x] # None
             /\ \A w \in Editors \ {x} : rows[w] # None =>
                    rows[x].since < rows[w].since \/ (rows[x].since = rows[w].since /\ x < w)
        BY <3>1, FirstIs
    <3>6. x # u
      <4>1. rows[u] \in EditorRow
          BY <3>1, <3>3
      <4>2. x = u => editor'[u].first
          BY <3>1, <3>3, <3>5, <4>1 DEF EditorRow
      <4> QED BY <4>2
    <3>7. x \in Presence!Present /\ rows[x] = editor[x] /\ editor[x] \in EditorRow
        BY <3>1, <3>3, <3>5, <3>6 DEF Presence!Present
    <3>8. rows[x].since < rows[u].since \/ (rows[x].since = rows[u].since /\ x < u)
        BY <3>1, <3>2, <3>3, <3>5, <3>6
    <3>9. editor[u].since <= editor[x].since
        BY <3>7 DEF PresenceInv, FirstIsOldest
    <3>10. editor[x].since = editor[u].since /\ x < u
        BY <3>2, <3>4, <3>7, <3>8, <3>9 DEF EditorRow
    <3> QED BY <3>7, <3>10
  <2> QED BY <2>1, <2>2, <2>3
          DEF Presence!Next, Presence!vars, Presence!Tick, Presence!Lock, Presence!Post
<1> QED BY <1>1, <1>2, <1>3, PTL DEF Presence!Spec

-----------------------------------------------------------------------------
(* The assignments of a device.                                            *)

FeedRow == [version : Nat, stamp : Nat, listed : BOOLEAN]
FeedTyped ==
    /\ row \in [Projects -> FeedRow]
    /\ writing \in [Projects -> Nat \cup {None}]
    /\ member \in SUBSET Projects /\ late \in SUBSET Projects /\ now \in Nat
    /\ device \in [copy : [Projects -> Nat], known : SUBSET Projects, cursor : Nat]
    /\ request \in [pc : {"idle", "projects", "rows", "answer"}, exclude : SUBSET Projects,
                    after : Nat \cup {None}, projects : SUBSET Projects,
                    found : SUBSET (Projects \X Nat), missed : SUBSET Projects]
    /\ device.known \subseteq member

(* The rows that an update makes of a row.                                 *)
LEMMA RowStamped ==
    ASSUME NEW x \in FeedRow, NEW v \in Nat, NEW t \in Nat
    PROVE  /\ [x EXCEPT !.version = v, !.stamp = t] \in FeedRow
           /\ [x EXCEPT !.version = v, !.stamp = t].stamp = t
BY DEF FeedRow
(* The same of one that takes the book away or brings it back.              *)
LEMMA RowListed ==
    ASSUME NEW x \in FeedRow, NEW v \in Nat, NEW listed \in BOOLEAN
    PROVE  /\ [x EXCEPT !.version = v, !.listed = listed] \in FeedRow
           /\ [x EXCEPT !.version = v, !.listed = listed].stamp = x.stamp
           /\ [x EXCEPT !.listed = listed] \in FeedRow
           /\ [x EXCEPT !.listed = listed].stamp = x.stamp
           /\ [x EXCEPT !.listed = listed].listed = listed
BY DEF FeedRow

(* A request has been made with what the device still has, and if it leaves *)
(* nothing out, it is about all the device knows.                           *)
Asked ==
    request.pc # "idle" =>
        /\ request.exclude \in {{}, device.known} /\ request.after \in {None, device.cursor}
        /\ request.pc # "answer" => request.missed = {} /\ request.found = {}
        /\ request.pc \in {"rows", "answer"} /\ request.exclude = {} => device.known \subseteq request.projects
        /\ request.pc = "rows" => request.projects # {}
        /\ request.projects \subseteq member
        /\ request.projects = {} => request.found = {}

(* What an answer that is being made has of a project: the row as it is, or *)
(* nothing because the device has it already or will ask again with its     *)
(* old cursor; or the project has changed meanwhile.                        *)
Sent(p) == \E x \in request.found : x[1] = p
Answers ==
    request.pc = "answer" =>
        /\ \A x, y \in request.found : x[1] = y[1] => x = y
        /\ \A p \in request.missed \ late : row[p].stamp > device.cursor
        /\ request.projects # {} =>
              \A p \in (device.known \cup Feed!Whole) \ (late \cup request.missed) :
                 row[p].listed =>
                    \/ <<p, row[p].version>> \in request.found
                    \/ /\ ~Sent(p) /\ p \in device.known
                       /\ device.copy[p] = row[p].version \/ (~Feed!Moves /\ row[p].stamp > device.cursor)
FeedInv == FeedTyped /\ Asked /\ Answers /\ Feed!NothingSkipped

(* Before the first write no device has read anything.                     *)
LEMMA FeedStarts ==
    ASSUME Feed!FeedOK, Feed!Init
    PROVE  FeedInv
<1>1. row \in [Projects -> FeedRow]
    BY DEF Feed!Init, FeedRow
<1>2. device \in [copy : [Projects -> Nat], known : SUBSET Projects, cursor : Nat] /\ device.known = {}
    BY DEF Feed!Init
<1>3. request \in [pc : {"idle", "projects", "rows", "answer"}, exclude : SUBSET Projects,
                   after : Nat \cup {None}, projects : SUBSET Projects,
                   found : SUBSET (Projects \X Nat), missed : SUBSET Projects]
      /\ request.pc = "idle"
    BY DEF Feed!Init, Feed!Idle
<1>4. FeedTyped
    BY <1>1, <1>2, <1>3 DEF Feed!Init, FeedTyped
<1> QED BY <1>2, <1>3, <1>4 DEF FeedInv, Asked, Answers, Feed!NothingSkipped

(* A step of the database that leaves the device and the request alone, but *)
(* for what has been missed.                                                *)
LEMMA CommitsRow ==
    ASSUME Feed!FeedOK, FeedInv, NEW p \in Projects, Feed!Commit(p)
    PROVE  FeedInv'
<1>1. PICK t \in Nat : t = writing[p]
    BY DEF Feed!Commit, FeedInv, FeedTyped
<1>2. /\ row' = [row EXCEPT ![p].version = @ + 1, ![p].stamp = t]
      /\ writing' = [writing EXCEPT ![p] = None]
      /\ late' = IF t <= device.cursor THEN late \cup {p} ELSE late \ {p}
      /\ UNCHANGED <<member, device, now>>
    BY <1>1 DEF Feed!Commit
<1>3. PICK passed \in SUBSET Projects :
         /\ passed = IF request.pc = "answer" THEN request.missed \cup {p} ELSE request.missed
         /\ request' = [request EXCEPT !.missed = passed]
  <2>1. CASE request.pc = "answer"
      BY <2>1 DEF Feed!Commit, FeedInv, FeedTyped
  <2>2. CASE request.pc # "answer"
      BY <2>2 DEF Feed!Commit, FeedInv, FeedTyped
  <2> QED BY <2>1, <2>2
<1>4. /\ request'.pc = request.pc /\ request'.exclude = request.exclude /\ request'.after = request.after
      /\ request'.projects = request.projects /\ request'.found = request.found /\ request'.missed = passed
    BY <1>3 DEF FeedInv, FeedTyped
<1>5. /\ row' \in [Projects -> FeedRow]
      /\ row'[p].stamp = t /\ \A q \in Projects \ {p} : row'[q] = row[q]
  <2>1. PICK x \in FeedRow : x = row[p]
      BY DEF FeedInv, FeedTyped
  <2>2. PICK v \in Nat : v = x.version + 1
      BY DEF FeedRow
  <2>a. /\ [x EXCEPT !.version = v, !.stamp = t] \in FeedRow
        /\ [x EXCEPT !.version = v, !.stamp = t].stamp = t
      BY ZenonT(60), <1>1, RowStamped
  <2>3. PICK y \in FeedRow : y = [x EXCEPT !.version = v, !.stamp = t] /\ y.stamp = t
      BY <2>a
  <2>4. row' = [row EXCEPT ![p] = y]
      BY <1>2, <2>1, <2>2, <2>3
  <2> QED BY <2>3, <2>4 DEF FeedInv, FeedTyped
<1>6. FeedTyped'
    BY <1>2, <1>3, <1>5 DEF FeedInv, FeedTyped
<1>7. Asked'
    BY <1>2, <1>3, <1>4 DEF FeedInv, Asked
<1>8. Feed!Whole' = Feed!Whole /\ Feed!Moves' = Feed!Moves /\ \A q : Sent(q)' <=> Sent(q)
    BY <1>4 DEF Feed!Whole, Feed!Moves, Sent
<1>9. p \notin late' => row'[p].stamp > device.cursor
    BY <1>1, <1>2, <1>5 DEF FeedInv, FeedTyped
<1>10. \A q \in Projects \ {p} : q \in late' <=> q \in late
    BY <1>2
<1>11. Answers'
  <2>1. ASSUME request.pc = "answer", NEW q \in passed \ late'
        PROVE  row'[q].stamp > device.cursor
    <3>1. CASE q = p
        BY <1>9, <2>1, <3>1
    <3>2. CASE q # p
        BY <1>3, <1>5, <1>10, <2>1, <3>2 DEF FeedInv, Answers
    <3> QED BY <3>1, <3>2
  <2>2. ASSUME request.pc = "answer", request.projects # {},
               NEW q \in (device.known \cup Feed!Whole) \ (late' \cup passed), row'[q].listed
        PROVE  \/ <<q, row'[q].version>> \in request.found
               \/ /\ ~Sent(q) /\ q \in device.known
                  /\ device.copy[q] = row'[q].version \/ (~Feed!Moves /\ row'[q].stamp > device.cursor)
    <3>1. q # p /\ q \in Projects
        BY <1>3, <2>2 DEF FeedInv, FeedTyped, Feed!Whole
    <3>2. row'[q] = row[q] /\ q \notin late \cup request.missed
        BY <1>3, <1>5, <1>10, <2>2, <3>1
    <3> QED BY <2>2, <3>2 DEF FeedInv, Answers
  <2>3. device' = device
      BY <1>2
  <2> QED BY <1>4, <1>8, <2>1, <2>2, <2>3 DEF FeedInv, Answers
<1>12. Feed!NothingSkipped'
  <2>1. ASSUME NEW q \in device.known \ late', row'[q].listed
        PROVE  device.copy[q] = row'[q].version \/ row'[q].stamp > device.cursor
    <3>1. CASE q = p
        BY <1>9, <2>1, <3>1
    <3>2. CASE q # p
        BY <1>5, <1>10, <2>1, <3>2 DEF FeedInv, FeedTyped, Feed!NothingSkipped
    <3> QED BY <3>1, <3>2
  <2> QED BY <1>2, <2>1 DEF Feed!NothingSkipped
<1> QED BY <1>6, <1>7, <1>11, <1>12 DEF FeedInv

(* The book of a project is removed, or moved or restored, which nothing    *)
(* stamps: the project is late until it is changed again.                  *)
LEMMA RowMoves ==
    ASSUME Feed!FeedOK, FeedInv, NEW p \in Projects, Feed!Remove(p) \/ Feed!Move(p)
    PROVE  FeedInv'
<1>1. /\ UNCHANGED <<writing, member, device, request, now>>
      /\ row' \in [Projects -> FeedRow]
      /\ late \subseteq late' /\ late' \in SUBSET Projects
      /\ \A q \in Projects : row'[q].stamp = row[q].stamp
      /\ \A q \in Projects \ late' : row'[q].listed => row[q].listed /\ row'[q].version = row[q].version
  <2>1. PICK x \in FeedRow : x = row[p]
      BY DEF FeedInv, FeedTyped
  <2>2. CASE Feed!Remove(p)
    <3>1. PICK y \in FeedRow :
             y = [x EXCEPT !.listed = FALSE] /\ y.stamp = x.stamp /\ y.listed = FALSE
        BY RowListed
    <3>2. row' = [row EXCEPT ![p] = y] /\ UNCHANGED <<writing, member, device, request, now, late>>
        BY <2>1, <2>2, <3>1 DEF Feed!Remove
    <3> QED BY <2>1, <3>1, <3>2 DEF FeedInv, FeedTyped
  <2>3. CASE Feed!Move(p)
    <3>1. PICK y \in FeedRow :
             y = [x EXCEPT !.version = x.version + 1, !.listed = TRUE] /\ y.stamp = x.stamp
      <4>1. PICK v \in Nat : v = x.version + 1
          BY DEF FeedRow
      <4> QED BY <4>1, RowListed
    <3>2. /\ row' = [row EXCEPT ![p] = y] /\ UNCHANGED <<writing, member, device, request, now>>
          /\ late' = late \cup {p}
        BY <2>1, <2>3, <3>1 DEF Feed!Move
    <3> QED BY <2>1, <3>1, <3>2 DEF FeedInv, FeedTyped
  <2> QED BY <2>2, <2>3
<1>2. FeedTyped' /\ Asked'
    BY <1>1 DEF FeedInv, FeedTyped, Asked
<1>3. Feed!Whole' = Feed!Whole /\ Feed!Moves' = Feed!Moves /\ \A q : Sent(q)' <=> Sent(q)
    BY <1>1 DEF Feed!Whole, Feed!Moves, Sent
<1>4. Answers'
  <2>1. ASSUME request.pc = "answer", NEW q \in request.missed \ late'
        PROVE  row'[q].stamp > device.cursor
      BY <1>1, <2>1 DEF FeedInv, FeedTyped, Answers
  <2>2. ASSUME request.pc = "answer", request.projects # {},
               NEW q \in (device.known \cup Feed!Whole) \ (late' \cup request.missed), row'[q].listed
        PROVE  \/ <<q, row'[q].version>> \in request.found
               \/ /\ ~Sent(q) /\ q \in device.known
                  /\ device.copy[q] = row'[q].version \/ (~Feed!Moves /\ row'[q].stamp > device.cursor)
    <3>1. q \in Projects \ late'
        BY <2>2 DEF FeedInv, FeedTyped, Feed!Whole
    <3>2. row[q].listed /\ row'[q].version = row[q].version /\ row'[q].stamp = row[q].stamp /\ q \notin late
        BY <1>1, <2>2, <3>1
    <3> QED BY <2>2, <3>2 DEF FeedInv, Answers
  <2>3. UNCHANGED <<device, request>>
      BY <1>1
  <2> QED BY <1>3, <2>1, <2>2, <2>3 DEF FeedInv, Answers
<1>5. Feed!NothingSkipped'
  <2>1. ASSUME NEW q \in device.known \ late', row'[q].listed
        PROVE  device.copy[q] = row'[q].version \/ row'[q].stamp > device.cursor
    <3>1. q \in Projects \ late' /\ q \notin late
        BY <1>1, <2>1 DEF FeedInv, FeedTyped
    <3>2. row[q].listed /\ row'[q].version = row[q].version /\ row'[q].stamp = row[q].stamp
        BY <1>1, <2>1, <3>1
    <3> QED BY <2>1, <3>1, <3>2 DEF FeedInv, Feed!NothingSkipped
  <2> QED BY <1>1, <2>1 DEF Feed!NothingSkipped
<1> QED BY <1>2, <1>4, <1>5 DEF FeedInv

(* The rows are read.                                                      *)
LEMMA ReadsRows ==
    ASSUME Feed!FeedOK, FeedInv, Feed!ReadRows
    PROVE  FeedInv'
<1>1. PICK filter \in SUBSET Projects : filter = Feed!Filter
    BY DEF Feed!Filter, Feed!Stamped, FeedInv, FeedTyped
<1>2. PICK found \in SUBSET (Projects \X Nat) :
         found = {<<p, row[p].version>> : p \in {q \in filter : row[q].listed}}
  <2>1. \A p \in filter : <<p, row[p].version>> \in Projects \X Nat
      BY DEF FeedInv, FeedTyped, FeedRow
  <2> QED BY <2>1
<1>3. /\ request.pc = "rows" /\ request' = [request EXCEPT !.pc = "answer", !.found = found]
      /\ UNCHANGED <<row, writing, member, device, now, late>>
    BY <1>1, <1>2 DEF Feed!ReadRows
<1>4. /\ request'.pc = "answer" /\ request'.found = found /\ request'.missed = {}
      /\ request'.exclude = request.exclude /\ request'.after = request.after
      /\ request'.projects = request.projects
    BY <1>3 DEF FeedInv, FeedTyped, Asked
<1>5. FeedTyped'
    BY <1>3 DEF FeedInv, FeedTyped
<1>6. /\ request.exclude \in {{}, device.known} /\ request.after \in {None, device.cursor}
      /\ request.exclude = {} => device.known \subseteq request.projects
    BY <1>3 DEF FeedInv, Asked
<1>7. Asked'
    BY <1>3, <1>4, <1>6 DEF FeedInv, Asked
<1>8. Feed!Whole' = Feed!Whole /\ Feed!Moves' = Feed!Moves
    BY <1>4 DEF Feed!Whole, Feed!Moves
<1>9. ASSUME NEW p \in (device.known \cup Feed!Whole) \ late, row[p].listed, request.projects # {}
      PROVE  \/ <<p, row[p].version>> \in found
             \/ /\ ~(\E x \in found : x[1] = p) /\ p \in device.known
                /\ device.copy[p] = row[p].version \/ (~Feed!Moves /\ row[p].stamp > device.cursor)
  <2>1. CASE p \in filter
      BY <1>2, <1>9, <2>1
  <2>2. CASE p \notin filter
    <3>1. ~(\E x \in found : x[1] = p)
        BY <1>2, <2>2
    <3>2. device.cursor \in Nat /\ row[p].stamp \in Nat
        BY <1>9 DEF FeedInv, FeedTyped, FeedRow, Feed!Whole
    <3>3. p \in device.known /\ (Feed!Moves => row[p].stamp <= device.cursor)
      <4>1. CASE request.after = None
          BY <1>1, <1>6, <1>9, <2>2, <4>1 DEF Feed!Filter, Feed!Whole, Feed!Moves
      <4>2. CASE request.after # None /\ request.exclude = {}
        <5>1. request.after = device.cursor /\ p \in request.projects /\ p \in device.known
            BY <1>6, <1>9, <4>2 DEF Feed!Whole
        <5>2. p \notin Feed!Stamped(request.projects)
            BY <1>1, <2>2, <4>2 DEF Feed!Filter
        <5> QED BY <3>2, <5>1, <5>2 DEF Feed!Stamped
      <4>3. CASE request.after # None /\ request.exclude # {}
        <5>1. request.after = device.cursor /\ request.exclude = device.known
            BY <1>6, <4>3
        <5>2. p \notin request.projects /\ p \notin Feed!Stamped(request.exclude)
            BY <1>1, <2>2, <4>3 DEF Feed!Filter
        <5> QED BY <1>9, <3>2, <5>1, <5>2 DEF Feed!Stamped, Feed!Whole
      <4> QED BY <4>1, <4>2, <4>3
    <3>4. device.copy[p] = row[p].version \/ row[p].stamp > device.cursor
        BY <1>9, <3>3 DEF FeedInv, Feed!NothingSkipped
    <3> QED BY <3>1, <3>2, <3>3, <3>4
  <2> QED BY <2>1, <2>2
<1>10. \A x, y \in found : x[1] = y[1] => x = y
    BY <1>2
<1>11. Answers'
    BY <1>3, <1>4, <1>8, <1>9, <1>10 DEF Answers, Sent
<1>12. Feed!NothingSkipped'
    BY <1>3 DEF FeedInv, Feed!NothingSkipped
<1> QED BY <1>5, <1>7, <1>11, <1>12 DEF FeedInv

(* The device gets the answer.                                             *)
LEMMA GetsAnswer ==
    ASSUME Feed!FeedOK, FeedInv, Feed!Answer
    PROVE  FeedInv'
<1>1. PICK found \in SUBSET (Projects \X Nat) : found = request.found
    BY DEF FeedInv, FeedTyped
<1>2. PICK copy \in [Projects -> Nat] :
         copy = [p \in Projects |->
            IF \E x \in found : x[1] = p THEN (CHOOSE x \in found : x[1] = p)[2] ELSE device.copy[p]]
  <2>1. \A p \in Projects : (\E x \in found : x[1] = p) => (CHOOSE x \in found : x[1] = p) \in found
      OBVIOUS
  <2>2. \A p \in Projects : (\E x \in found : x[1] = p) => (CHOOSE x \in found : x[1] = p)[2] \in Nat
      BY <2>1
  <2> QED BY <2>2 DEF FeedInv, FeedTyped
<1>3. PICK cursor \in Nat : cursor = IF Feed!Moves THEN now ELSE device.cursor
    BY DEF FeedInv, FeedTyped
<1>4. PICK known \in SUBSET Projects : known = device.known \cup Feed!Whole
    BY DEF FeedInv, FeedTyped, Feed!Whole
<1>5. /\ request.pc = "answer" /\ request' = Feed!Idle /\ UNCHANGED <<row, writing, member, now>>
      /\ device' = [copy |-> copy, known |-> known, cursor |-> cursor]
      /\ late' = IF Feed!Moves THEN late \cup request.missed ELSE late
    BY <1>1, <1>2, <1>3, <1>4 DEF Feed!Answer
<1>6. /\ device'.copy = copy /\ device'.known = known /\ device'.cursor = cursor
      /\ device' \in [copy : [Projects -> Nat], known : SUBSET Projects, cursor : Nat]
    BY <1>5
<1>7. /\ request' \in [pc : {"idle", "projects", "rows", "answer"}, exclude : SUBSET Projects,
                       after : Nat \cup {None}, projects : SUBSET Projects,
                       found : SUBSET (Projects \X Nat), missed : SUBSET Projects]
      /\ request'.pc = "idle"
    BY <1>5 DEF Feed!Idle
<1>8. Feed!Whole \subseteq member
    BY <1>5 DEF FeedInv, Asked, Feed!Whole
<1>9. FeedTyped'
    BY <1>4, <1>5, <1>6, <1>7, <1>8 DEF FeedInv, FeedTyped
<1>10. Asked' /\ Answers'
    BY <1>7 DEF Asked, Answers
<1>11. Feed!NothingSkipped'
  <2>1. ASSUME NEW p \in known \ late', row[p].listed
        PROVE  copy[p] = row[p].version \/ row[p].stamp > cursor
    <3>1. CASE request.projects = {}
      <4>1. found = {} /\ Feed!Whole = {} /\ ~Feed!Moves
          BY <1>1, <1>5, <3>1 DEF FeedInv, Asked, Feed!Whole, Feed!Moves
      <4>2. copy[p] = device.copy[p] /\ cursor = device.cursor /\ p \in device.known \ late
          BY <1>2, <1>3, <1>4, <1>5, <2>1, <4>1
      <4> QED BY <2>1, <4>2 DEF FeedInv, Feed!NothingSkipped
    <3>2. CASE request.projects # {} /\ p \in request.missed
      <4>1. ~Feed!Moves /\ p \notin late
          BY <1>5, <2>1, <3>2
      <4> QED BY <1>3, <1>5, <3>2, <4>1 DEF FeedInv, Answers
    <3>3. CASE request.projects # {} /\ p \notin request.missed
      <4>1. p \in (device.known \cup Feed!Whole) \ (late \cup request.missed)
          BY <1>4, <1>5, <2>1, <3>3
      <4>2. CASE <<p, row[p].version>> \in found
        <5>1. \A x \in found : x[1] = p => x = <<p, row[p].version>>
            BY <1>1, <1>5, <4>2 DEF FeedInv, Answers
        <5>2. (CHOOSE x \in found : x[1] = p) = <<p, row[p].version>>
            BY <4>2, <5>1
        <5> QED BY <1>2, <4>2, <5>2
      <4>3. CASE <<p, row[p].version>> \notin found
        <5>1. /\ ~Sent(p) /\ p \in device.known
              /\ device.copy[p] = row[p].version \/ (~Feed!Moves /\ row[p].stamp > device.cursor)
            BY <1>1, <1>5, <2>1, <3>3, <4>1, <4>3 DEF FeedInv, Answers
        <5>2. copy[p] = device.copy[p]
            BY <1>1, <1>2, <5>1 DEF Sent
        <5> QED BY <1>3, <5>1, <5>2
      <4> QED BY <4>2, <4>3
    <3> QED BY <3>1, <3>2, <3>3
  <2> QED BY <1>5, <1>6, <2>1 DEF Feed!NothingSkipped
<1> QED BY <1>9, <1>10, <1>11 DEF FeedInv

(* The steps of a request before it has read the rows, and its end.         *)
LEMMA FeedRequests ==
    ASSUME Feed!FeedOK, FeedInv,
           \/ \E exclude \in {{}, device.known}, after \in {None, device.cursor} : Feed!Ask(exclude, after)
           \/ Feed!ReadProjects \/ Feed!Fail
    PROVE  FeedInv'
<1> DEFINE Reading == [pc : {"idle", "projects", "rows", "answer"}, exclude : SUBSET Projects,
                       after : Nat \cup {None}, projects : SUBSET Projects,
                       found : SUBSET (Projects \X Nat), missed : SUBSET Projects]
<1>1. UNCHANGED <<row, writing, member, device, now, late>>
    BY DEF Feed!Ask, Feed!ReadProjects, Feed!Fail
<1>2. request' \in Reading /\ Asked'
  <2>1. PICK idle \in Reading : idle = Feed!Idle /\ idle.pc = "idle" /\ idle.projects = {}
                                /\ idle.found = {} /\ idle.missed = {}
    <3>1. Feed!Idle \in Reading
        BY DEF Feed!Idle
    <3>2. /\ Feed!Idle.pc = "idle" /\ Feed!Idle.projects = {}
          /\ Feed!Idle.found = {} /\ Feed!Idle.missed = {}
        BY DEF Feed!Idle
    <3> QED BY <3>1, <3>2
  <2>2. ASSUME NEW exclude \in {{}, device.known}, NEW after \in {None, device.cursor}, Feed!Ask(exclude, after)
        PROVE  request' \in Reading /\ Asked'
    <3>1. exclude \in SUBSET Projects /\ after \in Nat \cup {None}
        BY DEF FeedInv, FeedTyped
    <3>2. request' = [idle EXCEPT !.pc = "projects", !.exclude = exclude, !.after = after]
        BY <2>1, <2>2 DEF Feed!Ask
    <3>3. /\ request' \in Reading /\ request'.pc = "projects" /\ request'.exclude = exclude
          /\ request'.after = after /\ request'.projects = {} /\ request'.found = {} /\ request'.missed = {}
        BY <2>1, <3>1, <3>2
    <3> QED BY <1>1, <2>2, <3>3 DEF Asked
  <2>3. CASE Feed!ReadProjects
    <3>1. PICK projects \in SUBSET Projects : projects = member \ request.exclude
        BY DEF FeedInv, FeedTyped
    <3>2. PICK pc \in {"rows", "answer"} : pc = IF member \subseteq request.exclude THEN "answer" ELSE "rows"
        OBVIOUS
    <3>3. request' = [request EXCEPT !.projects = projects, !.pc = pc] /\ request.pc = "projects"
        BY <2>3, <3>1, <3>2 DEF Feed!ReadProjects
    <3>4. /\ request' \in Reading /\ request'.pc = pc /\ request'.exclude = request.exclude
          /\ request'.after = request.after /\ request'.projects = projects
          /\ request'.found = request.found /\ request'.missed = request.missed
        BY <3>3 DEF FeedInv, FeedTyped
    <3>5. /\ request.exclude \in {{}, device.known} /\ request.after \in {None, device.cursor}
          /\ request.found = {} /\ request.missed = {} /\ device.known \subseteq member
        BY <3>3 DEF FeedInv, FeedTyped, Asked
    <3> QED BY <1>1, <3>1, <3>2, <3>3, <3>4, <3>5 DEF Asked
  <2>4. CASE Feed!Fail
      BY <2>1, <2>4 DEF Feed!Fail, Asked
  <2> QED BY <2>2, <2>3, <2>4
<1>3. FeedTyped'
    BY <1>1, <1>2 DEF FeedInv, FeedTyped
<1>4. Answers'
  <2>1. SUFFICES ASSUME request'.pc = "answer" PROVE Answers'
      BY DEF Answers
  <2>2. Feed!ReadProjects /\ member \subseteq request.exclude /\ request.pc = "projects"
    <3>1. \A exclude, after : ~Feed!Ask(exclude, after)
      <4>1. ASSUME NEW exclude, NEW after, Feed!Ask(exclude, after)
            PROVE  FALSE
          BY <2>1, <4>1 DEF Feed!Ask, Feed!Idle
      <4> QED BY <4>1
    <3>2. ~Feed!Fail
        BY <2>1 DEF Feed!Fail, Feed!Idle
    <3> QED BY <2>1, <3>1, <3>2 DEF Feed!ReadProjects, FeedInv, FeedTyped
  <2>3. request'.projects = {} /\ request'.found = {} /\ request'.missed = {}
      BY <2>2 DEF Feed!ReadProjects, FeedInv, FeedTyped, Asked
  <2> QED BY <2>3 DEF Answers
<1>5. Feed!NothingSkipped'
    BY <1>1 DEF FeedInv, Feed!NothingSkipped
<1> QED BY <1>2, <1>3, <1>4, <1>5 DEF FeedInv

(* The steps of writers, members and devices.                              *)
LEMMA FeedStep ==
    ASSUME Feed!FeedOK, FeedInv, [Feed!Next]_Feed!vars
    PROVE  FeedInv'
<1>1. ASSUME NEW p \in Changing, Feed!Begin(p)
      PROVE  FeedInv'
  <2>1. /\ UNCHANGED <<row, member, device, request, now, late>> /\ writing' \in [Projects -> Nat \cup {None}]
      BY <1>1 DEF Feed!Begin, FeedInv, FeedTyped
  <2> QED BY <2>1 DEF FeedInv, FeedTyped, Asked, Answers, Sent, Feed!Whole, Feed!Moves, Feed!NothingSkipped
<1>2. ASSUME NEW p \in Projects, Feed!Join(p)
      PROVE  FeedInv'
  <2>1. /\ UNCHANGED <<row, writing, device, request, now, late>> /\ member' \in SUBSET Projects
        /\ member \subseteq member'
      BY <1>2 DEF Feed!Join, FeedInv, FeedTyped
  <2> QED BY <2>1 DEF FeedInv, FeedTyped, Asked, Answers, Sent, Feed!Whole, Feed!Moves, Feed!NothingSkipped
<1>3. CASE Feed!Tick
  <2>1. UNCHANGED <<row, writing, member, device, request, late>> /\ now' \in Nat
      BY <1>3 DEF Feed!Tick, FeedInv, FeedTyped
  <2> QED BY <2>1 DEF FeedInv, FeedTyped, Asked, Answers, Sent, Feed!Whole, Feed!Moves, Feed!NothingSkipped
<1>4. CASE UNCHANGED Feed!vars
    BY <1>4 DEF Feed!vars, FeedInv, FeedTyped, Asked, Answers, Sent, Feed!Whole, Feed!Moves, Feed!NothingSkipped
<1> QED BY <1>1, <1>2, <1>3, <1>4, CommitsRow, RowMoves, ReadsRows, GetsAnswer, FeedRequests
        DEF Feed!Next, Feed!FeedOK

(* A device misses no change of the projects it has, whatever its requests  *)
(* leave out and whatever commits while they are answered: only what was    *)
(* under way in that moment, and what nothing stamps                        *)
(* (chapter-assignments.repository.ts).                                    *)
THEOREM FeedSkipsNothing ==
    ASSUME Feed!FeedOK
    PROVE  Feed!Spec => []Feed!NothingSkipped
<1>1. Feed!Init => FeedInv
    BY FeedStarts
<1>2. FeedInv /\ [Feed!Next]_Feed!vars => FeedInv'
    BY FeedStep
<1>3. FeedInv => Feed!NothingSkipped
    BY DEF FeedInv
<1> QED BY <1>1, <1>2, <1>3, PTL DEF Feed!Spec

-----------------------------------------------------------------------------
(* The sessions of a user's devices.                                       *)

SessionRow == [mobile : BOOLEAN, expires : Nat, updated : Nat, used : Nat,
               active : Member \cup {None}, away : BOOLEAN]
DeviceCall == [pc : {"idle", "hook", "check", "roll", "session", "user", "session2", "adopt", "handle"},
               device : Devices \cup {None}, active : Member \cup {None}, last : Member \cup {None},
               org : {call[2] : call \in Calls} \cup {None}, had : Member \cup {None}]
SessionsTyped ==
    /\ session \in [Devices -> SessionRow \cup {None}]
    /\ request \in [Requests -> DeviceCall]
    /\ lastActive \in Member \cup {None} /\ now \in Nat
    /\ \A r \in Requests : request[r].pc # "idle" => request[r].device \in Devices

(* A mobile session that did not come back late has what it was given last, *)
(* and enough for the longest absence after its last use; a request that is *)
(* past the check has seen to it.                                          *)
LongEnough(d, own) ==
    /\ d \in Mobile /\ own.used <= now
    /\ own.away \/ (own.expires = own.updated + Life /\ own.used + Threshold <= own.expires)
Fresh(own) == own.updated = now /\ own.used = now
Past(x) == x.pc \in {"session", "user", "session2", "adopt", "handle"}
IsMobile(own) == own # None /\ own.mobile
Ample(own) == own.away \/ now + Threshold <= own.expires
Lasts ==
    /\ \A d \in Devices : IsMobile(session[d]) => LongEnough(d, session[d])
    /\ \A r \in Requests, d \in Devices : request[r].device = d =>
          /\ request[r].pc = "hook" => d \in Mobile /\ session[d] # None /\ Fresh(session[d])
          /\ Past(request[r]) /\ IsMobile(session[d]) => Ample(session[d])

(* A request that set out with an organization is not about to adopt one.   *)
Puts(x) == x.active = None /\ (x.pc = "user" \/ (x.pc = "adopt" /\ x.last # None))
Bound(x, own) == x.pc # "idle" /\ x.had # None => own = None \/ (own.active # None /\ ~Puts(x))
Decided ==
    \A r \in Requests, d \in Devices : request[r].device = d => Bound(request[r], session[d])
SessionsInv == SessionsTyped /\ Lasts /\ Decided

(* The shapes of the rows, and that the absence is below the threshold.     *)
LEMMA SessionShapes ==
    ASSUME Stay!SessionsOK
    PROVE  /\ None \notin SessionRow /\ None \notin Devices /\ None \notin Member /\ Mobile \subseteq Devices
           /\ Life \in Nat /\ Threshold \in Nat /\ Interval \in Nat /\ Expiry \in Nat /\ UpdateAge \in Nat
           /\ Threshold + Interval <= Life /\ Threshold <= Life
           /\ Stay!Absence \in Nat /\ Stay!Absence < Threshold
           /\ Stay!Absence + Expiry < Threshold + UpdateAge
           /\ Stay!Idle \in DeviceCall /\ Stay!Idle.pc = "idle"
           /\ \A call \in Calls : call[1] \in Devices
<1>1. /\ Life \in Nat /\ Threshold \in Nat /\ Interval \in Nat /\ Expiry \in Nat /\ UpdateAge \in Nat
      /\ Threshold + Interval <= Life /\ Expiry < Threshold + UpdateAge /\ UpdateAge <= Expiry
    BY DEF Stay!SessionsOK
<1>2. /\ Stay!Absence \in Nat /\ Stay!Absence < Threshold
      /\ Stay!Absence + Expiry < Threshold + UpdateAge /\ Threshold <= Life
    BY <1>1 DEF Stay!Absence
<1>3. Stay!Idle \in DeviceCall /\ Stay!Idle.pc = "idle"
    BY DEF Stay!Idle, DeviceCall
<1>4. /\ None \notin SessionRow /\ None \notin Devices /\ None \notin Member /\ Mobile \subseteq Devices
      /\ \A call \in Calls : call[1] \in Devices
    BY DEF Stay!SessionsOK, SessionRow
<1> QED BY <1>1, <1>2, <1>3, <1>4

(* No device has a session at first.                                       *)
LEMMA SessionsStart ==
    ASSUME Stay!SessionsOK, Stay!Init
    PROVE  SessionsInv
<1>1. PICK idle \in DeviceCall : idle = Stay!Idle /\ idle.pc = "idle"
    BY SessionShapes
<1>2. /\ request \in [Requests -> DeviceCall] /\ \A r \in Requests : request[r].pc = "idle"
      /\ session \in [Devices -> {None}] /\ now = 0 /\ lastActive \in Member \cup {None}
    BY <1>1 DEF Stay!Init
<1> QED BY <1>2 DEF SessionsInv, SessionsTyped, Lasts, Decided, IsMobile, Past, Bound

(* A row that a request wrote as it was, where its days are concerned.      *)
Follows(own, old) == IsMobile(old) /\ own.expires = old.expires /\ (old.away => own.away)

(* A request goes on, and writes a row of its device or leaves it.          *)
LEMMA RowWritten ==
    ASSUME Stay!SessionsOK, SessionsInv, NEW r \in Requests, NEW d \in Devices,
           NEW x \in DeviceCall, NEW s \in SessionRow \cup {None},
           request' = [request EXCEPT ![r] = x], session' = [session EXCEPT ![d] = s],
           now' = now, lastActive' \in Member \cup {None},
           x.pc = "idle" \/ x.device = d,
           IsMobile(s) => LongEnough(d, s) /\ (Ample(s) \/ Follows(s, session[d])),
           \A q \in Requests \ {r} : request[q].pc = "hook" /\ request[q].device = d => s # None /\ Fresh(s),
           x.pc = "hook" => d \in Mobile /\ s # None /\ Fresh(s),
           Past(x) /\ IsMobile(s) => Ample(s),
           Bound(x, s),
           \A q \in Requests \ {r} : request[q].device = d => Bound(request[q], s)
    PROVE  SessionsInv'
<1>1. /\ request' \in [Requests -> DeviceCall] /\ request'[r] = x
      /\ \A q \in Requests \ {r} : request'[q] = request[q]
    BY DEF SessionsInv, SessionsTyped
<1>2. /\ session' \in [Devices -> SessionRow \cup {None}] /\ session'[d] = s
      /\ \A e \in Devices \ {d} : session'[e] = session[e]
    BY DEF SessionsInv, SessionsTyped
<1>3. SessionsTyped'
    BY <1>1, <1>2 DEF SessionsInv, SessionsTyped
<1>4. Lasts'
  <2>1. ASSUME NEW e \in Devices, IsMobile(session'[e])
        PROVE  LongEnough(e, session'[e])
      BY <1>2, <2>1 DEF SessionsInv, Lasts
  <2>2. \A e \in Devices : LongEnough(e, session'[e]) => LongEnough(e, session[e])'
      BY DEF LongEnough
  <2>3. \A e \in Devices : IsMobile(session[e])' <=> IsMobile(session'[e])
      BY DEF IsMobile
  <2>4. \A e \in Devices : Fresh(session[e])' <=> Fresh(session'[e])
      BY DEF Fresh
  <2>5. \A q \in Requests : Past(request[q])' <=> Past(request'[q])
      BY DEF Past
  <2>6. ASSUME NEW q \in Requests, NEW e \in Devices, request'[q].device = e
        PROVE  /\ request'[q].pc = "hook" => e \in Mobile /\ session'[e] # None /\ Fresh(session'[e])
               /\ Past(request'[q]) /\ IsMobile(session'[e]) => Ample(session'[e])
    <3>1. CASE q = r
        BY <1>1, <1>2, <2>6, <3>1 DEF Past
    <3>2. CASE q # r /\ e = d
        BY <1>1, <1>2, <2>6, <3>2 DEF SessionsInv, Lasts, Follows, Ample
    <3>3. CASE q # r /\ e # d
        BY <1>1, <1>2, <2>6, <3>3 DEF SessionsInv, Lasts
    <3> QED BY <3>1, <3>2, <3>3
  <2>7. \A e \in Devices : Ample(session[e])' <=> Ample(session'[e])
      BY DEF Ample
  <2> QED BY <2>1, <2>2, <2>3, <2>4, <2>5, <2>6, <2>7 DEF Lasts
<1>5. Decided'
  <2>1. ASSUME NEW q \in Requests, NEW e \in Devices, request'[q].device = e
        PROVE  Bound(request'[q], session'[e])
    <3>1. CASE q = r
        BY <1>1, <1>2, <2>1, <3>1 DEF Bound
    <3>2. CASE q # r /\ e = d
        BY <1>1, <1>2, <2>1, <3>2
    <3>3. CASE q # r /\ e # d
        BY <1>1, <1>2, <2>1, <3>3 DEF SessionsInv, Decided
    <3> QED BY <3>1, <3>2, <3>3
  <2>2. \A q \in Requests, e \in Devices : Bound(request[q], session[e])' <=> Bound(request'[q], session'[e])
      BY DEF Bound, Puts
  <2> QED BY <2>1, <2>2 DEF Decided
<1> QED BY <1>3, <1>4, <1>5 DEF SessionsInv

(* A request goes on with the row as it is.                                *)
LEMMA RowLeft ==
    ASSUME Stay!SessionsOK, SessionsInv, NEW r \in Requests, NEW x \in DeviceCall,
           request' = [request EXCEPT ![r] = x], session' = session, now' = now,
           lastActive' = lastActive,
           x.pc = "idle" \/ (x.pc # "hook" /\ x.device \in Devices),
           Past(x) /\ IsMobile(session[x.device]) =>
               \/ Past(request[r]) /\ request[r].device = x.device
               \/ Ample(session[x.device]),
           Bound(x, session[x.device])
    PROVE  SessionsInv'
<1>1. lastActive' \in Member \cup {None}
    BY DEF SessionsInv, SessionsTyped
<1>2. CASE x.device \in Devices
  <2>1. PICK d \in Devices : d = x.device
      BY <1>2
  <2>2. PICK s \in SessionRow \cup {None} : s = session[d]
      BY DEF SessionsInv, SessionsTyped
  <2>3. session' = [session EXCEPT ![d] = s]
      BY <2>2 DEF SessionsInv, SessionsTyped
  <2>4. IsMobile(s) => LongEnough(d, s)
      BY <2>2 DEF SessionsInv, Lasts
  <2>5. \A q \in Requests \ {r} : request[q].pc = "hook" /\ request[q].device = d => s # None /\ Fresh(s)
      BY <2>2 DEF SessionsInv, Lasts
  <2>6. Past(x) /\ IsMobile(s) => Ample(s)
      BY <2>1, <2>2 DEF SessionsInv, Lasts
  <2>7. /\ Bound(x, s)
        /\ \A q \in Requests \ {r} : request[q].device = d => Bound(request[q], s)
      BY <2>1, <2>2 DEF SessionsInv, Decided
  <2>8. x.pc = "idle" \/ (x.device = d /\ x.pc # "hook")
      BY <2>1
  <2>9. IsMobile(s) => LongEnough(d, s) /\ (Ample(s) \/ Follows(s, session[d]))
      BY <2>2, <2>4 DEF Follows
  <2>10. (x.pc = "idle" \/ x.device = d) /\ (x.pc = "hook" => d \in Mobile /\ s # None /\ Fresh(s))
      BY <2>8
  <2> QED BY <1>1, <2>3, <2>5, <2>6, <2>7, <2>9, <2>10, RowWritten
<1>3. CASE x.device \notin Devices
  <2>1. x.pc = "idle"
      BY <1>3
  <2>2. /\ request' \in [Requests -> DeviceCall] /\ request'[r] = x
        /\ \A q \in Requests \ {r} : request'[q] = request[q]
      BY DEF SessionsInv, SessionsTyped
  <2>3. SessionsTyped'
      BY <1>1, <2>1, <2>2 DEF SessionsInv, SessionsTyped
  <2>4. Lasts'
      BY <2>1, <2>2 DEF SessionsInv, Lasts, IsMobile, LongEnough, Fresh, Past, Ample
  <2>5. Decided'
      BY <2>1, <2>2 DEF SessionsInv, Decided, Bound, Puts
  <2> QED BY <2>3, <2>4, <2>5 DEF SessionsInv
<1> QED BY <1>2, <1>3

(* A request ends and leaves the row.                                      *)
LEMMA RequestEnds ==
    ASSUME Stay!SessionsOK, SessionsInv, NEW r \in Requests, Stay!Ends(r), session' = session,
           now' = now, lastActive' = lastActive
    PROVE  SessionsInv'
<1>1. PICK x \in DeviceCall : x = Stay!Idle /\ x.pc = "idle"
    BY SessionShapes
<1>2. request' = [request EXCEPT ![r] = x]
    BY <1>1 DEF Stay!Ends
<1>3. ~Past(x) /\ Bound(x, session[x.device])
    BY <1>1 DEF Past, Bound
<1> QED BY <1>1, <1>2, <1>3, RowLeft

(* Signing in, with what follows for a mobile device.                      *)
LEMMA SignsIn ==
    ASSUME Stay!SessionsOK, SessionsInv, NEW r \in Requests, NEW d \in Devices, Stay!SignIn(r, d)
    PROVE  SessionsInv'
<1>1. now \in Nat /\ Expiry \in Nat /\ lastActive \in Member \cup {None}
    BY SessionShapes DEF SessionsInv, SessionsTyped
<1>a. Stay!Made \in SessionRow /\ ~Stay!Made.mobile /\ Fresh(Stay!Made)
    BY <1>1 DEF Stay!Made, SessionRow, Fresh
<1>2. PICK s \in SessionRow : s = Stay!Made /\ ~s.mobile /\ Fresh(s) /\ s # None
    BY <1>a, SessionShapes
<1>3. session' = [session EXCEPT ![d] = s] /\ now' = now /\ lastActive' = lastActive
    BY <1>2 DEF Stay!SignIn
<1>4. ~IsMobile(s)
    BY <1>2 DEF IsMobile
<1>b. \A q \in Requests \ {r} : request[q].device = d => Bound(request[q], s)
    BY DEF Stay!SignIn, Stay!At, Bound
<1>5. PICK idle \in DeviceCall : idle = Stay!Idle /\ idle.pc = "idle" /\ idle.had = None
    BY SessionShapes DEF Stay!Idle
<1>6. CASE d \in Mobile
  <2>a. /\ [idle EXCEPT !.pc = "hook", !.device = d] \in DeviceCall
        /\ [idle EXCEPT !.pc = "hook", !.device = d].pc = "hook"
        /\ [idle EXCEPT !.pc = "hook", !.device = d].device = d
        /\ [idle EXCEPT !.pc = "hook", !.device = d].had = idle.had
      BY DEF DeviceCall
  <2>1. PICK x \in DeviceCall : /\ x = [idle EXCEPT !.pc = "hook", !.device = d]
                                /\ x.pc = "hook" /\ x.device = d /\ x.had = None
      BY <1>5, <2>a
  <2>2. request' = [request EXCEPT ![r] = x]
      BY <1>5, <1>6, <2>1 DEF Stay!SignIn
  <2>3. ~Past(x) /\ Bound(x, s)
      BY <2>1 DEF Past, Bound
  <2>4. /\ lastActive' \in Member \cup {None} /\ s \in SessionRow \cup {None}
        /\ IsMobile(s) => LongEnough(d, s) /\ (Ample(s) \/ Follows(s, session[d]))
        /\ Past(x) /\ IsMobile(s) => Ample(s)
      BY <1>1, <1>3, <1>4
  <2>5. /\ \A q \in Requests \ {r} : request[q].pc = "hook" /\ request[q].device = d => s # None /\ Fresh(s)
        /\ x.pc = "hook" => d \in Mobile /\ s # None /\ Fresh(s)
      BY <1>2, <1>6
  <2>6. x.pc = "idle" \/ x.device = d
      BY <2>1
  <2> QED BY ZenonT(60), <1>3, <1>b, <2>2, <2>3, <2>4, <2>5, <2>6, RowWritten
<1>7. CASE d \notin Mobile
  <2>1. request' = [request EXCEPT ![r] = idle]
      BY <1>5, <1>7 DEF Stay!SignIn, Stay!Ends
  <2>2. ~Past(idle) /\ Bound(idle, s)
      BY <1>5 DEF Past, Bound
  <2>3. /\ lastActive' \in Member \cup {None} /\ s \in SessionRow \cup {None}
        /\ IsMobile(s) => LongEnough(d, s) /\ (Ample(s) \/ Follows(s, session[d]))
        /\ Past(idle) /\ IsMobile(s) => Ample(s)
      BY <1>1, <1>3, <1>4
  <2>4. /\ \A q \in Requests \ {r} : request[q].pc = "hook" /\ request[q].device = d => s # None /\ Fresh(s)
        /\ idle.pc = "hook" => d \in Mobile /\ s # None /\ Fresh(s)
      BY <1>2, <1>5
  <2>5. idle.pc = "idle" \/ idle.device = d
      BY <1>5
  <2> QED BY ZenonT(60), <1>3, <1>b, <2>1, <2>2, <2>3, <2>4, <2>5, RowWritten
<1> QED BY <1>6, <1>7

(* What a request that is under way is about.                              *)
LEMMA UnderWay ==
    ASSUME Stay!SessionsOK, SessionsInv, NEW r \in Requests, request[r].pc # "idle"
    PROVE  \E old \in DeviceCall, d \in Devices, s \in SessionRow \cup {None} :
              /\ old = request[r] /\ d = old.device /\ s = session[d] /\ Stay!Of(r) = s
              /\ IsMobile(s) => LongEnough(d, s)
              /\ \A q \in Requests : request[q].pc = "hook" /\ request[q].device = d => s # None /\ Fresh(s)
              /\ Past(old) /\ IsMobile(s) => Ample(s)
              /\ old.pc = "hook" => d \in Mobile
              /\ \A q \in Requests : request[q].device = d => Bound(request[q], s)
<1>1. PICK old \in DeviceCall, d \in Devices : old = request[r] /\ d = old.device
    BY DEF SessionsInv, SessionsTyped
<1>2. PICK s \in SessionRow \cup {None} : s = session[d]
    BY DEF SessionsInv, SessionsTyped
<1>3. Stay!Of(r) = s
    BY <1>1, <1>2 DEF Stay!Of
<1>4. IsMobile(s) => LongEnough(d, s)
    BY <1>2 DEF SessionsInv, Lasts
<1>5. \A q \in Requests : request[q].pc = "hook" /\ request[q].device = d => d \in Mobile /\ s # None /\ Fresh(s)
    BY <1>2 DEF SessionsInv, Lasts
<1>6. Past(old) /\ IsMobile(s) => Ample(s)
    BY <1>1, <1>2 DEF SessionsInv, Lasts
<1>7. \A q \in Requests : request[q].device = d => Bound(request[q], s)
    BY <1>2 DEF SessionsInv, Decided
<1> QED BY <1>1, <1>2, <1>3, <1>4, <1>5, <1>6, <1>7

(* The hook gives a mobile session its days, or fails.                     *)
LEMMA MobileExtended ==
    ASSUME Stay!SessionsOK, SessionsInv, NEW r \in Requests, Stay!ExtendMobile(r)
    PROVE  SessionsInv'
<1>1. request[r].pc = "hook" /\ Stay!Ends(r) /\ now' = now /\ lastActive' = lastActive
    BY DEF Stay!ExtendMobile, Stay!At
<1>2. CASE session' = session
    BY <1>1, <1>2, RequestEnds
<1>3. CASE session' # session
  <2>1. PICK old \in DeviceCall, d \in Devices, s \in SessionRow \cup {None} :
              /\ old = request[r] /\ d = old.device /\ s = session[d] /\ Stay!Of(r) = s
              /\ s # None /\ Fresh(s) /\ d \in Mobile
              /\ \A q \in Requests : request[q].device = d => Bound(request[q], s)
      BY <1>1, UnderWay
  <2>2. PICK days \in Nat : days = now + Life
      BY SessionShapes DEF SessionsInv, SessionsTyped
  <2>a. /\ [s EXCEPT !.mobile = TRUE, !.expires = days] \in SessionRow
        /\ [s EXCEPT !.mobile = TRUE, !.expires = days].expires = days
        /\ [s EXCEPT !.mobile = TRUE, !.expires = days].updated = s.updated
        /\ [s EXCEPT !.mobile = TRUE, !.expires = days].used = s.used
        /\ [s EXCEPT !.mobile = TRUE, !.expires = days].active = s.active
        /\ [s EXCEPT !.mobile = TRUE, !.expires = days].away = s.away
      BY <2>1 DEF SessionRow
  <2>3. PICK y \in SessionRow : /\ y = [s EXCEPT !.mobile = TRUE, !.expires = days]
                                /\ y.expires = days /\ y.updated = s.updated /\ y.used = s.used
                                /\ y.active = s.active
      BY <2>a
  <2>4. session' = [session EXCEPT ![d] = y]
      BY <1>3, <2>1, <2>2, <2>3 DEF Stay!ExtendMobile, Stay!Writes
  <2>5. y # None /\ Fresh(y)
      BY <2>1, <2>3, SessionShapes DEF Fresh
  <2>6. LongEnough(d, y) /\ Ample(y)
    <3>1. y.updated = now /\ y.used = now /\ now \in Nat
        BY <2>5 DEF Fresh, SessionsInv, SessionsTyped
    <3> QED BY <2>1, <2>2, <2>3, <3>1, SessionShapes DEF LongEnough, Ample
  <2>7. PICK x \in DeviceCall : x = Stay!Idle /\ x.pc = "idle"
      BY SessionShapes
  <2>8. request' = [request EXCEPT ![r] = x]
      BY <1>1, <2>7 DEF Stay!Ends
  <2>9. ~Past(x) /\ Bound(x, y)
      BY <2>7 DEF Past, Bound
  <2>10. \A q \in Requests \ {r} : request[q].device = d => Bound(request[q], y)
      BY <2>1, <2>3 DEF Bound
  <2>11. lastActive' \in Member \cup {None}
      BY <1>1 DEF SessionsInv, SessionsTyped
  <2>12. x.pc # "hook"
      BY <2>7
  <2>13. y \in SessionRow \cup {None} /\ now' = now
      BY <1>1, <2>3
  <2>14. \A q \in Requests \ {r} : request[q].pc = "hook" /\ request[q].device = d => y # None /\ Fresh(y)
      BY <2>5
  <2>15. /\ IsMobile(y) => LongEnough(d, y) /\ (Ample(y) \/ Follows(y, session[d]))
         /\ Past(x) /\ IsMobile(y) => Ample(y)
         /\ x.pc = "hook" => d \in Mobile /\ y # None /\ Fresh(y)
      BY <2>6, <2>12
  <2>16. x.pc = "idle" \/ x.device = d
      BY <2>7
  <2> QED BY ZenonT(60), <2>4, <2>8, <2>9, <2>10, <2>11, <2>13, <2>14, <2>15, <2>16, RowWritten
<1> QED BY <1>2, <1>3

(* A request begins.  BetterAuth renews no mobile session: it has more      *)
(* left after the longest absence.                                         *)
LEMMA SessionRead ==
    ASSUME Stay!SessionsOK, SessionsInv, NEW r \in Requests, NEW call \in Calls,
           Stay!GetSession(r, call[1], call[2])
    PROVE  SessionsInv'
<1>1. PICK d \in Devices, s \in SessionRow \cup {None} : d = call[1] /\ s = session[d]
    BY SessionShapes DEF SessionsInv, SessionsTyped
<1>2. now' = now /\ lastActive' = lastActive /\ now \in Nat /\ lastActive' \in Member \cup {None}
    BY DEF Stay!GetSession, SessionsInv, SessionsTyped
<1>3. CASE ~Stay!Alive(d)
  <2>1. Stay!Ends(r) /\ session' = session
      BY <1>1, <1>3 DEF Stay!GetSession
  <2> QED BY <1>2, <2>1, RequestEnds
<1>4. CASE Stay!Alive(d)
  <2>1. s \in SessionRow /\ s # None
      BY <1>1, <1>4, SessionShapes DEF Stay!Alive
  <2>2. PICK days \in Nat : days = now + Expiry
      BY <1>2, SessionShapes
  <2>c. PICK gone \in BOOLEAN : gone = (s.away \/ now > s.used + Stay!Absence)
      BY <2>1 DEF SessionRow
  <2>d. PICK own \in SessionRow : /\ own = [s EXCEPT !.away = gone] /\ own.away = gone
                                  /\ own.expires = s.expires /\ own.updated = s.updated
                                  /\ own.used = s.used /\ own.mobile = s.mobile /\ own.active = s.active
    <3>1. /\ [s EXCEPT !.away = gone] \in SessionRow /\ [s EXCEPT !.away = gone].away = gone
          /\ [s EXCEPT !.away = gone].expires = s.expires /\ [s EXCEPT !.away = gone].updated = s.updated
          /\ [s EXCEPT !.away = gone].used = s.used /\ [s EXCEPT !.away = gone].mobile = s.mobile
          /\ [s EXCEPT !.away = gone].active = s.active
        BY <2>1 DEF SessionRow
    <3> QED BY <3>1
  <2>a. /\ [own EXCEPT !.expires = days, !.updated = now] \in SessionRow
        /\ [own EXCEPT !.expires = days, !.updated = now].updated = now
        /\ [own EXCEPT !.expires = days, !.updated = now].used = s.used
        /\ [own EXCEPT !.expires = days, !.updated = now].mobile = s.mobile
        /\ [own EXCEPT !.expires = days, !.updated = now].active = s.active
        /\ [own EXCEPT !.expires = days, !.updated = now].away = gone
      BY <1>2, <2>d DEF SessionRow
  <2>3. PICK y \in SessionRow : /\ y = IF Stay!Due(s) THEN [own EXCEPT !.expires = days, !.updated = now] ELSE own
                                /\ y.used = s.used /\ y.mobile = s.mobile
                                /\ y.active = s.active /\ y.away = gone
                                /\ (y.expires = s.expires /\ y.updated = s.updated)
                                   \/ (Stay!Due(s) /\ y.updated = now)
    <3>1. CASE Stay!Due(s)
        BY <2>a, <3>1
    <3>2. CASE ~Stay!Due(s)
        BY <2>d, <3>2
    <3> QED BY <3>1, <3>2
  <2>4. PICK pc \in {"check", "session"} : pc = IF now > y.updated + Interval THEN "check" ELSE "session"
    <3>1. CASE now > y.updated + Interval
        BY <3>1
    <3>2. CASE ~(now > y.updated + Interval)
        BY <3>2
    <3> QED BY <3>1, <3>2
  <2>e. PICK had \in Member \cup {None} : had = y.active
      BY DEF SessionRow
  <2>5. /\ session' = [session EXCEPT ![d] = y]
        /\ request' = [request EXCEPT ![r] = [Stay!Idle EXCEPT !.pc = pc, !.device = d, !.org = call[2], !.had = had]]
      BY <1>1, <1>4, <2>2, <2>c, <2>d, <2>3, <2>4, <2>e DEF Stay!GetSession
  <2>6. PICK idle \in DeviceCall : idle = Stay!Idle /\ idle.pc = "idle"
      BY SessionShapes
  <2>b. /\ [idle EXCEPT !.pc = pc, !.device = d, !.org = call[2], !.had = had] \in DeviceCall
        /\ [idle EXCEPT !.pc = pc, !.device = d, !.org = call[2], !.had = had].pc = pc
        /\ [idle EXCEPT !.pc = pc, !.device = d, !.org = call[2], !.had = had].device = d
        /\ [idle EXCEPT !.pc = pc, !.device = d, !.org = call[2], !.had = had].had = had
      BY DEF DeviceCall
  <2>7. PICK x \in DeviceCall : /\ x = [idle EXCEPT !.pc = pc, !.device = d, !.org = call[2], !.had = had]
                                /\ x.pc = pc /\ x.device = d /\ x.had = had
      BY <2>b
  <2>8. request' = [request EXCEPT ![r] = x]
      BY <2>5, <2>6, <2>7
  <2>9. y # None /\ (IsMobile(y) <=> IsMobile(s))
      BY <2>1, <2>3, SessionShapes DEF IsMobile
  <2>10. IsMobile(s) => /\ LongEnough(d, s)
                        /\ ~gone => y.expires = s.expires /\ y.updated = s.updated
    <3>1. ASSUME IsMobile(s)
          PROVE  LongEnough(d, s)
        BY <1>1, <3>1 DEF SessionsInv, Lasts
    <3>2. ASSUME IsMobile(s), ~gone
          PROVE  ~Stay!Due(s)
      <4>1. s.expires \in Nat /\ s.used \in Nat
          BY <2>1 DEF SessionRow
      <4>a. ~s.away /\ ~(now > s.used + Stay!Absence)
          BY <2>c, <3>2
      <4>b. now <= s.used + Stay!Absence
          BY <1>2, <4>a, <4>1, SessionShapes
      <4>2. now <= s.used + Stay!Absence /\ s.used + Threshold <= s.expires
          BY <3>1, <3>2, <4>a, <4>b DEF LongEnough
      <4> QED BY <1>2, <4>1, <4>2, SessionShapes DEF Stay!Due
    <3> QED BY <2>3, <3>1, <3>2
  <2>11. IsMobile(y) => LongEnough(d, y) /\ (Ample(y) \/ Follows(y, session[d]))
    <3>1. ASSUME IsMobile(s)
          PROVE  LongEnough(d, y) /\ (Ample(y) \/ Follows(y, s))
      <4>1. CASE gone
          BY <2>3, <2>10, <3>1, <4>1 DEF LongEnough, Ample
      <4>2. CASE ~gone
          BY <2>3, <2>c, <2>10, <3>1, <4>2 DEF LongEnough, Follows
      <4> QED BY <4>1, <4>2
    <3> QED BY <1>1, <2>9, <3>1
  <2>12. \A q \in Requests \ {r} : request[q].pc = "hook" /\ request[q].device = d => y # None /\ Fresh(y)
    <3>1. ASSUME NEW q \in Requests, request[q].pc = "hook", request[q].device = d
          PROVE  Fresh(s)
        BY <1>1, <3>1 DEF SessionsInv, Lasts
    <3> QED BY <2>3, <2>9, <3>1 DEF Fresh
  <2>13. Past(x) /\ IsMobile(y) => Ample(y)
    <3>1. ASSUME Past(x), IsMobile(y)
          PROVE  Ample(y)
      <4>1. LongEnough(d, y) /\ y.updated \in Nat /\ y.expires \in Nat
          BY <2>11, <3>1 DEF SessionRow
      <4>2. now <= y.updated + Interval
          BY <1>2, <2>4, <2>7, <3>1, <4>1, SessionShapes DEF Past
      <4> QED BY <1>2, <4>1, <4>2, SessionShapes DEF LongEnough, Ample
    <3> QED BY <3>1
  <2>14. /\ Bound(x, y)
         /\ \A q \in Requests \ {r} : request[q].device = d => Bound(request[q], y)
    <3>1. ~Puts(x) /\ x.had = y.active
        BY <2>4, <2>e, <2>7 DEF Puts
    <3>2. \A q \in Requests \ {r} : request[q].device = d => Bound(request[q], s)
        BY <1>1 DEF SessionsInv, Decided
    <3> QED BY <2>1, <2>3, <3>1, <3>2 DEF Bound
  <2>15. (x.pc = "idle" \/ x.device = d) /\ (x.pc = "hook" => d \in Mobile /\ y # None /\ Fresh(y))
      BY <2>7
  <2> QED BY ZenonT(60), <1>2, <2>5, <2>8, <2>11, <2>12, <2>13, <2>14, <2>15, RowWritten
<1> QED BY <1>3, <1>4

(* A request looks whether its session is to be extended.                  *)
LEMMA MobileChecked ==
    ASSUME Stay!SessionsOK, SessionsInv, NEW r \in Requests, Stay!CheckMobile(r)
    PROVE  SessionsInv'
<1>1. request[r].pc = "check" /\ UNCHANGED <<session, lastActive, now, faults>>
    BY DEF Stay!CheckMobile, Stay!At
<1>2. PICK old \in DeviceCall, d \in Devices, s \in SessionRow \cup {None} :
         /\ old = request[r] /\ d = old.device /\ s = session[d] /\ Stay!Of(r) = s
         /\ \A q \in Requests : request[q].device = d => Bound(request[q], s)
    BY <1>1, UnderWay
<1>3. PICK pc \in {"roll", "session"} :
         pc = IF s # None /\ s.mobile /\ s.expires < now + Threshold THEN "roll" ELSE "session"
    OBVIOUS
<1>a. /\ [old EXCEPT !.pc = pc] \in DeviceCall /\ [old EXCEPT !.pc = pc].pc = pc
      /\ [old EXCEPT !.pc = pc].device = d /\ [old EXCEPT !.pc = pc].had = old.had
    BY <1>2 DEF DeviceCall
<1>4. PICK x \in DeviceCall : x = [old EXCEPT !.pc = pc] /\ x.pc = pc /\ x.device = d /\ x.had = old.had
    BY <1>a
<1>5. request' = [request EXCEPT ![r] = x]
    BY <1>2, <1>3, <1>4 DEF Stay!CheckMobile, Stay!Goes
<1>6. Past(x) /\ IsMobile(session[x.device]) => Ample(session[x.device])
  <2>1. ASSUME Past(x), IsMobile(s)
        PROVE  Ample(s)
    <3>1. ~(s.expires < now + Threshold)
        BY <1>3, <1>4, <2>1 DEF Past, IsMobile
    <3>2. s.expires \in Nat /\ now \in Nat
        BY <2>1 DEF IsMobile, SessionRow, SessionsInv, SessionsTyped
    <3> QED BY <3>1, <3>2, SessionShapes DEF Ample
  <2> QED BY <1>2, <1>4, <2>1
<1>7. Bound(x, session[x.device])
    BY <1>1, <1>2, <1>4 DEF Bound, Puts
<1> QED BY <1>1, <1>4, <1>5, <1>6, <1>7, RowLeft

(* It is extended, if it is still there.                                   *)
LEMMA MobileRolled ==
    ASSUME Stay!SessionsOK, SessionsInv, NEW r \in Requests, Stay!Roll(r)
    PROVE  SessionsInv'
<1>1. request[r].pc = "roll" /\ UNCHANGED <<lastActive, now, faults>>
    BY DEF Stay!Roll, Stay!At
<1>2. PICK old \in DeviceCall, d \in Devices, s \in SessionRow \cup {None} :
              /\ old = request[r] /\ d = old.device /\ s = session[d] /\ Stay!Of(r) = s
              /\ IsMobile(s) => LongEnough(d, s)
              /\ \A q \in Requests : request[q].pc = "hook" /\ request[q].device = d => s # None /\ Fresh(s)
              /\ \A q \in Requests : request[q].device = d => Bound(request[q], s)
    BY <1>1, UnderWay
<1>a. /\ [old EXCEPT !.pc = "session"] \in DeviceCall /\ [old EXCEPT !.pc = "session"].pc = "session"
      /\ [old EXCEPT !.pc = "session"].device = d /\ [old EXCEPT !.pc = "session"].had = old.had
    BY <1>2 DEF DeviceCall
<1>3. PICK x \in DeviceCall : x = [old EXCEPT !.pc = "session"] /\ x.pc = "session" /\ x.device = d /\ x.had = old.had
    BY <1>a
<1>4. request' = [request EXCEPT ![r] = x]
    BY <1>2, <1>3 DEF Stay!Roll, Stay!Goes
<1>5. ~Puts(x) /\ Bound(x, s)
    BY <1>1, <1>2, <1>3 DEF Puts, Bound
<1>6. CASE s = None
  <2>1. session' = session
      BY <1>2, <1>6 DEF Stay!Roll, Stay!Writes
  <2>2. ~IsMobile(session[x.device])
      BY <1>2, <1>3, <1>6 DEF IsMobile
  <2> QED BY <1>1, <1>2, <1>3, <1>4, <1>5, <2>1, <2>2, RowLeft
<1>7. CASE s # None
  <2>1. PICK days \in Nat : days = now + Life /\ now \in Nat
      BY SessionShapes DEF SessionsInv, SessionsTyped
  <2>a. /\ [s EXCEPT !.expires = days, !.updated = now, !.away = FALSE] \in SessionRow
        /\ [s EXCEPT !.expires = days, !.updated = now, !.away = FALSE].expires = days
        /\ [s EXCEPT !.expires = days, !.updated = now, !.away = FALSE].updated = now
        /\ [s EXCEPT !.expires = days, !.updated = now, !.away = FALSE].used = s.used
        /\ [s EXCEPT !.expires = days, !.updated = now, !.away = FALSE].mobile = s.mobile
        /\ [s EXCEPT !.expires = days, !.updated = now, !.away = FALSE].active = s.active
        /\ [s EXCEPT !.expires = days, !.updated = now, !.away = FALSE].away = FALSE
      BY <1>7, <2>1 DEF SessionRow
  <2>2. PICK y \in SessionRow : /\ y = [s EXCEPT !.expires = days, !.updated = now, !.away = FALSE]
                                /\ y.expires = days /\ y.updated = now /\ y.used = s.used
                                /\ y.mobile = s.mobile /\ y.active = s.active
      BY <2>a
  <2>3. session' = [session EXCEPT ![d] = y]
      BY <1>2, <1>7, <2>1, <2>2 DEF Stay!Roll, Stay!Writes
  <2>4. y # None /\ (IsMobile(y) <=> IsMobile(s))
      BY <1>7, <2>2, SessionShapes DEF IsMobile
  <2>5. Ample(y)
      BY <2>1, <2>2, SessionShapes DEF Ample
  <2>6. IsMobile(y) => LongEnough(d, y)
    <3>1. ASSUME IsMobile(s)
          PROVE  LongEnough(d, y)
      <4>1. d \in Mobile /\ s.used <= now /\ s.used \in Nat
          BY <1>2, <1>7, <3>1 DEF SessionRow, LongEnough
      <4> QED BY <2>1, <2>2, <4>1, SessionShapes DEF LongEnough
    <3> QED BY <2>4, <3>1
  <2>7. \A q \in Requests \ {r} : request[q].pc = "hook" /\ request[q].device = d => y # None /\ Fresh(y)
      BY <1>2, <2>2, <2>4 DEF Fresh
  <2>8. \A q \in Requests \ {r} : request[q].device = d => Bound(request[q], y)
      BY <1>2, <1>7, <2>2 DEF Bound
  <2>9. lastActive' \in Member \cup {None}
      BY <1>1 DEF SessionsInv, SessionsTyped
  <2>10. x.pc = "idle" \/ x.device = d
      BY <1>3
  <2>11. x.pc = "hook" => d \in Mobile /\ y # None /\ Fresh(y)
      BY <1>3
  <2>12. Bound(x, y)
      BY <1>5, <1>7, <2>2 DEF Bound
  <2>13. now' = now /\ (Past(x) /\ IsMobile(y) => Ample(y))
      BY <1>1, <2>5
  <2>14. IsMobile(y) => LongEnough(d, y) /\ (Ample(y) \/ Follows(y, session[d]))
      BY <2>5, <2>6
  <2> QED BY <1>4, <2>3, <2>7, <2>8, <2>9, <2>10, <2>11, <2>12, <2>13, <2>14, RowWritten
<1> QED BY <1>6, <1>7

(* The session and the user are read.  A request that set out with an       *)
(* organization reads one, if the session is still there.                  *)
LEMMA OrganizationsRead ==
    ASSUME Stay!SessionsOK, SessionsInv, NEW r \in Requests, Stay!ReadSession(r) \/ Stay!ReadUser(r)
    PROVE  SessionsInv'
<1>1. /\ request[r].pc \in {"session", "session2", "user"}
      /\ UNCHANGED <<session, lastActive, now, faults>>
    BY DEF Stay!ReadSession, Stay!ReadUser, Stay!At
<1>2. PICK old \in DeviceCall, d \in Devices, s \in SessionRow \cup {None} :
              /\ old = request[r] /\ d = old.device /\ s = session[d] /\ Stay!Of(r) = s
              /\ \A q \in Requests : request[q].device = d => Bound(request[q], s)
    BY <1>1, UnderWay
<1>3. PICK pc \in {"user", "adopt", "session2"}, active \in Member \cup {None}, last \in Member \cup {None} :
         /\ request' = [request EXCEPT ![r] = [old EXCEPT !.pc = pc, !.active = active, !.last = last]]
         /\ s # None /\ s.active # None =>
               \/ active # None \/ pc = "session2"
               \/ old.pc = "user" /\ pc = "adopt" /\ active = old.active
  <2>1. CASE Stay!ReadSession(r)
    <3>1. PICK pc \in {"user", "adopt"} : pc = IF Stay!At(r, "session") THEN "user" ELSE "adopt"
        OBVIOUS
    <3>2. PICK active \in Member \cup {None} : active = IF s = None THEN None ELSE s.active
        BY DEF SessionRow
    <3>3. PICK last \in Member \cup {None} : last = old.last
        BY DEF DeviceCall
    <3>4. request' = [request EXCEPT ![r].pc = pc, ![r].active = active]
        BY <1>2, <2>1, <3>1, <3>2 DEF Stay!ReadSession
    <3>5. [old EXCEPT !.pc = pc, !.active = active] = [old EXCEPT !.pc = pc, !.active = active, !.last = last]
        BY <3>3 DEF DeviceCall
    <3>6. request' = [request EXCEPT ![r] = [old EXCEPT !.pc = pc, !.active = active]]
        BY <1>2, <3>4 DEF SessionsInv, SessionsTyped
    <3>7. s # None /\ s.active # None => active # None
        BY <1>2, <3>2
    <3> QED BY <3>5, <3>6, <3>7
  <2>2. CASE Stay!ReadUser(r)
    <3>1. PICK pc \in {"session2", "adopt"} : pc = IF Stay!At(r, "session") THEN "session2" ELSE "adopt"
        OBVIOUS
    <3>2. PICK active \in Member \cup {None}, last \in Member \cup {None} : active = old.active /\ last = lastActive
        BY DEF DeviceCall, SessionsInv, SessionsTyped
    <3>4. request' = [request EXCEPT ![r].pc = pc, ![r].last = last]
        BY <2>2, <3>1, <3>2 DEF Stay!ReadUser
    <3>5. [old EXCEPT !.pc = pc, !.last = last] = [old EXCEPT !.pc = pc, !.active = active, !.last = last]
        BY <3>2 DEF DeviceCall
    <3>6. request' = [request EXCEPT ![r] = [old EXCEPT !.pc = pc, !.last = last]]
        BY <1>2, <3>4 DEF SessionsInv, SessionsTyped
    <3>7. pc = "session2" \/ (old.pc = "user" /\ pc = "adopt" /\ active = old.active)
        BY <1>2, <2>2, <3>1, <3>2 DEF Stay!ReadUser, Stay!At
    <3> QED BY <3>5, <3>6, <3>7
  <2> QED BY <2>1, <2>2
<1>a. /\ [old EXCEPT !.pc = pc, !.active = active, !.last = last] \in DeviceCall
      /\ [old EXCEPT !.pc = pc, !.active = active, !.last = last].pc = pc
      /\ [old EXCEPT !.pc = pc, !.active = active, !.last = last].active = active
      /\ [old EXCEPT !.pc = pc, !.active = active, !.last = last].device = d
      /\ [old EXCEPT !.pc = pc, !.active = active, !.last = last].had = old.had
    BY <1>2 DEF DeviceCall
<1>4. PICK x \in DeviceCall : /\ x = [old EXCEPT !.pc = pc, !.active = active, !.last = last]
                              /\ x.pc = pc /\ x.active = active /\ x.device = d /\ x.had = old.had
    BY <1>a
<1>5. request' = [request EXCEPT ![r] = x]
    BY <1>3, <1>4
<1>6. Bound(x, session[x.device])
  <2>1. Bound(old, s) /\ old.pc # "idle"
      BY <1>1, <1>2
  <2>2. ASSUME old.had # None, s # None
        PROVE  s.active # None /\ ~Puts(x)
      BY <1>3, <1>4, <2>1, <2>2 DEF Bound, Puts
  <2> QED BY <1>2, <1>4, <2>2 DEF Bound
<1>7. Past(request[r]) /\ request[r].device = x.device
    BY <1>1, <1>2, <1>4 DEF Past
<1> QED BY <1>1, <1>4, <1>5, <1>6, <1>7, RowLeft

(* A session that has no organization takes the user's.                    *)
LEMMA OrganizationAdopted ==
    ASSUME Stay!SessionsOK, SessionsInv, NEW r \in Requests, Stay!Adopt(r)
    PROVE  SessionsInv'
<1>1. request[r].pc = "adopt" /\ UNCHANGED <<lastActive, now, faults>>
    BY DEF Stay!Adopt, Stay!At
<1>2. PICK old \in DeviceCall, d \in Devices, s \in SessionRow \cup {None} :
              /\ old = request[r] /\ d = old.device /\ s = session[d] /\ Stay!Of(r) = s
              /\ IsMobile(s) => LongEnough(d, s)
              /\ \A q \in Requests : request[q].pc = "hook" /\ request[q].device = d => s # None /\ Fresh(s)
              /\ Past(old) /\ IsMobile(s) => Ample(s)
              /\ \A q \in Requests : request[q].device = d => Bound(request[q], s)
    BY <1>1, UnderWay
<1>3. Past(old)
    BY <1>1, <1>2 DEF Past
<1>4. PICK last \in Member \cup {None}, active \in Member \cup {None} :
         last = old.last /\ active = IF Stay!Adopts(r) THEN last ELSE old.active
  <2>1. old.last \in Member \cup {None} /\ old.active \in Member \cup {None}
      BY DEF DeviceCall
  <2> QED BY <2>1
<1>a. /\ [old EXCEPT !.pc = "handle", !.active = active] \in DeviceCall
      /\ [old EXCEPT !.pc = "handle", !.active = active].pc = "handle"
      /\ [old EXCEPT !.pc = "handle", !.active = active].device = d
      /\ [old EXCEPT !.pc = "handle", !.active = active].had = old.had
    BY <1>2 DEF DeviceCall
<1>5. PICK x \in DeviceCall : /\ x = [old EXCEPT !.pc = "handle", !.active = active]
                              /\ x.pc = "handle" /\ x.device = d /\ x.had = old.had
    BY <1>a
<1>6. request' = [request EXCEPT ![r] = x]
  <2>1. CASE Stay!Adopts(r)
    <3>1. request' = [request EXCEPT ![r].pc = "handle", ![r].active = active]
        BY <1>2, <1>4, <2>1 DEF Stay!Adopt
    <3> QED BY <1>2, <1>5, <3>1 DEF SessionsInv, SessionsTyped
  <2>2. CASE ~Stay!Adopts(r)
    <3>1. request' = [request EXCEPT ![r].pc = "handle"]
        BY <2>2 DEF Stay!Adopt, Stay!Goes
    <3>2. [old EXCEPT !.pc = "handle"] = [old EXCEPT !.pc = "handle", !.active = active]
        BY <1>4, <2>2 DEF DeviceCall
    <3>3. request' = [request EXCEPT ![r] = [old EXCEPT !.pc = "handle"]]
        BY <1>2, <3>1 DEF SessionsInv, SessionsTyped
    <3> QED BY <1>5, <3>2, <3>3
  <2> QED BY <2>1, <2>2
<1>7. ~Puts(x) /\ Bound(x, s)
    BY <1>1, <1>2, <1>5 DEF Puts, Bound
<1>8. CASE session' = session
  <2>1. Past(request[r]) /\ request[r].device = x.device
      BY <1>2, <1>3, <1>5
  <2> QED BY <1>1, <1>2, <1>5, <1>6, <1>7, <1>8, <2>1, RowLeft
<1>9. CASE session' # session
  <2>1. Stay!Adopts(r) /\ s # None
      BY <1>2, <1>9 DEF Stay!Adopt, Stay!Writes
  <2>2. last # None
      BY <1>2, <1>4, <2>1 DEF Stay!Adopts
  <2>a. /\ [s EXCEPT !.active = last] \in SessionRow
        /\ [s EXCEPT !.active = last].expires = s.expires
        /\ [s EXCEPT !.active = last].updated = s.updated
        /\ [s EXCEPT !.active = last].used = s.used
        /\ [s EXCEPT !.active = last].mobile = s.mobile
        /\ [s EXCEPT !.active = last].away = s.away /\ [s EXCEPT !.active = last].active = last
      BY <2>1 DEF SessionRow
  <2>3. PICK y \in SessionRow : /\ y = [s EXCEPT !.active = last]
                                /\ y.expires = s.expires /\ y.updated = s.updated /\ y.used = s.used
                                /\ y.mobile = s.mobile /\ y.away = s.away /\ y.active = last
      BY <2>a
  <2>4. session' = [session EXCEPT ![d] = y]
      BY <1>2, <1>4, <2>1, <2>3 DEF Stay!Adopt, Stay!Writes
  <2>5. y # None /\ (IsMobile(y) <=> IsMobile(s))
      BY <2>1, <2>3, SessionShapes DEF IsMobile
  <2>6. IsMobile(y) => LongEnough(d, y) /\ (Ample(y) \/ Follows(y, session[d]))
      BY <1>2, <2>3, <2>5 DEF LongEnough, Follows
  <2>7. \A q \in Requests \ {r} : request[q].pc = "hook" /\ request[q].device = d => y # None /\ Fresh(y)
      BY <1>2, <2>3, <2>5 DEF Fresh
  <2>8. now' = now /\ (Past(x) /\ IsMobile(y) => Ample(y))
      BY <1>1, <1>2, <1>3, <2>3, <2>5 DEF Ample
  <2>9. lastActive' \in Member \cup {None}
      BY <1>1 DEF SessionsInv, SessionsTyped
  <2>10. x.pc = "idle" \/ x.device = d
      BY <1>5
  <2>11. x.pc = "hook" => d \in Mobile /\ y # None /\ Fresh(y)
      BY <1>5
  <2>12. /\ Bound(x, y)
         /\ \A q \in Requests \ {r} : request[q].device = d => Bound(request[q], y)
      BY <1>2, <1>7, <2>1, <2>2, <2>3 DEF Bound
  <2> QED BY <1>6, <2>4, <2>5, <2>6, <2>7, <2>8, <2>9, <2>10, <2>11, <2>12, RowWritten
<1> QED BY <1>8, <1>9

(* The route itself: the device has used its session, and may have          *)
(* switched.                                                               *)
LEMMA RouteHandled ==
    ASSUME Stay!SessionsOK, SessionsInv, NEW r \in Requests, Stay!Handle(r) \/ Stay!Switch(r)
    PROVE  SessionsInv'
<1>1. request[r].pc = "handle" /\ now' = now /\ Stay!Ends(r)
    BY DEF Stay!Handle, Stay!Switch, Stay!At
<1>2. PICK old \in DeviceCall, d \in Devices, s \in SessionRow \cup {None} :
              /\ old = request[r] /\ d = old.device /\ s = session[d] /\ Stay!Of(r) = s
              /\ IsMobile(s) => LongEnough(d, s)
              /\ \A q \in Requests : request[q].pc = "hook" /\ request[q].device = d => s # None /\ Fresh(s)
              /\ Past(old) /\ IsMobile(s) => Ample(s)
              /\ \A q \in Requests : request[q].device = d => Bound(request[q], s)
    BY <1>1, UnderWay
<1>3. PICK x \in DeviceCall : x = Stay!Idle /\ x.pc = "idle"
    BY SessionShapes
<1>4. request' = [request EXCEPT ![r] = x] /\ ~Past(x) /\ \A own \in SessionRow : Bound(x, own)
    BY <1>1, <1>3 DEF Stay!Ends, Past, Bound
<1>5. lastActive' \in Member \cup {None}
    BY DEF Stay!Handle, Stay!Switch, SessionsInv, SessionsTyped
<1>6. now \in Nat /\ Past(old)
    BY <1>1, <1>2 DEF SessionsInv, SessionsTyped, Past
<1>7. ASSUME NEW y \in SessionRow, s # None, session' = [session EXCEPT ![d] = y], y.mobile = s.mobile,
             y.expires = s.expires, y.updated = s.updated, y.used = now, y.away = s.away,
             s.active # None => y.active # None
      PROVE  SessionsInv'
  <2>1. y # None /\ (IsMobile(y) <=> IsMobile(s))
      BY <1>7, SessionShapes DEF IsMobile
  <2>2. IsMobile(y) => LongEnough(d, y) /\ Ample(y)
    <3>1. ASSUME IsMobile(s)
          PROVE  LongEnough(d, y) /\ Ample(y)
        BY <1>2, <1>6, <1>7, <3>1, SessionShapes DEF LongEnough, Ample
    <3> QED BY <2>1, <3>1
  <2>3. \A q \in Requests \ {r} : request[q].pc = "hook" /\ request[q].device = d => y # None /\ Fresh(y)
      BY <1>2, <1>7, <2>1 DEF Fresh
  <2>4. IsMobile(y) => LongEnough(d, y) /\ (Ample(y) \/ Follows(y, session[d]))
      BY <2>2
  <2>5. x.pc = "hook" => d \in Mobile /\ y # None /\ Fresh(y)
      BY <1>3
  <2>6. \A q \in Requests \ {r} : request[q].device = d => Bound(request[q], y)
      BY <1>2, <1>7 DEF Bound
  <2> QED BY <1>1, <1>3, <1>4, <1>5, <1>7, <2>3, <2>4, <2>5, <2>6, RowWritten
<1>8. CASE s = None /\ Stay!Handle(r)
  <2>1. session' = session /\ lastActive' = lastActive
      BY <1>2, <1>8 DEF Stay!Handle, Stay!Writes
  <2> QED BY <1>1, <2>1, RequestEnds
<1>9. CASE s # None /\ Stay!Handle(r)
  <2>a. /\ [s EXCEPT !.used = now] \in SessionRow
        /\ [s EXCEPT !.used = now].expires = s.expires /\ [s EXCEPT !.used = now].updated = s.updated
        /\ [s EXCEPT !.used = now].used = now /\ [s EXCEPT !.used = now].mobile = s.mobile
        /\ [s EXCEPT !.used = now].active = s.active /\ [s EXCEPT !.used = now].away = s.away
      BY <1>6, <1>9 DEF SessionRow
  <2>1. PICK y \in SessionRow : /\ y = [s EXCEPT !.used = now]
                                /\ y.expires = s.expires /\ y.updated = s.updated /\ y.used = now
                                /\ y.mobile = s.mobile /\ y.active = s.active /\ y.away = s.away
      BY <2>a
  <2>2. session' = [session EXCEPT ![d] = y]
      BY <1>2, <1>9, <2>1 DEF Stay!Handle, Stay!Writes
  <2> QED BY <1>7, <1>9, <2>1, <2>2
<1>10. CASE Stay!Switch(r) /\ session' = session
  <2>1. SessionsTyped'
      BY <1>3, <1>4, <1>1, <1>5, <1>10 DEF SessionsInv, SessionsTyped
  <2>2. \A q \in Requests \ {r} : request'[q] = request[q]
      BY <1>4 DEF SessionsInv, SessionsTyped
  <2>3. request'[r] = x
      BY <1>4 DEF SessionsInv, SessionsTyped
  <2>4. Lasts'
      BY <1>1, <1>3, <1>4, <1>10, <2>2, <2>3 DEF SessionsInv, Lasts, IsMobile, LongEnough, Fresh, Past, Ample
  <2>5. Decided'
      BY <1>3, <1>4, <1>10, <2>2, <2>3 DEF SessionsInv, Decided, Bound, Puts
  <2> QED BY <2>1, <2>4, <2>5 DEF SessionsInv
<1>11. CASE Stay!Switch(r) /\ session' # session
  <2>1. PICK org \in Member : org = old.org /\ org = request[r].org
      BY <1>2, <1>11 DEF Stay!Switch
  <2>2. org # None
      BY <2>1, SessionShapes
  <2>3. s # None
      BY <1>2, <1>11 DEF Stay!Switch, Stay!Writes
  <2>a. /\ [s EXCEPT !.active = org, !.used = now] \in SessionRow
        /\ [s EXCEPT !.active = org, !.used = now].expires = s.expires
        /\ [s EXCEPT !.active = org, !.used = now].updated = s.updated
        /\ [s EXCEPT !.active = org, !.used = now].used = now
        /\ [s EXCEPT !.active = org, !.used = now].mobile = s.mobile
        /\ [s EXCEPT !.active = org, !.used = now].active = org
        /\ [s EXCEPT !.active = org, !.used = now].away = s.away
      BY <1>6, <2>3 DEF SessionRow
  <2>4. PICK y \in SessionRow : /\ y = [s EXCEPT !.active = org, !.used = now]
                                /\ y.expires = s.expires /\ y.updated = s.updated /\ y.used = now
                                /\ y.mobile = s.mobile /\ y.active = org /\ y.away = s.away
      BY <2>a
  <2>5. session' = [session EXCEPT ![d] = y]
      BY <1>2, <1>11, <2>1, <2>3, <2>4 DEF Stay!Switch, Stay!Writes
  <2> QED BY <1>7, <2>2, <2>3, <2>4, <2>5
<1> QED BY <1>8, <1>9, <1>10, <1>11

(* Signing out.                                                            *)
LEMMA SignsOut ==
    ASSUME Stay!SessionsOK, SessionsInv, NEW d \in Devices, Stay!SignOut(d)
    PROVE  SessionsInv'
<1>1. /\ session' \in [Devices -> SessionRow \cup {None}] /\ session'[d] = None
      /\ \A e \in Devices \ {d} : session'[e] = session[e]
      /\ UNCHANGED <<lastActive, request, now, faults>>
    BY DEF Stay!SignOut, SessionsInv, SessionsTyped
<1>2. \A r \in Requests : ~(request[r].pc = "hook" /\ request[r].device = d)
    BY DEF Stay!SignOut, Stay!At
<1>3. SessionsTyped'
    BY <1>1 DEF SessionsInv, SessionsTyped
<1>4. Lasts'
    BY <1>1, <1>2 DEF SessionsInv, Lasts, IsMobile, LongEnough, Fresh, Past, Ample
<1>5. Decided'
    BY <1>1 DEF SessionsInv, Decided, Bound, Puts
<1> QED BY <1>3, <1>4, <1>5 DEF SessionsInv

(* A day passes.                                                           *)
LEMMA DayPasses ==
    ASSUME Stay!SessionsOK, SessionsInv, Stay!Tick
    PROVE  SessionsInv'
<1>1. /\ now' = now + 1 /\ now \in Nat /\ UNCHANGED <<session, lastActive, request, faults>>
      /\ \A r \in Requests : request[r].pc = "idle"
    BY DEF Stay!Tick, Stay!At, SessionsInv, SessionsTyped
<1>2. SessionsTyped'
    BY <1>1 DEF SessionsInv, SessionsTyped
<1>3. ASSUME NEW d \in Devices, IsMobile(session[d])
      PROVE  LongEnough(d, session[d])'
  <2>1. LongEnough(d, session[d]) /\ session[d] \in SessionRow /\ session[d] # None
      BY <1>3 DEF SessionsInv, SessionsTyped, Lasts, IsMobile
  <2>2. session[d].used \in Nat
      BY <2>1 DEF SessionRow
  <2> QED BY <1>1, <2>1, <2>2 DEF LongEnough
<1>4. Lasts'
    BY <1>1, <1>3 DEF Lasts, IsMobile, Past
<1>5. Decided'
    BY <1>1 DEF SessionsInv, Decided, Bound, Puts
<1> QED BY <1>2, <1>4, <1>5 DEF SessionsInv

(* Every step keeps the invariant.                                         *)
LEMMA SessionsStep ==
    ASSUME Stay!SessionsOK, SessionsInv, [Stay!Next]_Stay!vars
    PROVE  SessionsInv'
<1>1. CASE UNCHANGED Stay!vars
  <2>1. SessionsTyped'
      BY <1>1 DEF SessionsInv, SessionsTyped, Stay!vars
  <2>2. Lasts'
      BY <1>1 DEF SessionsInv, Lasts, IsMobile, LongEnough, Fresh, Past, Ample, Stay!vars
  <2>3. Decided'
      BY <1>1 DEF SessionsInv, Decided, Bound, Puts, Stay!vars
  <2> QED BY <2>1, <2>2, <2>3 DEF SessionsInv
<1>2. ASSUME NEW r \in Requests, Stay!Fail(r)
      PROVE  SessionsInv'
    BY <1>2, RequestEnds DEF Stay!Fail
<1> QED BY <1>1, <1>2, SignsIn, SessionRead, MobileExtended, MobileChecked, MobileRolled, OrganizationsRead,
           OrganizationAdopted, RouteHandled, SignsOut, DayPasses DEF Stay!Next

(* A mobile session that is used again within the absence the constants     *)
(* leave is not lost, unless it came back later than that since it was last *)
(* extended (authenticate.ts: it extends a session that has less than 30    *)
(* days left for 60, if the library has not renewed it for 7 before).       *)
THEOREM MobileSessionsStay ==
    ASSUME Stay!SessionsOK
    PROVE  Stay!Spec => []Stay!MobileStays
<1>1. Stay!Init => SessionsInv
    BY SessionsStart
<1>2. SessionsInv /\ [Stay!Next]_Stay!vars => SessionsInv'
    BY SessionsStep
<1>3. ASSUME SessionsInv, NEW d \in Devices, session[d] # None, session[d].mobile,
             ~session[d].away, now <= session[d].used + Stay!Absence
      PROVE  Stay!Alive(d)
  <2>1. LongEnough(d, session[d]) /\ session[d] \in SessionRow /\ now \in Nat
      BY <1>3 DEF SessionsInv, SessionsTyped, Lasts, IsMobile
  <2>2. session[d].used \in Nat /\ session[d].expires \in Nat
      BY <2>1 DEF SessionRow
  <2> QED BY <1>3, <2>1, <2>2, SessionShapes DEF LongEnough, Stay!Alive
<1>4. SessionsInv => Stay!MobileStays
    BY <1>3 DEF Stay!MobileStays
<1> QED BY <1>1, <1>2, <1>4, PTL DEF Stay!Spec

(* A device that works for an organization is moved to another by its own   *)
(* switch only, or by a request that set out when the session had none yet, *)
(* whose adoption is a lost update (authenticate.ts,                        *)
(* users.active-org.route.ts).                                             *)
THEOREM SwitchesHold ==
    ASSUME Stay!SessionsOK
    PROVE  Stay!Spec => [][Stay!SwitchHolds]_Stay!vars
<1>1. Stay!Init => SessionsInv
    BY SessionsStart
<1>2. SessionsInv /\ [Stay!Next]_Stay!vars => SessionsInv'
    BY SessionsStep
<1>3. ASSUME SessionsInv, Stay!Next, NEW d \in Devices, Stay!Alive(d), session'[d] # None,
             session[d].active # None, session'[d].active # session[d].active
      PROVE  \E r \in Requests : /\ request[r].device = d
                                 /\ Stay!Switch(r) \/ (Stay!Adopt(r) /\ request[r].had = None)
  <2>1. /\ session \in [Devices -> SessionRow \cup {None}] /\ session[d] # None
        /\ session[d] \in SessionRow
      BY <1>3 DEF SessionsInv, SessionsTyped, Stay!Alive
  <2>2. ASSUME NEW e \in Devices, Stay!SignOut(e)
        PROVE  FALSE
      BY <1>3, <2>1, <2>2 DEF Stay!SignOut
  <2>3. ASSUME NEW r \in Requests, NEW e \in Devices, Stay!SignIn(r, e)
        PROVE  FALSE
      BY <1>3, <2>1, <2>3 DEF Stay!SignIn
  <2>4. ASSUME NEW r \in Requests, NEW call \in Calls, Stay!GetSession(r, call[1], call[2])
        PROVE  FALSE
    <3>1. CASE session' = session
        BY <1>3, <3>1
    <3>2. CASE call[1] = d /\ session' # session
      <4> DEFINE own == [session[d] EXCEPT !.away = session[d].away \/ now > session[d].used + Stay!Absence]
      <4>1. session'[d] = IF Stay!Due(session[d]) THEN [own EXCEPT !.expires = now + Expiry, !.updated = now] ELSE own
          BY <2>1, <2>4, <3>2 DEF Stay!GetSession
      <4>2. /\ own.active = session[d].active
            /\ [own EXCEPT !.expires = now + Expiry, !.updated = now].active = session[d].active
          BY <2>1 DEF SessionRow
      <4>3. session'[d].active = session[d].active
          BY <4>1, <4>2
      <4> QED BY <1>3, <4>3
    <3>3. CASE call[1] # d /\ session' # session
        BY <1>3, <2>1, <2>4, <3>3, SessionShapes DEF Stay!GetSession
    <3> QED BY <3>1, <3>2, <3>3
  <2>5. ASSUME NEW r \in Requests, NEW own, Stay!Writes(r, own)
        PROVE  \/ session'[d] = session[d]
               \/ request[r].device = d /\ Stay!Of(r) = session[d] /\ session'[d] = own
    <3>1. PICK e : e = request[r].device
        OBVIOUS
    <3>2. session' = IF session[e] = None THEN session ELSE [session EXCEPT ![e] = own]
        BY <2>5, <3>1 DEF Stay!Writes, Stay!Of
    <3>3. CASE e = d
        BY <2>1, <3>1, <3>2, <3>3 DEF Stay!Of
    <3>4. CASE e # d
        BY <2>1, <3>2, <3>4
    <3> QED BY <3>3, <3>4
  <2>6. ASSUME NEW r \in Requests, Stay!ExtendMobile(r) \/ Stay!Roll(r) \/ Stay!Handle(r)
        PROVE  FALSE
    <3>3. session'[d] = session[d] \/ session'[d].active = session[d].active
      <4>1. CASE session' = session
          BY <4>1
      <4>2. CASE Stay!ExtendMobile(r) /\ session' # session
        <5>1. PICK own : own = [Stay!Of(r) EXCEPT !.mobile = TRUE, !.expires = now + Life]
            OBVIOUS
        <5>2. Stay!Writes(r, own)
            BY <5>1, <4>2 DEF Stay!ExtendMobile
        <5>3. session'[d] = session[d] \/ (Stay!Of(r) = session[d] /\ session'[d] = own)
            BY <2>5, <5>2
        <5>4. [session[d] EXCEPT !.mobile = TRUE, !.expires = now + Life].active = session[d].active
            BY <2>1 DEF SessionRow
        <5> QED BY <5>1, <5>3, <5>4
      <4>3. CASE Stay!Roll(r)
        <5>1. PICK own : own = [Stay!Of(r) EXCEPT !.expires = now + Life, !.updated = now, !.away = FALSE]
            OBVIOUS
        <5>2. Stay!Writes(r, own)
            BY <5>1, <4>3 DEF Stay!Roll
        <5>3. session'[d] = session[d] \/ (Stay!Of(r) = session[d] /\ session'[d] = own)
            BY <2>5, <5>2
        <5>4. [session[d] EXCEPT !.expires = now + Life, !.updated = now, !.away = FALSE].active = session[d].active
            BY <2>1 DEF SessionRow
        <5> QED BY <5>1, <5>3, <5>4
      <4>4. CASE Stay!Handle(r)
        <5>1. PICK own : own = [Stay!Of(r) EXCEPT !.used = now]
            OBVIOUS
        <5>2. Stay!Writes(r, own)
            BY <5>1, <4>4 DEF Stay!Handle
        <5>3. session'[d] = session[d] \/ (Stay!Of(r) = session[d] /\ session'[d] = own)
            BY <2>5, <5>2
        <5>4. [session[d] EXCEPT !.used = now].active = session[d].active
            BY <2>1 DEF SessionRow
        <5> QED BY <5>1, <5>3, <5>4
      <4> QED BY <2>6, <4>1, <4>2, <4>3, <4>4
    <3> QED BY <1>3, <3>3
  <2>7. ASSUME NEW r \in Requests, Stay!Adopt(r)
        PROVE  request[r].device = d /\ request[r].had = None
    <3>1. request[r].pc = "adopt" /\ session' # session
        BY <1>3, <2>7 DEF Stay!Adopt, Stay!At
    <3>2. Stay!Adopts(r) /\ request[r].device = d
        BY <1>3, <2>5, <2>7, <3>1 DEF Stay!Adopt
    <3>3. Puts(request[r]) /\ Bound(request[r], session[d])
        BY <1>3, <3>1, <3>2 DEF SessionsInv, Decided, Stay!Adopts, Puts
    <3> QED BY <2>1, <3>1, <3>2, <3>3 DEF Bound
  <2>8. ASSUME NEW r \in Requests, Stay!Switch(r)
        PROVE  request[r].device = d
    <3>1. request[r].pc = "handle" /\ session' # session
        BY <1>3, <2>8 DEF Stay!Switch, Stay!At
    <3> QED BY <1>3, <2>5, <2>8, <3>1 DEF Stay!Switch
  <2>9. ASSUME session' = session
        PROVE  FALSE
      BY <1>3, <2>9
  <2> QED BY <1>3, <2>2, <2>3, <2>4, <2>6, <2>7, <2>8, <2>9
             DEF Stay!Next, Stay!Tick, Stay!CheckMobile, Stay!ReadSession, Stay!ReadUser, Stay!Fail
<1>4. SessionsInv /\ [Stay!Next]_Stay!vars => [Stay!SwitchHolds]_Stay!vars
    BY <1>3 DEF Stay!SwitchHolds
<1> QED BY <1>1, <1>2, <1>4, PTL DEF Stay!Spec

-----------------------------------------------------------------------------
(* The members of an organization.                                         *)

Roles == {"Project Manager", "Project Translator", "Project Observer", "Org Manager", "Org Member",
          "SuperAdmin", None}
GrantRow == [user : Users, org : {Org, None}, project : {Project, None}, role : Roles]
Steps == {"idle", "answered", "check", "lock", "replace", "find", "clear", "commit", "insert", "revoke",
          "change", "affected", "unassign", "lookup", "identity", "user", "anchor", "grant", "mail",
          "dropUser", "dropAgain", "dropInvited", "dropIdentity", "delete", "assign", "submit"}
Outcomes == {"ok", "error", "refused", "forbidden", "notMember", "notInProject"}
Found == (SUBSET Chapters) \cup {{"new"}} \cup [chapters : SUBSET Chapters, rows : SUBSET GrantRow]
WorkRow == [step : Steps, call : Calls \cup {None}, grants : SUBSET GrantRow, locks : SUBSET GrantRow,
            seen : Found, answer : Outcomes \cup {None}]
ChapterRow == [drafter : Users \cup {None}, checker : Users \cup {None},
               status : {"not_started", "draft", "peer_check", "complete"}, drafted : BOOLEAN]

(* A role that is not in a project is one of the organization or of all.   *)
OrgWide(rows) == \A g \in rows : g.project = None => g.role \in {"Org Manager", "Org Member", "SuperAdmin"}

(* What a request is about, by its step; it was permitted what it does.    *)
KindFits(step, kind) ==
    /\ step = "check" => kind \in {"role", "add", "assign"}
    /\ step \in {"lock", "replace"} => kind = "role"
    /\ step \in {"find", "clear", "commit"} => kind = "remove"
    /\ step = "insert" => kind = "add"
    /\ step = "revoke" => kind = "removeMember"
    /\ step = "change" => kind = "memberRole"
    /\ step \in {"affected", "unassign"} => kind \in {"removeMember", "memberRole"}
    /\ step \in {"lookup", "identity", "anchor", "mail", "dropAgain", "dropInvited", "dropIdentity"}
       => kind = "invite"
    /\ step \in {"user", "grant", "dropUser"} => kind \in {"invite", "create"}
    /\ step \in {"delete", "assign", "submit"} => kind = step
Seeing(x) ==
    /\ x.step = "clear" => x.seen \in SUBSET Chapters
    /\ x.step = "commit" => x.seen \in [chapters : SUBSET Chapters, rows : SUBSET GrantRow]
    /\ x.step \in {"affected", "unassign"} => \A g \in x.locks : g.project = Project
Works(x) == x.step \notin {"idle", "answered"} =>
    x.call \in Calls /\ Members!Permitted(x.call, x.grants) /\ x.answer = None
    /\ KindFits(x.step, x.call.kind) /\ Seeing(x)
Authorised ==
    /\ request \in [Requests -> WorkRow]
    /\ \A r \in Requests : Works(request[r]) /\ OrgWide(request[r].grants)

(* The tables: a chapter refers to accounts that exist.                    *)
Tables ==
    /\ grant \subseteq GrantRow /\ OrgWide(grant)
    /\ account \in [Users -> SUBSET {"identity", "user"}]
    /\ assignment \in [Chapters -> ChapterRow]
    /\ \A c \in Chapters :
          /\ assignment[c].drafter # None => "user" \in account[assignment[c].drafter]
          /\ assignment[c].checker # None => "user" \in account[assignment[c].checker]
MembersInv == Authorised /\ Tables

MembersActions == Members!ManagersDecide /\ Members!InvitationWhole /\ Members!SubmittedKept

(* The shapes of the calls.                                                *)
LEMMA MemberShapes ==
    ASSUME Members!MembersOK
    PROVE  /\ None \notin Users /\ None \notin Calls /\ None # Project /\ None # "error"
           /\ \A call \in Calls :
                 /\ call.kind \in {"remove", "role", "add", "removeMember", "memberRole", "assign", "invite",
                                   "create", "delete", "submit"}
                 /\ call.caller \in Users /\ call.user \in Users
                 /\ call.project \in {Project, None} /\ call.role \in Roles
           /\ \A rows \in Initially : rows \subseteq GrantRow /\ OrgWide(rows)
BY DEF Members!MembersOK, Members!ProjectRoles, Members!OrgRoles, Roles, GrantRow, OrgWide

(* Who may remove, or give or change a role in the organization, manages   *)
(* it: a grant counts there only if it is in no project.                    *)
LEMMA ManagersPermit ==
    ASSUME Members!MembersOK, NEW call \in Calls, NEW grants \in SUBSET GrantRow, OrgWide(grants),
           Members!Permitted(call, grants),
           \/ call.kind \in {"remove", "role"}
           \/ call.kind \in {"invite", "create"} /\ call.project = None /\ call.role = "Org Manager"
    PROVE  Members!ManagesOrg(grants)
<1>1. ASSUME NEW permission \in {"membership:revoke", "user:update", "role:assign:org_manager"},
             Members!Authorize(grants, permission, Org, None)
      PROVE  Members!ManagesOrg(grants)
  <2>1. PICK g \in grants : Members!IsGrantApplicable(g, Org, None) /\ permission \in Members!PermissionsOf(g.role)
      BY <1>1 DEF Members!Authorize, Members!CollectPermissions
  <2>2. g.project = None
      BY <2>1 DEF Members!IsGrantApplicable
  <2>3. g.role \in {"Org Manager", "SuperAdmin"}
      BY <2>1, <2>2 DEF OrgWide, Members!PermissionsOf
  <2> QED BY <2>2, <2>3 DEF Members!ManagesOrg
<1>2. CASE call.kind = "remove"
    BY <1>1, <1>2 DEF Members!Permitted
<1>3. CASE call.kind = "role"
    BY <1>1, <1>3 DEF Members!Permitted
<1>4. CASE call.kind \in {"invite", "create"} /\ call.project = None /\ call.role = "Org Manager"
  <2>1. Members!CanAssignRole(grants, "Org Manager", None)
      BY <1>4 DEF Members!Permitted
  <2> QED BY <1>1, <2>1 DEF Members!CanAssignRole, Members!ProjectRoles
<1> QED BY <1>2, <1>3, <1>4

(* The role of a request is one the organization has, if it is in none of   *)
(* its projects.                                                           *)
LEMMA RolesPermitted ==
    ASSUME Members!MembersOK, NEW call \in Calls, NEW grants, Members!Permitted(call, grants),
           call.kind = "role" \/ (call.kind \in {"invite", "create"} /\ call.project = None)
    PROVE  call.role \in {"Org Manager", "Org Member"}
<1>1. Members!CanAssignRole(grants, call.role, None)
    BY DEF Members!Permitted
<1> QED BY <1>1 DEF Members!CanAssignRole

(* What a step of one request owes to the others.                          *)
LEMMA RequestWorks ==
    ASSUME MembersInv, NEW r \in Requests, NEW x \in WorkRow, request' = [request EXCEPT ![r] = x],
           Works(x), OrgWide(x.grants), Tables',
           \A u \in Users : /\ (Members!Manager(u) \in grant) # (Members!Manager(u) \in grant')
                            /\ "user" \in account'[u]
               => x # request[r] /\ Members!ManagesOrg(request[r].grants),
           Members!Made(r) /\ x.answer = "error" /\ faults' = faults
               => account'[request[r].call.user] # {"identity"},
           request[r].call # None /\ request[r].call.kind \in {"removeMember", "memberRole"}
               => \A c \in Chapters : assignment[c].status \in {"peer_check", "complete"}
                                      => assignment'[c].drafter = assignment[c].drafter
    PROVE  MembersInv' /\ MembersActions
<1>1. /\ request' \in [Requests -> WorkRow] /\ request'[r] = x
      /\ \A q \in Requests \ {r} : request'[q] = request[q]
    BY DEF MembersInv, Authorised
<1>2. Authorised'
  <2>1. \A q \in Requests : Works(request'[q]) /\ OrgWide(request'[q].grants)
      BY <1>1 DEF MembersInv, Authorised
  <2>2. \A q \in Requests : Works(request[q])' <=> Works(request'[q])
      BY DEF Works, Seeing, KindFits
  <2> QED BY <1>1, <2>1, <2>2 DEF Authorised, OrgWide
<1>3. \A q \in Requests : Members!Acts(q) <=> q = r /\ x # request[r]
    BY <1>1 DEF Members!Acts
<1>4. Members!ManagersDecide
    BY <1>3 DEF Members!ManagersDecide
<1>5. Members!InvitationWhole
    BY <1>1, <1>3 DEF Members!InvitationWhole, Members!CallOf
<1>6. Members!SubmittedKept
    BY <1>3 DEF Members!SubmittedKept, Members!CallOf
<1> QED BY <1>2, <1>4, <1>5, <1>6 DEF MembersInv, MembersActions

(* A request is answered.                                                  *)
LEMMA AnswerRow ==
    ASSUME MembersInv, NEW r \in Requests, NEW answer \in Outcomes
    PROVE  \E x \in WorkRow : /\ Members!Answered(r, answer) = [request EXCEPT ![r] = x]
                              /\ x.step = "answered" /\ x.answer = answer
                              /\ Works(x) /\ OrgWide(x.grants)
                              /\ (request[r].step # "answered" => x # request[r])
<1>1. PICK old \in WorkRow : old = request[r] /\ OrgWide(old.grants)
    BY DEF MembersInv, Authorised
<1>a. {} \in SUBSET GrantRow /\ {} \in Found /\ answer \in Outcomes \cup {None} /\ "answered" \in Steps
    BY DEF Found, Steps
<1>2. /\ [old EXCEPT !.step = "answered", !.answer = answer, !.locks = {}, !.seen = {}] \in WorkRow
      /\ [old EXCEPT !.step = "answered", !.answer = answer, !.locks = {}, !.seen = {}].step = "answered"
      /\ [old EXCEPT !.step = "answered", !.answer = answer, !.locks = {}, !.seen = {}].answer = answer
      /\ [old EXCEPT !.step = "answered", !.answer = answer, !.locks = {}, !.seen = {}].grants = old.grants
    BY <1>a DEF WorkRow
<1>3. PICK x \in WorkRow : /\ x = [old EXCEPT !.step = "answered", !.answer = answer, !.locks = {}, !.seen = {}]
                           /\ x.step = "answered" /\ x.answer = answer /\ x.grants = old.grants
    BY <1>2
<1>4. Members!Answered(r, answer) = [request EXCEPT ![r] = x]
    BY <1>1, <1>3 DEF Members!Answered, MembersInv, Authorised
<1>5. Works(x)
    BY <1>3 DEF Works
<1> QED BY <1>1, <1>3, <1>4, <1>5

(* A request goes on to a step that fits its kind.                         *)
LEMMA MoveRow ==
    ASSUME MembersInv, NEW r \in Requests, NEW step \in Steps \ {"clear", "commit", "affected", "unassign"},
           request[r].step \notin {"idle", "answered"}, KindFits(step, request[r].call.kind)
    PROVE  \E x \in WorkRow : /\ Members!Moved(r, step) = [request EXCEPT ![r] = x]
                              /\ x.step = step /\ x.answer = None
                              /\ Works(x) /\ OrgWide(x.grants)
                              /\ (request[r].step # step => x # request[r])
<1>1. PICK old \in WorkRow : old = request[r] /\ OrgWide(old.grants) /\ Works(old)
    BY DEF MembersInv, Authorised
<1>2. /\ [old EXCEPT !.step = step] \in WorkRow /\ [old EXCEPT !.step = step].step = step
      /\ [old EXCEPT !.step = step].answer = old.answer /\ [old EXCEPT !.step = step].grants = old.grants
      /\ [old EXCEPT !.step = step].call = old.call
    BY DEF WorkRow
<1>3. PICK x \in WorkRow : /\ x = [old EXCEPT !.step = step] /\ x.step = step /\ x.answer = old.answer
                           /\ x.grants = old.grants /\ x.call = old.call
    BY <1>2
<1>4. Members!Moved(r, step) = [request EXCEPT ![r] = x]
    BY <1>1, <1>3 DEF Members!Moved
<1>5. old.answer = None /\ old.call \in Calls /\ Members!Permitted(old.call, old.grants)
    BY <1>1 DEF Works
<1>6. Seeing(x)
    BY <1>3 DEF Seeing
<1>7. Works(x)
    BY <1>1, <1>3, <1>5, <1>6 DEF Works
<1> QED BY <1>1, <1>3, <1>4, <1>5, <1>7

(* The tables are as they were.                                            *)
LEMMA TablesLeft ==
    ASSUME MembersInv, UNCHANGED <<grant, account, assignment>>
    PROVE  Tables'
BY DEF MembersInv, Tables, OrgWide

(* A request is answered and has changed nothing.                          *)
LEMMA AnswersOnly ==
    ASSUME MembersInv, NEW r \in Requests, NEW answer \in Outcomes, request' = Members!Answered(r, answer),
           UNCHANGED <<grant, account, assignment>>,
           answer = "error" /\ faults' = faults /\ Members!Made(r)
               => account[request[r].call.user] # {"identity"}
    PROVE  MembersInv' /\ MembersActions
<1>1. PICK x \in WorkRow : /\ Members!Answered(r, answer) = [request EXCEPT ![r] = x]
                           /\ x.answer = answer /\ Works(x) /\ OrgWide(x.grants)
    BY AnswerRow
<1>2. request' = [request EXCEPT ![r] = x] /\ Tables'
    BY <1>1, TablesLeft
<1> QED BY <1>1, <1>2, RequestWorks

(* A request goes on and has changed nothing.                              *)
LEMMA MovesOnly ==
    ASSUME Members!MembersOK, MembersInv, NEW r \in Requests,
           NEW step \in Steps \ {"clear", "commit", "affected", "unassign"},
           request[r].step \notin {"idle", "answered"}, KindFits(step, request[r].call.kind),
           request' = Members!Moved(r, step), UNCHANGED <<grant, account, assignment>>
    PROVE  MembersInv' /\ MembersActions
<1>1. PICK x \in WorkRow : /\ Members!Moved(r, step) = [request EXCEPT ![r] = x]
                           /\ x.answer = None /\ Works(x) /\ OrgWide(x.grants)
    BY MoveRow
<1>2. request' = [request EXCEPT ![r] = x] /\ Tables' /\ x.answer # "error"
    BY <1>1, TablesLeft, MemberShapes
<1> QED BY <1>1, <1>2, RequestWorks

(* What a request that is under way is about.                              *)
LEMMA AtWork ==
    ASSUME Members!MembersOK, MembersInv, NEW r \in Requests, request[r].step \notin {"idle", "answered"}
    PROVE  \E old \in WorkRow, call \in Calls :
              /\ old = request[r] /\ call = old.call /\ call = Members!CallOf(r) /\ call # None
              /\ call.user \in Users /\ call.project \in {Project, None} /\ call.role \in Roles
              /\ KindFits(old.step, call.kind) /\ Seeing(old) /\ old.answer = None
              /\ Members!Permitted(call, old.grants) /\ OrgWide(old.grants)
<1>1. PICK old \in WorkRow : old = request[r] /\ Works(old) /\ OrgWide(old.grants)
    BY DEF MembersInv, Authorised
<1>2. PICK call \in Calls : call = old.call
    BY <1>1 DEF Works
<1>3. call # None /\ call.user \in Users /\ call.project \in {Project, None} /\ call.role \in Roles
    BY MemberShapes
<1>4. KindFits(old.step, call.kind) /\ Seeing(old) /\ old.answer = None /\ Members!Permitted(call, old.grants)
    BY <1>1, <1>2 DEF Works
<1>5. call = Members!CallOf(r)
    BY <1>1, <1>2 DEF Members!CallOf
<1> QED BY <1>1, <1>2, <1>3, <1>4, <1>5

(* A request goes on with rows locked or with what it has read.            *)
LEMMA GoesOn ==
    ASSUME Members!MembersOK, MembersInv, NEW r \in Requests, request[r].step \notin {"idle", "answered"},
           NEW x \in WorkRow, request' = [request EXCEPT ![r] = x],
           x.call = request[r].call, x.grants = request[r].grants, x.answer = request[r].answer,
           KindFits(x.step, x.call.kind), Seeing(x), UNCHANGED <<grant, account, assignment>>
    PROVE  MembersInv' /\ MembersActions
<1>1. Works(request[r]) /\ OrgWide(request[r].grants)
    BY DEF MembersInv, Authorised
<1>2. x.answer = None /\ None # "error"
    BY <1>1, MemberShapes DEF Works
<1>3. Works(x) /\ OrgWide(x.grants)
    BY <1>1 DEF Works
<1>4. Tables'
    BY TablesLeft
<1> QED BY <1>2, <1>3, <1>4, RequestWorks

(* At first every request is idle, and a drafter has a grant.              *)
LEMMA MembersStart ==
    ASSUME Members!MembersOK
    PROVE  Members!Init => MembersInv
<1> SUFFICES ASSUME Members!Init PROVE MembersInv
    OBVIOUS
<1>1. grant \subseteq GrantRow /\ OrgWide(grant)
    BY MemberShapes DEF Members!Init
<1>2. Authorised
  <2>a. {} \in SUBSET GrantRow /\ {} \in Found /\ "idle" \in Steps
      BY DEF Found, Steps
  <2>1. Members!Idle \in WorkRow /\ Members!Idle.step = "idle" /\ Members!Idle.grants = {}
      BY <2>a DEF Members!Idle, WorkRow
  <2>2. Works(Members!Idle) /\ OrgWide(Members!Idle.grants)
      BY <2>1 DEF Works, OrgWide
  <2> QED BY <2>1, <2>2 DEF Members!Init, Authorised
<1>3. account \in [Users -> SUBSET {"identity", "user"}]
    BY DEF Members!Init
<1>4. \A g \in grant : g.user \in Users /\ "user" \in account[g.user]
    BY <1>1 DEF Members!Init, GrantRow
<1>5. \A c \in Chapters : \/ assignment[c] = [drafter |-> None, checker |-> None, status |-> "not_started",
                                              drafted |-> FALSE]
                          \/ \E g \in grant : assignment[c] = [drafter |-> g.user, checker |-> None,
                                                               status |-> "draft", drafted |-> FALSE]
    BY DEF Members!Init
<1>6. \A c \in Chapters : /\ assignment[c] \in ChapterRow /\ assignment[c].checker = None
                          /\ (assignment[c].drafter = None \/ "user" \in account[assignment[c].drafter])
  <2> TAKE c \in Chapters
  <2>1. CASE assignment[c] = [drafter |-> None, checker |-> None, status |-> "not_started", drafted |-> FALSE]
      BY <2>1 DEF ChapterRow
  <2>2. ASSUME NEW g \in grant, assignment[c] = [drafter |-> g.user, checker |-> None, status |-> "draft",
                                                 drafted |-> FALSE]
        PROVE  /\ assignment[c] \in ChapterRow /\ assignment[c].checker = None
               /\ (assignment[c].drafter = None \/ "user" \in account[assignment[c].drafter])
      BY <1>4, <2>2 DEF ChapterRow
  <2> QED BY <1>5, <2>1, <2>2
<1>7. assignment \in [Chapters -> ChapterRow]
  <2>1. PICK s : assignment \in [Chapters -> s]
      BY DEF Members!Init
  <2> QED BY <1>6, <2>1
<1> QED BY <1>1, <1>2, <1>3, <1>6, <1>7 DEF MembersInv, Tables

(* A request begins with the step of what it asks, if that is permitted.   *)
LEMMA FirstStepFits ==
    ASSUME Members!MembersOK, NEW call \in Calls
    PROVE  /\ Members!FirstStep(call) \in Steps \ {"idle", "answered", "clear", "commit", "affected", "unassign"}
           /\ KindFits(Members!FirstStep(call), call.kind)
<1>1. call.kind \in {"remove", "role", "add", "removeMember", "memberRole", "assign", "invite", "create",
                     "delete", "submit"}
    BY MemberShapes
<1>2. CASE call.kind \in {"role", "add", "assign", "remove", "removeMember"}
    BY <1>2 DEF Members!FirstStep, Steps, KindFits
<1>3. CASE call.kind \in {"memberRole", "invite", "create", "delete", "submit"}
    BY <1>3 DEF Members!FirstStep, Steps, KindFits
<1> QED BY <1>1, <1>2, <1>3

(* A request passes the permissions it needs, or is answered.              *)
LEMMA Authenticated ==
    ASSUME Members!MembersOK, MembersInv, NEW r \in Requests, Members!Authenticate(r)
    PROVE  MembersInv' /\ MembersActions
<1>1. PICK call \in Calls :
          request' = [request EXCEPT ![r] =
              IF Members!Permitted(call, Members!GrantsOf(call.caller))
                THEN [Members!Idle EXCEPT !.step = Members!FirstStep(call), !.call = call,
                                          !.grants = Members!GrantsOf(call.caller)]
                ELSE [Members!Idle EXCEPT !.step = "answered", !.answer = "forbidden", !.call = call]]
    BY DEF Members!Authenticate
<1>2. PICK grants \in SUBSET GrantRow : grants = Members!GrantsOf(call.caller) /\ OrgWide(grants)
  <2>1. Members!GrantsOf(call.caller) \subseteq grant
      BY DEF Members!GrantsOf
  <2> QED BY <2>1 DEF MembersInv, Tables, OrgWide
<1>3. PICK step \in Steps \ {"idle", "answered", "clear", "commit", "affected", "unassign"} :
          step = Members!FirstStep(call) /\ KindFits(step, call.kind)
    BY FirstStepFits
<1>a. {} \in SUBSET GrantRow /\ {} \in Found /\ {"idle", "answered"} \subseteq Steps /\ "forbidden" \in Outcomes
    BY DEF Found, Steps, Outcomes
<1>b. Members!Idle \in WorkRow /\ Members!Idle.answer = None /\ Members!Idle.grants = {}
    BY <1>a DEF Members!Idle, WorkRow
<1>4. PICK idle \in WorkRow : idle = Members!Idle /\ idle.answer = None /\ idle.grants = {}
    BY <1>b
<1>c. /\ [idle EXCEPT !.step = step, !.call = call, !.grants = grants] \in WorkRow
      /\ [idle EXCEPT !.step = step, !.call = call, !.grants = grants].step = step
      /\ [idle EXCEPT !.step = step, !.call = call, !.grants = grants].call = call
      /\ [idle EXCEPT !.step = step, !.call = call, !.grants = grants].grants = grants
      /\ [idle EXCEPT !.step = step, !.call = call, !.grants = grants].answer = None
    BY <1>4 DEF WorkRow
<1>5. PICK yes \in WorkRow : /\ yes = [idle EXCEPT !.step = step, !.call = call, !.grants = grants]
                             /\ yes.step = step /\ yes.call = call /\ yes.grants = grants /\ yes.answer = None
    BY <1>c
<1>6. PICK no \in WorkRow : /\ no = [idle EXCEPT !.step = "answered", !.answer = "forbidden", !.call = call]
                            /\ no.step = "answered" /\ no.grants = {} /\ no.answer = "forbidden"
  <2>1. PICK s \in Steps, a \in Outcomes : s = "answered" /\ a = "forbidden"
      BY <1>a
  <2>2. /\ [idle EXCEPT !.step = s, !.answer = a, !.call = call] \in WorkRow
        /\ [idle EXCEPT !.step = s, !.answer = a, !.call = call].step = s
        /\ [idle EXCEPT !.step = s, !.answer = a, !.call = call].grants = {}
        /\ [idle EXCEPT !.step = s, !.answer = a, !.call = call].answer = a
      BY <1>4 DEF WorkRow
  <2> QED BY <2>1, <2>2
<1>7. PICK x \in WorkRow : /\ request' = [request EXCEPT ![r] = x]
                           /\ (x = yes /\ Members!Permitted(call, grants)) \/ x = no
    BY <1>1, <1>2, <1>3, <1>4, <1>5, <1>6
<1>8. Works(x) /\ OrgWide(x.grants) /\ x.answer # "error"
  <2>1. CASE x = no
      BY <1>6, <2>1 DEF Works, OrgWide
  <2>2. CASE x = yes /\ Members!Permitted(call, grants)
    <3>1. Seeing(yes)
        BY <1>3, <1>5 DEF Seeing
    <3> QED BY <1>2, <1>3, <1>5, <2>2, <3>1, MemberShapes DEF Works
  <2> QED BY <1>7, <2>1, <2>2
<1>9. UNCHANGED <<grant, account, assignment>> /\ Tables'
  <2>1. UNCHANGED <<grant, account, assignment>>
      BY DEF Members!Authenticate
  <2> QED BY <2>1, TablesLeft
<1> QED BY <1>7, <1>8, <1>9, RequestWorks

(* The steps that ask and change nothing.                                  *)
LEMMA MembershipChecked ==
    ASSUME Members!MembersOK, MembersInv, NEW r \in Requests,
           Members!Check(r) \/ Members!Lookup(r) \/ Members!Mail(r)
    PROVE  MembersInv' /\ MembersActions
<1>1. UNCHANGED <<grant, account, assignment, faults>>
    BY DEF Members!Check, Members!Lookup, Members!Mail
<1>2. request[r].step \in {"check", "lookup", "mail"}
    BY DEF Members!Check, Members!Lookup, Members!Mail, Members!At
<1>3. PICK old \in WorkRow, call \in Calls :
          /\ old = request[r] /\ call = old.call /\ call = Members!CallOf(r) /\ KindFits(old.step, call.kind)
    BY <1>2, AtWork
<1>4. CASE \E answer \in Outcomes \ {"error"} : request' = Members!Answered(r, answer)
    BY <1>1, <1>4, AnswersOnly
<1>5. CASE \E step \in {"lock", "insert", "assign", "anchor", "identity"} :
              KindFits(step, call.kind) /\ request' = Members!Moved(r, step)
  <2>1. PICK step \in {"lock", "insert", "assign", "anchor", "identity"} :
            KindFits(step, call.kind) /\ request' = Members!Moved(r, step)
      BY <1>5
  <2>2. step \in Steps \ {"clear", "commit", "affected", "unassign"}
      BY DEF Steps
  <2> QED BY <1>1, <1>2, <1>3, <2>1, <2>2, MovesOnly
<1>6. CASE Members!Check(r)
  <2>1. CASE Members!InOrg(Members!CallOf(r).user) = {}
      BY <1>4, <1>6, <2>1 DEF Members!Check, Outcomes
  <2>2. CASE Members!InOrg(Members!CallOf(r).user) # {}
    <3>1. old.step = "check" /\ call.kind \in {"role", "add", "assign"}
        BY <1>3, <1>6 DEF Members!Check, Members!At, KindFits
    <3>2. request' = Members!Moved(r, CASE call.kind = "role" -> "lock" [] call.kind = "add" -> "insert"
                                        [] call.kind = "assign" -> "assign")
        BY <1>3, <1>6, <2>2 DEF Members!Check
    <3>3. CASE call.kind = "role"
        BY <1>5, <3>2, <3>3 DEF KindFits
    <3>4. CASE call.kind = "add"
        BY <1>5, <3>2, <3>4 DEF KindFits
    <3>5. CASE call.kind = "assign"
        BY <1>5, <3>2, <3>5 DEF KindFits
    <3> QED BY <3>1, <3>3, <3>4, <3>5
  <2> QED BY <2>1, <2>2
<1>7. CASE Members!Lookup(r)
  <2>1. call.kind = "invite"
      BY <1>3, <1>7 DEF Members!Lookup, Members!At, KindFits
  <2>2. request' = Members!Moved(r, "anchor") \/ request' = Members!Moved(r, "identity")
      BY <1>7 DEF Members!Lookup
  <2>3. KindFits("anchor", call.kind) /\ KindFits("identity", call.kind)
      BY <2>1 DEF KindFits
  <2> QED BY <1>5, <2>2, <2>3
<1>8. CASE Members!Mail(r)
    BY <1>4, <1>8 DEF Members!Mail, Outcomes
<1> QED BY <1>6, <1>7, <1>8

(* The steps that lock rows or read chapters.                              *)
LEMMA RowsLocked ==
    ASSUME Members!MembersOK, MembersInv, NEW r \in Requests,
           Members!LockAnchor(r) \/ Members!Revoke(r)
    PROVE  MembersInv' /\ MembersActions
<1>1. UNCHANGED <<grant, account, assignment>>
    BY DEF Members!LockAnchor, Members!Revoke
<1>2. request[r].step \in {"lock", "revoke"}
    BY DEF Members!LockAnchor, Members!Revoke, Members!At
<1>3. PICK old \in WorkRow, call \in Calls :
          /\ old = request[r] /\ call = old.call /\ call = Members!CallOf(r) /\ KindFits(old.step, call.kind)
    BY <1>2, AtWork
<1>4. CASE \E answer \in Outcomes \ {"error"} : request' = Members!Answered(r, answer)
    BY <1>1, <1>4, AnswersOnly
<1>5. ASSUME NEW step \in {"replace", "affected"}, NEW rows \in SUBSET GrantRow, KindFits(step, call.kind),
             step = "affected" => \A g \in rows : g.project = Project,
             request' = [request EXCEPT ![r].step = step, ![r].locks = rows]
      PROVE  MembersInv' /\ MembersActions
  <2>1. step \in Steps
      BY DEF Steps
  <2>a. /\ [old EXCEPT !.step = step, !.locks = rows] \in WorkRow
        /\ [old EXCEPT !.step = step, !.locks = rows].step = step
        /\ [old EXCEPT !.step = step, !.locks = rows].locks = rows
        /\ [old EXCEPT !.step = step, !.locks = rows].call = old.call
        /\ [old EXCEPT !.step = step, !.locks = rows].grants = old.grants
        /\ [old EXCEPT !.step = step, !.locks = rows].answer = old.answer
      BY <2>1 DEF WorkRow
  <2>2. PICK x \in WorkRow : /\ x = [old EXCEPT !.step = step, !.locks = rows] /\ x.step = step
                             /\ x.locks = rows /\ x.call = old.call /\ x.grants = old.grants
                             /\ x.answer = old.answer
      BY <2>a
  <2>3. request' = [request EXCEPT ![r] = x]
      BY <1>3, <1>5, <2>2
  <2>4. KindFits(x.step, x.call.kind) /\ Seeing(x)
      BY <1>3, <1>5, <2>2 DEF Seeing
  <2> QED BY <1>1, <1>2, <1>3, <2>2, <2>3, <2>4, GoesOn
<1>6. grant \subseteq GrantRow
    BY DEF MembersInv, Tables
<1>7. CASE Members!LockAnchor(r)
  <2>1. call.kind = "role"
      BY <1>3, <1>7 DEF Members!LockAnchor, Members!At, KindFits
  <2>2. CASE Members!Member(call.user) \in grant
    <3>1. {Members!Member(call.user)} \in SUBSET GrantRow /\ KindFits("replace", call.kind)
        BY <1>6, <2>1, <2>2 DEF KindFits
    <3>2. request' = [request EXCEPT ![r].step = "replace", ![r].locks = {Members!Member(call.user)}]
        BY <1>3, <1>7, <2>2 DEF Members!LockAnchor
    <3> QED BY <1>5, <3>1, <3>2
  <2>3. CASE Members!Member(call.user) \notin grant
      BY <1>3, <1>4, <1>7, <2>3 DEF Members!LockAnchor, Outcomes
  <2> QED BY <2>2, <2>3
<1>8. CASE Members!Revoke(r)
  <2>1. call.kind = "removeMember"
      BY <1>3, <1>8 DEF Members!Revoke, Members!At, KindFits
  <2>a. /\ Members!InProject(Members!CallOf(r).user) \subseteq grant
        /\ \A g \in Members!InProject(Members!CallOf(r).user) : g.project = Project
      BY DEF Members!InProject, Members!InOrg
  <2>2. PICK rows \in SUBSET GrantRow : /\ rows = Members!InProject(Members!CallOf(r).user)
                                        /\ \A g \in rows : g.project = Project
      BY <1>6, <2>a
  <2>3. KindFits("affected", call.kind)
      BY <2>1 DEF KindFits
  <2>4. CASE rows = {}
      BY <1>4, <1>8, <2>2, <2>4 DEF Members!Revoke, Outcomes
  <2>5. CASE rows # {}
    <3>1. request' = [request EXCEPT ![r].step = "affected", ![r].locks = rows]
        BY <1>8, <2>2, <2>5 DEF Members!Revoke
    <3> QED BY <1>5, <2>2, <2>3, <3>1
  <2> QED BY <2>4, <2>5
<1> QED BY <1>7, <1>8

(* The steps that only read the tables.                                    *)
LEMMA ChaptersRead ==
    ASSUME Members!MembersOK, MembersInv, NEW r \in Requests,
           Members!Find(r) \/ Members!Affected(r) \/ Members!DeleteBegins(r)
    PROVE  MembersInv' /\ MembersActions
<1>1. UNCHANGED <<grant, account, assignment>>
    BY DEF Members!Find, Members!Affected, Members!DeleteBegins
<1>2. request[r].step \in {"find", "affected", "clear"}
    BY DEF Members!Find, Members!Affected, Members!DeleteBegins, Members!At
<1>3. PICK old \in WorkRow, call \in Calls :
          /\ old = request[r] /\ call = old.call /\ call = Members!CallOf(r) /\ KindFits(old.step, call.kind)
          /\ Seeing(old)
    BY <1>2, AtWork
<1>4. ASSUME NEW step \in {"clear", "unassign", "commit"}, NEW seen \in Found, KindFits(step, call.kind),
             step = "clear" => seen \in SUBSET Chapters,
             step = "commit" => seen \in [chapters : SUBSET Chapters, rows : SUBSET GrantRow],
             step = "unassign" => \A g \in old.locks : g.project = Project,
             request' = [request EXCEPT ![r].step = step, ![r].seen = seen]
      PROVE  MembersInv' /\ MembersActions
  <2>1. step \in Steps
      BY DEF Steps
  <2>a. /\ [old EXCEPT !.step = step, !.seen = seen] \in WorkRow
        /\ [old EXCEPT !.step = step, !.seen = seen].step = step
        /\ [old EXCEPT !.step = step, !.seen = seen].seen = seen
        /\ [old EXCEPT !.step = step, !.seen = seen].call = old.call
        /\ [old EXCEPT !.step = step, !.seen = seen].grants = old.grants
        /\ [old EXCEPT !.step = step, !.seen = seen].answer = old.answer
        /\ [old EXCEPT !.step = step, !.seen = seen].locks = old.locks
      BY <2>1 DEF WorkRow
  <2>2. PICK x \in WorkRow : /\ x = [old EXCEPT !.step = step, !.seen = seen] /\ x.step = step
                             /\ x.seen = seen /\ x.call = old.call /\ x.grants = old.grants
                             /\ x.answer = old.answer /\ x.locks = old.locks
      BY <2>a
  <2>3. request' = [request EXCEPT ![r] = x]
      BY <1>3, <1>4, <2>2
  <2>4. KindFits(x.step, x.call.kind) /\ Seeing(x)
      BY <1>3, <1>4, <2>2 DEF Seeing
  <2> QED BY <1>1, <1>2, <1>3, <2>2, <2>3, <2>4, GoesOn
<1>5. Members!HeldBy(Members!CallOf(r).user) \in SUBSET Chapters
    BY DEF Members!HeldBy
<1>a. \A seen \in SUBSET Chapters : seen \in Found
    BY Zenon DEF Found
<1>b. \A seen \in [chapters : SUBSET Chapters, rows : SUBSET GrantRow] : seen \in Found
    BY Zenon DEF Found
<1>6. /\ \A seen \in SUBSET Chapters : seen \in Found
      /\ \A seen \in [chapters : SUBSET Chapters, rows : SUBSET GrantRow] : seen \in Found
    BY <1>a, <1>b
<1>7. CASE Members!Find(r)
  <2>1. KindFits("clear", call.kind)
      BY <1>3, <1>7 DEF Members!Find, Members!At, KindFits
  <2>2. request' = [request EXCEPT ![r].step = "clear", ![r].seen = Members!HeldBy(Members!CallOf(r).user)]
      BY <1>7 DEF Members!Find
  <2> QED BY <1>4, <1>5, <1>6, <2>1, <2>2
<1>8. CASE Members!Affected(r)
  <2>1. KindFits("unassign", call.kind) /\ \A g \in old.locks : g.project = Project
      BY <1>3, <1>8 DEF Members!Affected, Members!At, KindFits, Seeing
  <2>2. request' = [request EXCEPT ![r].step = "unassign", ![r].seen = Members!HeldBy(Members!CallOf(r).user)]
      BY <1>8 DEF Members!Affected
  <2> QED BY <1>4, <1>5, <1>6, <2>1, <2>2
<1>9. CASE Members!DeleteBegins(r)
  <2>1. KindFits("commit", call.kind) /\ old.seen \in SUBSET Chapters
      BY <1>3, <1>9 DEF Members!DeleteBegins, Members!At, KindFits, Seeing
  <2>2. Members!InOrg(Members!CallOf(r).user) \in SUBSET GrantRow
      BY DEF Members!InOrg, MembersInv, Tables
  <2>3. PICK seen \in [chapters : SUBSET Chapters, rows : SUBSET GrantRow] :
            seen = [chapters |-> old.seen, rows |-> Members!InOrg(Members!CallOf(r).user)]
      BY <2>1, <2>2
  <2>4. request' = [request EXCEPT ![r].step = "commit", ![r].seen = seen]
      BY <1>3, <1>9, <2>3 DEF Members!DeleteBegins, MembersInv, Authorised
  <2> QED BY <1>4, <1>6, <2>1, <2>3, <2>4
<1> QED BY <1>7, <1>8, <1>9

(* A request writes grants or chapters and is answered.                    *)
LEMMA AnswersWith ==
    ASSUME Members!MembersOK, MembersInv, NEW r \in Requests, NEW answer \in Outcomes \ {"error"},
           request[r].step \notin {"idle", "answered"}, request' = Members!Answered(r, answer), Tables',
           \/ Members!ManagesOrg(request[r].grants)
           \/ \A u \in Users : (Members!Manager(u) \in grant) <=> (Members!Manager(u) \in grant'),
           request[r].call.kind \in {"removeMember", "memberRole"}
               => \A c \in Chapters : assignment[c].status \in {"peer_check", "complete"}
                                      => assignment'[c].drafter = assignment[c].drafter
    PROVE  MembersInv' /\ MembersActions
<1>1. PICK x \in WorkRow : /\ Members!Answered(r, answer) = [request EXCEPT ![r] = x] /\ x.answer = answer
                           /\ Works(x) /\ OrgWide(x.grants) /\ x # request[r]
    BY AnswerRow
<1>2. request' = [request EXCEPT ![r] = x] /\ x.answer # "error"
    BY <1>1
<1>3. \A u \in Users : /\ (Members!Manager(u) \in grant) # (Members!Manager(u) \in grant')
                       /\ "user" \in account'[u]
          => x # request[r] /\ Members!ManagesOrg(request[r].grants)
    BY <1>1
<1> QED BY <1>1, <1>2, <1>3, RequestWorks

(* Grants are taken away and given.                                        *)
LEMMA GrantsWritten ==
    ASSUME MembersInv, NEW gone, NEW added \in SUBSET GrantRow, OrgWide(added),
           grant' = (grant \ gone) \cup added, UNCHANGED <<account, assignment>>
    PROVE  Tables'
<1>1. grant' \subseteq GrantRow /\ \A g \in grant' : g.project = None
                                        => g.role \in {"Org Manager", "Org Member", "SuperAdmin"}
    BY DEF MembersInv, Tables, OrgWide
<1> QED BY <1>1 DEF MembersInv, Tables, OrgWide

(* Only managers of the organization replace a role in it.                 *)
LEMMA RoleReplaced ==
    ASSUME Members!MembersOK, MembersInv, NEW r \in Requests, Members!Replace(r)
    PROVE  MembersInv' /\ MembersActions
<1>1. request[r].step = "replace" /\ UNCHANGED <<account, assignment>> /\ request' = Members!Answered(r, "ok")
    BY DEF Members!Replace, Members!At
<1>2. PICK old \in WorkRow, call \in Calls :
          /\ old = request[r] /\ call = old.call /\ call = Members!CallOf(r) /\ KindFits(old.step, call.kind)
          /\ call.user \in Users /\ Members!Permitted(call, old.grants) /\ OrgWide(old.grants)
    BY <1>1, AtWork
<1>3. call.kind = "role"
    BY <1>1, <1>2 DEF KindFits
<1>4. Members!ManagesOrg(old.grants) /\ call.role \in {"Org Manager", "Org Member"}
  <2>1. old.grants \in SUBSET GrantRow
      BY DEF WorkRow
  <2> QED BY <1>2, <1>3, <2>1, ManagersPermit, RolesPermitted
<1>a. /\ Members!Row(call.user, Org, None, call.role) \in GrantRow
      /\ Members!Row(call.user, Org, None, call.role).role = call.role
    BY <1>2, <1>4 DEF Members!Row, GrantRow, Roles
<1>5. PICK own \in GrantRow : own = Members!Row(call.user, Org, None, call.role) /\ own.role = call.role
    BY <1>a
<1>6. \E gone : grant' = (grant \ gone) \cup {own}
    BY <1>2, <1>5 DEF Members!Replace
<1>7. OrgWide({own})
    BY <1>4, <1>5 DEF OrgWide
<1>8. Tables'
    BY <1>1, <1>6, <1>7, GrantsWritten
<1> QED BY <1>1, <1>2, <1>3, <1>4, <1>8, AnswersWith DEF Outcomes

(* The chapters of a removed user are cleared.                             *)
LEMMA ChaptersCleared ==
    ASSUME MembersInv, NEW u, NEW chapters, NEW gone, assignment' = Members!Cleared(u, chapters),
           grant' = grant \ gone, UNCHANGED account
    PROVE  Tables'
<1>1. \A c \in Chapters : /\ assignment'[c] \in ChapterRow
                          /\ assignment'[c].drafter \in {None, assignment[c].drafter}
                          /\ assignment'[c].checker \in {None, assignment[c].checker}
  <2> TAKE c \in Chapters
  <2>1. PICK own \in ChapterRow : own = assignment[c]
      BY DEF MembersInv, Tables
  <2>2. PICK d \in {None, own.drafter}, k \in {None, own.checker} :
            d = Members!Without(own.drafter, u) /\ k = Members!Without(own.checker, u)
      BY DEF Members!Without
  <2>3. assignment'[c] \in {own, [own EXCEPT !.drafter = d, !.checker = k]}
      BY <2>1, <2>2 DEF Members!Cleared
  <2>4. /\ [own EXCEPT !.drafter = d, !.checker = k] \in ChapterRow
        /\ [own EXCEPT !.drafter = d, !.checker = k].drafter = d
        /\ [own EXCEPT !.drafter = d, !.checker = k].checker = k
      BY <2>2 DEF ChapterRow
  <2> QED BY <2>1, <2>2, <2>3, <2>4
<1>2. assignment' \in [Chapters -> ChapterRow]
  <2>1. PICK f : f = assignment' /\ f = [c \in Chapters |-> f[c]]
      BY DEF Members!Cleared
  <2> QED BY <1>1, <2>1
<1>3. \A c \in Chapters : /\ assignment'[c].drafter # None => "user" \in account[assignment'[c].drafter]
                          /\ assignment'[c].checker # None => "user" \in account[assignment'[c].checker]
    BY <1>1 DEF MembersInv, Tables
<1>4. grant' \subseteq GrantRow /\ \A g \in grant' : g.project = None
                                        => g.role \in {"Org Manager", "Org Member", "SuperAdmin"}
    BY DEF MembersInv, Tables, OrgWide
<1> QED BY <1>2, <1>3, <1>4 DEF MembersInv, Tables, OrgWide

(* The transaction that removes a member with the assignments.             *)
LEMMA UserRemoved ==
    ASSUME Members!MembersOK, MembersInv, NEW r \in Requests, Members!DeleteEnds(r)
    PROVE  MembersInv' /\ MembersActions
<1>1. request[r].step = "commit" /\ UNCHANGED account
    BY DEF Members!DeleteEnds, Members!At
<1>2. PICK old \in WorkRow, call \in Calls :
          /\ old = request[r] /\ call = old.call /\ call = Members!CallOf(r) /\ KindFits(old.step, call.kind)
          /\ Members!Permitted(call, old.grants) /\ OrgWide(old.grants)
    BY <1>1, AtWork
<1>3. call.kind = "remove"
    BY <1>1, <1>2 DEF KindFits
<1>4. Members!ManagesOrg(old.grants)
  <2>1. old.grants \in SUBSET GrantRow
      BY DEF WorkRow
  <2> QED BY <1>2, <1>3, <2>1, ManagersPermit
<1>5. CASE UNCHANGED <<grant, assignment>> /\ request' = Members!Answered(r, "notMember")
    BY <1>1, <1>5, AnswersOnly DEF Outcomes
<1>6. CASE /\ grant' = grant \ (request[r].seen.rows \cap grant)
           /\ assignment' = Members!Cleared(Members!CallOf(r).user, request[r].seen.chapters)
           /\ request' = Members!Answered(r, "ok")
  <2>1. Tables'
      BY <1>1, <1>6, ChaptersCleared
  <2> QED BY <1>1, <1>2, <1>3, <1>4, <1>6, <2>1, AnswersWith DEF Outcomes
<1> QED BY <1>5, <1>6 DEF Members!DeleteEnds

(* Grants in the project make nobody a manager of the organization.        *)
LEMMA ProjectGrants ==
    ASSUME Members!MembersOK, NEW gone, NEW added, grant' = (grant \ gone) \cup added,
           \A g \in gone \cup added : g.project = Project
    PROVE  /\ OrgWide(added)
           /\ \A u : (Members!Manager(u) \in grant) <=> (Members!Manager(u) \in grant')
<1>1. None # Project
    BY MemberShapes
<1>2. \A u : Members!Manager(u).project = None
    BY DEF Members!Manager, Members!Row
<1>3. OrgWide(added)
    BY <1>1 DEF OrgWide
<1>4. \A u : Members!Manager(u) \notin gone \cup added
    BY <1>1, <1>2
<1> QED BY <1>3, <1>4

(* The grant that a role in the project is.                                *)
LEMMA ProjectRow ==
    ASSUME Members!MembersOK, NEW call \in Calls
    PROVE  /\ Members!Row(call.user, Org, Project, call.role) \in GrantRow
           /\ Members!Row(call.user, Org, Project, call.role).project = Project
BY MemberShapes DEF Members!Row, GrantRow

(* A grant in the project is inserted.                                     *)
LEMMA MemberAdded ==
    ASSUME Members!MembersOK, MembersInv, NEW r \in Requests, Members!Insert(r)
    PROVE  MembersInv' /\ MembersActions
<1>1. request[r].step = "insert" /\ UNCHANGED <<account, assignment>>
    BY DEF Members!Insert, Members!At
<1>2. PICK old \in WorkRow, call \in Calls :
          old = request[r] /\ call = old.call /\ call = Members!CallOf(r) /\ KindFits(old.step, call.kind)
    BY <1>1, AtWork
<1>3. call.kind = "add"
    BY <1>1, <1>2 DEF KindFits
<1>4. PICK own \in GrantRow : own = Members!Row(call.user, Org, Project, call.role) /\ own.project = Project
    BY ProjectRow
<1>5. CASE request' = Members!Answered(r, "refused") /\ UNCHANGED grant
    BY <1>1, <1>5, AnswersOnly DEF Outcomes
<1>6. CASE request' = Members!Answered(r, "ok") /\ grant' = grant \cup {own}
  <2>1. grant' = (grant \ {}) \cup {own}
      BY <1>6
  <2>2. OrgWide({own}) /\ \A u : (Members!Manager(u) \in grant) <=> (Members!Manager(u) \in grant')
      BY <1>4, <2>1, ProjectGrants
  <2>3. Tables'
      BY <1>1, <2>1, <2>2, GrantsWritten
  <2> QED BY <1>1, <1>2, <1>3, <1>6, <2>2, <2>3, AnswersWith DEF Outcomes
<1> QED BY <1>2, <1>4, <1>5, <1>6 DEF Members!Insert

(* A grant in the project becomes another.                                 *)
LEMMA MemberChanged ==
    ASSUME Members!MembersOK, MembersInv, NEW r \in Requests, Members!Change(r)
    PROVE  MembersInv' /\ MembersActions
<1>1. request[r].step = "change" /\ UNCHANGED <<account, assignment>>
    BY DEF Members!Change, Members!At
<1>2. PICK old \in WorkRow, call \in Calls :
          old = request[r] /\ call = old.call /\ call = Members!CallOf(r) /\ KindFits(old.step, call.kind)
    BY <1>1, AtWork
<1>3. call.kind = "memberRole" /\ ~Members!Made(r)
    BY <1>1, <1>2 DEF KindFits, Members!Made
<1>4. PICK own \in GrantRow : own = Members!Row(call.user, Org, Project, call.role) /\ own.project = Project
    BY ProjectRow
<1>a. /\ Members!InProject(call.user) \subseteq grant /\ grant \subseteq GrantRow
      /\ \A g \in Members!InProject(call.user) : g.project = Project
    BY DEF Members!InProject, Members!InOrg, MembersInv, Tables
<1>5. PICK rows \in SUBSET GrantRow : /\ rows = Members!InProject(call.user)
                                      /\ \A g \in rows : g.project = Project
    BY <1>a
<1>6. CASE UNCHANGED grant /\ \E answer \in {"notInProject", "error"} : request' = Members!Answered(r, answer)
    BY <1>1, <1>3, <1>6, AnswersOnly DEF Outcomes
<1>7. CASE UNCHANGED grant /\ request' = [request EXCEPT ![r].step = "affected", ![r].locks = rows]
  <2>1. "affected" \in Steps
      BY DEF Steps
  <2>a. /\ [old EXCEPT !.step = "affected", !.locks = rows] \in WorkRow
        /\ [old EXCEPT !.step = "affected", !.locks = rows].step = "affected"
        /\ [old EXCEPT !.step = "affected", !.locks = rows].locks = rows
        /\ [old EXCEPT !.step = "affected", !.locks = rows].call = old.call
        /\ [old EXCEPT !.step = "affected", !.locks = rows].grants = old.grants
        /\ [old EXCEPT !.step = "affected", !.locks = rows].answer = old.answer
      BY <2>1 DEF WorkRow
  <2>2. PICK x \in WorkRow : /\ x = [old EXCEPT !.step = "affected", !.locks = rows] /\ x.step = "affected"
                             /\ x.locks = rows /\ x.call = old.call /\ x.grants = old.grants
                             /\ x.answer = old.answer
      BY <2>a
  <2>3. request' = [request EXCEPT ![r] = x]
      BY <1>2, <1>7, <2>2
  <2>4. KindFits(x.step, x.call.kind) /\ Seeing(x)
      BY <1>2, <1>3, <1>5, <2>2 DEF Seeing, KindFits
  <2> QED BY <1>1, <1>2, <1>7, <2>2, <2>3, <2>4, GoesOn
<1>8. CASE request' = Members!Answered(r, "ok") /\ grant' = (grant \ rows) \cup {own}
  <2>1. OrgWide({own}) /\ \A u : (Members!Manager(u) \in grant) <=> (Members!Manager(u) \in grant')
    <3>1. \A g \in rows \cup {own} : g.project = Project
        BY <1>4, <1>5
    <3> QED BY <1>8, <3>1, ProjectGrants
  <2>2. Tables'
      BY <1>1, <1>8, <2>1, GrantsWritten
  <2>3. \A c \in Chapters : assignment'[c].drafter = assignment[c].drafter
      BY <1>1
  <2> QED BY <1>1, <1>2, <1>8, <2>1, <2>2, <2>3, AnswersWith DEF Outcomes
<1> QED BY <1>2, <1>4, <1>5, <1>6, <1>7, <1>8 DEF Members!Change

(* The update decides by what the chapter is: it keeps the drafter of one   *)
(* that has been submitted.                                                *)
LEMMA ChapterUnassigned ==
    ASSUME NEW c \in ChapterRow, NEW u
    PROVE  /\ Members!Unassigned(c, u) \in ChapterRow
           /\ Members!Unassigned(c, u).drafter \in {None, c.drafter}
           /\ Members!Unassigned(c, u).checker \in {None, c.checker}
           /\ (c.status \in {"peer_check", "complete"} => Members!Unassigned(c, u).drafter = c.drafter)
<1>1. PICK d, s, k : /\ Members!Unassigned(c, u) = [c EXCEPT !.drafter = d, !.status = s, !.checker = k]
                     /\ d \in {None, c.drafter} /\ k \in {None, c.checker}
                     /\ s \in {"not_started", "draft", "peer_check", "complete"}
                     /\ (c.status \in {"peer_check", "complete"} => d = c.drafter)
  <2> DEFINE drafts == c.drafter = u /\ c.status \in {"not_started", "draft"}
             checks == c.checker = u /\ c.status \in {"not_started", "draft", "peer_check"}
  <2>1. Members!Unstarted(c) \in {"not_started", "draft", "peer_check", "complete"}
      BY DEF Members!Unstarted, ChapterRow
  <2>2. c.status \in {"not_started", "draft", "peer_check", "complete"}
      BY DEF ChapterRow
  <2>3. Members!Unassigned(c, u) = [c EXCEPT !.drafter = IF drafts THEN None ELSE c.drafter,
                                             !.status = IF drafts THEN Members!Unstarted(c) ELSE c.status,
                                             !.checker = IF checks THEN None ELSE c.checker]
      BY DEF Members!Unassigned, ChapterRow
  <2> WITNESS IF drafts THEN None ELSE c.drafter, IF drafts THEN Members!Unstarted(c) ELSE c.status,
              IF checks THEN None ELSE c.checker
  <2> QED BY <2>1, <2>2, <2>3
<1> QED BY <1>1 DEF ChapterRow

(* The chapters of a member who leaves are unassigned.                     *)
LEMMA WorkTakenAway ==
    ASSUME Members!MembersOK, MembersInv, NEW r \in Requests, Members!Unassign(r)
    PROVE  MembersInv' /\ MembersActions
<1>1. request[r].step = "unassign" /\ UNCHANGED account /\ request' = Members!Answered(r, "ok")
    BY DEF Members!Unassign, Members!At
<1>2. PICK old \in WorkRow, call \in Calls :
          old = request[r] /\ call = old.call /\ call = Members!CallOf(r) /\ Seeing(old)
    BY <1>1, AtWork
<1>3. PICK own \in GrantRow : own = Members!Row(call.user, Org, Project, call.role) /\ own.project = Project
    BY ProjectRow
<1>4. PICK added \in SUBSET {own} : grant' = (grant \ old.locks) \cup added
    BY <1>2, <1>3 DEF Members!Unassign
<1>5. \A g \in old.locks \cup added : g.project = Project
    BY <1>1, <1>2, <1>3, <1>4 DEF Seeing
<1>6. OrgWide(added) /\ \A u : (Members!Manager(u) \in grant) <=> (Members!Manager(u) \in grant')
    BY <1>4, <1>5, ProjectGrants
<1>7. \A c \in Chapters : assignment[c] \in ChapterRow
    BY DEF MembersInv, Tables
<1>8. /\ assignment' \in [Chapters -> ChapterRow]
      /\ \A c \in Chapters :
            /\ assignment'[c].drafter \in {None, assignment[c].drafter}
            /\ assignment'[c].checker \in {None, assignment[c].checker}
            /\ (assignment[c].status \in {"peer_check", "complete"}
                => assignment'[c].drafter = assignment[c].drafter)
  <2>1. CASE assignment' = assignment
      BY <2>1 DEF MembersInv, Tables
  <2>2. CASE assignment' = [c \in Chapters |-> Members!Unassigned(assignment[c], call.user)]
    <3>1. \A c \in Chapters :
              LET new == Members!Unassigned(assignment[c], call.user) IN
              /\ new \in ChapterRow
              /\ new.drafter \in {None, assignment[c].drafter}
              /\ new.checker \in {None, assignment[c].checker}
              /\ (assignment[c].status \in {"peer_check", "complete"} => new.drafter = assignment[c].drafter)
        BY <1>7, ChapterUnassigned
    <3> QED BY <2>2, <3>1
  <2> QED BY <1>2, <2>1, <2>2 DEF Members!Unassign
<1>9. Tables'
  <2>1. grant' \subseteq GrantRow /\ \A g \in grant' : g.project = None
                                        => g.role \in {"Org Manager", "Org Member", "SuperAdmin"}
      BY <1>3, <1>4, <1>6 DEF MembersInv, Tables, OrgWide
  <2>2. \A c \in Chapters : /\ assignment'[c].drafter # None => "user" \in account[assignment'[c].drafter]
                            /\ assignment'[c].checker # None => "user" \in account[assignment'[c].checker]
      BY <1>8 DEF MembersInv, Tables
  <2> QED BY <1>1, <1>8, <2>1, <2>2 DEF MembersInv, Tables, OrgWide
<1> QED BY <1>1, <1>6, <1>8, <1>9, AnswersWith DEF Outcomes

(* A request writes and goes on; its kind takes nobody's work away.        *)
LEMMA GoesOnWith ==
    ASSUME Members!MembersOK, MembersInv, NEW r \in Requests, request[r].step \notin {"idle", "answered"},
           NEW x \in WorkRow, request' = [request EXCEPT ![r] = x],
           x.call = request[r].call, x.grants = request[r].grants, x.answer = request[r].answer,
           x.step # request[r].step, KindFits(x.step, x.call.kind), Seeing(x), Tables',
           UNCHANGED assignment,
           \A u \in Users : /\ (Members!Manager(u) \in grant) # (Members!Manager(u) \in grant')
                            /\ "user" \in account'[u]
               => Members!ManagesOrg(request[r].grants)
    PROVE  MembersInv' /\ MembersActions
<1>1. Works(request[r]) /\ OrgWide(request[r].grants)
    BY DEF MembersInv, Authorised
<1>2. x.answer = None /\ x.answer # "error"
    BY <1>1, MemberShapes DEF Works
<1>3. Works(x) /\ OrgWide(x.grants)
    BY <1>1 DEF Works
<1>4. x # request[r]
    OBVIOUS
<1> QED BY <1>2, <1>3, <1>4, RequestWorks

(* A request goes on after a write that keeps the tables in order.         *)
LEMMA MovesWith ==
    ASSUME Members!MembersOK, MembersInv, NEW r \in Requests,
           NEW step \in Steps \ {"clear", "commit", "affected", "unassign"},
           request[r].step \notin {"idle", "answered"}, step # request[r].step,
           KindFits(step, request[r].call.kind),
           request' = Members!Moved(r, step), Tables', UNCHANGED assignment,
           \A u \in Users : /\ (Members!Manager(u) \in grant) # (Members!Manager(u) \in grant')
                            /\ "user" \in account'[u]
               => Members!ManagesOrg(request[r].grants)
    PROVE  MembersInv' /\ MembersActions
<1>1. PICK x \in WorkRow : /\ Members!Moved(r, step) = [request EXCEPT ![r] = x]
                           /\ x.answer = None /\ Works(x) /\ OrgWide(x.grants) /\ x # request[r]
    BY MoveRow
<1>2. request' = [request EXCEPT ![r] = x] /\ x.answer # "error"
    BY <1>1, MemberShapes
<1> QED BY <1>1, <1>2, RequestWorks

(* Accounts are made, and taken back if no chapter refers to them.         *)
LEMMA AccountsWritten ==
    ASSUME Members!MembersOK, MembersInv, NEW u \in Users, NEW has \in SUBSET {"identity", "user"},
           account' = [account EXCEPT ![u] = has],
           "user" \in account[u] => "user" \in has \/ ~Members!Referred(u),
           NEW gone, grant' = grant \ gone, UNCHANGED assignment
    PROVE  Tables'
<1>1. /\ account' \in [Users -> SUBSET {"identity", "user"}] /\ account'[u] = has
      /\ \A v \in Users \ {u} : account'[v] = account[v]
    BY DEF MembersInv, Tables
<1>2. \A c \in Chapters : /\ assignment[c].drafter # None => "user" \in account'[assignment[c].drafter]
                          /\ assignment[c].checker # None => "user" \in account'[assignment[c].checker]
  <2> TAKE c \in Chapters
  <2>1. /\ assignment[c].drafter \in Users \cup {None} /\ assignment[c].checker \in Users \cup {None}
      BY DEF MembersInv, Tables, ChapterRow
  <2>2. u \in {assignment[c].drafter, assignment[c].checker} => "user" \in has \/ "user" \notin account[u]
      BY DEF Members!Referred
  <2> QED BY <1>1, <2>1, <2>2 DEF MembersInv, Tables
<1>3. grant' \subseteq GrantRow /\ \A g \in grant' : g.project = None
                                        => g.role \in {"Org Manager", "Org Member", "SuperAdmin"}
    BY DEF MembersInv, Tables, OrgWide
<1> QED BY <1>1, <1>2, <1>3 DEF MembersInv, Tables, OrgWide

(* A chapter refers to an account that exists.                             *)
LEMMA ReferredExists ==
    ASSUME Members!MembersOK, MembersInv, NEW u \in Users, Members!Referred(u)
    PROVE  "user" \in account[u]
BY MemberShapes DEF Members!Referred, MembersInv, Tables

(* The identity of an invitation is created.                               *)
LEMMA IdentityMade ==
    ASSUME Members!MembersOK, MembersInv, NEW r \in Requests, Members!Identity(r)
    PROVE  MembersInv' /\ MembersActions
<1>1. request[r].step = "identity" /\ UNCHANGED <<grant, assignment>>
    BY DEF Members!Identity, Members!At
<1>2. PICK old \in WorkRow, call \in Calls :
          /\ old = request[r] /\ call = old.call /\ call = Members!CallOf(r) /\ call.user \in Users
          /\ KindFits(old.step, call.kind)
    BY <1>1, AtWork
<1>3. CASE request' = Members!Answered(r, "refused") /\ UNCHANGED account
    BY <1>1, <1>3, AnswersOnly DEF Outcomes
<1>4. CASE /\ request' = Members!Moved(r, "user")
           /\ account' = [account EXCEPT ![call.user] = @ \cup {"identity"}]
  <2>1. PICK has \in SUBSET {"identity", "user"} : has = account[call.user] \cup {"identity"}
      BY <1>2 DEF MembersInv, Tables
  <2>2. account' = [account EXCEPT ![call.user] = has]
      BY <1>4, <2>1
  <2>3. Tables'
    <3>1. grant' = grant \ {} /\ ("user" \in account[call.user] => "user" \in has)
        BY <1>1, <2>1
    <3> QED BY <1>1, <1>2, <2>2, <3>1, AccountsWritten
  <2>4. KindFits("user", call.kind) /\ "user" \in Steps \ {"clear", "commit", "affected", "unassign"}
      BY <1>1, <1>2 DEF KindFits, Steps
  <2> QED BY <1>1, <1>2, <1>4, <2>3, <2>4, MovesWith
<1> QED BY <1>2, <1>3, <1>4 DEF Members!Identity

(* The row of the user is written.                                         *)
LEMMA UserCreated ==
    ASSUME Members!MembersOK, MembersInv, NEW r \in Requests, Members!CreateUser(r)
    PROVE  MembersInv' /\ MembersActions
<1>1. request[r].step = "user" /\ UNCHANGED <<grant, assignment>>
    BY DEF Members!CreateUser, Members!At
<1>2. PICK old \in WorkRow, call \in Calls :
          /\ old = request[r] /\ call = old.call /\ call = Members!CallOf(r) /\ call.user \in Users
          /\ KindFits(old.step, call.kind)
    BY <1>1, AtWork
<1>3. call.kind \in {"invite", "create"}
    BY <1>1, <1>2 DEF KindFits
<1>4. CASE "user" \notin account[call.user]
  <2>1. PICK step \in {"anchor", "grant"} :
            step = (IF call.kind = "invite" THEN "anchor" ELSE "grant") /\ KindFits(step, call.kind)
      BY <1>3 DEF KindFits
  <2>2. /\ account' = [account EXCEPT ![call.user] = @ \cup {"user"}]
        /\ request' = [request EXCEPT ![r].step = step, ![r].seen = {"new"}]
      BY <1>2, <1>4, <2>1 DEF Members!CreateUser
  <2>3. PICK has \in SUBSET {"identity", "user"} : has = account[call.user] \cup {"user"}
      BY <1>2 DEF MembersInv, Tables
  <2>4. Tables'
    <3>1. account' = [account EXCEPT ![call.user] = has] /\ grant' = grant \ {}
        BY <1>1, <2>2, <2>3
    <3> QED BY <1>1, <1>2, <2>3, <3>1, AccountsWritten
  <2>5. step \in Steps
      BY DEF Steps
  <2>b. {"new"} \in Found
      BY Zenon DEF Found
  <2>c. PICK seen \in Found : seen = {"new"}
      BY <2>b
  <2>a. /\ [old EXCEPT !.step = step, !.seen = seen] \in WorkRow
        /\ [old EXCEPT !.step = step, !.seen = seen].step = step
        /\ [old EXCEPT !.step = step, !.seen = seen].call = old.call
        /\ [old EXCEPT !.step = step, !.seen = seen].grants = old.grants
        /\ [old EXCEPT !.step = step, !.seen = seen].answer = old.answer
      BY <2>5 DEF WorkRow
  <2>6. PICK x \in WorkRow : /\ x = [old EXCEPT !.step = step, !.seen = {"new"}] /\ x.step = step
                             /\ x.call = old.call /\ x.grants = old.grants /\ x.answer = old.answer
      BY <2>a, <2>c
  <2>7. request' = [request EXCEPT ![r] = x]
      BY <1>2, <2>2, <2>6
  <2>8. KindFits(x.step, x.call.kind) /\ Seeing(x) /\ x.step # "user"
      BY <1>2, <2>1, <2>6 DEF Seeing
  <2> QED BY <1>1, <1>2, <2>4, <2>6, <2>7, <2>8, GoesOnWith
<1>5. CASE "user" \in account[call.user]
  <2>1. UNCHANGED account
      BY <1>2, <1>5 DEF Members!CreateUser
  <2>2. CASE call.kind = "invite"
    <3>1. request' = Members!Moved(r, "dropIdentity")
        BY <1>2, <1>5, <2>2 DEF Members!CreateUser
    <3>2. KindFits("dropIdentity", call.kind)
          /\ "dropIdentity" \in Steps \ {"clear", "commit", "affected", "unassign"}
        BY <2>2 DEF KindFits, Steps
    <3> QED BY <1>1, <1>2, <2>1, <3>1, <3>2, MovesOnly
  <2>3. CASE call.kind # "invite"
    <3>1. request' = Members!Answered(r, "refused")
        BY <1>2, <1>5, <2>3 DEF Members!CreateUser
    <3> QED BY <1>1, <2>1, <3>1, AnswersOnly DEF Outcomes
  <2> QED BY <2>2, <2>3
<1> QED BY <1>4, <1>5

(* What an invitation does that has failed to grant or to send its mail.   *)
LEMMA Undone ==
    ASSUME Members!MembersOK, MembersInv, NEW r \in Requests, request[r].step \in {"anchor", "grant", "mail"},
           request' = Members!Undo(r), UNCHANGED <<grant, account, assignment>>
    PROVE  MembersInv' /\ MembersActions
<1>1. PICK old \in WorkRow, call \in Calls :
          /\ old = request[r] /\ call = old.call /\ call = Members!CallOf(r) /\ KindFits(old.step, call.kind)
    BY AtWork
<1>2. CASE ~Members!IsNew(r)
  <2>1. request' = Members!Answered(r, "error") /\ ~Members!Made(r)
      BY <1>2 DEF Members!Undo, Members!Made
  <2> QED BY <2>1, AnswersOnly DEF Outcomes
<1>3. CASE Members!IsNew(r)
  <2>1. PICK step \in {"dropInvited", "dropUser"} :
            /\ request' = Members!Moved(r, step)
            /\ (step = "dropInvited" => request[r].step = "mail")
            /\ (step = "dropUser" => request[r].step # "mail")
      BY <1>3 DEF Members!Undo, Members!At
  <2>2. KindFits(step, call.kind) /\ step \in Steps \ {"clear", "commit", "affected", "unassign"}
      BY <1>1, <2>1 DEF KindFits, Steps
  <2> QED BY <1>1, <2>1, <2>2, MovesOnly
<1> QED BY <1>2, <1>3

(* The membership row makes no manager; another row was permitted.         *)
LEMMA RoleGranted ==
    ASSUME Members!MembersOK, MembersInv, NEW r \in Requests, Members!GrantRole(r)
    PROVE  MembersInv' /\ MembersActions
<1>1. request[r].step \in {"anchor", "grant"} /\ UNCHANGED <<account, assignment>>
    BY DEF Members!GrantRole, Members!At
<1>2. PICK old \in WorkRow, call \in Calls :
          /\ old = request[r] /\ call = old.call /\ call = Members!CallOf(r) /\ KindFits(old.step, call.kind)
          /\ call.user \in Users /\ call.project \in {Project, None} /\ call.role \in Roles
          /\ Members!Permitted(call, old.grants) /\ OrgWide(old.grants)
    BY <1>1, AtWork
<1>3. PICK own : own = Members!GrantRow(r)
    OBVIOUS
<1>4. call.kind \in {"invite", "create"} /\ (request[r].step = "anchor" => call.kind = "invite")
    BY <1>1, <1>2 DEF KindFits
<1>5. /\ own \in GrantRow /\ OrgWide({own})
      /\ (\A u \in Users : own # Members!Manager(u)) \/ Members!ManagesOrg(request[r].grants)
  <2>1. CASE request[r].step = "anchor"
    <3>1. own = Members!Row(call.user, Org, None, "Org Member")
        BY <1>2, <1>3, <2>1 DEF Members!GrantRow, Members!At, Members!Member
    <3>2. own \in GrantRow /\ own.role = "Org Member"
        BY <1>2, <3>1 DEF GrantRow, Members!Row, Roles
    <3>3. \A u \in Users : Members!Manager(u).role = "Org Manager"
        BY DEF Members!Manager, Members!Row
    <3> QED BY <3>2, <3>3 DEF OrgWide
  <2>2. CASE request[r].step # "anchor"
    <3>1. own = Members!Row(call.user, Org, call.project, call.role)
        BY <1>2, <1>3, <2>2 DEF Members!GrantRow, Members!At
    <3>2. own \in GrantRow /\ own.role = call.role /\ own.project = call.project
        BY <1>2, <3>1 DEF GrantRow, Members!Row
    <3>3. \A u \in Users : Members!Manager(u).role = "Org Manager" /\ Members!Manager(u).project = None
        BY DEF Members!Manager, Members!Row
    <3>4. call.project = None => call.role \in {"Org Manager", "Org Member"}
        BY <1>2, <1>4, RolesPermitted
    <3>5. call.project = None /\ call.role = "Org Manager" => Members!ManagesOrg(request[r].grants)
      <4>1. old.grants \in SUBSET GrantRow
          BY DEF WorkRow
      <4> QED BY <1>2, <1>4, <4>1, ManagersPermit
    <3> QED BY <3>2, <3>3, <3>4, <3>5 DEF OrgWide
  <2> QED BY <2>1, <2>2
<1>6. CASE "user" \notin account[call.user]
  <2>1. request' = Members!Undo(r) /\ UNCHANGED grant
      BY <1>2, <1>6 DEF Members!GrantRole
  <2> QED BY <1>1, <2>1, Undone
<1>7. CASE "user" \in account[call.user]
  <2>1. /\ grant' = (grant \ {}) \cup {own}
        /\ request' = IF Members!At(r, "anchor") THEN Members!Moved(r, "grant")
                      ELSE IF call.kind = "invite" THEN Members!Moved(r, "mail")
                      ELSE Members!Answered(r, "ok")
      BY <1>2, <1>3, <1>7 DEF Members!GrantRole
  <2>2. Tables'
      BY <1>1, <1>5, <2>1, GrantsWritten
  <2>3. \/ \A u \in Users : (Members!Manager(u) \in grant) <=> (Members!Manager(u) \in grant')
        \/ Members!ManagesOrg(request[r].grants)
      BY <1>5, <2>1
  <2>4. ASSUME NEW step \in {"grant", "mail"}, request' = Members!Moved(r, step), step # request[r].step,
               KindFits(step, call.kind)
        PROVE  MembersInv' /\ MembersActions
    <3>1. step \in Steps \ {"clear", "commit", "affected", "unassign"}
        BY DEF Steps
    <3>2. \A u \in Users : /\ (Members!Manager(u) \in grant) # (Members!Manager(u) \in grant')
                           /\ "user" \in account'[u]
              => Members!ManagesOrg(request[r].grants)
        BY <2>3
    <3>3. request[r].step \notin {"idle", "answered"} /\ UNCHANGED assignment
          /\ KindFits(step, request[r].call.kind)
        BY <1>1, <1>2, <2>4
    <3> QED BY <2>2, <2>4, <3>1, <3>2, <3>3, MovesWith
  <2>5. CASE request[r].step = "anchor"
    <3>1. request' = Members!Moved(r, "grant") /\ KindFits("grant", call.kind)
        BY <1>4, <2>1, <2>5 DEF Members!At, KindFits
    <3> QED BY <2>4, <2>5, <3>1
  <2>6. CASE request[r].step # "anchor" /\ call.kind = "invite"
    <3>1. request' = Members!Moved(r, "mail") /\ KindFits("mail", call.kind)
        BY <2>1, <2>6 DEF Members!At, KindFits
    <3> QED BY <1>1, <2>4, <2>6, <3>1
  <2>7. CASE request[r].step # "anchor" /\ call.kind # "invite"
    <3>1. request' = Members!Answered(r, "ok")
        BY <2>1, <2>7 DEF Members!At
    <3>2. call.kind \notin {"removeMember", "memberRole"}
        BY <1>4
    <3> QED BY <1>1, <1>2, <2>2, <2>3, <3>1, <3>2, AnswersWith DEF Outcomes
  <2> QED BY <2>5, <2>6, <2>7
<1> QED BY <1>6, <1>7

(* A statement fails.                                                      *)
LEMMA StatementFails ==
    ASSUME Members!MembersOK, MembersInv, NEW r \in Requests, Members!Fail(r), faults \in Nat
    PROVE  MembersInv' /\ MembersActions
<1>1. /\ request[r].step \notin {"idle", "answered"} /\ faults' # faults
      /\ UNCHANGED <<grant, account, assignment>>
    BY DEF Members!Fail
<1>2. PICK old \in WorkRow, call \in Calls :
          /\ old = request[r] /\ call = old.call /\ call = Members!CallOf(r) /\ KindFits(old.step, call.kind)
    BY <1>1, AtWork
<1>3. ASSUME NEW step \in {"identity", "dropIdentity", "dropAgain"}, request' = Members!Moved(r, step),
             call.kind = "invite"
      PROVE  MembersInv' /\ MembersActions
  <2>1. KindFits(step, call.kind) /\ step \in Steps \ {"clear", "commit", "affected", "unassign"}
      BY <1>3 DEF KindFits, Steps
  <2> QED BY <1>1, <1>2, <1>3, <2>1, MovesOnly
<1>4. CASE request' = Members!Answered(r, "error")
    BY <1>1, <1>4, AnswersOnly DEF Outcomes
<1>5. CASE request[r].step \in {"anchor", "grant", "mail"}
  <2>1. request' = Members!Undo(r)
      BY <1>5 DEF Members!Fail, Members!At
  <2> QED BY <1>1, <1>5, <2>1, Undone
<1>6. CASE request[r].step = "lookup"
  <2>1. request' = Members!Moved(r, "identity") /\ call.kind = "invite"
      BY <1>2, <1>6 DEF Members!Fail, Members!At, KindFits
  <2> QED BY <1>3, <2>1
<1>7. CASE request[r].step = "user"
  <2>1. \/ request' = Members!Moved(r, "dropIdentity") /\ call.kind = "invite"
        \/ request' = Members!Answered(r, "error")
      BY <1>2, <1>7 DEF Members!Fail, Members!At
  <2> QED BY <1>3, <1>4, <2>1
<1>8. CASE request[r].step \in {"dropUser", "dropIdentity"}
  <2>1. \/ request' = Members!Moved(r, "dropAgain") /\ call.kind = "invite"
        \/ request' = Members!Answered(r, "error")
      BY <1>2, <1>8 DEF Members!Fail, Members!At
  <2> QED BY <1>3, <1>4, <2>1
<1>9. CASE request[r].step = "dropInvited"
  <2>1. request' = Members!Moved(r, "dropIdentity") /\ call.kind = "invite"
      BY <1>2, <1>9 DEF Members!Fail, Members!At, KindFits
  <2> QED BY <1>3, <2>1
<1>10. CASE request[r].step \notin {"anchor", "grant", "mail", "lookup", "user", "dropUser", "dropIdentity",
                                    "dropInvited"}
  <2>1. request' = Members!Answered(r, "error")
      BY <1>10 DEF Members!Fail, Members!At
  <2> QED BY <1>4, <2>1
<1> QED BY <1>5, <1>6, <1>7, <1>8, <1>9, <1>10

(* Grants are only taken away.                                             *)
LEMMA ManagersGone ==
    ASSUME NEW u, grant' = grant \ Members!GrantsOf(u), "user" \notin account'[u]
    PROVE  \A v \in Users : (Members!Manager(v) \in grant) # (Members!Manager(v) \in grant')
                            => "user" \notin account'[v]
<1>1. \A v : Members!Manager(v).user = v
    BY DEF Members!Manager, Members!Row
<1> QED BY <1>1 DEF Members!GrantsOf

(* An account goes with its grants, unless a chapter refers to it.         *)
LEMMA AccountGone ==
    ASSUME Members!MembersOK, MembersInv, NEW u \in Users, ~Members!Referred(u),
           grant' = grant \ Members!GrantsOf(u), account' = [account EXCEPT ![u] = @ \ {"user"}],
           UNCHANGED assignment
    PROVE  /\ Tables'
           /\ \A v \in Users : (Members!Manager(v) \in grant) # (Members!Manager(v) \in grant')
                               => "user" \notin account'[v]
<1>1. PICK has \in SUBSET {"identity", "user"} : has = account[u] \ {"user"}
    BY DEF MembersInv, Tables
<1>2. account' = [account EXCEPT ![u] = has]
    BY <1>1
<1>3. Tables'
    BY <1>2, AccountsWritten
<1>4. "user" \notin account'[u]
    BY <1>1, <1>2 DEF MembersInv, Tables
<1> QED BY <1>3, <1>4, ManagersGone

(* A user that was just created is deleted again.                          *)
LEMMA UserDropped ==
    ASSUME Members!MembersOK, MembersInv, NEW r \in Requests, Members!DropUser(r)
    PROVE  MembersInv' /\ MembersActions
<1>1. /\ request[r].step \in {"dropUser", "dropAgain", "dropInvited"} /\ UNCHANGED assignment
      /\ request' = Members!Dropped(r)
    BY DEF Members!DropUser
<1>2. PICK old \in WorkRow, call \in Calls :
          /\ old = request[r] /\ call = old.call /\ call = Members!CallOf(r) /\ KindFits(old.step, call.kind)
          /\ call.user \in Users
    BY <1>1, AtWork
<1>3. /\ Tables'
      /\ \A v \in Users : (Members!Manager(v) \in grant) # (Members!Manager(v) \in grant')
                          => "user" \notin account'[v]
  <2>1. CASE Members!Referred(call.user)
    <3>1. UNCHANGED <<grant, account>>
        BY <1>2, <2>1 DEF Members!DropUser
    <3> QED BY <1>1, <3>1, TablesLeft
  <2>2. CASE ~Members!Referred(call.user)
    <3>1. grant' = grant \ Members!GrantsOf(call.user) /\ account' = [account EXCEPT ![call.user] = @ \ {"user"}]
        BY <1>2, <2>2 DEF Members!DropUser
    <3> QED BY <1>1, <1>2, <2>2, <3>1, AccountGone
  <2> QED BY <2>1, <2>2
<1>4. request[r].step # "dropUser" => call.kind = "invite"
    BY <1>1, <1>2 DEF KindFits
<1>5. ASSUME request' = Members!Answered(r, "error"),
             ~Members!Made(r) \/ Members!Referred(call.user)
      PROVE  MembersInv' /\ MembersActions
  <2>1. PICK x \in WorkRow : /\ Members!Answered(r, "error") = [request EXCEPT ![r] = x]
                             /\ Works(x) /\ OrgWide(x.grants)
      BY AnswerRow DEF Outcomes
  <2>2. request' = [request EXCEPT ![r] = x]
      BY <1>5, <2>1
  <2>3. Members!Made(r) => account'[call.user] # {"identity"}
    <3>1. ASSUME Members!Referred(call.user) PROVE account'[call.user] # {"identity"}
      <4>1. "user" \in account[call.user]
          BY <1>2, <3>1, ReferredExists
      <4>2. UNCHANGED account
          BY <1>2, <3>1 DEF Members!DropUser
      <4> QED BY <4>1, <4>2
    <3> QED BY <1>5, <3>1
  <2>4. request[r].call.kind \notin {"removeMember", "memberRole"}
      BY <1>1, <1>2 DEF KindFits
  <2> QED BY <1>2, <1>3, <2>1, <2>2, <2>3, <2>4, RequestWorks
<1>6. ASSUME NEW step \in {"dropAgain", "dropIdentity"}, request' = Members!Moved(r, step),
             request[r].step # step, call.kind = "invite"
      PROVE  MembersInv' /\ MembersActions
  <2>1. KindFits(step, call.kind) /\ step \in Steps \ {"clear", "commit", "affected", "unassign"}
      BY <1>6 DEF KindFits, Steps
  <2>2. /\ request[r].step \notin {"idle", "answered"} /\ KindFits(step, request[r].call.kind)
        /\ \A u \in Users : /\ (Members!Manager(u) \in grant) # (Members!Manager(u) \in grant')
                            /\ "user" \in account'[u]
               => Members!ManagesOrg(request[r].grants)
      BY <1>1, <1>2, <1>3, <2>1
  <2> QED BY <1>1, <1>3, <1>6, <2>1, <2>2, MovesWith
<1>7. CASE call.kind = "create"
  <2>1. request' = Members!Answered(r, "error") /\ ~Members!Made(r)
      BY <1>1, <1>2, <1>7 DEF Members!Dropped, Members!Made
  <2> QED BY <1>5, <2>1
<1>8. CASE call.kind # "create" /\ request[r].step = "dropUser"
  <2>1. call.kind = "invite"
      BY <1>2, <1>8 DEF KindFits
  <2>2. request' = Members!Moved(r, IF Members!Referred(call.user) THEN "dropAgain" ELSE "dropIdentity")
      BY <1>1, <1>2, <1>8 DEF Members!Dropped, Members!At
  <2> QED BY <1>6, <1>8, <2>1, <2>2
<1>9. CASE call.kind # "create" /\ request[r].step # "dropUser"
  <2>1. CASE request[r].step = "dropAgain" /\ Members!Referred(call.user)
    <3>1. request' = Members!Answered(r, "error")
        BY <1>1, <1>2, <1>9, <2>1 DEF Members!Dropped, Members!At
    <3> QED BY <1>5, <2>1, <3>1
  <2>2. CASE ~(request[r].step = "dropAgain" /\ Members!Referred(call.user))
    <3>1. request' = [request EXCEPT ![r].step = "dropIdentity", ![r].seen = {}]
        BY <1>1, <1>2, <1>9, <2>2 DEF Members!Dropped, Members!At
    <3>a. {} \in Found /\ "dropIdentity" \in Steps
        BY DEF Found, Steps
    <3>b. /\ [old EXCEPT !.step = "dropIdentity", !.seen = {}] \in WorkRow
          /\ [old EXCEPT !.step = "dropIdentity", !.seen = {}].step = "dropIdentity"
          /\ [old EXCEPT !.step = "dropIdentity", !.seen = {}].call = old.call
          /\ [old EXCEPT !.step = "dropIdentity", !.seen = {}].grants = old.grants
          /\ [old EXCEPT !.step = "dropIdentity", !.seen = {}].answer = old.answer
        BY <3>a DEF WorkRow
    <3>2. PICK x \in WorkRow : /\ x = [old EXCEPT !.step = "dropIdentity", !.seen = {}]
                               /\ x.step = "dropIdentity" /\ x.call = old.call /\ x.grants = old.grants
                               /\ x.answer = old.answer
        BY <3>b
    <3>3. request' = [request EXCEPT ![r] = x]
        BY <1>2, <3>1, <3>2
    <3>4. KindFits(x.step, x.call.kind) /\ Seeing(x)
        BY <1>2, <1>4, <1>9, <3>2 DEF KindFits, Seeing
    <3>5. /\ x.step # request[r].step /\ request[r].step \notin {"idle", "answered"}
          /\ x.call = request[r].call /\ x.grants = request[r].grants /\ x.answer = request[r].answer
        BY <1>1, <1>2, <3>2
    <3> QED BY <1>1, <1>3, <3>3, <3>4, <3>5, GoesOnWith
  <2> QED BY <2>1, <2>2
<1> QED BY <1>7, <1>8, <1>9

(* The identity of an invitation that failed is deleted.                   *)
LEMMA IdentityDropped ==
    ASSUME Members!MembersOK, MembersInv, NEW r \in Requests, Members!DropIdentity(r)
    PROVE  MembersInv' /\ MembersActions
<1>1. /\ request[r].step = "dropIdentity" /\ UNCHANGED <<grant, assignment>>
      /\ request' = Members!Answered(r, "error")
    BY DEF Members!DropIdentity, Members!At
<1>2. PICK old \in WorkRow, call \in Calls :
          /\ old = request[r] /\ call = old.call /\ call = Members!CallOf(r) /\ KindFits(old.step, call.kind)
          /\ call.user \in Users
    BY <1>1, AtWork
<1>3. PICK has \in SUBSET {"identity", "user"} : has = account[call.user] \ {"identity"}
    BY <1>2 DEF MembersInv, Tables
<1>4. account' = [account EXCEPT ![call.user] = has]
    BY <1>2, <1>3 DEF Members!DropIdentity
<1>5. Tables'
  <2>1. grant' = grant \ {} /\ ("user" \in account[call.user] => "user" \in has)
      BY <1>1, <1>3
  <2> QED BY <1>1, <1>2, <1>4, <2>1, AccountsWritten
<1>6. account'[call.user] # {"identity"}
    BY <1>2, <1>3, <1>4 DEF MembersInv, Tables
<1>7. PICK x \in WorkRow : /\ Members!Answered(r, "error") = [request EXCEPT ![r] = x]
                           /\ Works(x) /\ OrgWide(x.grants)
    BY AnswerRow DEF Outcomes
<1>8. request' = [request EXCEPT ![r] = x] /\ call.kind = "invite"
    BY <1>1, <1>2, <1>7 DEF KindFits
<1> QED BY <1>1, <1>2, <1>5, <1>6, <1>7, <1>8, RequestWorks

(* A user's row goes with the grants, unless it is referred to.            *)
LEMMA AccountDeleted ==
    ASSUME Members!MembersOK, MembersInv, NEW r \in Requests, Members!DeleteAccount(r)
    PROVE  MembersInv' /\ MembersActions
<1>1. request[r].step = "delete" /\ UNCHANGED assignment
    BY DEF Members!DeleteAccount, Members!At
<1>2. PICK old \in WorkRow, call \in Calls :
          /\ old = request[r] /\ call = old.call /\ call = Members!CallOf(r) /\ KindFits(old.step, call.kind)
          /\ call.user \in Users
    BY <1>1, AtWork
<1>3. CASE request' = Members!Answered(r, "refused") /\ UNCHANGED <<grant, account>>
    BY <1>1, <1>3, AnswersOnly DEF Outcomes
<1>4. CASE /\ ~Members!Referred(call.user) /\ grant' = grant \ Members!GrantsOf(call.user)
           /\ account' = [account EXCEPT ![call.user] = @ \ {"user"}]
           /\ request' = Members!Answered(r, "ok")
  <2>1. /\ Tables'
        /\ \A v \in Users : (Members!Manager(v) \in grant) # (Members!Manager(v) \in grant')
                            => "user" \notin account'[v]
      BY <1>1, <1>2, <1>4, AccountGone
  <2>2. PICK x \in WorkRow : /\ Members!Answered(r, "ok") = [request EXCEPT ![r] = x] /\ x.answer = "ok"
                             /\ Works(x) /\ OrgWide(x.grants)
      BY AnswerRow DEF Outcomes
  <2>3. request' = [request EXCEPT ![r] = x] /\ x.answer # "error"
      BY <1>4, <2>2
  <2>4. request[r].call.kind \notin {"removeMember", "memberRole"}
      BY <1>1, <1>2 DEF KindFits
  <2> QED BY <2>1, <2>2, <2>3, <2>4, RequestWorks
<1> QED BY <1>2, <1>3, <1>4 DEF Members!DeleteAccount

(* A chapter gets another drafter that exists, or another status.          *)
LEMMA ChapterWritten ==
    ASSUME MembersInv, NEW c \in Chapters, NEW new \in ChapterRow, assignment' = [assignment EXCEPT ![c] = new],
           new.drafter # None => "user" \in account[new.drafter], new.checker = assignment[c].checker,
           UNCHANGED <<grant, account>>
    PROVE  Tables'
<1>1. /\ assignment' \in [Chapters -> ChapterRow] /\ assignment'[c] = new
      /\ \A b \in Chapters \ {c} : assignment'[b] = assignment[b]
    BY DEF MembersInv, Tables
<1>2. \A b \in Chapters : /\ assignment'[b].drafter # None => "user" \in account[assignment'[b].drafter]
                          /\ assignment'[b].checker # None => "user" \in account[assignment'[b].checker]
    BY <1>1 DEF MembersInv, Tables
<1> QED BY <1>1, <1>2 DEF MembersInv, Tables, OrgWide

(* A chapter gets its drafter or its checker.                              *)
LEMMA ChapterAssigned ==
    ASSUME Members!MembersOK, MembersInv, NEW r \in Requests, Members!AssignChapter(r)
    PROVE  MembersInv' /\ MembersActions
<1>1. request[r].step = "assign" /\ UNCHANGED <<grant, account>>
    BY DEF Members!AssignChapter, Members!At
<1>2. PICK old \in WorkRow, call \in Calls :
          /\ old = request[r] /\ call = old.call /\ call = Members!CallOf(r) /\ KindFits(old.step, call.kind)
          /\ call.user \in Users
    BY <1>1, AtWork
<1>3. call.kind = "assign" /\ ~Members!Made(r)
    BY <1>1, <1>2 DEF KindFits, Members!Made
<1>4. CASE request' = Members!Answered(r, "error") /\ UNCHANGED assignment
    BY <1>1, <1>3, <1>4, AnswersOnly DEF Outcomes
<1>5. ASSUME NEW c \in Chapters, "user" \in account[call.user], request' = Members!Answered(r, "ok"),
             assignment' = [assignment EXCEPT ![c].drafter = call.user,
                                              ![c].status = IF @ = "not_started" THEN "draft" ELSE @]
      PROVE  MembersInv' /\ MembersActions
  <2>1. PICK own \in ChapterRow : own = assignment[c]
      BY DEF MembersInv, Tables
  <2>2. PICK status \in {"not_started", "draft", "peer_check", "complete"} :
            status = IF own.status = "not_started" THEN "draft" ELSE own.status
      BY DEF ChapterRow
  <2>3. /\ [own EXCEPT !.drafter = call.user, !.status = status] \in ChapterRow
        /\ [own EXCEPT !.drafter = call.user, !.status = status].drafter = call.user
        /\ [own EXCEPT !.drafter = call.user, !.status = status].checker = own.checker
      BY <1>2 DEF ChapterRow
  <2>4. PICK new \in ChapterRow : /\ new = [own EXCEPT !.drafter = call.user, !.status = status]
                                  /\ new.drafter = call.user /\ new.checker = own.checker
      BY <2>3
  <2>5. assignment' = [assignment EXCEPT ![c] = new]
      BY <1>5, <2>1, <2>2, <2>4 DEF MembersInv, Tables
  <2>6. Tables'
      BY ZenonT(60), <1>1, <1>5, <2>1, <2>4, <2>5, ChapterWritten
  <2> QED BY <1>1, <1>2, <1>3, <1>5, <2>6, AnswersWith DEF Outcomes
<1> QED BY <1>2, <1>4, <1>5 DEF Members!AssignChapter

(* A drafter submits a chapter.                                            *)
LEMMA ChapterSubmitted ==
    ASSUME Members!MembersOK, MembersInv, NEW r \in Requests, Members!SubmitChapter(r)
    PROVE  MembersInv' /\ MembersActions
<1>1. request[r].step = "submit" /\ UNCHANGED <<grant, account>>
    BY DEF Members!SubmitChapter, Members!At
<1>2. PICK old \in WorkRow, call \in Calls :
          /\ old = request[r] /\ call = old.call /\ call = Members!CallOf(r) /\ KindFits(old.step, call.kind)
    BY <1>1, AtWork
<1>3. call.kind = "submit"
    BY <1>1, <1>2 DEF KindFits
<1>4. CASE request' = Members!Answered(r, "refused") /\ UNCHANGED assignment
    BY <1>1, <1>4, AnswersOnly DEF Outcomes
<1>5. ASSUME NEW c \in Chapters, request' = Members!Answered(r, "ok"),
             assignment' = [assignment EXCEPT ![c].status = IF @ = "draft" THEN "peer_check" ELSE "complete",
                                              ![c].drafted = TRUE]
      PROVE  MembersInv' /\ MembersActions
  <2>1. PICK own \in ChapterRow : own = assignment[c] /\ (own.drafter # None => "user" \in account[own.drafter])
      BY DEF MembersInv, Tables
  <2>2. PICK status \in {"peer_check", "complete"} :
            status = IF own.status = "draft" THEN "peer_check" ELSE "complete"
      OBVIOUS
  <2>3. /\ [own EXCEPT !.status = status, !.drafted = TRUE] \in ChapterRow
        /\ [own EXCEPT !.status = status, !.drafted = TRUE].drafter = own.drafter
        /\ [own EXCEPT !.status = status, !.drafted = TRUE].checker = own.checker
      BY DEF ChapterRow
  <2>4. PICK new \in ChapterRow : /\ new = [own EXCEPT !.status = status, !.drafted = TRUE]
                                  /\ new.drafter = own.drafter /\ new.checker = own.checker
      BY <2>3
  <2>5. assignment' = [assignment EXCEPT ![c] = new]
      BY <1>5, <2>1, <2>2, <2>4 DEF MembersInv, Tables
  <2>6. Tables'
      BY <1>1, <2>1, <2>4, <2>5, ChapterWritten
  <2> QED BY <1>1, <1>2, <1>3, <1>5, <2>6, AnswersWith DEF Outcomes
<1> QED BY <1>4, <1>5 DEF Members!SubmitChapter

(* The statements that failed are counted.                                 *)
LEMMA FaultsCounted ==
    ASSUME faults \in Nat, [Members!Next]_Members!vars
    PROVE  faults' \in Nat
<1>1. CASE UNCHANGED Members!vars
    BY <1>1 DEF Members!vars
<1>2. ASSUME NEW r \in Requests, Members!Authenticate(r) \/ Members!Step(r) \/ Members!Fail(r)
      PROVE  faults' \in Nat
  <2>1. CASE Members!Authenticate(r) \/ Members!Fail(r)
    <3>1. faults' = faults \/ faults' = faults + 1
        BY Zenon, <2>1 DEF Members!Authenticate, Members!Fail
    <3> QED BY <3>1
  <2>2. CASE Members!Step(r)
    <3>1. faults' = faults
        BY <2>2 DEF Members!Step, Members!Check, Members!LockAnchor, Members!Replace, Members!Find,
                    Members!DeleteBegins, Members!DeleteEnds, Members!Insert, Members!Revoke, Members!Change,
                    Members!Affected, Members!Unassign, Members!Lookup, Members!Identity,
                    Members!CreateUser, Members!GrantRole, Members!Mail, Members!DropUser,
                    Members!DropIdentity, Members!DeleteAccount, Members!AssignChapter,
                    Members!SubmitChapter
    <3> QED BY <3>1
  <2> QED BY <1>2, <2>1, <2>2
<1> QED BY <1>1, <1>2 DEF Members!Next

(* Every step of a request keeps the invariant and the three rules.        *)
LEMMA MembersStep ==
    ASSUME Members!MembersOK, MembersInv, faults \in Nat, Members!Next
    PROVE  MembersInv' /\ MembersActions
<1>1. PICK r \in Requests : Members!Authenticate(r) \/ Members!Step(r) \/ Members!Fail(r)
    BY DEF Members!Next
<1>2. CASE Members!Authenticate(r)
    BY <1>2, Authenticated
<1>3. CASE Members!Fail(r)
    BY <1>3, StatementFails
<1>4. CASE \/ Members!Check(r) \/ Members!Lookup(r) \/ Members!Mail(r)
           \/ Members!LockAnchor(r) \/ Members!Revoke(r)
           \/ Members!Find(r) \/ Members!Affected(r) \/ Members!DeleteBegins(r)
    BY <1>4, MembershipChecked, RowsLocked, ChaptersRead
<1>5. CASE \/ Members!Replace(r) \/ Members!DeleteEnds(r) \/ Members!Insert(r) \/ Members!Change(r)
           \/ Members!Unassign(r)
    BY <1>5, RoleReplaced, UserRemoved, MemberAdded, MemberChanged, WorkTakenAway
<1>6. CASE \/ Members!Identity(r) \/ Members!CreateUser(r) \/ Members!GrantRole(r) \/ Members!DropUser(r)
           \/ Members!DropIdentity(r) \/ Members!DeleteAccount(r)
    BY <1>6, IdentityMade, UserCreated, RoleGranted, UserDropped, IdentityDropped, AccountDeleted
<1>7. CASE Members!AssignChapter(r) \/ Members!SubmitChapter(r)
    BY <1>7, ChapterAssigned, ChapterSubmitted
<1> QED BY <1>1, <1>2, <1>3, <1>4, <1>5, <1>6, <1>7 DEF Members!Step

(* Nobody becomes a manager of the organization, or stops being one, but by *)
(* a request of somebody who managed it; an invitation that fails leaves no *)
(* identity without an account unless its roll-back fails; a removal from   *)
(* the project keeps the drafter of a chapter that was submitted            *)
(* (authorize.ts, auth.service.ts, project-users.repository.ts).            *)
THEOREM MembersRules ==
    ASSUME Members!MembersOK
    PROVE  Members!Spec => [][Members!ManagersDecide /\ Members!InvitationWhole
                              /\ Members!SubmittedKept]_Members!vars
<1>1. Members!Init => MembersInv /\ faults \in Nat
    BY MembersStart DEF Members!Init
<1>2. MembersInv /\ faults \in Nat /\ [Members!Next]_Members!vars => MembersInv' /\ faults' \in Nat
  <2>1. ASSUME MembersInv, faults \in Nat, Members!Next PROVE MembersInv'
      BY <2>1, MembersStep
  <2>2. ASSUME MembersInv, UNCHANGED Members!vars PROVE MembersInv'
    <3>1. UNCHANGED request /\ UNCHANGED <<grant, account, assignment>>
        BY <2>2 DEF Members!vars
    <3>2. Tables'
        BY <2>2, <3>1, TablesLeft
    <3>3. Authorised'
        BY ZenonT(60), <2>2, <3>1 DEF MembersInv, Authorised, Works, Seeing, KindFits, OrgWide
    <3> QED BY <3>2, <3>3 DEF MembersInv
  <2> QED BY <2>1, <2>2, FaultsCounted
<1>3. MembersInv /\ faults \in Nat /\ Members!Next
      => Members!ManagersDecide /\ Members!InvitationWhole /\ Members!SubmittedKept
    BY MembersStep DEF MembersActions
<1>4. (faults \in Nat)' <=> faults' \in Nat
    OBVIOUS
<1>5. MembersInv /\ faults \in Nat /\ [Members!Next]_Members!vars
      => [Members!ManagersDecide /\ Members!InvitationWhole /\ Members!SubmittedKept]_Members!vars
    BY <1>3
<1> QED BY <1>1, <1>2, <1>4, <1>5, PTL DEF Members!Spec

-----------------------------------------------------------------------------
(* The settings of a user.                                                 *)

Blob == UNION {[keys -> Settings!Values] : keys \in SUBSET Settings!Settings}
Entry == [pc : {"idle", "write"}, kind : {"settings", "editor", None}, body : Patches \cup Editors \cup {None}]
Wrote(e, k) == e.kind = "settings" /\ k \in DOMAIN e.body

(* What is logged last of a key, and that there is such a last write.      *)
LastIn(writes, k) ==
    LET of == {i \in DOMAIN writes : Wrote(writes[i], k)}
    IN IF of = {} THEN "null" ELSE writes[CHOOSE i \in of : \A j \in of : j <= i].body[k]
HasLast(writes, k) ==
    \/ \A i \in DOMAIN writes : ~Wrote(writes[i], k)
    \/ \E i \in DOMAIN writes : Wrote(writes[i], k) /\ \A j \in DOMAIN writes : Wrote(writes[j], k) => j <= i
Agrees(blob, writes, k) ==
    IF blob # None /\ k \in DOMAIN blob THEN blob[k] = LastIn(writes, k) /\ blob[k] # "null"
    ELSE LastIn(writes, k) = "null"

Bodies(e) == e.kind = "settings" /\ e.pc = "write" => e.body \in Patches
SettingsInv ==
    /\ request \in [Requests -> Entry] /\ log \in Seq(Entry)
    /\ \A r \in Requests : Bodies(request[r])
    /\ settings \in Blob \cup {None}
    /\ \A k \in Settings!Settings : HasLast(log, k) /\ Agrees(settings, log, k)

(* A write that is logged is the last of its keys; the others keep theirs.  *)
LEMMA LastWritten ==
    ASSUME NEW writes \in Seq(Entry), NEW k, NEW i \in DOMAIN writes, Wrote(writes[i], k),
           \A j \in DOMAIN writes : Wrote(writes[j], k) => j <= i
    PROVE  LastIn(writes, k) = writes[i].body[k]
<1> DEFINE of == {j \in DOMAIN writes : Wrote(writes[j], k)}
<1>1. of \subseteq Nat /\ i \in of /\ \A j \in of : j <= i
    OBVIOUS
<1>2. PICK last : last = CHOOSE j \in of : \A n \in of : n <= j
    OBVIOUS
<1>3. last \in of /\ \A n \in of : n <= last
    BY <1>1, <1>2
<1>4. last = i
    BY <1>1, <1>3
<1> QED BY <1>1, <1>2, <1>4 DEF LastIn

(* A key that no write has named was left at null.                         *)
LEMMA NeverWritten ==
    ASSUME NEW writes, NEW k, \A i \in DOMAIN writes : ~Wrote(writes[i], k)
    PROVE  LastIn(writes, k) = "null"
BY DEF LastIn

(* The last value of a key after one more write.                           *)
LEMMA LogGrows ==
    ASSUME NEW writes \in Seq(Entry), NEW e \in Entry, NEW k, HasLast(writes, k)
    PROVE  /\ Append(writes, e) \in Seq(Entry) /\ HasLast(Append(writes, e), k)
           /\ LastIn(Append(writes, e), k) = IF Wrote(e, k) THEN e.body[k] ELSE LastIn(writes, k)
<1>a. /\ Append(writes, e) \in Seq(Entry) /\ Len(writes) \in Nat /\ DOMAIN writes = 1 .. Len(writes)
      /\ DOMAIN Append(writes, e) = 1 .. (Len(writes) + 1) /\ Append(writes, e)[Len(writes) + 1] = e
      /\ \A i \in 1 .. Len(writes) : Append(writes, e)[i] = writes[i]
    OBVIOUS
<1>1. PICK more \in Seq(Entry), n \in Nat :
          /\ more = Append(writes, e) /\ n = Len(writes) /\ DOMAIN writes = 1 .. n
          /\ DOMAIN more = 1 .. (n + 1) /\ more[n + 1] = e /\ \A i \in 1 .. n : more[i] = writes[i]
    BY <1>a
<1>2. CASE Wrote(e, k)
  <2>1. n + 1 \in DOMAIN more /\ Wrote(more[n + 1], k) /\ \A j \in DOMAIN more : j <= n + 1
      BY <1>1, <1>2
  <2>2. LastIn(more, k) = more[n + 1].body[k]
      BY <2>1, LastWritten
  <2>3. HasLast(more, k)
      BY <2>1 DEF HasLast
  <2> QED BY <1>1, <1>2, <2>2, <2>3
<1>3. CASE ~Wrote(e, k)
  <2>1. \A i \in DOMAIN more : Wrote(more[i], k) <=> i \in DOMAIN writes /\ Wrote(writes[i], k)
      BY <1>1, <1>3
  <2>2. CASE \A i \in DOMAIN writes : ~Wrote(writes[i], k)
    <3>1. \A i \in DOMAIN more : ~Wrote(more[i], k)
        BY <2>1, <2>2
    <3>2. LastIn(more, k) = "null" /\ LastIn(writes, k) = "null"
        BY <2>2, <3>1, NeverWritten
    <3> QED BY <1>1, <1>3, <3>1, <3>2 DEF HasLast
  <2>3. ASSUME NEW i \in DOMAIN writes, Wrote(writes[i], k),
               \A j \in DOMAIN writes : Wrote(writes[j], k) => j <= i
        PROVE  HasLast(more, k) /\ LastIn(more, k) = LastIn(writes, k)
    <3>1. i \in DOMAIN more /\ Wrote(more[i], k) /\ \A j \in DOMAIN more : Wrote(more[j], k) => j <= i
        BY <1>1, <2>1, <2>3
    <3>2. LastIn(more, k) = more[i].body[k]
        BY <3>1, LastWritten
    <3>3. LastIn(writes, k) = writes[i].body[k]
        BY <2>3, LastWritten
    <3> QED BY <1>1, <2>3, <3>1, <3>2, <3>3 DEF HasLast
  <2> QED BY <1>1, <1>3, <2>2, <2>3 DEF HasLast
<1> QED BY <1>2, <1>3

(* A patch is merged key by key; a null deletes, and none is kept.         *)
LEMMA MergedByKey ==
    ASSUME Settings!PatchesOK, NEW patch \in Patches, NEW blob \in Blob \cup {None}
    PROVE  /\ Settings!Merged(blob, patch) \in Blob
           /\ \A k : /\ k \in DOMAIN Settings!Merged(blob, patch) <=>
                            IF k \in DOMAIN patch THEN patch[k] # "null"
                            ELSE blob # None /\ k \in DOMAIN blob /\ blob[k] # "null"
                     /\ k \in DOMAIN Settings!Merged(blob, patch) =>
                            Settings!Merged(blob, patch)[k] = IF k \in DOMAIN patch THEN patch[k] ELSE blob[k]
<1>1. patch \in [DOMAIN patch -> Settings!Values] /\ DOMAIN patch \in SUBSET Settings!Settings
    BY DEF Settings!PatchesOK, Settings!Settings
<1>2. ASSUME NEW keys \in SUBSET Settings!Settings, NEW f \in [keys -> Settings!Values]
      PROVE  /\ Settings!Stripped(f) \in Blob
             /\ \A k : /\ k \in DOMAIN Settings!Stripped(f) <=> k \in keys /\ f[k] # "null"
                       /\ k \in DOMAIN Settings!Stripped(f) => Settings!Stripped(f)[k] = f[k]
  <2>1. PICK left \in SUBSET Settings!Settings : left = {k \in DOMAIN f : f[k] # "null"}
      OBVIOUS
  <2>2. Settings!Stripped(f) = [k \in left |-> f[k]]
      BY <2>1 DEF Settings!Stripped, Settings!Null
  <2>3. [k \in left |-> f[k]] \in [left -> Settings!Values]
      BY <2>1
  <2>4. Settings!Stripped(f) \in Blob
      BY <2>2, <2>3 DEF Blob
  <2> QED BY <2>1, <2>2, <2>4
<1>3. CASE blob = None
  <2>1. Settings!Merged(blob, patch) = Settings!Stripped(patch)
      BY <1>3 DEF Settings!Merged
  <2> QED BY <1>1, <1>2, <1>3, <2>1
<1>4. CASE blob # None
  <2>1. PICK keys \in SUBSET Settings!Settings : blob \in [keys -> Settings!Values]
      BY <1>4 DEF Blob
  <2>2. PICK all \in SUBSET Settings!Settings : all = DOMAIN patch \cup DOMAIN blob
      BY <1>1, <2>1
  <2>3. PICK f : f = Settings!Over(patch, blob)
      OBVIOUS
  <2>4. f \in [all -> Settings!Values] /\ \A k \in all : f[k] = IF k \in DOMAIN patch THEN patch[k] ELSE blob[k]
      BY <1>1, <2>1, <2>2, <2>3 DEF Settings!Over
  <2>5. Settings!Merged(blob, patch) = Settings!Stripped(f)
      BY <1>4, <2>3 DEF Settings!Merged
  <2> QED BY <1>1, <1>2, <1>4, <2>1, <2>2, <2>4, <2>5
<1> QED BY <1>3, <1>4

(* Of one key: what the merge leaves is what its last writer wrote.        *)
LEMMA KeyMerged ==
    ASSUME Settings!PatchesOK, NEW e \in Entry, e.body \in Patches, e.kind = "settings",
           NEW blob \in Blob \cup {None}, NEW writes \in Seq(Entry), NEW k, HasLast(writes, k),
           Agrees(blob, writes, k)
    PROVE  Agrees(Settings!Merged(blob, e.body), Append(writes, e), k)
<1>1. PICK new \in Blob :
          /\ new = Settings!Merged(blob, e.body)
          /\ k \in DOMAIN new <=> IF k \in DOMAIN e.body THEN e.body[k] # "null"
                                  ELSE blob # None /\ k \in DOMAIN blob /\ blob[k] # "null"
          /\ k \in DOMAIN new => new[k] = IF k \in DOMAIN e.body THEN e.body[k] ELSE blob[k]
    BY MergedByKey
<1>2. new # None
    BY DEF Blob, Settings!PatchesOK
<1>3. LastIn(Append(writes, e), k) = IF k \in DOMAIN e.body THEN e.body[k] ELSE LastIn(writes, k)
    BY LogGrows DEF Wrote
<1> QED BY <1>1, <1>2, <1>3 DEF Agrees

(* Before the first write all keys are null.                               *)
LEMMA SettingsStart ==
    Settings!Init => SettingsInv
<1> SUFFICES ASSUME Settings!Init PROVE SettingsInv
    OBVIOUS
<1>1. Settings!Idle \in Entry /\ Settings!Idle.pc = "idle"
    BY DEF Settings!Idle, Entry
<1>2. request \in [Requests -> Entry] /\ \A r \in Requests : Bodies(request[r])
    BY <1>1 DEF Settings!Init, Bodies
<1>3. log \in Seq(Entry) /\ DOMAIN log = {} /\ settings = None
    BY DEF Settings!Init
<1>4. \A k : HasLast(log, k) /\ Agrees(settings, log, k)
    BY <1>3, NeverWritten DEF HasLast, Agrees
<1> QED BY <1>2, <1>3, <1>4 DEF SettingsInv

(* The steps of the writers of the settings.                               *)
LEMMA SettingsStep ==
    ASSUME Settings!PatchesOK, SettingsInv, [Settings!Next]_Settings!vars
    PROVE  SettingsInv'
<1>1. CASE UNCHANGED Settings!vars
    BY <1>1 DEF Settings!vars, SettingsInv, Bodies
<1>2. ASSUME NEW r \in Requests, NEW e \in Entry, request' = [request EXCEPT ![r] = e], Bodies(e),
             UNCHANGED <<settings, log>>
      PROVE  SettingsInv'
  <2>1. request' \in [Requests -> Entry] /\ \A q \in Requests : Bodies(request'[q])
      BY <1>2 DEF SettingsInv
  <2>2. \A q \in Requests : Bodies(request[q])' <=> Bodies(request'[q])
      BY DEF Bodies
  <2> QED BY <1>2, <2>1, <2>2 DEF SettingsInv
<1>3. ASSUME NEW r \in Requests, NEW patch \in Patches, Settings!PutSettings(r, patch) PROVE SettingsInv'
  <2>1. PICK e \in Entry : e = [pc |-> "write", kind |-> "settings", body |-> patch] /\ Bodies(e)
    <3>1. [pc |-> "write", kind |-> "settings", body |-> patch] \in Entry
        BY DEF Entry
    <3> QED BY <3>1 DEF Bodies
  <2> QED BY <1>2, <1>3, <2>1 DEF Settings!PutSettings
<1>4. ASSUME NEW r \in Requests, NEW state \in Editors, Settings!PutEditorState(r, state) PROVE SettingsInv'
  <2>1. PICK e \in Entry : e = [pc |-> "write", kind |-> "editor", body |-> state] /\ Bodies(e)
    <3>1. [pc |-> "write", kind |-> "editor", body |-> state] \in Entry
        BY DEF Entry
    <3> QED BY <3>1 DEF Bodies
  <2> QED BY <1>2, <1>4, <2>1 DEF Settings!PutEditorState
<1>5. ASSUME NEW r \in Requests, Settings!Write(r) PROVE SettingsInv'
  <2>1. PICK e \in Entry : e = request[r] /\ e.pc = "write" /\ Bodies(e)
      BY <1>5 DEF SettingsInv, Settings!Write
  <2>2. PICK idle \in Entry : idle = Settings!Idle /\ Bodies(idle)
    <3>1. Settings!Idle \in Entry /\ Settings!Idle.pc = "idle"
        BY DEF Settings!Idle, Entry
    <3> QED BY <3>1 DEF Bodies
  <2>3. request' = [request EXCEPT ![r] = idle] /\ log' = Append(log, e)
      BY <1>5, <2>1, <2>2 DEF Settings!Write
  <2>4. request' \in [Requests -> Entry] /\ \A q \in Requests : Bodies(request'[q])
      BY <2>2, <2>3 DEF SettingsInv
  <2>5. \A k \in Settings!Settings : HasLast(Append(log, e), k)
      BY LogGrows DEF SettingsInv
  <2>6. Append(log, e) \in Seq(Entry)
      BY DEF SettingsInv
  <2>7. settings' \in Blob \cup {None} /\ \A k \in Settings!Settings : Agrees(settings', Append(log, e), k)
    <3>1. CASE e.kind = "settings"
      <4>1. e.body \in Patches /\ settings' = Settings!Merged(settings, e.body)
          BY <1>5, <2>1, <3>1 DEF Settings!Write, Bodies
      <4>2. Settings!Merged(settings, e.body) \in Blob
          BY <4>1, MergedByKey DEF SettingsInv
      <4> QED BY <3>1, <4>1, <4>2, KeyMerged DEF SettingsInv
    <3>2. CASE e.kind # "settings"
      <4>1. settings' = settings
          BY <1>5, <2>1, <3>2 DEF Settings!Write
      <4>2. \A k \in Settings!Settings : LastIn(Append(log, e), k) = LastIn(log, k)
          BY <3>2, LogGrows DEF SettingsInv, Wrote
      <4> QED BY <4>1, <4>2 DEF SettingsInv, Agrees
    <3> QED BY <3>1, <3>2
  <2>8. \A q \in Requests : Bodies(request[q])' <=> Bodies(request'[q])
      BY DEF Bodies
  <2>9. \A k \in Settings!Settings : HasLast(log', k) /\ Agrees(settings', log', k)
      BY <2>3, <2>5, <2>7
  <2> QED BY <2>3, <2>4, <2>6, <2>7, <2>8, <2>9 DEF SettingsInv
<1> QED BY <1>1, <1>3, <1>4, <1>5 DEF Settings!Next

(* Each key of the settings is as its last writer left it, whatever other   *)
(* devices wrote to the other keys and whoever made the row, and no null is *)
(* kept (self-settings.repository.ts).                                     *)
THEOREM KeysAsLastWritten ==
    ASSUME Settings!PatchesOK
    PROVE  Settings!Spec => []Settings!EachKeyAsLastWritten
<1>1. Settings!Init => SettingsInv
    BY SettingsStart
<1>2. SettingsInv /\ [Settings!Next]_Settings!vars => SettingsInv'
    BY SettingsStep
<1>3. SettingsInv => Settings!EachKeyAsLastWritten
  <2>1. \A k : Settings!Last("settings", k) = LastIn(log, k)
      BY DEF Settings!Last, LastIn, Wrote, Settings!Null
  <2> QED BY <2>1 DEF SettingsInv, Agrees, Settings!EachKeyAsLastWritten, Settings!Null
<1> QED BY <1>1, <1>2, <1>3, PTL DEF Settings!Spec

-----------------------------------------------------------------------------
(* The buckets of the rate limiter.                                        *)

ClientBucket == [client : Clients, count : 1 .. Limit, resetAt : Nat]

(* A client has one bucket, and the table has no more than it may.         *)
BucketsTyped ==
    /\ buckets \in Seq(ClientBucket) /\ Len(buckets) <= MaxBuckets
    /\ \A i, j \in DOMAIN buckets : buckets[i].client = buckets[j].client => i = j
    /\ now \in Nat /\ evicted \subseteq Clients
    /\ admitted \in [Clients -> Seq(Nat)]

(* The finite sets of the limiter are the finite sets.                     *)
LEMMA LimiterCounts ==
    ASSUME NEW S
    PROVE  Limits!Cardinality(S) = Cardinality(S)
BY DEF Cardinality, Limits!Cardinality, IsFiniteSet, Limits!IsFiniteSet

(* The members of a set of numbers up to n are counted off in their order. *)
LEMMA CountedOff ==
    ASSUME NEW n \in Nat, NEW live \in SUBSET (1 .. n)
    PROVE  /\ Cardinality(live) \in 0 .. n /\ (Cardinality(live) = n => live = 1 .. n)
           /\ \A k \in 1 .. Cardinality(live) : \E i \in live : Cardinality({j \in live : j <= i}) = k
           /\ \A i \in live : Cardinality({j \in live : j <= i}) \in 1 .. Cardinality(live)
           /\ \A i, h \in live : Cardinality({j \in live : j <= i}) = Cardinality({j \in live : j <= h}) => i = h
<1> DEFINE turn(i) == Cardinality({j \in live : j <= i})
<1>1. IsFiniteSet(1 .. n) /\ Cardinality(1 .. n) = n
    BY FS_Interval
<1>2. IsFiniteSet(live) /\ Cardinality(live) \in 0 .. n /\ (Cardinality(live) = n => live = 1 .. n)
  <2>1. IsFiniteSet(live) /\ Cardinality(live) <= n /\ (Cardinality(live) = n => live = 1 .. n)
      BY <1>1, FS_Subset
  <2> QED BY <2>1, FS_CardinalityType
<1>3. PICK m \in Nat : m = Cardinality(live)
    BY <1>2
<1>4. ASSUME NEW i \in live
      PROVE  turn(i) \in 1 .. m
  <2>1. {j \in live : j <= i} \subseteq live /\ i \in {j \in live : j <= i}
      BY <1>2
  <2>2. IsFiniteSet({j \in live : j <= i}) /\ turn(i) <= m /\ turn(i) \in Nat
      BY <1>2, <1>3, <2>1, FS_Subset, FS_CardinalityType
  <2>3. turn(i) # 0
      BY <2>1, <2>2, FS_EmptySet
  <2> QED BY <2>2, <2>3
<1>5. ASSUME NEW i \in live, NEW h \in live, i < h
      PROVE  turn(i) # turn(h)
  <2>1. PICK before, upto : before = {j \in live : j <= i} /\ upto = {j \in live : j <= h}
      OBVIOUS
  <2>2. before \subseteq upto /\ h \in upto /\ h \notin before
    <3>1. i \in Nat /\ h \in Nat /\ \A j \in live : j \in Nat
        OBVIOUS
    <3>2. \A j \in live : j <= i => j <= h
        BY <1>5, <3>1
    <3>3. h <= h /\ ~(h <= i)
        BY <1>5, <3>1
    <3> QED BY <2>1, <3>2, <3>3
  <2>3. IsFiniteSet(upto)
      BY <1>2, <2>1, FS_Subset
  <2>4. Cardinality(before) # Cardinality(upto)
      BY <2>2, <2>3, FS_Subset
  <2> QED BY <2>1, <2>4
<1>6. \A i, h \in live : turn(i) = turn(h) => i = h
    BY <1>5
<1>7. ASSUME NEW k \in 1 .. m
      PROVE  \E i \in live : turn(i) = k
  <2>1. PICK f : f = [i \in live |-> turn(i)]
      OBVIOUS
  <2>2. f \in Injection(live, 1 .. m)
      BY <1>4, <1>6, <2>1 DEF Injection, IsInjective
  <2>3. Cardinality(1 .. m) = m /\ IsFiniteSet(1 .. m)
      BY <1>3, FS_Interval
  <2>4. f \in Surjection(live, 1 .. m)
      BY <1>2, <1>3, <2>2, <2>3, FS_Injection
  <2> QED BY <2>1, <2>4 DEF Surjection
<1> QED BY <1>2, <1>3, <1>4, <1>6, <1>7

(* The buckets that are kept are those whose window has not ended.         *)
LEMMA KeptAre ==
    ASSUME BucketsTyped
    PROVE  /\ Limits!Kept \in Seq(ClientBucket) /\ Len(Limits!Kept) <= Len(buckets)
           /\ \A k \in DOMAIN Limits!Kept : \E i \in DOMAIN buckets : Limits!Kept[k] = buckets[i]
           /\ \A k, h \in DOMAIN Limits!Kept : Limits!Kept[k].client = Limits!Kept[h].client => k = h
           /\ \A i \in DOMAIN buckets : Limits!Live(buckets[i]) => \E k \in DOMAIN Limits!Kept : Limits!Kept[k] = buckets[i]
           /\ Len(Limits!Kept) = Len(buckets) => \A i \in DOMAIN buckets : Limits!Live(buckets[i])
<1>1. PICK n \in Nat : n = Len(buckets) /\ DOMAIN buckets = 1 .. n
    BY DEF BucketsTyped
<1> DEFINE theirs == {i \in DOMAIN buckets : Limits!Live(buckets[i])}
           upTo(i) == {j \in theirs : j <= i}
<1>a. Limits!Kept = [k \in 1 .. Limits!Cardinality(theirs) |->
                        buckets[CHOOSE i \in theirs : Limits!Cardinality(upTo(i)) = k]]
    BY Zenon DEF Limits!Kept
<1>2. PICK live \in SUBSET (1 .. n) : live = theirs
    BY <1>1
<1>b. \A i \in DOMAIN buckets : i \in live <=> Limits!Live(buckets[i])
    BY <1>2
<1> DEFINE turn(i) == Cardinality({j \in live : j <= i})
<1>c. \A i : turn(i) = Limits!Cardinality(upTo(i))
    BY <1>2, LimiterCounts
<1>3. PICK m \in 0 .. n : m = Cardinality(live) /\ (m = n => live = 1 .. n)
    BY CountedOff
<1>d. m = Limits!Cardinality(theirs)
    BY <1>2, <1>3, LimiterCounts
<1>e. \A i, h \in live : turn(i) = turn(h) => i = h
    BY CountedOff
<1>4. PICK place : place = [k \in 1 .. m |-> CHOOSE i \in live : turn(i) = k]
    OBVIOUS
<1>5. \A k \in 1 .. m : place[k] \in live /\ turn(place[k]) = k
  <2>1. ASSUME NEW k \in 1 .. m
        PROVE  place[k] \in live /\ turn(place[k]) = k
    <3>1. \E i \in live : turn(i) = k
        BY <1>3, CountedOff
    <3>2. place[k] = CHOOSE i \in live : turn(i) = k
        BY <1>4
    <3> HIDE DEF turn
    <3> QED BY <3>1, <3>2
  <2> QED BY <2>1
<1>6. \A i \in live : turn(i) \in 1 .. m /\ place[turn(i)] = i
  <2>1. ASSUME NEW i \in live
        PROVE  turn(i) \in 1 .. m /\ place[turn(i)] = i
    <3>1. turn(i) \in 1 .. m
        BY <1>3, CountedOff
    <3>2. place[turn(i)] \in live /\ turn(place[turn(i)]) = turn(i)
        BY <1>5, <3>1
    <3> HIDE DEF turn
    <3> QED BY <1>e, <3>1, <3>2
  <2> QED BY <2>1
<1>7. Limits!Kept = [k \in 1 .. m |-> buckets[place[k]]]
  <2> DEFINE taking(k) == CHOOSE i \in live : turn(i) = k
  <2>1. \A k \in 1 .. m : place[k] = taking(k)
      BY <1>4
  <2> HIDE DEF theirs, turn, upTo
  <2>2. Limits!Kept = [k \in 1 .. m |-> buckets[CHOOSE i \in live : turn(i) = k]]
      BY SMTT(60), <1>2, <1>a, <1>c, <1>d
  <2>3. Limits!Kept = [k \in 1 .. m |-> buckets[taking(k)]]
      BY <2>2
  <2> HIDE DEF taking
  <2> QED BY <2>1, <2>3
<1>8. \A i \in 1 .. n : buckets[i] \in ClientBucket
    BY <1>1 DEF BucketsTyped
<1>9. PICK kept \in Seq(ClientBucket) : kept = Limits!Kept /\ DOMAIN kept = 1 .. m /\ Len(kept) = m
                                       /\ \A k \in 1 .. m : kept[k] = buckets[place[k]]
  <2>1. [k \in 1 .. m |-> buckets[place[k]]] \in [1 .. m -> ClientBucket]
      BY <1>5, <1>8
  <2> QED BY <1>3, <1>7, <2>1
<1>10. \A k, h \in 1 .. m : kept[k].client = kept[h].client => k = h
  <2>1. \A k, h \in 1 .. m : kept[k].client = kept[h].client => place[k] = place[h]
    <3>1. \A k \in 1 .. m : place[k] \in DOMAIN buckets
        BY <1>1, <1>5
    <3> QED BY <1>9, <3>1 DEF BucketsTyped
  <2>2. \A k, h \in 1 .. m : place[k] = place[h] => k = h
    <3> HIDE DEF turn
    <3> QED BY <1>5
  <2> QED BY <2>1, <2>2
<1> HIDE DEF theirs, turn, upTo
<1>11. \A i \in 1 .. n : Limits!Live(buckets[i]) => \E k \in 1 .. m : kept[k] = buckets[i]
    BY <1>1, <1>b, <1>6, <1>9
<1>12. m = n => \A i \in 1 .. n : Limits!Live(buckets[i])
    BY <1>1, <1>b, <1>3
<1>13. \A k \in 1 .. m : \E i \in DOMAIN buckets : kept[k] = buckets[i]
  <2>1. \A k \in 1 .. m : place[k] \in DOMAIN buckets
      BY <1>1, <1>5
  <2> QED BY <1>9, <2>1
<1>14. kept \in Seq(ClientBucket) /\ Len(kept) <= Len(buckets)
    BY <1>1, <1>3, <1>9
<1>15. \A k, h \in DOMAIN kept : kept[k].client = kept[h].client => k = h
    BY <1>9, <1>10
<1>16. \A i \in DOMAIN buckets : Limits!Live(buckets[i]) => \E k \in DOMAIN kept : kept[k] = buckets[i]
    BY <1>1, <1>9, <1>11
<1>17. Len(kept) = Len(buckets) => \A i \in DOMAIN buckets : Limits!Live(buckets[i])
    BY <1>1, <1>9, <1>12
<1>18. \A k \in DOMAIN kept : \E i \in DOMAIN buckets : kept[k] = buckets[i]
    BY <1>9, <1>13
<1>19. Limits!Kept = kept
    BY <1>9
<1>20. \A k \in DOMAIN Limits!Kept : \E i \in DOMAIN buckets : Limits!Kept[k] = buckets[i]
    BY <1>18, <1>19
<1>21. \A k, h \in DOMAIN Limits!Kept : Limits!Kept[k].client = Limits!Kept[h].client => k = h
    BY <1>15, <1>19
<1>22. \A i \in DOMAIN buckets : Limits!Live(buckets[i]) => \E k \in DOMAIN Limits!Kept : Limits!Kept[k] = buckets[i]
    BY <1>16, <1>19
<1> QED BY <1>14, <1>17, <1>19, <1>20, <1>21, <1>22

(* There is room for one more bucket, and a live one only gives way when    *)
(* the table is full of live ones.                                         *)
LEMMA RoomIs ==
    ASSUME Limits!LimitsOK, BucketsTyped
    PROVE  \E room \in Seq(ClientBucket) :
              /\ room = Limits!Room /\ Len(room) < MaxBuckets
              /\ \A k \in DOMAIN room : \E i \in DOMAIN buckets : room[k] = buckets[i]
              /\ \A k, h \in DOMAIN room : room[k].client = room[h].client => k = h
              /\ \A i \in DOMAIN buckets : Limits!Live(buckets[i]) /\ (\A k \in DOMAIN room : room[k] # buckets[i]) =>
                    Len(buckets) = MaxBuckets /\ \A j \in DOMAIN buckets : Limits!Live(buckets[j])
<1>1. buckets \in Seq(ClientBucket) /\ Len(buckets) \in Nat /\ Len(buckets) <= MaxBuckets /\ MaxBuckets \in Nat \ {0}
      /\ \A i, j \in DOMAIN buckets : buckets[i].client = buckets[j].client => i = j
    BY DEF BucketsTyped, Limits!LimitsOK
<1>2. PICK kept \in Seq(ClientBucket) :
          /\ kept = Limits!Kept /\ Len(kept) \in Nat /\ Len(kept) <= Len(buckets)
          /\ \A k \in DOMAIN kept : \E i \in DOMAIN buckets : kept[k] = buckets[i]
          /\ \A k, h \in DOMAIN kept : kept[k].client = kept[h].client => k = h
          /\ \A i \in DOMAIN buckets : Limits!Live(buckets[i]) => \E k \in DOMAIN kept : kept[k] = buckets[i]
          /\ Len(kept) = Len(buckets) => \A i \in DOMAIN buckets : Limits!Live(buckets[i])
    BY KeptAre
<1>3. CASE Len(buckets) < MaxBuckets
  <2>1. Limits!Room = buckets
      BY <1>3 DEF Limits!Room
  <2> QED BY <1>1, <1>3, <2>1
<1>4. CASE ~(Len(buckets) < MaxBuckets) /\ Len(kept) < MaxBuckets
  <2>1. Limits!Room = kept
      BY <1>2, <1>4 DEF Limits!Room
  <2> QED BY <1>2, <1>4, <2>1
<1>5. CASE ~(Len(buckets) < MaxBuckets) /\ ~(Len(kept) < MaxBuckets)
  <2>1. Len(kept) = MaxBuckets /\ Len(buckets) = MaxBuckets
      BY <1>1, <1>2, <1>5
  <2>2. Limits!Room = SubSeq(kept, 2, MaxBuckets)
    <3>1. Limits!Room = SubSeq(kept, Len(kept) - MaxBuckets + 2, Len(kept))
        BY <1>2, <1>5 DEF Limits!Room
    <3>2. Len(kept) - MaxBuckets + 2 = 2
        BY <1>1, <2>1
    <3> QED BY <2>1, <3>1, <3>2
  <2>3. PICK room \in Seq(ClientBucket) :
            /\ room = SubSeq(kept, 2, MaxBuckets) /\ Len(room) = MaxBuckets - 1
            /\ \A k \in 1 .. MaxBuckets - 1 : room[k] = kept[k + 1]
    <3>1. \A k \in 1 .. MaxBuckets : kept[k] \in ClientBucket
        BY <1>2, <2>1
    <3>2. SubSeq(kept, 2, MaxBuckets) \in Seq(ClientBucket)
        BY <1>1, <2>1, <3>1
    <3>3. Len(SubSeq(kept, 2, MaxBuckets)) = MaxBuckets - 1
        BY <1>1, <2>1
    <3>4. \A k \in 1 .. MaxBuckets - 1 : SubSeq(kept, 2, MaxBuckets)[k] = kept[k + 1]
        BY <1>1, <2>1
    <3> QED BY <3>2, <3>3, <3>4
  <2>4. \A k \in DOMAIN room : k + 1 \in DOMAIN kept /\ room[k] = kept[k + 1]
    <3>1. DOMAIN kept = 1 .. MaxBuckets /\ MaxBuckets \in Nat
        BY <1>1, <1>2, <2>1
    <3>2. DOMAIN room = 1 .. MaxBuckets - 1
        BY <1>1, <2>3
    <3>3. \A k \in 1 .. MaxBuckets - 1 : k + 1 \in 1 .. MaxBuckets
        BY <3>1
    <3> QED BY <2>3, <3>1, <3>2, <3>3
  <2>5. \A k \in DOMAIN room : \E i \in DOMAIN buckets : room[k] = buckets[i]
      BY <1>2, <2>4
  <2>6. \A k, h \in DOMAIN room : room[k].client = room[h].client => k = h
    <3>1. ASSUME NEW k \in DOMAIN room, NEW h \in DOMAIN room, room[k].client = room[h].client
          PROVE  k = h
      <4>1. k + 1 = h + 1 /\ k \in Nat /\ h \in Nat
          BY <1>2, <2>3, <2>4, <3>1, SMTT(60)
      <4> QED BY <4>1
    <3> QED BY <3>1
  <2>7. \A j \in DOMAIN buckets : Limits!Live(buckets[j])
      BY <1>2, <2>1
  <2>8. Len(room) < MaxBuckets
      BY <1>1, <2>3
  <2> QED BY <2>1, <2>2, <2>3, <2>5, <2>6, <2>7, <2>8
<1> QED BY <1>3, <1>4, <1>5

(* A bucket that is put in the table has the place of the client's own, or  *)
(* the last one, and the others stay.                                      *)
IsPut(put, table, bucket) ==
    /\ put = Limits!Put(table, bucket)
    /\ Len(put) = IF \E i \in DOMAIN table : table[i].client = bucket.client THEN Len(table) ELSE Len(table) + 1
    /\ \A k, h \in DOMAIN put : put[k].client = put[h].client => k = h
    /\ \E k \in DOMAIN put : put[k] = bucket
    /\ \A k \in DOMAIN put :
          put[k] = bucket \/ (put[k].client # bucket.client /\ \E i \in DOMAIN table : put[k] = table[i])
    /\ \A i \in DOMAIN table : table[i].client # bucket.client => \E k \in DOMAIN put : put[k] = table[i]

(* Putting a bucket in is that.                                            *)
LEMMA PutIs ==
    ASSUME NEW table \in Seq(ClientBucket), NEW bucket \in ClientBucket,
           \A i, j \in DOMAIN table : table[i].client = table[j].client => i = j
    PROVE  \E put \in Seq(ClientBucket) : IsPut(put, table, bucket)
<1>1. PICK n \in Nat : n = Len(table) /\ DOMAIN table = 1 .. n
    OBVIOUS
<1>2. CASE \E i \in DOMAIN table : table[i].client = bucket.client
  <2>1. PICK put \in [1 .. n -> ClientBucket] :
            put = [i \in 1 .. n |-> IF table[i].client = bucket.client THEN bucket ELSE table[i]]
    <3>1. \A i \in 1 .. n : table[i] \in ClientBucket
        BY <1>1
    <3> QED BY <3>1
  <2>2. put = Limits!Put(table, bucket)
      BY <1>1, <1>2, <2>1 DEF Limits!Put
  <2>3. put \in Seq(ClientBucket) /\ Len(put) = n /\ DOMAIN put = 1 .. n
      BY <2>1
  <2>4. \A i \in 1 .. n : put[i].client = table[i].client
      BY <1>1, <2>1
  <2>5. \A k, h \in 1 .. n : put[k].client = put[h].client => k = h
      BY <1>1, <2>4
  <2>6. \A k \in 1 .. n : put[k] = bucket \/ (put[k].client # bucket.client /\ put[k] = table[k])
      BY <2>1
  <2>7. \A i \in 1 .. n : table[i].client # bucket.client => put[i] = table[i]
      BY <2>1
  <2>8. \E k \in 1 .. n : put[k] = bucket
      BY <1>1, <1>2, <2>1
  <2>9. Len(put) = IF \E i \in DOMAIN table : table[i].client = bucket.client THEN Len(table) ELSE Len(table) + 1
      BY <1>1, <1>2, <2>3
  <2>10. \A k \in DOMAIN put :
            put[k] = bucket \/ (put[k].client # bucket.client /\ \E i \in DOMAIN table : put[k] = table[i])
      BY <1>1, <2>3, <2>6
  <2>11. \A i \in DOMAIN table : table[i].client # bucket.client => \E k \in DOMAIN put : put[k] = table[i]
      BY <1>1, <2>3, <2>7
  <2> QED BY <1>1, <2>2, <2>3, <2>5, <2>8, <2>9, <2>10, <2>11, ZenonT(60) DEF IsPut
<1>3. CASE ~(\E i \in DOMAIN table : table[i].client = bucket.client)
  <2>1. PICK put : put = Append(table, bucket)
      OBVIOUS
  <2>2. put = Limits!Put(table, bucket)
      BY <1>3, <2>1 DEF Limits!Put
  <2>3. put \in Seq(ClientBucket) /\ Len(put) = n + 1 /\ DOMAIN put = 1 .. n + 1
      BY <1>1, <2>1
  <2>4. put[n + 1] = bucket /\ \A i \in 1 .. n : put[i] = table[i]
      BY <1>1, <2>1
  <2>5. \A i \in 1 .. n : table[i].client # bucket.client
      BY <1>1, <1>3
  <2>6. \A k \in 1 .. n + 1 : k \in 1 .. n \/ k = n + 1
      OBVIOUS
  <2>7. \A k, h \in 1 .. n + 1 : put[k].client = put[h].client => k = h
      BY <1>1, <2>4, <2>5, <2>6
  <2>8. \A k \in 1 .. n + 1 :
            put[k] = bucket \/ (put[k].client # bucket.client /\ \E i \in DOMAIN table : put[k] = table[i])
      BY <1>1, <2>4, <2>5, <2>6
  <2>9. \E k \in 1 .. n + 1 : put[k] = bucket
      BY <2>4
  <2>10. \A i \in 1 .. n : \E k \in 1 .. n + 1 : put[k] = table[i]
    <3>1. \A i \in 1 .. n : i \in 1 .. n + 1
        OBVIOUS
    <3> QED BY <2>4, <3>1
  <2>11. Len(put) = IF \E i \in DOMAIN table : table[i].client = bucket.client THEN Len(table) ELSE Len(table) + 1
      BY <1>1, <1>3, <2>3
  <2>12. /\ \A k, h \in DOMAIN put : put[k].client = put[h].client => k = h
         /\ \E k \in DOMAIN put : put[k] = bucket
         /\ \A k \in DOMAIN put :
               put[k] = bucket \/ (put[k].client # bucket.client /\ \E i \in DOMAIN table : put[k] = table[i])
      BY <2>3, <2>7, <2>8, <2>9
  <2>13. \A i \in DOMAIN table : table[i].client # bucket.client => \E k \in DOMAIN put : put[k] = table[i]
      BY <1>1, <2>3, <2>10
  <2> QED BY <2>2, <2>3, <2>11, <2>12, <2>13 DEF IsPut
<1> QED BY <1>2, <1>3

(* The times a at which a client was let through by the time t: k of them   *)
(* since its window began at s, and no two windows' worth within a window. *)
Allowed(a, t, s, k) ==
    /\ a \in Seq(Nat) /\ t \in Nat /\ s \in Nat /\ k \in 0 .. Limit /\ s <= t
    /\ \A i \in 1 .. Len(a) :
          /\ a[i] <= t
          /\ i + k > Len(a) => a[i] >= s
          /\ i + k <= Len(a) => a[i] <= s
          /\ i + k + Limit <= Len(a) => a[i] + Window <= s
          /\ i + 2 * Limit <= Len(a) => a[i] + Window <= a[i + 2 * Limit]

(* The client's bucket counts the window that began at s; without one, that *)
(* window has ended.                                                       *)
Begun(table, c, t, a, s, k) ==
    /\ \A i \in DOMAIN table : table[i].client = c /\ table[i].resetAt > t =>
          table[i].resetAt = s + Window /\ table[i].count = k
    /\ \/ \E i \in DOMAIN table : table[i].client = c /\ table[i].resetAt > t
       \/ s + Window <= t
       \/ Len(a) = 0

Keeps(table, c, t, a) == \E s \in Nat, k \in 0 .. Limit : Allowed(a, t, s, k) /\ Begun(table, c, t, a, s, k)

LimitsInv == BucketsTyped /\ \A c \in Clients \ evicted : Keeps(buckets, c, now, admitted[c])

(* One more request in the window.                                         *)
LEMMA AllowedMore ==
    ASSUME Limits!LimitsOK, NEW a, NEW t, NEW s, NEW k, Allowed(a, t, s, k), k < Limit
    PROVE  Allowed(Append(a, t), t, s, k + 1)
<1>0. a \in Seq(Nat) /\ t \in Nat
    BY DEF Allowed
<1>1. PICK n \in Nat : n = Len(a)
    BY <1>0
<1>2. PICK b \in Seq(Nat) : b = Append(a, t) /\ Len(b) = n + 1 /\ b[n + 1] = t
                          /\ \A i \in 1 .. n : b[i] = a[i] /\ a[i] \in Nat
  <2>1. Append(a, t) \in Seq(Nat) /\ Len(Append(a, t)) = n + 1 /\ Append(a, t)[n + 1] = t
      BY <1>0, <1>1
  <2>2. \A i \in 1 .. n : Append(a, t)[i] = a[i] /\ a[i] \in Nat
      BY <1>0, <1>1
  <2> QED BY <2>1, <2>2
<1>3. Limit \in Nat \ {0} /\ Window \in Nat \ {0} /\ t \in Nat /\ s \in Nat /\ s <= t
      /\ k \in 0 .. Limit /\ k + 1 \in 0 .. Limit
    BY DEF Allowed, Limits!LimitsOK
<1>4. ASSUME NEW i \in 1 .. n + 1
      PROVE  /\ b[i] <= t
             /\ i + (k + 1) > n + 1 => b[i] >= s
             /\ i + (k + 1) <= n + 1 => b[i] <= s
             /\ i + (k + 1) + Limit <= n + 1 => b[i] + Window <= s
             /\ i + 2 * Limit <= n + 1 => b[i] + Window <= b[i + 2 * Limit]
  <2>1. CASE i = n + 1
      BY <1>2, <1>3, <2>1
  <2>2. CASE i \in 1 .. n
    <3>1. /\ b[i] = a[i] /\ a[i] \in Nat /\ a[i] <= t
          /\ i + k > n => a[i] >= s
          /\ i + k <= n => a[i] <= s
          /\ i + k + Limit <= n => a[i] + Window <= s
          /\ i + 2 * Limit <= n => a[i] + Window <= a[i + 2 * Limit]
        BY <1>1, <1>2, <2>2 DEF Allowed
    <3>2. i + 2 * Limit <= n => b[i + 2 * Limit] = a[i + 2 * Limit]
      <4>1. i + 2 * Limit <= n => i + 2 * Limit \in 1 .. n
          BY <1>3
      <4> QED BY <1>2, <4>1
    <3>3. i + 2 * Limit = n + 1 => b[i + 2 * Limit] = t /\ i + k + Limit <= n
        BY SMTT(60), <1>2, <1>3
    <3> QED BY <1>3, <3>1, <3>2, <3>3
  <2> QED BY <2>1, <2>2
<1> QED BY <1>2, <1>3, <1>4 DEF Allowed

(* The first request of a window.                                          *)
LEMMA AllowedAnew ==
    ASSUME Limits!LimitsOK, NEW a, NEW t, NEW s, NEW k, Allowed(a, t, s, k), s + Window <= t \/ Len(a) = 0
    PROVE  Allowed(Append(a, t), t, t, 1)
<1>0. a \in Seq(Nat) /\ t \in Nat
    BY DEF Allowed
<1>1. PICK n \in Nat : n = Len(a)
    BY <1>0
<1>2. PICK b \in Seq(Nat) : b = Append(a, t) /\ Len(b) = n + 1 /\ b[n + 1] = t
                          /\ \A i \in 1 .. n : b[i] = a[i] /\ a[i] \in Nat
  <2>1. Append(a, t) \in Seq(Nat) /\ Len(Append(a, t)) = n + 1 /\ Append(a, t)[n + 1] = t
      BY <1>0, <1>1
  <2>2. \A i \in 1 .. n : Append(a, t)[i] = a[i] /\ a[i] \in Nat
      BY <1>0, <1>1
  <2> QED BY <2>1, <2>2
<1>3. Limit \in Nat \ {0} /\ Window \in Nat \ {0} /\ t \in Nat /\ s \in Nat /\ s <= t
      /\ k \in 0 .. Limit /\ 1 \in 0 .. Limit
    BY DEF Allowed, Limits!LimitsOK
<1>4. ASSUME NEW i \in 1 .. n + 1
      PROVE  /\ b[i] <= t
             /\ i + 1 > n + 1 => b[i] >= t
             /\ i + 1 <= n + 1 => b[i] <= t
             /\ i + 1 + Limit <= n + 1 => b[i] + Window <= t
             /\ i + 2 * Limit <= n + 1 => b[i] + Window <= b[i + 2 * Limit]
  <2>1. CASE i = n + 1
      BY <1>2, <1>3, <2>1
  <2>2. CASE i \in 1 .. n
    <3>1. /\ b[i] = a[i] /\ a[i] \in Nat /\ a[i] <= t
          /\ i + k <= n => a[i] <= s
          /\ i + k + Limit <= n => a[i] + Window <= s
          /\ i + 2 * Limit <= n => a[i] + Window <= a[i + 2 * Limit]
        BY <1>1, <1>2, <2>2 DEF Allowed
    <3>2. i + 2 * Limit <= n => b[i + 2 * Limit] = a[i + 2 * Limit]
      <4>1. i + 2 * Limit <= n => i + 2 * Limit \in 1 .. n
          BY <1>3
      <4> QED BY <1>2, <4>1
    <3>3. i + 2 * Limit = n + 1 => b[i + 2 * Limit] = t /\ i + Limit <= n
        BY SMTT(60), <1>2, <1>3
    <3>4. s + Window <= t
        BY <1>1, <2>2
    <3>5. i + Limit <= n => a[i] + Window <= t
        BY <1>3, <3>1, <3>4
    <3>6. i + 1 + Limit <= n + 1 => b[i] + Window <= t
        BY <1>3, <3>1, <3>5
    <3>7. i + 2 * Limit = n + 1 => b[i] + Window <= b[i + 2 * Limit]
        BY <1>3, <3>1, <3>3, <3>5
    <3>8. i + 2 * Limit <= n + 1 => i + 2 * Limit <= n \/ i + 2 * Limit = n + 1
        BY <1>3, <2>2
    <3>9. b[i] <= t /\ (i + 1 > n + 1 => b[i] >= t)
        BY <1>3, <2>2, <3>1
    <3>10. i + 2 * Limit <= n + 1 => b[i] + Window <= b[i + 2 * Limit]
        BY <3>1, <3>2, <3>7, <3>8
    <3> QED BY <3>6, <3>9, <3>10
  <2> QED BY <2>1, <2>2
<1>5. t <= t
    BY <1>3
<1>6. \A i \in 1 .. Len(b) :
          /\ b[i] <= t
          /\ i + 1 > Len(b) => b[i] >= t
          /\ i + 1 <= Len(b) => b[i] <= t
          /\ i + 1 + Limit <= Len(b) => b[i] + Window <= t
          /\ i + 2 * Limit <= Len(b) => b[i] + Window <= b[i + 2 * Limit]
    BY <1>2, <1>4
<1> QED BY <1>2, <1>3, <1>5, <1>6 DEF Allowed

(* Time passes.                                                            *)
LEMMA KeepsLater ==
    ASSUME Limits!LimitsOK, NEW table \in Seq(ClientBucket), NEW c, NEW t \in Nat, NEW a, Keeps(table, c, t, a)
    PROVE  Keeps(table, c, t + 1, a)
<1>1. PICK s \in Nat, k \in 0 .. Limit : Allowed(a, t, s, k) /\ Begun(table, c, t, a, s, k)
    BY DEF Keeps
<1>2. \A i \in 1 .. Len(a) : a[i] \in Nat
    BY <1>1 DEF Allowed
<1>3. Allowed(a, t + 1, s, k)
    BY <1>1, <1>2 DEF Allowed
<1>4. \A i \in DOMAIN table : table[i].resetAt \in Nat
  <2>1. \A i \in DOMAIN table : table[i] \in ClientBucket
      OBVIOUS
  <2> QED BY <2>1 DEF ClientBucket
<1>5. Window \in Nat
    BY DEF Limits!LimitsOK
<1>6. \A i \in DOMAIN table : table[i].resetAt > t + 1 => table[i].resetAt > t
    BY <1>4
<1>7. \A i \in DOMAIN table : table[i].resetAt > t => table[i].resetAt > t + 1 \/ table[i].resetAt <= t + 1
    BY <1>4
<1>8. s + Window <= t => s + Window <= t + 1
    BY <1>5
<1>9. Begun(table, c, t + 1, a, s, k)
    BY <1>1, <1>6, <1>7, <1>8 DEF Begun
<1> QED BY <1>1, <1>3, <1>9 DEF Keeps

(* What the request of one client leaves to the others: their live buckets, *)
(* unless they are counted among the evicted.                              *)
LEMMA KeepsBeside ==
    ASSUME NEW table \in Seq(ClientBucket), NEW next \in Seq(ClientBucket), NEW c, NEW t, NEW a, Keeps(table, c, t, a),
           \A k \in DOMAIN next : next[k].client = c => \E i \in DOMAIN table : table[i] = next[k],
           \A i \in DOMAIN table : table[i].client = c /\ table[i].resetAt > t => \E k \in DOMAIN next : next[k] = table[i]
    PROVE  Keeps(next, c, t, a)
<1>1. PICK s \in Nat, k \in 0 .. Limit : Allowed(a, t, s, k) /\ Begun(table, c, t, a, s, k)
    BY DEF Keeps
<1>2. \A h \in DOMAIN next : next[h].client = c /\ next[h].resetAt > t =>
          next[h].resetAt = s + Window /\ next[h].count = k
    BY SMTT(60), <1>1 DEF Begun
<1>3. (\E i \in DOMAIN table : table[i].client = c /\ table[i].resetAt > t) =>
          \E h \in DOMAIN next : next[h].client = c /\ next[h].resetAt > t
    OBVIOUS
<1>4. Begun(next, c, t, a, s, k)
    BY <1>1, <1>2, <1>3 DEF Begun
<1> QED BY <1>1, <1>4 DEF Keeps

(* A client with a bucket has that one, and one without has none.          *)
LEMMA TheBucket ==
    ASSUME BucketsTyped, NEW c \in Limits!Tracked
    PROVE  \E i \in DOMAIN buckets : buckets[i].client = c /\ Limits!BucketOf(c) = buckets[i]
<1>1. PICK i \in DOMAIN buckets : buckets[i].client = c
    BY DEF Limits!Tracked
<1>2. \A j \in DOMAIN buckets : buckets[j].client = c => j = i
    BY <1>1 DEF BucketsTyped
<1>3. (CHOOSE j \in DOMAIN buckets : buckets[j].client = c) = i
    BY <1>1, <1>2
<1> QED BY <1>1, <1>3 DEF Limits!BucketOf

(* Before the first request the table has no bucket.                       *)
LEMMA LimitsStart ==
    ASSUME Limits!LimitsOK, Limits!Init
    PROVE  LimitsInv
<1>1. buckets = <<>> /\ now = 0 /\ evicted = {} /\ admitted = [c \in Clients |-> <<>>]
    BY DEF Limits!Init
<1>2. BucketsTyped
    BY <1>1 DEF BucketsTyped, Limits!LimitsOK
<1>3. ASSUME NEW c \in Clients
      PROVE  Keeps(buckets, c, now, admitted[c])
  <2>1. admitted[c] = <<>> /\ Len(admitted[c]) = 0
      BY <1>1
  <2>2. Allowed(<<>>, 0, 0, 0)
      BY DEF Allowed, Limits!LimitsOK
  <2>3. Begun(<<>>, c, 0, <<>>, 0, 0)
      BY DEF Begun
  <2>4. 0 \in Nat /\ 0 \in 0 .. Limit
      BY DEF Limits!LimitsOK
  <2> QED BY <1>1, <2>1, <2>2, <2>3, <2>4 DEF Keeps
<1> QED BY <1>2, <1>3 DEF LimitsInv

(* The clock moves.                                                        *)
LEMMA LimitsTick ==
    ASSUME Limits!LimitsOK, LimitsInv, Limits!Tick
    PROVE  LimitsInv'
<1>1. now' = now + 1 /\ buckets' = buckets /\ evicted' = evicted /\ admitted' = admitted
    BY DEF Limits!Tick
<1>2. BucketsTyped
    BY DEF LimitsInv
<1>3. now \in Nat /\ now + 1 \in Nat /\ buckets \in Seq(ClientBucket)
    BY <1>2 DEF BucketsTyped
<1>4. BucketsTyped'
    BY <1>1, <1>2, <1>3 DEF BucketsTyped
<1>5. \A c \in Clients \ evicted : Keeps(buckets, c, now + 1, admitted[c])
    BY <1>3, KeepsLater DEF LimitsInv
<1> QED BY <1>1, <1>4, <1>5 DEF LimitsInv

(* A first request of a window is let through.                             *)
LEMMA LimitsOpens ==
    ASSUME Limits!LimitsOK, LimitsInv, now' = now, NEW c \in Clients, Limits!Opens(c)
    PROVE  LimitsInv'
<1>1. BucketsTyped /\ \A d \in Clients \ evicted : Keeps(buckets, d, now, admitted[d])
    BY DEF LimitsInv
<1>2. buckets \in Seq(ClientBucket) /\ now \in Nat /\ evicted \subseteq Clients /\ admitted \in [Clients -> Seq(Nat)]
    BY <1>1 DEF BucketsTyped
<1>3. Limit \in Nat \ {0} /\ Window \in Nat \ {0} /\ MaxBuckets \in Nat \ {0}
    BY DEF Limits!LimitsOK
<1>4. PICK room \in Seq(ClientBucket) :
          /\ room = Limits!Room /\ Len(room) < MaxBuckets
          /\ \A k \in DOMAIN room : \E i \in DOMAIN buckets : room[k] = buckets[i]
          /\ \A k, h \in DOMAIN room : room[k].client = room[h].client => k = h
    BY <1>1, RoomIs
<1>5. PICK bucket \in ClientBucket : bucket = [client |-> c, count |-> 1, resetAt |-> now + Window]
  <2>1. 1 \in 1 .. Limit /\ now + Window \in Nat
      BY <1>2, <1>3
  <2> QED BY <2>1 DEF ClientBucket
<1>6. bucket.client = c /\ bucket.count = 1 /\ bucket.resetAt = now + Window
    BY <1>5
<1>a. PICK put \in Seq(ClientBucket) : IsPut(put, room, bucket)
  <2>1. \A i, j \in DOMAIN room : room[i].client = room[j].client => i = j
      BY <1>4
  <2> QED BY <2>1, PutIs
<1>7. /\ put = Limits!Put(room, bucket)
      /\ Len(put) = IF \E i \in DOMAIN room : room[i].client = bucket.client THEN Len(room) ELSE Len(room) + 1
      /\ \A k, h \in DOMAIN put : put[k].client = put[h].client => k = h
      /\ \E k \in DOMAIN put : put[k] = bucket
      /\ \A k \in DOMAIN put : put[k] = bucket \/ (put[k].client # bucket.client /\ \E i \in DOMAIN room : put[k] = room[i])
      /\ \A i \in DOMAIN room : room[i].client # bucket.client => \E k \in DOMAIN put : put[k] = room[i]
    BY <1>a DEF IsPut
<1>8. buckets' = put
    BY <1>4, <1>5, <1>7 DEF Limits!Opens
<1>9. PICK gone : gone = {b.client : b \in {x \in Limits!Range(buckets) : Limits!Live(x)} \ Limits!Range(room)}
    OBVIOUS
<1>10. evicted' = evicted \cup gone
    BY <1>4, <1>9 DEF Limits!Opens
<1>11. admitted' = [d \in Clients |->
          IF d \in evicted' THEN <<>> ELSE IF d = c THEN Append(admitted[d], now) ELSE admitted[d]]
    BY DEF Limits!Opens, Limits!Admits
<1>12. gone \subseteq Clients
  <2>1. \A i \in DOMAIN buckets : buckets[i].client \in Clients
    <3>1. \A i \in DOMAIN buckets : buckets[i] \in ClientBucket
        BY <1>2
    <3> QED BY <3>1 DEF ClientBucket
  <2> QED BY <1>9, <2>1 DEF Limits!Range
<1>13. \A i \in DOMAIN buckets : buckets[i].resetAt > now /\ buckets[i].client \notin gone =>
          \E k \in DOMAIN room : room[k] = buckets[i]
    BY <1>9 DEF Limits!Range, Limits!Live
<1>14. Len(put) <= MaxBuckets
  <2>1. Len(room) \in Nat
      BY <1>4
  <2> QED BY <1>3, <1>4, <1>7, <2>1
<1>15. PICK later : later = [d \in Clients |->
          IF d \in evicted \cup gone THEN <<>> ELSE IF d = c THEN Append(admitted[d], now) ELSE admitted[d]]
    OBVIOUS
<1>16. admitted' = later /\ later \in [Clients -> Seq(Nat)]
  <2>1. \A d \in Clients : admitted[d] \in Seq(Nat) /\ Append(admitted[d], now) \in Seq(Nat) /\ <<>> \in Seq(Nat)
      BY <1>2
  <2>2. \A d \in Clients : later[d] \in Seq(Nat)
      BY <1>15, <2>1
  <2> QED BY <1>10, <1>11, <1>15, <2>2
<1>17. ASSUME NEW d \in Clients, d \notin evicted \cup gone
       PROVE  Keeps(put, d, now, later[d])
  <2>1. Keeps(buckets, d, now, admitted[d])
      BY <1>1, <1>17
  <2>2. CASE d = c
    <3>1. PICK s \in Nat, k \in 0 .. Limit : Allowed(admitted[c], now, s, k) /\ Begun(buckets, c, now, admitted[c], s, k)
        BY <2>1, <2>2 DEF Keeps
    <3>2. ~ \E i \in DOMAIN buckets : buckets[i].client = c /\ buckets[i].resetAt > now
      <4>1. ASSUME NEW i \in DOMAIN buckets, buckets[i].client = c, buckets[i].resetAt > now
            PROVE  FALSE
        <5>1. c \in Limits!Tracked
            BY <4>1 DEF Limits!Tracked
        <5>2. PICK j \in DOMAIN buckets : buckets[j].client = c /\ Limits!BucketOf(c) = buckets[j]
            BY <1>1, <5>1, TheBucket
        <5>3. i = j
            BY <1>1, <4>1, <5>2 DEF BucketsTyped
        <5>4. ~ Limits!Live(buckets[i])
            BY <5>1, <5>2, <5>3 DEF Limits!Opens
        <5> QED BY <4>1, <5>4 DEF Limits!Live
      <4> QED BY <4>1
    <3>3. s + Window <= now \/ Len(admitted[c]) = 0
        BY <3>1, <3>2 DEF Begun
    <3>4. Allowed(Append(admitted[c], now), now, now, 1)
        BY <3>1, <3>3, AllowedAnew
    <3>5. later[d] = Append(admitted[c], now)
        BY <1>15, <1>17, <2>2
    <3>6. \A h \in DOMAIN put : put[h].client = c => put[h] = bucket
        BY <1>6, <1>7
    <3>7. now + Window > now
        BY <1>2, <1>3
    <3>8. \A h \in DOMAIN put : put[h].client = c => put[h].resetAt = now + Window /\ put[h].count = 1
        BY <1>6, <3>6
    <3>9. \E h \in DOMAIN put : put[h].client = c /\ put[h].resetAt > now
        BY <1>6, <1>7, <3>7
    <3>10. Begun(put, c, now, later[d], now, 1)
        BY <3>8, <3>9 DEF Begun
    <3>11. 1 \in 0 .. Limit
        BY <1>3
    <3> QED BY <1>2, <2>2, <3>4, <3>5, <3>10, <3>11 DEF Keeps
  <2>3. CASE d # c
    <3>1. later[d] = admitted[d]
        BY <1>15, <1>17, <2>3
    <3>2. \A k \in DOMAIN put : put[k].client = d => \E i \in DOMAIN buckets : buckets[i] = put[k]
      <4>1. ASSUME NEW k \in DOMAIN put, put[k].client = d
            PROVE  \E i \in DOMAIN buckets : buckets[i] = put[k]
        <5>1. PICK i \in DOMAIN room : put[k] = room[i]
            BY <1>6, <1>7, <2>3, <4>1
        <5> QED BY <1>4, <5>1
      <4> QED BY <4>1
    <3>3. \A i \in DOMAIN buckets : buckets[i].client = d /\ buckets[i].resetAt > now
              => \E k \in DOMAIN put : put[k] = buckets[i]
      <4>1. ASSUME NEW i \in DOMAIN buckets, buckets[i].client = d, buckets[i].resetAt > now
            PROVE  \E k \in DOMAIN put : put[k] = buckets[i]
        <5>1. PICK h \in DOMAIN room : room[h] = buckets[i]
            BY <1>13, <1>17, <4>1
        <5>2. room[h].client # bucket.client
            BY <1>6, <2>3, <4>1, <5>1
        <5>3. PICK k \in DOMAIN put : put[k] = room[h]
            BY <1>7, <5>2
        <5> QED BY <5>1, <5>3
      <4> QED BY <4>1
    <3>4. Keeps(put, d, now, admitted[d])
        BY <1>2, <2>1, <3>2, <3>3, KeepsBeside
    <3> QED BY <3>1, <3>4
  <2> QED BY <2>2, <2>3
<1>18. BucketsTyped'
  <2>1. put \in Seq(ClientBucket) /\ Len(put) <= MaxBuckets
        /\ (\A k, h \in DOMAIN put : put[k].client = put[h].client => k = h)
        /\ now \in Nat /\ (evicted \cup gone) \subseteq Clients /\ later \in [Clients -> Seq(Nat)]
      BY <1>2, <1>7, <1>12, <1>14, <1>16
  <2> QED BY <1>8, <1>10, <1>16, <2>1 DEF BucketsTyped
<1>19. \A d \in Clients \ evicted' : Keeps(buckets', d, now', admitted'[d])
    BY <1>8, <1>10, <1>16, <1>17
<1> QED BY <1>18, <1>19 DEF LimitsInv

(* Another request of the window is let through.                           *)
LEMMA LimitsCounts ==
    ASSUME Limits!LimitsOK, LimitsInv, now' = now, NEW c \in Clients, Limits!Counts(c)
    PROVE  LimitsInv'
<1>1. BucketsTyped /\ \A d \in Clients \ evicted : Keeps(buckets, d, now, admitted[d])
    BY DEF LimitsInv
<1>2. buckets \in Seq(ClientBucket) /\ now \in Nat /\ evicted \subseteq Clients /\ admitted \in [Clients -> Seq(Nat)]
      /\ Len(buckets) <= MaxBuckets /\ \A i, j \in DOMAIN buckets : buckets[i].client = buckets[j].client => i = j
    BY <1>1 DEF BucketsTyped
<1>3. Limit \in Nat \ {0} /\ Window \in Nat \ {0} /\ MaxBuckets \in Nat \ {0}
    BY DEF Limits!LimitsOK
<1>4. PICK own \in DOMAIN buckets : buckets[own].client = c /\ Limits!BucketOf(c) = buckets[own]
    BY <1>1, TheBucket DEF Limits!Counts
<1>5. PICK count \in 1 .. Limit, ends \in Nat : buckets[own] = [client |-> c, count |-> count, resetAt |-> ends]
  <2>1. buckets[own] \in ClientBucket
      BY <1>2
  <2> QED BY <1>4, <2>1 DEF ClientBucket
<1>6. ends > now /\ count < Limit
    BY <1>4, <1>5 DEF Limits!Counts, Limits!Live
<1>7. PICK bucket \in ClientBucket : bucket = [client |-> c, count |-> count + 1, resetAt |-> ends]
  <2>1. count + 1 \in 1 .. Limit
      BY <1>3, <1>6
  <2> QED BY <2>1 DEF ClientBucket
<1>8. bucket.client = c /\ bucket.count = count + 1 /\ bucket.resetAt = ends
    BY <1>7
<1>9. [Limits!BucketOf(c) EXCEPT !.count = @ + 1] = bucket
    BY <1>4, <1>5, <1>7
<1>a. PICK put \in Seq(ClientBucket) : IsPut(put, buckets, bucket)
  <2>1. \A i, j \in DOMAIN buckets : buckets[i].client = buckets[j].client => i = j
      BY <1>2
  <2>2. buckets \in Seq(ClientBucket)
      BY <1>2
  <2> QED BY <2>1, <2>2, PutIs
<1>10. /\ put = Limits!Put(buckets, bucket)
       /\ Len(put) = IF \E i \in DOMAIN buckets : buckets[i].client = bucket.client THEN Len(buckets) ELSE Len(buckets) + 1
       /\ \A k, h \in DOMAIN put : put[k].client = put[h].client => k = h
       /\ \E k \in DOMAIN put : put[k] = bucket
       /\ \A k \in DOMAIN put :
                put[k] = bucket \/ (put[k].client # bucket.client /\ \E i \in DOMAIN buckets : put[k] = buckets[i])
       /\ \A i \in DOMAIN buckets : buckets[i].client # bucket.client => \E k \in DOMAIN put : put[k] = buckets[i]
    BY <1>a DEF IsPut
<1>11. buckets' = put /\ evicted' = evicted
    BY <1>9, <1>10 DEF Limits!Counts
<1>12. admitted' = [d \in Clients |->
          IF d \in evicted' THEN <<>> ELSE IF d = c THEN Append(admitted[d], now) ELSE admitted[d]]
    BY DEF Limits!Counts, Limits!Admits
<1>13. PICK later : later = [d \in Clients |->
          IF d \in evicted THEN <<>> ELSE IF d = c THEN Append(admitted[d], now) ELSE admitted[d]]
    OBVIOUS
<1>14. admitted' = later /\ later \in [Clients -> Seq(Nat)]
  <2>1. \A d \in Clients : admitted[d] \in Seq(Nat) /\ Append(admitted[d], now) \in Seq(Nat) /\ <<>> \in Seq(Nat)
      BY <1>2
  <2>2. \A d \in Clients : later[d] \in Seq(Nat)
      BY <1>13, <2>1
  <2> QED BY <1>11, <1>12, <1>13, <2>2
<1>15. ASSUME NEW d \in Clients, d \notin evicted
       PROVE  Keeps(put, d, now, later[d])
  <2>1. Keeps(buckets, d, now, admitted[d])
      BY <1>1, <1>15
  <2>2. CASE d = c
    <3>1. PICK s \in Nat, k \in 0 .. Limit : Allowed(admitted[c], now, s, k) /\ Begun(buckets, c, now, admitted[c], s, k)
        BY <2>1, <2>2 DEF Keeps
    <3>2. ends = s + Window /\ count = k
        BY <1>4, <1>5, <1>6, <3>1 DEF Begun
    <3>3. Allowed(Append(admitted[c], now), now, s, k + 1)
        BY <1>6, <3>1, <3>2, AllowedMore
    <3>4. later[d] = Append(admitted[c], now)
        BY <1>13, <1>15, <2>2
    <3>5. \A h \in DOMAIN put : put[h].client = c => put[h] = bucket
        BY <1>8, <1>10
    <3>6. \A h \in DOMAIN put : put[h].client = c => put[h].resetAt = s + Window /\ put[h].count = k + 1
        BY <1>8, <3>2, <3>5
    <3>7. \E h \in DOMAIN put : put[h].client = c /\ put[h].resetAt > now
        BY <1>6, <1>8, <1>10
    <3>8. Begun(put, c, now, later[d], s, k + 1)
        BY <3>6, <3>7 DEF Begun
    <3>9. k + 1 \in 0 .. Limit
        BY <1>3, <1>6, <3>2
    <3> QED BY <2>2, <3>1, <3>3, <3>4, <3>8, <3>9 DEF Keeps
  <2>3. CASE d # c
    <3>1. later[d] = admitted[d]
        BY <1>13, <1>15, <2>3
    <3>2. \A k \in DOMAIN put : put[k].client = d => \E i \in DOMAIN buckets : buckets[i] = put[k]
        BY <1>8, <1>10, <2>3
    <3>3. \A i \in DOMAIN buckets : buckets[i].client = d /\ buckets[i].resetAt > now =>
              \E k \in DOMAIN put : put[k] = buckets[i]
        BY <1>8, <1>10, <2>3
    <3>4. Keeps(put, d, now, admitted[d])
        BY <1>2, <2>1, <3>2, <3>3, KeepsBeside
    <3> QED BY <3>1, <3>4
  <2> QED BY <2>2, <2>3
<1>16. Len(put) <= MaxBuckets
    BY <1>2, <1>4, <1>8, <1>10
<1>17. BucketsTyped'
  <2>1. put \in Seq(ClientBucket) /\ Len(put) <= MaxBuckets
        /\ (\A k, h \in DOMAIN put : put[k].client = put[h].client => k = h)
        /\ now \in Nat /\ evicted \subseteq Clients /\ later \in [Clients -> Seq(Nat)]
      BY <1>2, <1>10, <1>14, <1>16
  <2> QED BY <1>11, <1>14, <2>1 DEF BucketsTyped
<1>18. \A d \in Clients \ evicted' : Keeps(buckets', d, now', admitted'[d])
    BY <1>11, <1>14, <1>15
<1> QED BY <1>17, <1>18 DEF LimitsInv

(* A bucket gives way only in a table full of live ones.                   *)
LEMMA EvictionIsForced ==
    ASSUME Limits!LimitsOK, LimitsInv, Limits!Next
    PROVE  Limits!EvictsWhenFull
<1>1. BucketsTyped /\ MaxBuckets \in Nat
    BY DEF LimitsInv, Limits!LimitsOK
<1>2. ASSUME NEW c \in evicted' \ evicted
      PROVE  Limits!Cardinality({d \in Limits!Tracked : Limits!Live(Limits!BucketOf(d))}) = MaxBuckets
  <2>1. PICK d \in Clients : Limits!Opens(d)
      BY <1>2 DEF Limits!Next, Limits!Tick, Limits!Counts, Limits!Refuses
  <2>2. PICK i \in DOMAIN buckets : Limits!Live(buckets[i]) /\ buckets[i] \notin Limits!Range(Limits!Room)
    <3>1. c \in {b.client : b \in {x \in Limits!Range(buckets) : Limits!Live(x)} \ Limits!Range(Limits!Room)}
        BY <1>2, <2>1 DEF Limits!Opens
    <3> QED BY <3>1 DEF Limits!Range
  <2>3. Len(buckets) = MaxBuckets /\ \A j \in DOMAIN buckets : Limits!Live(buckets[j])
      BY <1>1, <2>2, RoomIs DEF Limits!Range
  <2>4. DOMAIN buckets = 1 .. MaxBuckets
      BY <1>1, <2>3 DEF BucketsTyped
  <2>5. PICK clients : clients = {d0 \in Limits!Tracked : Limits!Live(Limits!BucketOf(d0))}
      OBVIOUS
  <2>6. clients = {buckets[j].client : j \in DOMAIN buckets}
    <3>1. \A d0 \in Limits!Tracked : Limits!Live(Limits!BucketOf(d0))
        BY <1>1, <2>3, TheBucket
    <3> QED BY <2>5, <3>1 DEF Limits!Tracked
  <2>7. PICK f : f = [j \in 1 .. MaxBuckets |-> buckets[j].client]
      OBVIOUS
  <2>8. f \in Bijection(1 .. MaxBuckets, clients)
    <3>1. \A j \in 1 .. MaxBuckets : f[j] = buckets[j].client
        BY <2>7
    <3>2. \A j, h \in 1 .. MaxBuckets : f[j] = f[h] => j = h
        BY <1>1, <2>4, <3>1 DEF BucketsTyped
    <3>3. f \in [1 .. MaxBuckets -> clients]
        BY <2>4, <2>6, <2>7
    <3>4. \A d0 \in clients : \E j \in 1 .. MaxBuckets : f[j] = d0
        BY <2>4, <2>6, <3>1
    <3> QED BY <3>2, <3>3, <3>4 DEF Bijection, Injection, IsInjective, Surjection
  <2>9. IsFiniteSet(1 .. MaxBuckets) /\ Cardinality(1 .. MaxBuckets) = MaxBuckets
    <3>1. 1 \in Int /\ MaxBuckets \in Int /\ (1 > MaxBuckets => MaxBuckets = 0)
        BY <1>1
    <3> QED BY <1>1, <3>1, FS_Interval
  <2>10. Cardinality(clients) = MaxBuckets
      BY <2>8, <2>9, FS_Bijection DEF ExistsBijection
  <2> QED BY <2>5, <2>10, LimiterCounts
<1> QED BY <1>2 DEF Limits!EvictsWhenFull

(* The steps of the clients and of the clock.                              *)
LEMMA LimitsStep ==
    ASSUME Limits!LimitsOK, LimitsInv, [Limits!Next]_Limits!vars
    PROVE  LimitsInv'
<1>1. CASE Limits!Tick
    BY <1>1, LimitsTick
<1>2. ASSUME NEW c \in Clients, now' = now, Limits!Opens(c)
      PROVE  LimitsInv'
    BY <1>2, LimitsOpens
<1>3. ASSUME NEW c \in Clients, now' = now, Limits!Counts(c)
      PROVE  LimitsInv'
    BY <1>3, LimitsCounts
<1>4. CASE UNCHANGED <<buckets, now, evicted, admitted>>
    BY <1>4 DEF LimitsInv, BucketsTyped
<1> QED BY <1>1, <1>2, <1>3, <1>4 DEF Limits!Next, Limits!Refuses, Limits!vars

(* However the clients' requests come, no client that keeps its bucket gets *)
(* more than two windows' worth of requests through in any span of a window *)
(* (a fixed window's bound), and a client loses a bucket before its end     *)
(* only in a table that is full of live ones.                              *)
THEOREM ClientsLimited ==
    ASSUME Limits!LimitsOK
    PROVE  Limits!Spec => []Limits!Limited /\ [][Limits!EvictsWhenFull]_Limits!vars
<1>1. Limits!Init => LimitsInv
    BY LimitsStart
<1>2. LimitsInv /\ [Limits!Next]_Limits!vars => LimitsInv'
    BY LimitsStep
<1>3. LimitsInv => Limits!Limited
  <2>1. ASSUME LimitsInv, NEW c \in Clients \ evicted, NEW i \in DOMAIN admitted[c], i + 2 * Limit \in DOMAIN admitted[c]
        PROVE  admitted[c][i + 2 * Limit] - admitted[c][i] >= Window
    <3>1. PICK s \in Nat, k \in 0 .. Limit : Allowed(admitted[c], now, s, k)
        BY <2>1 DEF LimitsInv, Keeps
    <3>2. admitted[c] \in Seq(Nat)
        BY <3>1 DEF Allowed
    <3>3. i \in 1 .. Len(admitted[c]) /\ i + 2 * Limit \in 1 .. Len(admitted[c])
        BY <2>1, <3>2
    <3>4. admitted[c][i] + Window <= admitted[c][i + 2 * Limit]
        BY <3>1, <3>3 DEF Allowed
    <3>5. admitted[c][i] \in Nat /\ admitted[c][i + 2 * Limit] \in Nat /\ Window \in Nat
        BY SMTT(60), <3>2, <3>3 DEF Limits!LimitsOK
    <3> QED BY <3>4, <3>5
  <2> QED BY <2>1 DEF Limits!Limited
<1>4. LimitsInv /\ [Limits!Next]_Limits!vars => [Limits!EvictsWhenFull]_Limits!vars
    BY EvictionIsForced
<1> QED BY <1>1, <1>2, <1>3, <1>4, PTL DEF Limits!Spec

-----------------------------------------------------------------------------
(* The guards of the routes.                                               *)

AccessRoles ==
    {"SuperAdmin", "Org Manager", "Project Manager", "Project Translator", "Project Observer", "Org Member"}
KnownRoles == \A g \in grant : g.role \in AccessRoles

(* What the permissions of the roles say of each other.                    *)
LEMMA PermissionsNested ==
    ASSUME NEW role \in AccessRoles
    PROVE  /\ "content:update" \in Access!RolePermissions(role) =>
                {"project:view", "content:view"} \subseteq Access!RolePermissions(role)
           /\ "content:assign" \in Access!RolePermissions(role) =>
                Access!Manages \subseteq Access!RolePermissions(role)
           /\ "project:update" \in Access!RolePermissions(role) =>
                Access!Manages \subseteq Access!RolePermissions(role)
           /\ "content:update" \in Access!Manages /\ "content:assign" \in Access!Manages
           /\ "project:update" \in Access!Manages /\ "project:delete" \in Access!Manages
           /\ "project:view" \in Access!Manages /\ "content:view" \in Access!Manages
<1> USE DEF Access!RolePermissions, Access!Manages, Access!Works
<1>1. CASE role = "SuperAdmin"
    BY <1>1
<1>2. CASE role = "Org Manager"
    BY <1>2
<1>3. CASE role = "Project Manager"
    BY <1>3
<1>4. CASE role = "Project Translator"
    BY <1>4
<1>5. CASE role = "Project Observer"
    BY <1>5
<1>6. CASE role = "Org Member"
    BY <1>6
<1> QED BY <1>1, <1>2, <1>3, <1>4, <1>5, <1>6 DEF AccessRoles

(* A permission in a project is one somewhere.                             *)
LEMMA MayMeans ==
    ASSUME NEW u, NEW permission, NEW p, Access!May(u, permission, p)
    PROVE  Access!Somewhere(Access!GrantsOf(u), permission)
BY DEF Access!May, Access!Somewhere

(* Who may write may read, and who may assign may do everything.           *)
LEMMA MayMore ==
    ASSUME KnownRoles, NEW u, NEW p
    PROVE  /\ Access!May(u, "content:update", p) =>
                Access!May(u, "project:view", p) /\ Access!May(u, "content:view", p)
           /\ Access!May(u, "content:assign", p) \/ Access!May(u, "project:update", p) =>
                \A permission \in Access!Manages : Access!May(u, permission, p)
<1>1. \A g \in Access!GrantsOf(u) : g.role \in AccessRoles
    BY DEF KnownRoles, Access!GrantsOf
<1>2. Access!May(u, "content:update", p) =>
                Access!May(u, "project:view", p) /\ Access!May(u, "content:view", p)
    BY <1>1, PermissionsNested DEF Access!May
<1>3. Access!May(u, "content:assign", p) => \A permission \in Access!Manages : Access!May(u, permission, p)
    BY <1>1, PermissionsNested DEF Access!May
<1>4. Access!May(u, "project:update", p) => \A permission \in Access!Manages : Access!May(u, permission, p)
    BY <1>1, PermissionsNested DEF Access!May
<1> QED BY <1>2, <1>3, <1>4

(* The draft and the peer check are before the stages that follow it.      *)
LEMMA NotPostPeer ==
    ASSUME Access!AccessOK
    PROVE  ~Access!PostPeer("draft") /\ ~Access!PostPeer("peer_check")
<1>1. PICK m, n \in DOMAIN Workflow : m < n /\ Workflow[m] = "draft" /\ Workflow[n] = "peer_check"
    BY DEF Access!AccessOK, Access!WorkflowOK
<1>2. \A k \in DOMAIN Workflow : (Workflow[k] = "draft" => k = m) /\ (Workflow[k] = "peer_check" => k = n)
    BY <1>1 DEF Access!AccessOK, Access!WorkflowOK
<1>3. m \in Nat /\ n \in Nat
    BY DEF Access!AccessOK, Access!WorkflowOK
<1>4. Access!Position("draft") = m
    BY <1>1, <1>2 DEF Access!Position
<1>5. Access!Position("peer_check") = n
    BY <1>1, <1>2 DEF Access!Position
<1> QED BY <1>1, <1>3, <1>4, <1>5 DEF Access!PostPeer

(* Who may edit a chapter may write in its project, and the drafter hands   *)
(* it over.                                                                *)
LEMMA EditingMeans ==
    ASSUME Access!AccessOK, KnownRoles, NEW u, Access!ChapterEdit(u)
    PROVE  /\ Access!May(u, "content:update", 1)
           /\ assignment.status = "draft" => Access!ChapterToggleAi(u)
           /\ assignment.status = "peer_check" /\ assignment.drafter = u => assignment.checker = u
<1>1. Access!May(u, "content:update", 1)
  <2>1. Access!May(u, "content:assign", 1) => Access!May(u, "content:update", 1)
      BY MayMore, PermissionsNested DEF AccessRoles
  <2> QED BY <2>1 DEF Access!ChapterEdit
<1>2. ~Access!PostPeer("draft") /\ ~Access!PostPeer("peer_check")
    BY NotPostPeer
<1>3. assignment.status = "draft" => Access!ChapterToggleAi(u)
    BY <1>1, <1>2 DEF Access!ChapterEdit, Access!ChapterToggleAi
<1>4. assignment.status = "peer_check" /\ assignment.drafter = u => assignment.checker = u
    BY <1>2 DEF Access!ChapterEdit
<1> QED BY <1>1, <1>3, <1>4

(* The guards of a route, domain by domain.                                *)
LEMMA Guarded ==
    ASSUME NEW u, NEW name, NEW gate, NEW action,
           gate = None \/ Access!Somewhere(Access!GrantsOf(u), gate)
    PROVE  /\ Access!ChapterAssignmentAccess(u, action) => Access!Allowed(u, Access!Route(name, gate, "chapter", action))
           /\ Access!ProjectAccess(u, action) => Access!Allowed(u, Access!Route(name, gate, "project", action))
           /\ Access!TranslatedVerseAccess(u, action) => Access!Allowed(u, Access!Route(name, gate, "verse", action))
           /\ Access!VerseAudioAccess(u, action) => Access!Allowed(u, Access!Route(name, gate, "audio", action))
           /\ Access!SuggestionAccess(u) => Access!Allowed(u, Access!Route(name, gate, "suggestions", action))
           /\ Access!ProjectRead(u, 1) => /\ Access!Allowed(u, Access!Route(name, gate, "tools", action))
                                          /\ Access!Allowed(u, Access!Route(name, gate, "books", action))
                                          /\ Access!Allowed(u, Access!Route(name, gate, "export", action))
           /\ Access!Allowed(u, Access!Route(name, gate, "any", action))
<1> DEFINE route(domain) == Access!Route(name, gate, domain, action)
<1>1. \A domain : route(domain).gate = gate /\ route(domain).domain = domain /\ route(domain).action = action
    BY DEF Access!Route
<1> HIDE DEF route
<1>2. ASSUME NEW r, r.gate = gate, r.action = action
      PROVE  /\ r.domain = "chapter" /\ Access!ChapterAssignmentAccess(u, action) => Access!Allowed(u, r)
             /\ r.domain = "project" /\ Access!ProjectAccess(u, action) => Access!Allowed(u, r)
             /\ r.domain = "verse" /\ Access!TranslatedVerseAccess(u, action) => Access!Allowed(u, r)
             /\ r.domain = "audio" /\ Access!VerseAudioAccess(u, action) => Access!Allowed(u, r)
             /\ r.domain = "suggestions" /\ Access!SuggestionAccess(u) => Access!Allowed(u, r)
             /\ r.domain \in {"tools", "books", "export"} /\ Access!ProjectRead(u, 1) => Access!Allowed(u, r)
             /\ r.domain = "any" => Access!Allowed(u, r)
  <2>1. CASE r.domain = "chapter"
      BY <1>2, <2>1 DEF Access!Allowed
  <2>2. CASE r.domain = "project"
      BY <1>2, <2>2 DEF Access!Allowed
  <2>3. CASE r.domain = "verse"
      BY <1>2, <2>3 DEF Access!Allowed
  <2>4. CASE r.domain = "audio"
      BY <1>2, <2>4 DEF Access!Allowed
  <2>5. CASE r.domain = "suggestions"
      BY <1>2, <2>5 DEF Access!Allowed
  <2>6. CASE r.domain = "tools"
      BY <1>2, <2>6 DEF Access!Allowed, Access!AiToolsAccess
  <2>7. CASE r.domain = "books"
      BY <1>2, <2>7 DEF Access!Allowed, Access!BookDetailsAccess
  <2>8. CASE r.domain = "export"
      BY <1>2, <2>8 DEF Access!Allowed, Access!ExportAccess
  <2>9. CASE r.domain = "any"
      BY <1>2, <2>9 DEF Access!Allowed
  <2> QED BY <2>1, <2>2, <2>3, <2>4, <2>5, <2>6, <2>7, <2>8, <2>9
<1> QED BY <1>1, <1>2 DEF route

(* Who may save a verse is let through by every route of the editor.       *)
LEMMA EditorPage ==
    ASSUME Access!AccessOK, KnownRoles, NEW u, Access!ChapterEdit(u)
    PROVE  /\ \A route \in Access!EditorRoutes : Access!Allowed(u, route)
           /\ Access!Allowed(u, Access!upsertTranslatedVerseRoute)
           /\ assignment.status = "draft" => Access!Allowed(u, Access!aiStatusRoute)
<1>1. /\ Access!May(u, "content:update", 1) /\ Access!May(u, "project:view", 1) /\ Access!May(u, "content:view", 1)
      /\ assignment.status = "draft" => Access!ChapterToggleAi(u)
    BY EditingMeans, MayMore
<1>2. /\ Access!Somewhere(Access!GrantsOf(u), "content:update")
      /\ Access!Somewhere(Access!GrantsOf(u), "project:view")
    BY <1>1, MayMeans
<1>3. Access!ProjectRead(u, 1) /\ Access!ChapterView(u) /\ Access!SuggestionAccess(u)
    BY <1>1 DEF Access!ProjectRead, Access!ChapterView, Access!SuggestionAccess
<1>4. /\ Access!ChapterAssignmentAccess(u, "read") /\ Access!ChapterAssignmentAccess(u, "submit")
      /\ Access!ChapterAssignmentAccess(u, "participant") /\ Access!ProjectAccess(u, "read")
      /\ Access!TranslatedVerseAccess(u, "read") /\ Access!TranslatedVerseAccess(u, "edit")
      /\ Access!VerseAudioAccess(u, "read") /\ Access!VerseAudioAccess(u, "edit")
      /\ assignment.status = "draft" => Access!ChapterAssignmentAccess(u, "toggleAi")
    BY <1>1, <1>3 DEF Access!ChapterAssignmentAccess, Access!ProjectAccess, Access!TranslatedVerseAccess,
                      Access!VerseAudioAccess
<1>5. \A route \in Access!ChapterRoutes \cup Access!EditorStateRoutes \cup Access!PresenceRoutes : Access!Allowed(u, route)
    BY <1>4, Guarded DEF Access!ChapterRoutes, Access!EditorStateRoutes, Access!PresenceRoutes
<1>6. \A route \in Access!VerseReads : Access!Allowed(u, route)
    BY <1>2, <1>4, Guarded DEF Access!VerseReads
<1>7. /\ Access!Allowed(u, Access!uploadVerseAudioRoute) /\ Access!Allowed(u, Access!uploadRangeVerseAudioRoute)
      /\ \A route \in Access!RecordingReads \cup Access!RecordingDeletes : Access!Allowed(u, route)
    BY <1>4, Guarded DEF Access!uploadVerseAudioRoute, Access!uploadRangeVerseAudioRoute, Access!RecordingReads,
                         Access!RecordingDeletes
<1>8. /\ Access!Allowed(u, Access!repeatedWordsRoute)
      /\ \A route \in Access!SuggestionRoutes \cup Access!SpeechRoutes \cup Access!BookDetailRoutes :
            Access!Allowed(u, route)
    BY <1>2, <1>3, Guarded DEF Access!repeatedWordsRoute, Access!SuggestionRoutes, Access!SpeechRoutes,
                               Access!BookDetailRoutes
<1>9. \A route \in Access!ResourceRoutes \cup Access!PlaybackRoutes \cup Access!chapterPericopesRoute
                   \cup Access!AssistantRoutes : Access!Allowed(u, route)
    BY <1>2, <1>4, Guarded DEF Access!ResourceRoutes, Access!PlaybackRoutes, Access!chapterPericopesRoute,
                               Access!AssistantRoutes, Access!Reads
<1>10. Access!Allowed(u, Access!upsertTranslatedVerseRoute)
    BY <1>2, <1>4, Guarded DEF Access!upsertTranslatedVerseRoute
<1>11. assignment.status = "draft" => Access!Allowed(u, Access!aiStatusRoute)
    BY <1>2, <1>4, Guarded DEF Access!aiStatusRoute
<1> QED BY <1>5, <1>6, <1>7, <1>8, <1>9, <1>10, <1>11 DEF Access!EditorRoutes

(* Who may change the project is let through by every route that manages   *)
(* it.                                                                     *)
LEMMA ManagerPage ==
    ASSUME Access!AccessOK, KnownRoles, NEW u, Access!ProjectUpdate(u, 1)
    PROVE  \A route \in Access!ManagerRoutes : Access!Allowed(u, route)
<1>1. \A permission \in Access!Manages : Access!May(u, permission, 1)
    BY MayMore DEF Access!ProjectUpdate
<1>2. {"content:update", "content:assign", "project:update", "project:delete", "project:view", "content:view"}
          \subseteq Access!Manages
    BY DEF Access!Manages, Access!Works
<1>3. \A permission \in Access!Manages : Access!Somewhere(Access!GrantsOf(u), permission)
    BY <1>1, MayMeans
<1>4. /\ Access!ChapterAssign(u) /\ Access!ChapterToggleAi(u) /\ Access!ProjectRead(u, 1) /\ Access!ProjectDelete(u, 1)
      /\ Access!ChapterView(u)
    BY <1>1, <1>2 DEF Access!ChapterAssign, Access!ChapterToggleAi, Access!ProjectRead, Access!ProjectDelete,
                      Access!ChapterView
<1>5. /\ Access!ChapterAssignmentAccess(u, "update") /\ Access!ChapterAssignmentAccess(u, "delete")
      /\ Access!ChapterAssignmentAccess(u, "toggleAi") /\ Access!VerseAudioAccess(u, "resolve")
      /\ Access!ProjectAccess(u, "read") /\ Access!ProjectAccess(u, "update") /\ Access!ProjectAccess(u, "delete")
    BY <1>4 DEF Access!ChapterAssignmentAccess, Access!VerseAudioAccess, Access!ProjectAccess
<1>6. \A route \in Access!AssignRoutes \cup Access!ProjectChapterRoutes \cup Access!AssignManyRoutes :
          Access!Allowed(u, route)
    BY <1>2, <1>3, <1>5, Guarded DEF Access!AssignRoutes, Access!ProjectChapterRoutes, Access!AssignManyRoutes, Access!Reads
<1>7. \A route \in Access!StageRoutes \cup Access!MilestoneRoutes \cup Access!checkUsfmFilesRoute \cup Access!MemberRoutes :
          Access!Allowed(u, route)
    BY <1>2, <1>3, <1>5, Guarded DEF Access!StageRoutes, Access!MilestoneRoutes, Access!checkUsfmFilesRoute,
                                     Access!MemberRoutes, Access!Reads, Access!Updates
<1>8. \A route \in Access!ExportRoutes : Access!Allowed(u, route)
    BY <1>4, Guarded DEF Access!ExportRoutes
<1>9. \A route \in {Access!deleteChapterAssignmentRoute, Access!resetSelectedRoute, Access!getProjectRoute,
                    Access!deleteProjectRoute, Access!resolveVerseAudioRoute, Access!aiStatusRoute} :
          Access!Allowed(u, route)
    BY <1>2, <1>3, <1>5, Guarded DEF Access!deleteChapterAssignmentRoute, Access!resetSelectedRoute,
            Access!getProjectRoute, Access!deleteProjectRoute, Access!resolveVerseAudioRoute, Access!aiStatusRoute
<1> QED BY <1>6, <1>7, <1>8, <1>9 DEF Access!ManagerRoutes

(* A listed project opens, and what one may change is listed.              *)
LEMMA ListsOpen ==
    ASSUME KnownRoles
    PROVE  Access!ListedIsReadable
<1>1. ASSUME NEW u \in Users, NEW active, NEW p \in DOMAIN project,
             p \in Access!ListedProjects(u, active) \cup Access!ProjectsOfUser(u, active)
      PROVE  Access!ProjectRead(u, p)
    BY <1>1 DEF Access!ListedProjects, Access!ProjectsOfUser, Access!ProjectRead, Access!IsProjectMember,
                Access!May, Access!Applies, Access!Global
<1>2. ASSUME NEW u \in Users, NEW p \in DOMAIN project, Access!ProjectUpdate(u, p)
      PROVE  p \in Access!ListedProjects(u, None)
  <2>1. Access!May(u, "project:view", p)
      BY <1>2, MayMore, PermissionsNested DEF Access!ProjectUpdate, AccessRoles
  <2> QED BY <2>1 DEF Access!May, Access!Applies, Access!ListedProjects
<1> QED BY <1>1, <1>2 DEF Access!ListedIsReadable

(* Rows that are added have known roles. *)
LEMMA RolesAdded ==
    ASSUME KnownRoles, NEW new, \A g \in new : g.role \in AccessRoles, grant' = grant \cup new
    PROVE  KnownRoles'
BY DEF KnownRoles

(* Roles are only ever given that the code knows.                          *)
LEMMA RolesStayKnown ==
    ASSUME Access!AccessOK, KnownRoles, [Access!Next]_Access!vars
    PROVE  KnownRoles'
<1>1. ASSUME NEW r \in Requests, Access!Provision(r)
      PROVE  KnownRoles'
  <2>1. PICK q : q = request[r]
      OBVIOUS
  <2>2. grant' = grant \cup {Access!Row(q.user, 10 + q.project, None, role) : role \in {"Org Member", "Org Manager"}}
      BY <1>1, <2>1 DEF Access!Provision
  <2>3. \A g \in {Access!Row(q.user, 10 + q.project, None, role) : role \in {"Org Member", "Org Manager"}} :
            g.role \in AccessRoles
    <3>1. \A role \in {"Org Member", "Org Manager"} :
              Access!Row(q.user, 10 + q.project, None, role).role \in AccessRoles
        BY DEF AccessRoles, Access!Row
    <3> QED BY <3>1
  <2> QED BY <2>2, <2>3, RolesAdded
<1>2. ASSUME NEW r \in Requests, Access!GrantCreator(r)
      PROVE  KnownRoles'
  <2>1. PICK q : q = request[r]
      OBVIOUS
  <2>2. grant' = grant \cup {Access!Row(q.user, q.org, q.project, "Project Manager")}
      BY <1>2, <2>1 DEF Access!GrantCreator
  <2>3. PICK given : given = Access!Row(q.user, q.org, q.project, "Project Manager")
      OBVIOUS
  <2>4. given.role \in AccessRoles
      BY <2>3 DEF AccessRoles, Access!Row
  <2>5. \A g \in grant' : g \in grant \/ g = given
      BY <2>2, <2>3
  <2> QED BY <2>4, <2>5 DEF KnownRoles
<1>3. ASSUME NEW r \in Requests, Access!TakeBack(r)
      PROVE  KnownRoles'
    BY <1>3 DEF Access!TakeBack, KnownRoles
<1>4. ASSUME NEW u \in Users, Access!Regrant(u)
      PROVE  KnownRoles'
  <2>1. PICK table \in Offers : grant' = (grant \ Access!GrantsOf(u)) \cup table[u] /\ u \in Changing
      BY <1>4 DEF Access!Regrant
  <2>2. \A g \in table[u] : g.role \in AccessRoles
      BY <2>1 DEF Access!AccessOK, Access!GrantsOK, AccessRoles
  <2>3. \A g \in grant' : g.role \in AccessRoles
      BY <2>1, <2>2 DEF KnownRoles
  <2> QED BY <2>3 DEF KnownRoles
<1>5. CASE UNCHANGED grant
    BY <1>5 DEF KnownRoles
<1>6. ASSUME NEW r \in Requests, Access!CreateProject(r) \/ Access!Create(r) \/ Access!Fail(r)
      PROVE  UNCHANGED grant
    BY <1>6 DEF Access!CreateProject, Access!Create, Access!Fail
<1>7. ASSUME NEW u \in Users, Access!Claim(u) \/ Access!Submit(u)
      PROVE  UNCHANGED grant
    BY <1>7 DEF Access!Claim, Access!Submit
<1>8. Access!Update \/ Access!AssignAll \/ Access!AssignSelected \/ Access!Reset => UNCHANGED grant
    BY DEF Access!Update, Access!AssignAll, Access!AssignSelected, Access!Reset, Access!Assigned
<1>9. UNCHANGED Access!vars => UNCHANGED grant
    BY DEF Access!vars
<1> QED BY <1>1, <1>2, <1>3, <1>4, <1>5, <1>6, <1>7, <1>8, <1>9 DEF Access!Next

(* A chapter that is claimed is one that its claimer may write.            *)
LEMMA ClaimsGiveWork ==
    ASSUME Access!AccessOK, KnownRoles
    PROVE  Access!ClaimGivesWork
<1>1. ASSUME NEW u \in Users, Access!Claim(u)
      PROVE  Access!Allowed(u, Access!upsertTranslatedVerseRoute)' /\ Access!Allowed(u, Access!aiStatusRoute)'
  <2>1. /\ grant' = grant /\ project' = project
        /\ assignment' = [assignment EXCEPT !.drafter = u, !.status = "draft"]
      BY <1>1 DEF Access!Claim
  <2>2. ~Access!May(u, "content:assign", 1) /\ Access!May(u, "content:update", 1)
    <3>1. Access!ChapterAssignmentAccess(u, "claim")
      <4>1. Access!claimRoute.domain = "chapter" /\ Access!claimRoute.action = "claim"
          BY DEF Access!claimRoute, Access!Route
      <4> QED BY <1>1, <4>1 DEF Access!Claim, Access!Allowed
    <3>2. Access!ChapterClaim(u)
        BY <3>1 DEF Access!ChapterAssignmentAccess
    <3> QED BY <3>2 DEF Access!ChapterClaim
  <2>3. /\ \A permission : Access!May(u, permission, 1)' <=> Access!May(u, permission, 1)
        /\ \A permission : Access!Somewhere(Access!GrantsOf(u), permission)'
                               <=> Access!Somewhere(Access!GrantsOf(u), permission)
      BY <2>1 DEF Access!May, Access!Somewhere, Access!GrantsOf, Access!Applies, Access!Global
  <2>4. Access!Somewhere(Access!GrantsOf(u), "content:update")
      BY <2>2, MayMeans
  <2>5. assignment'.drafter = u /\ assignment'.status = "draft"
      BY <2>1 DEF Access!Init
  <2>6. Access!ChapterEdit(u)' /\ Access!ChapterToggleAi(u)'
      BY <2>2, <2>3, <2>5 DEF Access!ChapterEdit, Access!ChapterToggleAi
  <2>7. Access!Allowed(u, Access!upsertTranslatedVerseRoute)'
      BY <2>3, <2>4, <2>6 DEF Access!Allowed, Access!upsertTranslatedVerseRoute, Access!Route,
                              Access!TranslatedVerseAccess
  <2>8. Access!Allowed(u, Access!aiStatusRoute)'
      BY <2>3, <2>4, <2>6 DEF Access!Allowed, Access!aiStatusRoute, Access!Route, Access!ChapterAssignmentAccess
  <2> QED BY <2>7, <2>8
<1> QED BY <1>1 DEF Access!ClaimGivesWork

(* Who may save a verse may do everything else the editor does, who may     *)
(* change the project everything its managers do, a list shows what opens,  *)
(* who drafted a chapter hands it over, and who takes a chapter can work on *)
(* it at once: the guards of the routes of a project and of a chapter, for  *)
(* any users, grants and stages (nine files of policies and middlewares).   *)
THEOREM PagesAreWhole ==
    ASSUME Access!AccessOK
    PROVE  Access!Spec => /\ [](/\ Access!EditorOpensWhole /\ Access!ManagerPageWhole /\ Access!ListedIsReadable
                               /\ Access!DraftHandedOver)
                          /\ [][Access!ClaimGivesWork]_Access!vars
<1>1. Access!Init => KnownRoles
  <2>1. ASSUME NEW table \in Offers, NEW u \in Changing, grant = Initially \cup table[u]
        PROVE  KnownRoles
      BY <2>1 DEF KnownRoles, AccessRoles, Access!AccessOK, Access!GrantsOK
  <2>2. CASE grant = Initially
      BY <2>2 DEF KnownRoles, AccessRoles, Access!AccessOK, Access!GrantsOK
  <2> QED BY <2>1, <2>2 DEF Access!Init
<1>2. KnownRoles /\ [Access!Next]_Access!vars => KnownRoles'
    BY RolesStayKnown
<1>3. KnownRoles => /\ Access!EditorOpensWhole /\ Access!ManagerPageWhole /\ Access!ListedIsReadable
                    /\ Access!DraftHandedOver
  <2> SUFFICES ASSUME KnownRoles
               PROVE  /\ Access!EditorOpensWhole /\ Access!ManagerPageWhole /\ Access!ListedIsReadable
                      /\ Access!DraftHandedOver
      OBVIOUS
  <2>1. ASSUME NEW u
        PROVE  /\ Access!Allowed(u, Access!upsertTranslatedVerseRoute) => Access!ChapterEdit(u)
               /\ Access!Allowed(u, Access!uploadVerseAudioRoute) => Access!ChapterEdit(u)
               /\ Access!Allowed(u, Access!updateProjectRoute) => Access!ProjectUpdate(u, 1)
    <3>1. Access!Allowed(u, Access!upsertTranslatedVerseRoute) => Access!ChapterEdit(u)
        BY DEF Access!Allowed, Access!upsertTranslatedVerseRoute, Access!Route, Access!TranslatedVerseAccess
    <3>2. Access!Allowed(u, Access!uploadVerseAudioRoute) => Access!ChapterEdit(u)
        BY DEF Access!Allowed, Access!uploadVerseAudioRoute, Access!Route, Access!VerseAudioAccess
    <3>3. Access!Allowed(u, Access!updateProjectRoute) => Access!ProjectUpdate(u, 1)
        BY DEF Access!Allowed, Access!updateProjectRoute, Access!Route, Access!ProjectAccess
    <3> QED BY <3>1, <3>2, <3>3
  <2>2. Access!uploadVerseAudioRoute \in Access!EditorRoutes
      BY DEF Access!EditorRoutes
  <2>3. Access!EditorOpensWhole
      BY <2>1, <2>2, EditorPage DEF Access!EditorOpensWhole
  <2>4. Access!ManagerPageWhole
      BY <2>1, ManagerPage DEF Access!ManagerPageWhole
  <2>5. Access!DraftHandedOver
      BY EditingMeans DEF Access!DraftHandedOver
  <2> QED BY <2>3, <2>4, <2>5, ListsOpen
<1>4. KnownRoles => Access!ClaimGivesWork
    BY ClaimsGiveWork
<1> QED BY <1>1, <1>2, <1>3, <1>4, PTL DEF Access!Spec

-----------------------------------------------------------------------------
(* The creators of projects.                                               *)

FoundingSteps == {"idle", "provision", "create", "grant", "takeBack", "answered"}
FoundingAnswers == {None, "created", "forbidden", "invalid", "error", "leftOver"}
OldOrgs == {None} \cup {Projects[p] : p \in DOMAIN Projects}
FoundingRequests ==
    [step : FoundingSteps, user : Users \cup {None}, org : OldOrgs \cup Nat, project : Nat \cup {None},
     answer : FoundingAnswers]
Founders == {r \in Requests : ~Access!At(r, "idle")}
Numbered(n) ==
    /\ \A r \in Founders : request[r].project \in Nat /\ request[r].project <= Cardinality(DOMAIN Projects) + n
    /\ \A r, s \in Founders : request[r].project = request[s].project => r = s
Stands(q) == q.step \in {"grant", "takeBack"} \/ q.answer = "created"
FounderRows(q) == {Access!Row(q.user, q.org, None, role) : role \in {"Org Member", "Org Manager"}}

AnswersLast ==
    \A r \in Requests : /\ request[r].answer # None => request[r].step = "answered"
                        /\ request[r].step = "idle" => request[r].org = None
ProjectsStand ==
    \A r \in Requests : Stands(request[r]) =>
        request[r].project \in DOMAIN project /\ project[request[r].project] = request[r].org
ProjectsRequested ==
    \A p \in DOMAIN project : p \in DOMAIN Projects \/
        \E r \in Requests : request[r].project = p /\ (Stands(request[r]) \/ request[r].answer = "leftOver")
CreatorsHold ==
    \A r \in Requests : request[r].answer = "created" =>
        Access!Row(request[r].user, request[r].org, request[r].project, "Project Manager") \in grant
FoundersHold == \A r \in Requests : request[r].org \notin OldOrgs => FounderRows(request[r]) \subseteq grant

(* What holds of the requests: an answer comes last, a project stands where *)
(* its request says, no other request has its number, and the rows are      *)
(* there when they are due.                                                *)
FoundingInv ==
    /\ request \in [Requests -> FoundingRequests] /\ Numbered(Cardinality(Founders)) /\ AnswersLast
    /\ ProjectsStand /\ ProjectsRequested /\ CreatorsHold /\ FoundersHold

(* The finite sets of the requests are the finite sets.                    *)
LEMMA FoundersCount ==
    ASSUME NEW S
    PROVE  Access!Cardinality(S) = Cardinality(S) /\ (Access!IsFiniteSet(S) <=> IsFiniteSet(S))
BY DEF Cardinality, Access!Cardinality, IsFiniteSet, Access!IsFiniteSet

(* What is to be shown follows.                                            *)
LEMMA FoundersManage ==
    ASSUME FoundingInv
    PROVE  Access!CreatorManages
<1>1. ASSUME NEW r \in Requests, request[r].answer = "created"
      PROVE  \A permission \in {"project:view", "project:update", "project:delete"} :
                 \E g \in Access!GrantsOf(request[r].user) :
                     /\ g.project = request[r].project /\ g.org = request[r].org
                     /\ Access!Applies(g, request[r].project)
                     /\ permission \in Access!RolePermissions(g.role)
  <2>1. PICK q : q = request[r]
      OBVIOUS
  <2>2. PICK g : g = Access!Row(q.user, q.org, q.project, "Project Manager")
      OBVIOUS
  <2>3. g.user = q.user /\ g.org = q.org /\ g.project = q.project /\ g.role = "Project Manager"
      BY <2>2 DEF Access!Row
  <2>4. g \in grant /\ project[q.project] = q.org
      BY <1>1, <2>1, <2>2 DEF FoundingInv, CreatorsHold, ProjectsStand, Stands
  <2>5. {"project:view", "project:update", "project:delete"} \subseteq Access!RolePermissions("Project Manager")
      BY DEF Access!RolePermissions, Access!Manages, Access!Works
  <2> QED BY <2>1, <2>3, <2>4, <2>5 DEF Access!GrantsOf, Access!Applies
<1>2. ASSUME NEW r \in Requests, request[r].answer = "created"
      PROVE  /\ request[r].project \in Access!ListedProjects(request[r].user, request[r].org)
             /\ Access!ProjectUpdate(request[r].user, request[r].project)
             /\ Access!ProjectDelete(request[r].user, request[r].project)
  <2>1. request[r].project \in DOMAIN project
      BY <1>2 DEF FoundingInv, ProjectsStand, Stands
  <2>2. Access!ProjectUpdate(request[r].user, request[r].project)
      BY <1>1, <1>2 DEF Access!ProjectUpdate, Access!May
  <2>3. Access!ProjectDelete(request[r].user, request[r].project)
      BY <1>1, <1>2 DEF Access!ProjectDelete, Access!May
  <2>4. request[r].project \in Access!ListedProjects(request[r].user, request[r].org)
      BY <1>1, <1>2, <2>1 DEF Access!ListedProjects
  <2> QED BY <2>2, <2>3, <2>4
<1>3. ASSUME NEW p \in DOMAIN project \ DOMAIN Projects
      PROVE  \E r \in Requests :
                LET q == request[r] IN
                /\ q.project = p
                /\ \/ q.step \in {"grant", "takeBack"} \/ q.answer = "leftOver"
                   \/ q.answer = "created" /\ Access!ProjectUpdate(q.user, p) /\ Access!ProjectDelete(q.user, p)
  <2>1. PICK r \in Requests : request[r].project = p /\ (Stands(request[r]) \/ request[r].answer = "leftOver")
      BY DEF FoundingInv, ProjectsRequested
  <2>2. PICK q : q = request[r]
      OBVIOUS
  <2>3. \/ q.step \in {"grant", "takeBack"} \/ q.answer = "leftOver"
        \/ q.answer = "created" /\ Access!ProjectUpdate(q.user, p) /\ Access!ProjectDelete(q.user, p)
      BY <1>2, <2>1, <2>2 DEF Stands
  <2> QED BY <2>1, <2>2, <2>3
<1>4. ASSUME NEW r \in Requests, request[r].org \notin {None} \cup {Projects[p] : p \in DOMAIN Projects}
      PROVE  {Access!Row(request[r].user, request[r].org, None, role) : role \in {"Org Member", "Org Manager"}}
                 \subseteq grant
    BY <1>4 DEF FoundingInv, FoundersHold, OldOrgs, FounderRows
<1> QED BY <1>2, <1>3, <1>4 DEF Access!CreatorManages

(* A request takes a step: its row becomes another. *)
StepsTo(r, q) == request' = [request EXCEPT ![r] = q]

(* The rows of the other requests stay.                                    *)
LEMMA Stepped ==
    ASSUME FoundingInv, NEW r \in Requests, NEW q \in FoundingRequests, StepsTo(r, q)
    PROVE  /\ request' \in [Requests -> FoundingRequests]
           /\ request'[r] = q /\ \A s \in Requests : s # r => request'[s] = request[s]
BY DEF FoundingInv, StepsTo

(* A step of a request that has begun leaves the numbers.                  *)
LEMMA NumbersStay ==
    ASSUME FoundingInv, NEW r \in Requests, NEW q \in FoundingRequests, StepsTo(r, q),
           request[r].step # "idle", q.step # "idle", q.project = request[r].project
    PROVE  Numbered(Cardinality(Founders))'
<1>1. /\ request'[r] = q /\ \A s \in Requests : s # r => request'[s] = request[s]
    BY Stepped
<1>2. Founders' = Founders
    BY <1>1 DEF Founders, Access!At
<1>3. \A s \in Founders : request'[s].project = request[s].project
    BY <1>1 DEF Founders
<1>4. Cardinality(Founders)' = Cardinality(Founders)
    BY <1>2
<1>5. \A s \in Founders' : request'[s].project \in Nat
                               /\ request'[s].project <= Cardinality(DOMAIN Projects) + Cardinality(Founders)'
    BY <1>2, <1>3, <1>4 DEF FoundingInv, Numbered
<1>6. ASSUME NEW s \in Founders', NEW t \in Founders', request'[s].project = request'[t].project
      PROVE  s = t
  <2>1. s \in Founders /\ t \in Founders
      BY <1>2
  <2>2. request[s].project = request[t].project
      BY <1>3, <1>6, <2>1
  <2> QED BY <2>1, <2>2 DEF FoundingInv, Numbered
<1> QED BY <1>5, <1>6 DEF Numbered

(* The next number is one.                                                 *)
LEMMA NextIsNumber ==
    ASSUME Access!AccessOK
    PROVE  Access!NextProject \in Nat
<1>1. IsFiniteSet(Requests) /\ IsFiniteSet(DOMAIN Projects)
    BY FoundersCount DEF Access!AccessOK, Access!ProjectsOK
<1>2. PICK begun : begun = {r \in Requests : ~Access!At(r, "idle")}
    OBVIOUS
<1>3. IsFiniteSet(begun)
    BY <1>1, <1>2, FS_Subset
<1>4. Cardinality(begun) \in Nat /\ Cardinality(DOMAIN Projects) \in Nat
    BY <1>1, <1>3, FS_CardinalityType
<1>5. Access!NextProject = Cardinality(DOMAIN Projects) + Cardinality(begun) + 1
    BY <1>2, FoundersCount DEF Access!NextProject
<1> QED BY <1>4, <1>5

(* A request that begins gets a number that no other has.                  *)
LEMMA NumberIsNew ==
    ASSUME FoundingInv, Access!AccessOK, NEW r \in Requests, NEW q \in FoundingRequests, StepsTo(r, q),
           request[r].step = "idle", q.step # "idle", q.project = Access!NextProject
    PROVE  Numbered(Cardinality(Founders))'
<1>1. /\ request'[r] = q /\ \A s \in Requests : s # r => request'[s] = request[s]
    BY Stepped
<1>2. Founders' = Founders \cup {r} /\ r \notin Founders
    BY <1>1 DEF Founders, Access!At
<1>3. IsFiniteSet(Requests) /\ IsFiniteSet(DOMAIN Projects)
    BY FoundersCount DEF Access!AccessOK, Access!ProjectsOK
<1>4. IsFiniteSet(Founders)
    BY <1>3, FS_Subset DEF Founders
<1>5. PICK n \in Nat, m \in Nat : n = Cardinality(DOMAIN Projects) /\ m = Cardinality(Founders)
    BY <1>3, <1>4, FS_CardinalityType
<1>6. Cardinality(Founders)' = m + 1
  <2>1. Cardinality(Founders \cup {r}) = Cardinality(Founders) + 1
      BY <1>2, <1>4, FS_AddElement
  <2> QED BY <1>2, <1>5, <2>1
<1>7. Access!NextProject = n + m + 1
    BY <1>5, FoundersCount DEF Access!NextProject, Founders
<1>8. \A s \in Founders : request'[s].project = request[s].project
    BY <1>1, <1>2 DEF Founders
<1>9. \A s \in Founders : request[s].project \in Nat /\ request[s].project <= n + m
    BY <1>5 DEF FoundingInv, Numbered
<1>10. request'[r].project = n + m + 1
    BY <1>1, <1>7
<1>11. ASSUME NEW s \in Founders'
       PROVE  request'[s].project \in Nat /\ request'[s].project <= n + (m + 1)
    BY <1>2, <1>8, <1>9, <1>10
<1>12. ASSUME NEW s \in Founders', NEW t \in Founders', request'[s].project = request'[t].project
       PROVE  s = t
  <2>1. CASE s \in Founders /\ t \in Founders
    <3>1. request[s].project = request[t].project
        BY <1>8, <1>12, <2>1
    <3> QED BY <2>1, <3>1 DEF FoundingInv, Numbered
  <2>2. CASE s = r \/ t = r
      BY <1>2, <1>8, <1>9, <1>10, <1>12, <2>2
  <2> QED BY <1>2, <2>1, <2>2
<1>13. Numbered(Cardinality(Founders))'
    BY <1>5, <1>6, <1>11, <1>12 DEF Numbered
<1> QED BY <1>13

(* What a step of a request must keep.                                     *)
LEMMA FoundingKept ==
    ASSUME FoundingInv, Access!AccessOK, NEW r \in Requests, NEW q \in FoundingRequests, StepsTo(r, q),
           Numbered(Cardinality(Founders))', q.step # "idle", q.answer # None => q.step = "answered",
           \A s \in Founders \ {r} : Stands(request[s]) =>
              /\ request[s].project \in DOMAIN project'
              /\ project'[request[s].project] = project[request[s].project],
           Stands(q) => q.project \in DOMAIN project' /\ project'[q.project] = q.org,
           \A p \in DOMAIN project' :
              \/ p \in DOMAIN Projects
              \/ q.project = p /\ (Stands(q) \/ q.answer = "leftOver")
              \/ /\ p \in DOMAIN project
                 /\ ~(request[r].project = p /\ (Stands(request[r]) \/ request[r].answer = "leftOver")),
           \A s \in Founders \ {r} : \A g \in grant : g.project \in {None, request[s].project} => g \in grant',
           q.answer = "created" => Access!Row(q.user, q.org, q.project, "Project Manager") \in grant',
           q.org \notin OldOrgs => FounderRows(q) \subseteq grant'
    PROVE  FoundingInv'
<1>1. /\ request' \in [Requests -> FoundingRequests]
      /\ request'[r] = q /\ \A s \in Requests : s # r => request'[s] = request[s]
    BY Stepped
<1>2. ASSUME NEW s \in Requests
      PROVE  /\ request'[s].answer # None => request'[s].step = "answered"
             /\ request'[s].step = "idle" => request'[s].org = None
  <2>1. CASE s = r
      BY <1>1, <2>1
  <2>2. CASE s # r
    <3>1. PICK c : c = request[s] /\ c = request'[s]
        BY <1>1, <2>2
    <3>2. (c.answer # None => c.step = "answered") /\ (c.step = "idle" => c.org = None)
        BY <3>1 DEF FoundingInv, AnswersLast
    <3> QED BY <3>1, <3>2
  <2> QED BY <2>1, <2>2
<1>3. ASSUME NEW s \in Requests, s # r
      PROVE  Stands(request[s]) \/ request[s].answer = "created" \/ request[s].org \notin OldOrgs
                 => s \in Founders \ {r}
  <2>1. PICK c : c = request[s]
      OBVIOUS
  <2>2. (c.answer # None => c.step = "answered") /\ (c.step = "idle" => c.org = None)
      BY <2>1 DEF FoundingInv, AnswersLast
  <2>3. c.step = "idle" => c.org \in OldOrgs /\ c.answer # "created" /\ ~Stands(c)
      BY <2>2 DEF OldOrgs, Stands, Access!AccessOK, Access!ProjectsOK
  <2>4. c.step # "idle" => s \in Founders \ {r}
      BY <1>3, <2>1 DEF Founders, Access!At
  <2> QED BY <2>1, <2>3, <2>4
<1>4. ASSUME NEW s \in Requests, Stands(request'[s])
      PROVE  request'[s].project \in DOMAIN project' /\ project'[request'[s].project] = request'[s].org
  <2>1. CASE s = r
      BY <1>1, <1>4, <2>1
  <2>2. CASE s # r
    <3>1. PICK c : c = request[s] /\ c = request'[s]
        BY <1>1, <2>2
    <3>2. c.project \in DOMAIN project /\ project[c.project] = c.org
        BY <1>4, <3>1 DEF FoundingInv, ProjectsStand
    <3>3. s \in Founders \ {r}
        BY <1>3, <1>4, <2>2, <3>1
    <3> QED BY <1>4, <3>1, <3>2, <3>3
  <2> QED BY <2>1, <2>2
<1>5. ASSUME NEW p \in DOMAIN project'
      PROVE  p \in DOMAIN Projects \/
                \E s \in Requests : /\ request'[s].project = p
                                    /\ Stands(request'[s]) \/ request'[s].answer = "leftOver"
  <2>1. CASE q.project = p /\ (Stands(q) \/ q.answer = "leftOver")
      BY <1>1, <2>1
  <2>2. CASE /\ p \in DOMAIN project /\ p \notin DOMAIN Projects
             /\ ~(request[r].project = p /\ (Stands(request[r]) \/ request[r].answer = "leftOver"))
    <3>1. PICK s \in Requests : request[s].project = p /\ (Stands(request[s]) \/ request[s].answer = "leftOver")
        BY <2>2 DEF FoundingInv, ProjectsRequested
    <3>2. request'[s] = request[s]
        BY <1>1, <2>2, <3>1
    <3> QED BY <3>1, <3>2
  <2> QED BY <2>1, <2>2
<1>6. ASSUME NEW s \in Requests, request'[s].answer = "created"
      PROVE  Access!Row(request'[s].user, request'[s].org, request'[s].project, "Project Manager") \in grant'
  <2>1. CASE s = r
      BY <1>1, <1>6, <2>1
  <2>2. CASE s # r
    <3>1. PICK c : c = request[s] /\ c = request'[s]
        BY <1>1, <2>2
    <3>2. Access!Row(c.user, c.org, c.project, "Project Manager") \in grant
        BY <1>6, <3>1 DEF FoundingInv, CreatorsHold
    <3>3. PICK given : given = Access!Row(c.user, c.org, c.project, "Project Manager")
        OBVIOUS
    <3>4. given \in grant /\ given.project = c.project
        BY <3>2, <3>3 DEF Access!Row
    <3>5. s \in Founders \ {r}
        BY <1>3, <1>6, <2>2, <3>1
    <3> QED BY <3>1, <3>2, <3>3, <3>4, <3>5
  <2> QED BY <2>1, <2>2
<1>7. ASSUME NEW s \in Requests, request'[s].org \notin OldOrgs
      PROVE  FounderRows(request'[s]) \subseteq grant'
  <2>1. CASE s = r
      BY <1>1, <1>7, <2>1
  <2>2. CASE s # r
    <3>1. PICK c : c = request[s] /\ c = request'[s]
        BY <1>1, <2>2
    <3>2. FounderRows(c) \subseteq grant
        BY <1>7, <3>1 DEF FoundingInv, FoundersHold
    <3>3. s \in Founders \ {r}
        BY <1>3, <1>7, <2>2, <3>1
    <3>4. ASSUME NEW role \in {"Org Member", "Org Manager"}
          PROVE  Access!Row(c.user, c.org, None, role) \in grant'
      <4>1. PICK given : given = Access!Row(c.user, c.org, None, role)
          OBVIOUS
      <4>2. given.project = None
          BY <4>1 DEF Access!Row
      <4>3. given \in grant
          BY <3>2, <4>1 DEF FounderRows
      <4> QED BY <3>3, <4>1, <4>2, <4>3
    <3> QED BY <3>1, <3>4 DEF FounderRows
  <2> QED BY <2>1, <2>2
<1>8. AnswersLast' /\ ProjectsStand' /\ ProjectsRequested'
    BY <1>2, <1>4, <1>5 DEF AnswersLast, ProjectsStand, ProjectsRequested
<1>9. CreatorsHold' /\ FoundersHold'
    BY <1>6, <1>7 DEF CreatorsHold, FoundersHold
<1> QED BY <1>1, <1>8, <1>9 DEF FoundingInv

(* A request that has begun is a row of five columns.                      *)
LEMMA Underway ==
    ASSUME FoundingInv, NEW r \in Requests, NEW s, request[r].step = s, s \notin {"idle", "answered"}
    PROVE  \E u \in Users \cup {None}, o \in OldOrgs \cup Nat, p \in Nat :
              request[r] = [step |-> s, user |-> u, org |-> o, project |-> p, answer |-> None] /\ r \in Founders
<1>1. r \in Founders
    BY DEF Founders, Access!At
<1>2. request[r] \in FoundingRequests /\ request[r].project \in Nat
    BY <1>1 DEF FoundingInv, Numbered
<1>3. PICK u, o, p : u = request[r].user /\ o = request[r].org /\ p = request[r].project
    OBVIOUS
<1>4. request[r].answer = None
    BY DEF FoundingInv, AnswersLast
<1>5. /\ request[r] = [step |-> s, user |-> u, org |-> o, project |-> p, answer |-> None]
      /\ u \in Users \cup {None} /\ o \in OldOrgs \cup Nat
    BY <1>2, <1>3, <1>4 DEF FoundingRequests
<1> QED BY <1>1, <1>2, <1>3, <1>5

(* Columns of a row change.                                                *)
LEMMA ColumnsSet ==
    ASSUME FoundingInv, NEW r \in Requests, NEW s, NEW u, NEW o, NEW p, NEW a, NEW step, NEW org, NEW answer,
           request[r] = [step |-> s, user |-> u, org |-> o, project |-> p, answer |-> a]
    PROVE  /\ request' = [request EXCEPT ![r].step = step] =>
                 StepsTo(r, [step |-> step, user |-> u, org |-> o, project |-> p, answer |-> a])
           /\ request' = [request EXCEPT ![r].step = step, ![r].org = org] =>
                 StepsTo(r, [step |-> step, user |-> u, org |-> org, project |-> p, answer |-> a])
           /\ request' = [request EXCEPT ![r].step = step, ![r].answer = answer] =>
                 StepsTo(r, [step |-> step, user |-> u, org |-> o, project |-> p, answer |-> answer])
<1>1. PICK old : old = request[r]
    OBVIOUS
<1>a. old \in [step : {s}, user : {u}, org : {o}, project : {p}, answer : {a}]
    BY <1>1
<1>b. [old EXCEPT !.step = step] = [step |-> step, user |-> u, org |-> o, project |-> p, answer |-> a]
    BY <1>a
<1>c. [old EXCEPT !.step = step, !.org = org]
          = [step |-> step, user |-> u, org |-> org, project |-> p, answer |-> a]
  <2>1. [old EXCEPT !.step = step, !.org = org] \in
            [step : {step}, user : {u}, org : {org}, project : {p}, answer : {a}]
      BY <1>a
  <2>2. PICK new : new = [old EXCEPT !.step = step, !.org = org]
      OBVIOUS
  <2>3. new \in [step : {step}, user : {u}, org : {org}, project : {p}, answer : {a}]
      BY <2>1, <2>2
  <2>4. new = [step |-> step, user |-> u, org |-> org, project |-> p, answer |-> a]
      BY ONLY <2>3
  <2> QED BY <2>2, <2>4
<1>d. [old EXCEPT !.step = step, !.answer = answer]
          = [step |-> step, user |-> u, org |-> o, project |-> p, answer |-> answer]
  <2>1. [old EXCEPT !.step = step, !.answer = answer] \in
            [step : {step}, user : {u}, org : {o}, project : {p}, answer : {answer}]
      BY <1>a
  <2>2. PICK new : new = [old EXCEPT !.step = step, !.answer = answer]
      OBVIOUS
  <2>3. new \in [step : {step}, user : {u}, org : {o}, project : {p}, answer : {answer}]
      BY <2>1, <2>2
  <2>4. new = [step |-> step, user |-> u, org |-> o, project |-> p, answer |-> answer]
      BY ONLY <2>3
  <2> QED BY <2>2, <2>4
<1>2. /\ [old EXCEPT !.step = step] = [step |-> step, user |-> u, org |-> o, project |-> p, answer |-> a]
      /\ [old EXCEPT !.step = step, !.org = org]
             = [step |-> step, user |-> u, org |-> org, project |-> p, answer |-> a]
      /\ [old EXCEPT !.step = step, !.answer = answer]
             = [step |-> step, user |-> u, org |-> o, project |-> p, answer |-> answer]
    BY <1>b, <1>c, <1>d
<1>3. /\ [request EXCEPT ![r].step = step] = [request EXCEPT ![r] = [old EXCEPT !.step = step]]
      /\ [request EXCEPT ![r].step = step, ![r].org = org]
             = [request EXCEPT ![r] = [old EXCEPT !.step = step, !.org = org]]
      /\ [request EXCEPT ![r].step = step, ![r].answer = answer]
             = [request EXCEPT ![r] = [old EXCEPT !.step = step, !.answer = answer]]
    BY <1>1 DEF FoundingInv
<1> QED BY <1>2, <1>3 DEF StepsTo

(* A founder has the rows of the organization. *)
LEMMA ProvisionKeeps ==
    ASSUME FoundingInv, Access!AccessOK, NEW r \in Requests, Access!Provision(r)
    PROVE  FoundingInv'
<1>1. request[r].step = "provision"
    BY DEF Access!Provision, Access!At
<1>2. PICK u \in Users \cup {None}, o \in OldOrgs \cup Nat, p \in Nat :
          request[r] = [step |-> "provision", user |-> u, org |-> o, project |-> p, answer |-> None] /\ r \in Founders
    BY <1>1, Underway
<1>a. PICK user, org :
         /\ user = request[r].user /\ org = 10 + request[r].project
         /\ request' = [request EXCEPT ![r].step = "create", ![r].org = org]
         /\ grant' = grant \cup {Access!Row(user, org, None, role) : role \in {"Org Member", "Org Manager"}}
  <2>1. PICK c : c = request[r]
      OBVIOUS
  <2>2. /\ request' = [request EXCEPT ![r].step = "create", ![r].org = 10 + c.project]
        /\ grant' = grant \cup {Access!Row(c.user, 10 + c.project, None, role) : role \in {"Org Member", "Org Manager"}}
      BY <2>1 DEF Access!Provision
  <2> QED BY <2>1, <2>2
<1>3. PICK q : q = [step |-> "create", user |-> u, org |-> org, project |-> p, answer |-> None]
    OBVIOUS
<1>4. StepsTo(r, q)
  <2>1. /\ request' = [request EXCEPT ![r].step = "create", ![r].org = org]
      BY <1>a
  <2> QED BY <1>2, <1>3, <2>1, ColumnsSet
<1>b. user = u /\ org = 10 + p
  <2>1. user = request[r].user /\ org = 10 + request[r].project
      BY <1>a
  <2>2. request[r].user = u /\ request[r].project = p
      BY <1>2
  <2> QED BY <2>1, <2>2
<1>5. q \in FoundingRequests
    BY <1>3, <1>b DEF FoundingRequests, FoundingSteps, FoundingAnswers
<1>6. Numbered(Cardinality(Founders))'
    BY <1>1, <1>2, <1>3, <1>4, <1>5, NumbersStay
<1>7. ~Stands(q) /\ ~Stands(request[r]) /\ request[r].answer # "leftOver"
    BY <1>2, <1>3 DEF Stands, Access!AccessOK, Access!ProjectsOK
<1>8. grant' = grant \cup FounderRows(q) /\ project' = project
    BY <1>3, <1>a, <1>b DEF Access!Provision, FounderRows
<1>9. \A s \in Founders \ {r} : Stands(request[s]) =>
          request[s].project \in DOMAIN project' /\ project'[request[s].project] = project[request[s].project]
    BY <1>8 DEF FoundingInv, ProjectsStand, Founders
<1>10. /\ FounderRows(q) \subseteq grant' /\ \A g \in grant : g \in grant'
       /\ \A i \in DOMAIN project' : i \in DOMAIN project
    BY <1>8
<1>11. q.answer # "created" /\ q.step = "create" /\ q.answer = None
    BY <1>3 DEF Access!AccessOK, Access!ProjectsOK
<1> QED BY <1>4, <1>5, <1>6, <1>7, <1>9, <1>10, <1>11, FoundingKept

(* The project is written. *)
LEMMA CreateKeeps ==
    ASSUME FoundingInv, Access!AccessOK, NEW r \in Requests, Access!Create(r)
    PROVE  FoundingInv'
<1>1. request[r].step = "create"
    BY DEF Access!Create, Access!At
<1>2. PICK u \in Users \cup {None}, o \in OldOrgs \cup Nat, p \in Nat :
          request[r] = [step |-> "create", user |-> u, org |-> o, project |-> p, answer |-> None] /\ r \in Founders
    BY <1>1, Underway
<1>3. PICK q : q = [step |-> "grant", user |-> u, org |-> o, project |-> p, answer |-> None]
    OBVIOUS
<1>4. StepsTo(r, q)
    BY <1>2, <1>3, ColumnsSet DEF Access!Create
<1>5. q \in FoundingRequests
    BY <1>3 DEF FoundingRequests, FoundingSteps, FoundingAnswers
<1>6. Numbered(Cardinality(Founders))'
    BY <1>1, <1>2, <1>3, <1>4, <1>5, NumbersStay
<1>7. Stands(q) /\ ~Stands(request[r]) /\ request[r].answer # "leftOver" /\ q.answer # "created"
    BY <1>2, <1>3 DEF Stands, Access!AccessOK, Access!ProjectsOK
<1>8. grant' = grant /\ project' = [i \in DOMAIN project \cup {p} |-> IF i = p THEN o ELSE project[i]]
    BY <1>2 DEF Access!Create
<1>9. \A s \in Founders \ {r} : request[s].project # p
    BY <1>2 DEF FoundingInv, Numbered
<1>10. \A s \in Founders \ {r} : Stands(request[s]) =>
          request[s].project \in DOMAIN project' /\ project'[request[s].project] = project[request[s].project]
    BY <1>8, <1>9 DEF FoundingInv, ProjectsStand, Founders
<1>11. q.org \notin OldOrgs => FounderRows(q) \subseteq grant'
  <2>1. PICK c : c = request[r] /\ c.user = q.user /\ c.org = q.org
      BY <1>2, <1>3
  <2>2. FounderRows(q) = FounderRows(c)
      BY <2>1 DEF FounderRows
  <2> QED BY <1>8, <2>1, <2>2 DEF FoundingInv, FoundersHold
<1>12. \A i \in DOMAIN project' : i \in DOMAIN project \/ q.project = i
    BY <1>3, <1>8
<1>13. q.project \in DOMAIN project' /\ project'[q.project] = q.org
    BY <1>3, <1>8
<1> QED BY <1>3, <1>4, <1>5, <1>6, <1>7, <1>8, <1>10, <1>11, <1>12, <1>13, FoundingKept

(* Its creator becomes its manager. *)
LEMMA GrantCreatorKeeps ==
    ASSUME FoundingInv, Access!AccessOK, NEW r \in Requests, Access!GrantCreator(r)
    PROVE  FoundingInv'
<1>1. request[r].step = "grant"
    BY DEF Access!GrantCreator, Access!At
<1>2. PICK u \in Users \cup {None}, o \in OldOrgs \cup Nat, p \in Nat :
          request[r] = [step |-> "grant", user |-> u, org |-> o, project |-> p, answer |-> None] /\ r \in Founders
    BY <1>1, Underway
<1>3. PICK q : q = [step |-> "answered", user |-> u, org |-> o, project |-> p, answer |-> "created"]
    OBVIOUS
<1>4. StepsTo(r, q)
    BY <1>2, <1>3, ColumnsSet DEF Access!GrantCreator, Access!Answered
<1>5. q \in FoundingRequests
    BY <1>3 DEF FoundingRequests, FoundingSteps, FoundingAnswers
<1>6. Numbered(Cardinality(Founders))'
    BY <1>1, <1>2, <1>3, <1>4, <1>5, NumbersStay
<1>7. Stands(q) /\ Stands(request[r])
    BY <1>2, <1>3 DEF Stands
<1>8. grant' = grant \cup {Access!Row(u, o, p, "Project Manager")} /\ project' = project
  <2>1. PICK c : c = request[r]
      OBVIOUS
  <2>2. grant' = grant \cup {Access!Row(c.user, c.org, c.project, "Project Manager")} /\ project' = project
      BY <2>1 DEF Access!GrantCreator
  <2>3. c.user = u /\ c.org = o /\ c.project = p
      BY <1>2, <2>1
  <2> QED BY <2>2, <2>3
<1>9. /\ \A s \in Founders \ {r} : Stands(request[s]) =>
            request[s].project \in DOMAIN project' /\ project'[request[s].project] = project[request[s].project]
      /\ p \in DOMAIN project' /\ project'[p] = o
  <2>1. request[r].project = p /\ request[r].org = o
      BY <1>2
  <2> QED BY <1>7, <1>8, <2>1 DEF FoundingInv, ProjectsStand, Founders
<1>10. \A i \in DOMAIN project' : i \in DOMAIN project /\ (request[r].project = i => q.project = i)
  <2>1. request[r].project = p /\ q.project = p
      BY <1>2, <1>3
  <2> QED BY <1>8, <2>1
<1>11. /\ Access!Row(q.user, q.org, q.project, "Project Manager") \in grant' /\ \A g \in grant : g \in grant'
       /\ q.project = p /\ q.org = o /\ q.step = "answered"
    BY <1>3, <1>8
<1>12. q.org \notin OldOrgs => FounderRows(q) \subseteq grant'
  <2>1. PICK c : c = request[r] /\ c.user = q.user /\ c.org = q.org
      BY <1>2, <1>3
  <2>2. FounderRows(q) = FounderRows(c)
      BY <2>1 DEF FounderRows
  <2> QED BY <1>11, <2>1, <2>2 DEF FoundingInv, FoundersHold
<1> QED BY <1>4, <1>5, <1>6, <1>7, <1>9, <1>10, <1>11, <1>12, FoundingKept

(* The project goes, and no other with it. *)
LEMMA TakeBackKeeps ==
    ASSUME FoundingInv, Access!AccessOK, NEW r \in Requests, Access!TakeBack(r)
    PROVE  FoundingInv'
<1>1. request[r].step = "takeBack"
    BY DEF Access!TakeBack, Access!At
<1>2. PICK u \in Users \cup {None}, o \in OldOrgs \cup Nat, p \in Nat :
          request[r] = [step |-> "takeBack", user |-> u, org |-> o, project |-> p, answer |-> None] /\ r \in Founders
    BY <1>1, Underway
<1>3. PICK q : q = [step |-> "answered", user |-> u, org |-> o, project |-> p, answer |-> "error"]
    OBVIOUS
<1>4. StepsTo(r, q)
    BY <1>2, <1>3, ColumnsSet DEF Access!TakeBack, Access!Answered
<1>5. q \in FoundingRequests
    BY <1>3 DEF FoundingRequests, FoundingSteps, FoundingAnswers
<1>6. Numbered(Cardinality(Founders))'
    BY <1>1, <1>2, <1>3, <1>4, <1>5, NumbersStay
<1>7. ~Stands(q) /\ q.answer = "error" /\ q.step = "answered"
    BY <1>3 DEF Stands
<1>8. /\ project' = [i \in DOMAIN project \ {p} |-> project[i]]
      /\ grant' = {g \in grant : g.project # p}
    BY <1>2 DEF Access!TakeBack
<1>9. \A s \in Founders \ {r} : request[s].project # p
    BY <1>2 DEF FoundingInv, Numbered
<1>10. \A s \in Founders \ {r} : Stands(request[s]) =>
          request[s].project \in DOMAIN project' /\ project'[request[s].project] = project[request[s].project]
    BY <1>8, <1>9 DEF FoundingInv, ProjectsStand, Founders
<1>11. \A i \in DOMAIN project' : i \in DOMAIN project /\ request[r].project # i
    BY <1>2, <1>8
<1>12. \A s \in Founders \ {r} : \A g \in grant : g.project \in {None, request[s].project} => g \in grant'
    BY <1>8, <1>9 DEF Access!AccessOK, Access!ProjectsOK
<1>13. q.org \notin OldOrgs => FounderRows(q) \subseteq grant'
  <2>1. PICK c : c = request[r] /\ c.user = q.user /\ c.org = q.org
      BY <1>2, <1>3
  <2>2. FounderRows(q) = FounderRows(c)
      BY <2>1 DEF FounderRows
  <2>3. q.org \notin OldOrgs => FounderRows(q) \subseteq grant
      BY <2>1, <2>2 DEF FoundingInv, FoundersHold
  <2>4. \A given \in FounderRows(q) : given.project = None
    <3>1. ASSUME NEW role
          PROVE  Access!Row(q.user, q.org, None, role).project = None
        BY DEF Access!Row
    <3> QED BY <3>1 DEF FounderRows
  <2>5. None # p
      BY DEF Access!AccessOK, Access!ProjectsOK
  <2> QED BY <1>8, <2>3, <2>4, <2>5
<1> QED BY <1>4, <1>5, <1>6, <1>7, <1>10, <1>11, <1>12, <1>13, FoundingKept

(* A statement fails. *)
LEMMA FailKeeps ==
    ASSUME FoundingInv, Access!AccessOK, NEW r \in Requests, Access!Fail(r)
    PROVE  FoundingInv'
<1>1. PICK s : s = request[r].step /\ s \notin {"idle", "answered"}
    BY DEF Access!Fail
<1>2. PICK u \in Users \cup {None}, o \in OldOrgs \cup Nat, p \in Nat :
          request[r] = [step |-> s, user |-> u, org |-> o, project |-> p, answer |-> None] /\ r \in Founders
    BY <1>1, Underway
<1>3. PICK step, answer :
         /\ \/ s = "grant" /\ step = "takeBack" /\ answer = None
            \/ s = "takeBack" /\ step = "answered" /\ answer = "leftOver"
            \/ s \notin {"grant", "takeBack"} /\ step = "answered" /\ answer = "error"
         /\ StepsTo(r, [step |-> step, user |-> u, org |-> o, project |-> p, answer |-> answer])
  <2>1. CASE s = "grant"
    <3>1. request' = [request EXCEPT ![r].step = "takeBack"]
        BY <1>1, <2>1 DEF Access!Fail, Access!Fails, Access!At
    <3>2. StepsTo(r, [step |-> "takeBack", user |-> u, org |-> o, project |-> p, answer |-> None])
        BY <1>2, <3>1, ColumnsSet
    <3> QED BY <2>1, <3>2
  <2>2. CASE s = "takeBack"
    <3>1. request' = [request EXCEPT ![r].step = "answered", ![r].answer = "leftOver"]
        BY <1>1, <2>2 DEF Access!Fail, Access!Fails, Access!At, Access!Answered
    <3>2. StepsTo(r, [step |-> "answered", user |-> u, org |-> o, project |-> p, answer |-> "leftOver"])
        BY <1>2, <3>1, ColumnsSet
    <3> QED BY <2>2, <3>2
  <2>3. CASE s \notin {"grant", "takeBack"}
    <3>1. request' = [request EXCEPT ![r].step = "answered", ![r].answer = "error"]
        BY <1>1, <2>3 DEF Access!Fail, Access!Fails, Access!At, Access!Answered
    <3>2. StepsTo(r, [step |-> "answered", user |-> u, org |-> o, project |-> p, answer |-> "error"])
        BY <1>2, <3>1, ColumnsSet
    <3> QED BY <2>3, <3>2
  <2> QED BY <2>1, <2>2, <2>3
<1>4. PICK q : q = [step |-> step, user |-> u, org |-> o, project |-> p, answer |-> answer] /\ StepsTo(r, q)
    BY <1>3
<1>5. q \in FoundingRequests
    BY <1>3, <1>4 DEF FoundingRequests, FoundingSteps, FoundingAnswers
<1>6. /\ request[r].step = s /\ request[r].answer = None /\ request[r].project = p /\ request[r].org = o
      /\ request[r].user = u
      /\ q.step = step /\ q.answer = answer /\ q.project = p /\ q.org = o /\ q.user = u
    BY <1>2, <1>4
<1>7. Numbered(Cardinality(Founders))'
    BY <1>1, <1>3, <1>4, <1>5, <1>6, NumbersStay
<1>8. None # "leftOver" /\ None # "created"
    BY DEF Access!AccessOK, Access!ProjectsOK
<1>9. /\ Stands(q) => Stands(request[r])
      /\ Stands(request[r]) \/ request[r].answer = "leftOver" => Stands(q) \/ q.answer = "leftOver"
      /\ q.step # "idle" /\ q.answer # "created" /\ (q.answer # None => q.step = "answered")
    BY <1>3, <1>6, <1>8 DEF Stands
<1>10. grant' = grant /\ project' = project
    BY DEF Access!Fail
<1>11. \A i \in Requests : Stands(request[i]) =>
          request[i].project \in DOMAIN project' /\ project'[request[i].project] = request[i].org
    BY <1>10 DEF FoundingInv, ProjectsStand
<1>12. /\ \A i \in Founders \ {r} : Stands(request[i]) =>
             request[i].project \in DOMAIN project' /\ project'[request[i].project] = project[request[i].project]
       /\ Stands(q) => q.project \in DOMAIN project' /\ project'[q.project] = q.org
    BY <1>6, <1>9, <1>10, <1>11 DEF Founders
<1>13. \A i \in DOMAIN project' : i \in DOMAIN project /\ (request[r].project = i => q.project = i)
    BY <1>6, <1>10
<1>14. q.org \notin OldOrgs => FounderRows(q) \subseteq grant'
  <2>1. FounderRows(q) = FounderRows(request[r])
      BY <1>6 DEF FounderRows
  <2> QED BY <1>6, <1>10, <2>1 DEF FoundingInv, FoundersHold
<1> QED BY <1>4, <1>5, <1>7, <1>9, <1>10, <1>12, <1>13, <1>14, FoundingKept

(* A request begins. *)
LEMMA CreateProjectKeeps ==
    ASSUME FoundingInv, Access!AccessOK, NEW r \in Requests, Access!CreateProject(r)
    PROVE  FoundingInv'
<1>1. request[r].step = "idle" /\ grant' = grant /\ project' = project
    BY DEF Access!CreateProject, Access!At
<1>2. PICK n : n = Access!NextProject
    OBVIOUS
<1> DEFINE begins(u, org, begun) ==
         /\ begun = [Access!Idle EXCEPT !.user = u, !.org = org, !.project = n]
         /\ \/ request' = [request EXCEPT ![r] = [begun EXCEPT !.step = "answered", !.answer = "forbidden"]]
            \/ request' = [request EXCEPT ![r] = [begun EXCEPT !.step = "provision"]]
            \/ request' = [request EXCEPT ![r] = [begun EXCEPT !.step = "answered", !.answer = "invalid"]]
            \/ request' = [request EXCEPT ![r] = [begun EXCEPT !.step = "create"]]
<1>3. \E u \in Users, org \in OldOrgs : \E begun : begins(u, org, begun)
    BY <1>2, ZenonT(60) DEF Access!CreateProject, OldOrgs
<1>c. PICK u \in Users, org \in OldOrgs : \E begun : begins(u, org, begun)
    BY <1>3
<1>d. PICK begun : begins(u, org, begun)
    BY <1>c
<1>a. begun \in [step : {"idle"}, user : {u}, org : {org}, project : {n}, answer : {None}]
  <2>1. PICK idle : idle = Access!Idle
      OBVIOUS
  <2>2. idle \in [step : {"idle"}, user : {None}, org : {None}, project : {None}, answer : {None}]
      BY <2>1 DEF Access!Idle
  <2>3. [idle EXCEPT !.user = u, !.org = org, !.project = n] \in
            [step : {"idle"}, user : {u}, org : {org}, project : {n}, answer : {None}]
      BY <2>2
  <2> QED BY <1>d, <2>1, <2>3
<1>b. ASSUME NEW step, NEW answer
      PROVE  /\ [begun EXCEPT !.step = step] =
                   [step |-> step, user |-> u, org |-> org, project |-> n, answer |-> None]
             /\ [begun EXCEPT !.step = step, !.answer = answer] =
                   [step |-> step, user |-> u, org |-> org, project |-> n, answer |-> answer]
  <2>1. [begun EXCEPT !.step = step] \in [step : {step}, user : {u}, org : {org}, project : {n}, answer : {None}]
      BY <1>a
  <2>2. [begun EXCEPT !.step = step, !.answer = answer] \in
            [step : {step}, user : {u}, org : {org}, project : {n}, answer : {answer}]
      BY <1>a
  <2>3. PICK x, y : x = [begun EXCEPT !.step = step] /\ y = [begun EXCEPT !.step = step, !.answer = answer]
      OBVIOUS
  <2>4. x = [step |-> step, user |-> u, org |-> org, project |-> n, answer |-> None]
      BY <2>1, <2>3
  <2>5. y = [step |-> step, user |-> u, org |-> org, project |-> n, answer |-> answer]
      BY <2>2, <2>3
  <2> QED BY <2>3, <2>4, <2>5
<1>4. PICK step \in {"answered", "provision", "create"}, answer \in {None, "forbidden", "invalid"} :
         /\ request' = [request EXCEPT ![r] =
                           [step |-> step, user |-> u, org |-> org, project |-> n, answer |-> answer]]
         /\ answer # None => step = "answered"
  <2>1. CASE request' = [request EXCEPT ![r] = [begun EXCEPT !.step = "answered", !.answer = "forbidden"]]
    <3>1. [begun EXCEPT !.step = "answered", !.answer = "forbidden"] =
              [step |-> "answered", user |-> u, org |-> org, project |-> n, answer |-> "forbidden"]
        BY <1>a, <1>b
    <3>2. request' = [request EXCEPT ![r] =
                         [step |-> "answered", user |-> u, org |-> org, project |-> n, answer |-> "forbidden"]]
        BY <2>1, <3>1
    <3> QED BY ONLY <3>2
  <2>2. CASE request' = [request EXCEPT ![r] = [begun EXCEPT !.step = "provision"]]
    <3>1. [begun EXCEPT !.step = "provision"] =
              [step |-> "provision", user |-> u, org |-> org, project |-> n, answer |-> None]
        BY <1>a, <1>b
    <3>2. request' = [request EXCEPT ![r] =
                         [step |-> "provision", user |-> u, org |-> org, project |-> n, answer |-> None]]
        BY <2>2, <3>1
    <3> QED BY ONLY <3>2
  <2>3. CASE request' = [request EXCEPT ![r] = [begun EXCEPT !.step = "answered", !.answer = "invalid"]]
    <3>1. [begun EXCEPT !.step = "answered", !.answer = "invalid"] =
              [step |-> "answered", user |-> u, org |-> org, project |-> n, answer |-> "invalid"]
        BY <1>a, <1>b
    <3>2. request' = [request EXCEPT ![r] =
                         [step |-> "answered", user |-> u, org |-> org, project |-> n, answer |-> "invalid"]]
        BY <2>3, <3>1
    <3> QED BY ONLY <3>2
  <2>4. CASE request' = [request EXCEPT ![r] = [begun EXCEPT !.step = "create"]]
    <3>1. [begun EXCEPT !.step = "create"] =
              [step |-> "create", user |-> u, org |-> org, project |-> n, answer |-> None]
        BY <1>a, <1>b
    <3>2. request' = [request EXCEPT ![r] =
                         [step |-> "create", user |-> u, org |-> org, project |-> n, answer |-> None]]
        BY <2>4, <3>1
    <3> QED BY ONLY <3>2
  <2> QED BY <1>d, <2>1, <2>2, <2>3, <2>4
<1>5. PICK q : q = [step |-> step, user |-> u, org |-> org, project |-> n, answer |-> answer] /\ StepsTo(r, q)
    BY <1>4 DEF StepsTo
<1>6. /\ q.step = step /\ q.answer = answer /\ q.project = n /\ q.org = org /\ q.step # "idle"
      /\ q.answer # "created" /\ q.org \in OldOrgs /\ (q.answer # None => q.step = "answered")
    BY <1>4, <1>5 DEF Access!AccessOK, Access!ProjectsOK
<1>7. n \in Nat
    BY <1>2, NextIsNumber
<1>8. q \in FoundingRequests
    BY <1>5, <1>7 DEF FoundingRequests, FoundingSteps, FoundingAnswers
<1>9. Numbered(Cardinality(Founders))'
    BY <1>1, <1>2, <1>5, <1>6, <1>8, NumberIsNew
<1>10. ~Stands(q)
    BY <1>6, <1>4 DEF Stands
<1>11. request[r].answer = None
    BY <1>1 DEF FoundingInv, AnswersLast
<1>12. ~Stands(request[r]) /\ request[r].answer # "leftOver"
    BY <1>1, <1>11 DEF Stands, Access!AccessOK, Access!ProjectsOK
<1>13. /\ \A s \in Founders \ {r} : Stands(request[s]) =>
             request[s].project \in DOMAIN project' /\ project'[request[s].project] = project[request[s].project]
       /\ \A i \in DOMAIN project' : i \in DOMAIN project
    BY <1>1 DEF FoundingInv, ProjectsStand, Founders
<1> QED BY <1>1, <1>5, <1>6, <1>8, <1>9, <1>10, <1>12, <1>13, FoundingKept

(* As long as nobody else changes the grants, a project that was made has   *)
(* its creator as its manager or is taken back, and who founded an          *)
(* organization is its member and its manager, with any number of requests  *)
(* at once (POST /projects).                                                *)
THEOREM CreatorsManage ==
    ASSUME Access!AccessOK, Changing = {}
    PROVE  Access!Spec => []Access!CreatorManages
<1>1. Access!Init => FoundingInv
  <2> SUFFICES ASSUME Access!Init PROVE FoundingInv
      OBVIOUS
  <2>1. PICK idle : idle = Access!Idle
      OBVIOUS
  <2>2. /\ idle.step = "idle" /\ idle.user = None /\ idle.org = None /\ idle.project = None /\ idle.answer = None
        /\ idle \in FoundingRequests
      BY <2>1 DEF Access!Idle, FoundingRequests, FoundingSteps, FoundingAnswers, OldOrgs
  <2>3. request = [r \in Requests |-> idle] /\ project = Projects
      BY <2>1 DEF Access!Init
  <2>4. Founders = {}
      BY <2>2, <2>3 DEF Founders, Access!At
  <2>5. \A r \in Requests : ~Stands(request[r]) /\ request[r].answer # "created" /\ request[r].org \in OldOrgs
      BY <2>2, <2>3 DEF Stands, OldOrgs, Access!AccessOK, Access!ProjectsOK
  <2>6. request \in [Requests -> FoundingRequests]
      BY <2>2, <2>3
  <2>7. Numbered(Cardinality(Founders))
      BY <2>4 DEF Numbered
  <2>8. AnswersLast
      BY <2>2, <2>3 DEF AnswersLast
  <2> QED BY <2>3, <2>5, <2>6, <2>7, <2>8
          DEF FoundingInv, ProjectsStand, ProjectsRequested, CreatorsHold, FoundersHold
<1>2. FoundingInv /\ [Access!Next]_Access!vars => FoundingInv'
  <2> SUFFICES ASSUME FoundingInv, [Access!Next]_Access!vars PROVE FoundingInv'
      OBVIOUS
  <2>1. CASE UNCHANGED <<grant, project, request>>
    <3>1. Founders' = Founders
        BY <2>1 DEF Founders, Access!At
    <3>2. Numbered(Cardinality(Founders))'
        BY <2>1, <3>1 DEF FoundingInv, Numbered
    <3>3. AnswersLast' /\ ProjectsStand' /\ ProjectsRequested'
        BY <2>1 DEF FoundingInv, AnswersLast, ProjectsStand, ProjectsRequested
    <3>4. CreatorsHold' /\ FoundersHold'
        BY <2>1 DEF FoundingInv, CreatorsHold, FoundersHold
    <3> QED BY <2>1, <3>2, <3>3, <3>4 DEF FoundingInv
  <2>2. ASSUME NEW r \in Requests,
               \/ Access!CreateProject(r) \/ Access!Provision(r) \/ Access!Create(r)
               \/ Access!GrantCreator(r) \/ Access!TakeBack(r) \/ Access!Fail(r)
        PROVE  FoundingInv'
      BY <2>2, CreateProjectKeeps, ProvisionKeeps, CreateKeeps, GrantCreatorKeeps, TakeBackKeeps, FailKeeps
  <2>3. ASSUME NEW u \in Users, Access!Claim(u) \/ Access!Submit(u) \/ Access!Regrant(u)
        PROVE  UNCHANGED <<grant, project, request>>
      BY <2>3 DEF Access!Claim, Access!Submit, Access!Regrant
  <2>4. Access!Update \/ Access!AssignAll \/ Access!AssignSelected \/ Access!Reset =>
            UNCHANGED <<grant, project, request>>
      BY DEF Access!Update, Access!AssignAll, Access!AssignSelected, Access!Reset, Access!Assigned
  <2>5. UNCHANGED Access!vars => UNCHANGED <<grant, project, request>>
      BY DEF Access!vars
  <2> QED BY <2>1, <2>2, <2>3, <2>4, <2>5 DEF Access!Next
<1>3. FoundingInv => Access!CreatorManages
    BY FoundersManage
<1> QED BY <1>1, <1>2, <1>3, PTL DEF Access!Spec
=============================================================================
