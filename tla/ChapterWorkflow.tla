-------------------------- MODULE ChapterWorkflow --------------------------
(***************************************************************************)
(* The chapters of one project on their way through its workflow: claims,  *)
(* assignments, submissions, resets and the removal of members, which are  *)
(* transactions of several statements, beside the manager's edits of the   *)
(* stages themselves.  domains/chapter-assignments,                        *)
(* projects/chapter-assignments, projects/workflow-stages, and the users   *)
(* of projects and organizations.                                          *)
(*                                                                         *)
(* PostgreSQL runs them READ COMMITTED: a statement reads what has been    *)
(* committed, an UPDATE waits for the lock of a row another transaction    *)
(* has written and then looks at the row again, and now() is the time the  *)
(* transaction began.  What follows the last lock of a transaction can     *)
(* neither wait nor be seen before the commit, and is one step with it.    *)
(***************************************************************************)
EXTENDS Integers, FiniteSets, Sequences, SequencesExt

CONSTANTS
    Chapters,        \* the ids of chapter_assignments, which order the rows
    Users,
    Managers,        \* the users with content:assign
    Members,         \* the project members; who is removed may be added again
    Leavers,         \* the users who may be removed
    None,            \* NULL
    Keep,            \* a field an update does not mention
    Reviews,         \* DEFAULT_WORKFLOW's stages that are not fixed, in order
    CustomStages,    \* the names of stages the manager may add
    MaxStages,       \* MAX_WORKFLOW_STAGES
    Updates,         \* what PATCH and assign-all may ask for, and ...
    Selections,      \* ... assign-selected: sequences of [id, drafter, checker]
    Starts,          \* the projects to begin with: chapter -> row and past stages
    Requests,        \* the transactions open at a time
    MaxTransactions  \* bound on the transactions begun

ASSUME ChaptersAssumption == Chapters \subseteq Nat /\ IsFiniteSet(Chapters)
ASSUME UsersAssumption == None \notin Users /\ Keep \notin Users /\ None # Keep /\ Leavers \subseteq Users

VARIABLES
    stages,    \* project_workflow_stages: default_name -> position
    chapter,   \* chapter_assignments: id -> row, or None once deleted
    history,   \* chapter_assignment_status_history, in the order of its ids
    active,    \* projects.status is no longer not_assigned
    request,   \* [Requests -> what the request is doing]
    clock      \* transactions begun

vars == <<stages, chapter, history, active, request, clock>>

Fixed == {"not_started", "draft", "peer_check", "complete"}
StageNames == Fixed \cup Range(Reviews) \cup CustomStages

Row ==
    [status : StageNames,
     drafter : Users \cup {None},     \* assignedUserId
     checker : Users \cup {None},     \* peerCheckerId
     conflict : BOOLEAN,              \* hasClaimConflict
     rival : Users \cup {None}]       \* claimConflictUserId

Item == [id : Chapters, drafter : Users \cup {None, Keep}, checker : Users \cup {None, Keep}]

(* An update that names no chapter is answered without a transaction.      *)
ASSUME UpdatesAssumption ==
    \A items \in Updates \cup Selections : items \in Seq(Item) /\ items # <<>>

NoWork == [k \in Chapters |-> None]

Idle == [pc |-> "idle", user |-> None, todo |-> <<>>, at |-> 0, seen |-> None, next |-> None,
         project |-> FALSE, rows |-> {}, work |-> NoWork, listed |-> NoWork, activates |-> FALSE,
         answer |-> None]

(* A request waits to begin ("submit", "claim"), or names the statement    *)
(* its transaction runs next.  It holds the lock of the project and of     *)
(* rows; work is what it has written and not committed: the row, and       *)
(* whether a status history row goes with it.  listed is what a removal    *)
(* has read.                                                               *)
Steps ==
    {"idle",
     "submit", "lock", "read", "write", "check",
     "claim", "take", "claimed", "look", "flag", "lookAgain", "flagAgain",
     "activate", "readItem", "writeItem", "touch",
     "reset", "rows",
     "list", "drafters", "undraft", "uncheck", "listAll", "leave"}

Write == [row : Row, entered : BOOLEAN]

ASSUME NullAssumption == None \notin Row \cup Write \cup {"claimed", "conflict"}

RequestState ==
    [pc : Steps, user : Users \cup {None}, todo : Seq(Item), at : Nat,
     seen : Row \cup {None}, next : StageNames \cup {None},
     project : BOOLEAN, rows : SUBSET Chapters, work : [Chapters -> Write \cup {None}],
     listed : [Chapters -> Row \cup {None}], activates : BOOLEAN, answer : {None, "claimed", "conflict"}]

TypeOK ==
    /\ stages \in [DOMAIN stages -> Nat] /\ DOMAIN stages \subseteq StageNames
    /\ chapter \in [Chapters -> Row \cup {None}]
    /\ history \in [Chapters -> Seq([status : StageNames, at : Nat])]
    /\ active \in BOOLEAN
    /\ request \in [Requests -> RequestState]
    /\ clock \in Nat

-----------------------------------------------------------------------------
(* The workflow.                                                           *)

ASSUME ReviewsAssumption ==
    /\ Reviews \in Seq(Range(Reviews)) /\ Range(Reviews) \cap Fixed = {}
    /\ \A m, n \in DOMAIN Reviews : Reviews[m] = Reviews[n] => m = n

DefaultWorkflow ==
    LET names == <<"not_started", "draft", "peer_check">> \o Reviews \o <<"complete">> IN
    [s \in Range(names) |-> (CHOOSE n \in DOMAIN names : names[n] = s) - 1]

(* The stages every chapter of the project has ever reached, and all the   *)
(* stages before the last of them.                                         *)
Reached == UNION {{e.status : e \in Range(history[k])} : k \in Chapters}
Locked == {s \in DOMAIN stages : \E t \in Reached \cap DOMAIN stages : stages[s] <= stages[t]}

(* Stages are read in the order of their positions.                        *)
NextStages(s) ==
    {t \in DOMAIN stages : /\ stages[t] > stages[s]
                           /\ \A o \in DOMAIN stages : stages[o] > stages[s] => stages[t] <= stages[o]}

PostPeer(s) ==
    /\ {s, "peer_check", "complete"} \subseteq DOMAIN stages
    /\ stages["peer_check"] < stages[s] /\ stages[s] < stages["complete"]

(* ChapterAssignmentPolicy.edit, which submit asks.                        *)
MayEdit(u, row) ==
    IF u \in Managers THEN PostPeer(row.status)
    ELSE \/ row.status = "draft" /\ row.drafter = u
         \/ row.status = "peer_check" /\ row.checker = u
         \/ /\ row.status = "peer_check" /\ row.checker = None
            /\ u \in Members /\ row.drafter \notin {None, u}
         \/ PostPeer(row.status) /\ u \in Members

OwnDraft(u, row) == row.drafter = u /\ row.status = "draft"

MayClaim(u, row) ==
    /\ u \notin Managers
    /\ \/ OwnDraft(u, row)
       \/ row.drafter \notin {None, u} /\ row.status # "complete"
       \/ row.drafter = None /\ row.status = "not_started"

-----------------------------------------------------------------------------
(* Transactions: locks, commit and rollback.                               *)

ProjectFree(r) == \A q \in Requests \ {r} : ~request[q].project
RowFree(r, k) == \A q \in Requests \ {r} : k \notin request[q].rows

Target(r) == Head(request[r].todo).id

Go(r, q) == request' = [request EXCEPT ![r] = q]

Step(r, q) == Go(r, q) /\ UNCHANGED <<stages, chapter, history, active, clock>>

(* The request is answered without having changed anything.                *)
Leave(r) == Step(r, Idle)

Written(work) == [k \in Chapters |-> IF work[k] # None THEN work[k].row ELSE chapter[k]]

(* Everything the transaction has written becomes visible at once.  The    *)
(* status history carries the time the transaction began.                  *)
Commit(r, work, answer) ==
    /\ chapter' = Written(work)
    /\ history' = [k \in Chapters |->
                     IF work[k] # None /\ work[k].entered
                     THEN Append(history[k], [status |-> work[k].row.status, at |-> request[r].at])
                     ELSE history[k]]
    /\ active' = (active \/ request[r].activates)
    /\ Go(r, [Idle EXCEPT !.answer = answer])
    /\ UNCHANGED <<stages, clock>>

(* A row is written, besides what the transaction has written already.     *)
Also(work, k, row, entered) == [work EXCEPT ![k] = [row |-> row, entered |-> entered]]

Only(k, row, entered) == Also(NoWork, k, row, entered)

(* The bound counts the requests that have not begun yet.                  *)
Admitted ==
    clock + Cardinality({r \in Requests : request[r].pc \in {"submit", "claim"}}) < MaxTransactions

Begin(r, q) ==
    /\ clock' = clock + 1
    /\ Go(r, [q EXCEPT !.at = clock + 1])
    /\ UNCHANGED <<stages, chapter, history, active>>

-----------------------------------------------------------------------------
(* submitChapterAssignment.  The policy is asked before the transaction    *)
(* and sees another row than it does.                                      *)

Ask(r, pc, u, k) ==
    /\ request[r].pc = "idle" /\ Admitted /\ chapter[k] # None
    /\ Step(r, [Idle EXCEPT !.pc = pc, !.user = u,
                            !.todo = <<[id |-> k, drafter |-> Keep, checker |-> Keep]>>])

Submit(r, u, k) == Ask(r, "submit", u, k) /\ MayEdit(u, chapter[k])

BeginSubmit(r) ==
    /\ request[r].pc = "submit"
    /\ Begin(r, [request[r] EXCEPT !.pc = "lock"])

(* Mutant: the project is not locked.                                      *)
RefreshUnlocked(r) ==
    LET row == chapter[Target(r)] IN
    /\ request[r].pc = "lock"
    /\ IF row = None \/ NextStages(row.status) = {} THEN Leave(r)
       ELSE \E s \in NextStages(row.status) :
                Step(r, [request[r] EXCEPT !.pc = IF row.status = "peer_check" THEN "check"
                                                  ELSE "read",
                                           !.next = s])

(* lockProject, and the assignment and the stages read again under it.     *)
Refresh(r) ==
    LET row == chapter[Target(r)] IN
    /\ request[r].pc = "lock"
    /\ ProjectFree(r)
    /\ IF row = None \/ NextStages(row.status) = {} THEN Leave(r)
       ELSE \E s \in NextStages(row.status) :
                Step(r, [request[r] EXCEPT !.pc = IF row.status = "peer_check" THEN "check"
                                                  ELSE "read",
                                           !.next = s, !.project = TRUE])

(* Mutant: a drafter may check the own chapter.                            *)
PeerEligibleAnyone(u, row) ==
    row # None /\ row.status = "peer_check" /\ row.checker \in {None, u}

PeerEligible(u, row) ==
    /\ row # None
    /\ row.status = "peer_check"
    /\ row.drafter \notin {None, u}
    /\ row.checker \in {None, u}

(* submitPeerCheckIfEligible; a miss answers with the row as it is.        *)
SubmitPeerCheck(r) ==
    LET q == request[r]
        k == Target(r)
        row == chapter[k] IN
    /\ q.pc = "check"
    /\ \/ ~PeerEligible(q.user, row) /\ Leave(r)
       \/ /\ PeerEligible(q.user, row) /\ RowFree(r, k)
          /\ Commit(r, Only(k, [row EXCEPT !.status = q.next, !.checker = q.user],
                                  q.next # "peer_check"), None)

(* updateChapterAssignment, in the transaction of the submission: the row  *)
(* is read a third time, then written.                                     *)
ReadAgain(r) ==
    LET row == chapter[Target(r)] IN
    /\ request[r].pc = "read"
    /\ IF row = None THEN Leave(r)
       ELSE Step(r, [request[r] EXCEPT !.pc = "write", !.seen = row])

Advance(r) ==
    LET q == request[r]
        k == Target(r)
        row == chapter[k] IN
    /\ q.pc = "write"
    /\ \/ row = None /\ Leave(r)
       \/ /\ row # None /\ RowFree(r, k)
          /\ Commit(r, Only(k, [row EXCEPT !.status = q.next], q.next # q.seen.status), None)

-----------------------------------------------------------------------------
(* claimChapterAssignment.                                                 *)

Claim(r, u, k) == Ask(r, "claim", u, k) /\ MayClaim(u, chapter[k])

BeginClaim(r) ==
    /\ request[r].pc = "claim"
    /\ Begin(r, [request[r] EXCEPT !.pc = "take"])

(* Mutant: a chapter assigned before its work started counts as free.      *)
UnclaimedUntilStarted(row) == row # None /\ row.status = "not_started"

Unclaimed(row) == row # None /\ row.drafter = None /\ row.status = "not_started"

(* Mutant: the claim writes no status history.                             *)
TakeUnrecorded(r) ==
    LET q == request[r]
        k == Target(r)
        row == chapter[k] IN
    /\ q.pc = "take"
    /\ \/ ~Unclaimed(row) /\ Step(r, [q EXCEPT !.pc = "look"])
       \/ /\ Unclaimed(row) /\ RowFree(r, k)
          /\ Step(r, [q EXCEPT !.pc = "claimed", !.rows = {k}, !.activates = TRUE,
                               !.work = Only(k, [row EXCEPT !.status = "draft",
                                                             !.drafter = q.user], FALSE)])

(* claimIfUnassigned.                                                      *)
Take(r) ==
    LET q == request[r]
        k == Target(r)
        row == chapter[k] IN
    /\ q.pc = "take"
    /\ \/ ~Unclaimed(row) /\ Step(r, [q EXCEPT !.pc = "look"])
       \/ /\ Unclaimed(row) /\ RowFree(r, k)
          /\ Step(r, [q EXCEPT !.pc = "claimed", !.rows = {k}, !.activates = TRUE,
                               !.work = Only(k, [row EXCEPT !.status = "draft",
                                                             !.drafter = q.user], TRUE)])

(* recordProjectAssignmentActivity writes the project's row.               *)
CommitClaim(r) ==
    /\ request[r].pc = "claimed"
    /\ ProjectFree(r)
    /\ Commit(r, request[r].work, "claimed")

(* The claim has missed; the second look follows a conflict that missed.   *)
Look(r) ==
    LET q == request[r]
        row == chapter[Target(r)] IN
    /\ q.pc \in {"look", "lookAgain"}
    /\ IF row = None \/ row.drafter = q.user \/ (q.pc = "lookAgain" /\ row.drafter = None)
       THEN Leave(r)
       ELSE Step(r, [q EXCEPT !.pc = IF q.pc = "look" THEN "flag" ELSE "flagAgain"])

Flaggable(u, row) == row # None /\ row.drafter \notin {None, u} /\ row.status # "complete"

(* flagClaimConflict: the first loser stays.                               *)
FlagConflict(r) ==
    LET q == request[r]
        k == Target(r)
        row == chapter[k] IN
    /\ q.pc \in {"flag", "flagAgain"}
    /\ \/ /\ ~Flaggable(q.user, row)
          /\ IF q.pc = "flag" THEN Step(r, [q EXCEPT !.pc = "lookAgain"]) ELSE Leave(r)
       \/ /\ Flaggable(q.user, row) /\ RowFree(r, k)
          /\ Commit(r, Only(k, [row EXCEPT !.conflict = TRUE,
                                              !.rival = IF @ = None THEN q.user ELSE @], FALSE),
                    "conflict")

-----------------------------------------------------------------------------
(* PATCH of one assignment, assign-all and assign-selected: one            *)
(* updateChapterAssignment after the other in one transaction.             *)

Update(r, items) ==
    /\ request[r].pc = "idle" /\ Admitted
    /\ \A n \in DOMAIN items : chapter[items[n].id] # None
    /\ Begin(r, [Idle EXCEPT !.todo = items,
                             !.pc = IF items \in Selections /\ ~active THEN "activate"
                                    ELSE "readItem"])

(* activateProjects, in assign-selected only.                              *)
Activate(r) ==
    /\ request[r].pc = "activate"
    /\ ProjectFree(r)
    /\ Step(r, [request[r] EXCEPT !.pc = "readItem", !.project = TRUE, !.activates = TRUE])

(* A row that has gone ends the loop with err(), which does not throw: the *)
(* rows before it are committed.                                           *)
ReadItem(r) ==
    LET row == chapter[Target(r)] IN
    /\ request[r].pc = "readItem"
    /\ IF row = None THEN Commit(r, request[r].work, None)
       ELSE Step(r, [request[r] EXCEPT !.pc = "writeItem", !.seen = row])

(* Mutant: a field that is not mentioned is written all the same.          *)
GivenAlways(value, old) == value

Given(value, old) == IF value = Keep THEN old ELSE value

(* Mutant: the claim conflict outlives a change of the drafter.            *)
AssignedKeepingConflict(item, seen, row) ==
    [row EXCEPT !.status = IF seen.status = "not_started" /\ {item.drafter, item.checker} # {Keep}
                           THEN "draft" ELSE @,
                !.drafter = Given(item.drafter, @),
                !.checker = Given(item.checker, @)]

(* applyAutoTransition goes by the row read; a drafter that is given ends  *)
(* the claim conflict; recordStatusChange goes by the row read as well.    *)
Assigned(item, seen, row) ==
    [status |-> IF seen.status = "not_started" /\ {item.drafter, item.checker} # {Keep}
                THEN "draft" ELSE row.status,
     drafter |-> Given(item.drafter, row.drafter),
     checker |-> Given(item.checker, row.checker),
     conflict |-> IF item.drafter = Keep THEN row.conflict ELSE FALSE,
     rival |-> IF item.drafter = Keep THEN row.rival ELSE None]

WriteItem(r) ==
    LET q == request[r]
        k == Target(r)
        row == chapter[k]
        new == Assigned(Head(q.todo), q.seen, row) IN
    /\ q.pc = "writeItem"
    /\ \/ row = None /\ Commit(r, q.work, None)
       \/ /\ row # None /\ RowFree(r, k)
          /\ Step(r, [q EXCEPT !.pc = "touch", !.rows = @ \cup {k},
                               !.work = Also(@, k, new, new.status # q.seen.status)])

(* touchProjectActivity writes the project's row.                          *)
Touch(r) ==
    LET q == request[r] IN
    /\ q.pc = "touch"
    /\ ProjectFree(r)
    /\ IF Len(q.todo) = 1 THEN Commit(r, q.work, None)
       ELSE Step(r, [q EXCEPT !.pc = "readItem", !.project = TRUE, !.todo = Tail(@)])

-----------------------------------------------------------------------------
(* resetSelectedChapters rolls back when it answers an error.              *)

(* Chapters in the order of their ids.                                     *)
Orders ==
    {ids \in UNION {[1..n -> Chapters] : n \in 1..Cardinality(Chapters)} :
        \A m, n \in DOMAIN ids : m < n => ids[m] < ids[n]}

Emptied(ids) == [n \in DOMAIN ids |-> [id |-> ids[n], drafter |-> None, checker |-> None]]

Reset(r, ids) ==
    /\ request[r].pc = "idle" /\ Admitted
    /\ Begin(r, [Idle EXCEPT !.pc = "reset", !.todo = Emptied(ids)])

LockForReset(r) ==
    LET q == request[r] IN
    /\ q.pc = "reset"
    /\ ProjectFree(r)
    /\ IF \E n \in DOMAIN q.todo : chapter[q.todo[n].id] = None THEN Leave(r)
       ELSE Step(r, [q EXCEPT !.pc = "rows", !.project = TRUE])

(* findStatusesByIds: FOR UPDATE, ordered by id.                           *)
LockRow(r) ==
    LET q == request[r]
        k == Target(r) IN
    /\ q.pc = "rows" /\ q.todo # <<>>
    /\ \/ chapter[k] = None /\ Leave(r)
       \/ /\ chapter[k] # None /\ RowFree(r, k)
          /\ Step(r, [q EXCEPT !.rows = @ \cup {k}, !.todo = Tail(@)])

Resettable == {"draft", "peer_check"}

Restarted == [status |-> "not_started", drafter |-> None, checker |-> None,
              conflict |-> FALSE, rival |-> None]

ResetRows(r) ==
    LET q == request[r] IN
    /\ q.pc = "rows" /\ q.todo = <<>>
    /\ IF \E k \in q.rows : chapter[k].status \notin Resettable THEN Leave(r)
       ELSE Commit(r, [k \in Chapters |-> IF k \in q.rows THEN [row |-> Restarted, entered |-> TRUE]
                                       ELSE None], None)

-----------------------------------------------------------------------------
(* The removal of a member from the project, or the change to an observer, *)
(* and the removal of a user from the organization.  None of them locks    *)
(* the project, or ends a claim conflict.                                  *)

RemoveMember(r, u) ==
    /\ request[r].pc = "idle" /\ Admitted
    /\ Begin(r, [Idle EXCEPT !.pc = "list", !.user = u])

RemoveUser(r, u) ==
    /\ request[r].pc = "idle" /\ Admitted
    /\ Begin(r, [Idle EXCEPT !.pc = "listAll", !.user = u])

HeldBy(u) == {k \in Chapters : chapter[k] # None /\ u \in {chapter[k].drafter, chapter[k].checker}}

(* clearUserAssignmentsAndRecordHistory: the rows are read, ...            *)
ListAffected(r) ==
    LET q == request[r]
        affected == HeldBy(q.user) IN
    /\ q.pc = "list"
    /\ IF affected = {} THEN Leave(r)
       ELSE Step(r, [q EXCEPT !.pc = "drafters",
                              !.listed = [k \in Chapters |-> IF k \in affected THEN chapter[k] ELSE None]])

(* Whom the statements take away: the drafter or the checker of work that  *)
(* has not been submitted, or whoever it is.                               *)
Removable(pc, u, row) ==
    /\ row # None
    /\ \/ pc = "undraft" /\ row.drafter = u /\ row.status \in {"not_started", "draft"}
       \/ pc = "uncheck" /\ row.checker = u /\ row.status \in {"not_started", "draft", "peer_check"}
       \/ pc = "leave"

(* A row as its own transaction sees it.                                   *)
Seen(r, k) == IF request[r].work[k] # None THEN request[r].work[k].row ELSE chapter[k]

Orderings(S) == {ids \in [1..Cardinality(S) -> S] : \A m, n \in DOMAIN ids : m # n => ids[m] # ids[n]}

(* An UPDATE begins: it will look at the rows its snapshot gives it.       *)
Scan(r, pc, S) ==
    \E ids \in Orderings(S) : Step(r, [request[r] EXCEPT !.pc = pc, !.todo = Emptied(ids)])

ScanFor(r, pc) == Scan(r, pc, {k \in Chapters : Removable(pc, request[r].user, Seen(r, k))})

(* ... the drafters are taken away by an UPDATE, ...                       *)
UpdateDrafters(r) == request[r].pc = "drafters" /\ ScanFor(r, "undraft")

(* ... then the checkers, ...                                              *)
UpdateCheckers(r) == request[r].pc = "undraft" /\ request[r].todo = <<>> /\ ScanFor(r, "uncheck")

(* removeOrgUser takes both away, whatever the stage, by the ids read.     *)
ListAll(r) == request[r].pc = "listAll" /\ Scan(r, "leave", HeldBy(request[r].user))

(* The CASE of the statement looks for words: without any the chapter is   *)
(* not started.  They are saved and erased at any time.                    *)
Cleared(pc, u, row) ==
    CASE pc = "undraft" -> {[row EXCEPT !.drafter = None, !.status = s] : s \in {row.status, "not_started"}}
      [] pc = "uncheck" -> {[row EXCEPT !.checker = None]}
      [] pc = "leave" -> {[row EXCEPT !.drafter = IF @ = u THEN None ELSE @,
                                      !.checker = IF @ = u THEN None ELSE @]}

(* The UPDATE waits for the row and looks at it again.                     *)
ClearRow(r) ==
    LET q == request[r]
        k == Target(r)
        row == Seen(r, k) IN
    /\ q.pc \in {"undraft", "uncheck", "leave"} /\ q.todo # <<>>
    /\ row # None => RowFree(r, k)
    /\ IF Removable(q.pc, q.user, row)
       THEN \E new \in Cleared(q.pc, q.user, row) :
                Step(r, [q EXCEPT !.todo = Tail(@), !.rows = @ \cup {k}, !.work = Also(@, k, new, FALSE)])
       ELSE Step(r, [q EXCEPT !.todo = Tail(@)])

(* The history of the chapters in begun has them not started.              *)
CommitRemoval(r, begun) ==
    /\ chapter' = Written(request[r].work)
    /\ history' = [k \in Chapters |->
                     IF k \in begun THEN Append(history[k], [status |-> "not_started", at |-> request[r].at])
                     ELSE history[k]]
    /\ Go(r, Idle)
    /\ UNCHANGED <<stages, active, clock>>

(* ... and the history goes by the rows read and another look for words.   *)
(* It cannot be written for a chapter that has gone, and waits for a reset *)
(* that has the row, FOR UPDATE.                                           *)
Listed(q, pc) == {k \in Chapters : Removable(pc, q.user, q.listed[k])}
Recorded(q) == Listed(q, "undraft") \cup Listed(q, "uncheck")
Resets(o, S) == request[o].pc = "rows" /\ request[o].rows \cap S # {}

RecordRemoval(r) ==
    LET q == request[r] IN
    /\ q.pc = "uncheck" /\ q.todo = <<>>
    /\ \A o \in Requests : ~Resets(o, Recorded(q))
    /\ IF \E k \in Recorded(q) : chapter[k] = None THEN Leave(r)
       ELSE \E begun \in SUBSET {k \in Listed(q, "undraft") : q.listed[k].status = "draft"} :
                CommitRemoval(r, begun)

LeaveOrganization(r) == request[r].pc = "leave" /\ request[r].todo = <<>> /\ CommitRemoval(r, {})

-----------------------------------------------------------------------------
(* Statements and transactions that wait for their locks once.             *)

(* deleteChapterAssignment and deleteByProject; the history goes too.      *)
Delete(S) ==
    /\ \A k \in S : chapter[k] # None /\ \A r \in Requests : k \notin request[r].rows
    /\ chapter' = [k \in Chapters |-> IF k \in S THEN None ELSE chapter[k]]
    /\ history' = [k \in Chapters |-> IF k \in S THEN <<>> ELSE history[k]]
    /\ UNCHANGED <<stages, active, request, clock>>

EditStages(new) ==
    /\ \A r \in Requests : ~request[r].project
    /\ stages' = new
    /\ UNCHANGED <<chapter, history, active, request, clock>>

(* "complete" moves down and the new stage takes its place.                *)
AddStage(s) ==
    /\ s \notin DOMAIN stages
    /\ "complete" \notin Locked
    /\ Cardinality(DOMAIN stages \ {"not_started", "complete"}) < MaxStages
    /\ EditStages([t \in DOMAIN stages \cup {s} |->
                     IF t = s THEN stages["complete"]
                     ELSE IF t = "complete" THEN stages["complete"] + 1 ELSE stages[t]])

(* Mutant: the gap is not closed.                                          *)
DeleteStageLeavingGap(s) ==
    /\ s \in DOMAIN stages \ (Fixed \cup Locked)
    /\ EditStages([t \in DOMAIN stages \ {s} |-> stages[t]])

DeleteStage(s) ==
    /\ s \in DOMAIN stages \ (Fixed \cup Locked)
    /\ EditStages([t \in DOMAIN stages \ {s} |->
                     IF stages[t] > stages[s] THEN stages[t] - 1 ELSE stages[t]])

Rearranged(S) == {place \in [S -> S] : \A s \in S : \E t \in S : place[t] = s}

(* Mutant: a stage that has been reached moves as well.                    *)
ReorderStagesFreely ==
    \E place \in Rearranged(DOMAIN stages \ Fixed) :
        EditStages([s \in DOMAIN stages |->
                      IF s \in DOMAIN place THEN stages[place[s]] ELSE stages[s]])

(* The stages that may move exchange their places in some way.             *)
ReorderStages ==
    LET movable == DOMAIN stages \ (Fixed \cup Locked) IN
    \E place \in Rearranged(movable) :
        EditStages([s \in DOMAIN stages |->
                      IF s \in movable THEN stages[place[s]] ELSE stages[s]])

-----------------------------------------------------------------------------
(* What PostgreSQL adds.                                                   *)

(* The transactions whose lock the next statement of r waits for.  An      *)
(* UPDATE does not wait for a row its condition does not match.            *)
WaitsFor(r) ==
    LET q == request[r]
        row == Seen(r, Target(r)) IN
    {o \in Requests \ {r} :
       \/ q.pc \in {"lock", "reset", "activate", "touch", "claimed"} /\ request[o].project
       \/ q.pc = "uncheck" /\ q.todo = <<>> /\ Resets(o, Recorded(q))
       \/ /\ \/ q.pc = "check" /\ PeerEligible(q.user, row)
             \/ q.pc = "take" /\ Unclaimed(row)
             \/ q.pc \in {"flag", "flagAgain"} /\ Flaggable(q.user, row)
             \/ q.pc \in {"write", "writeItem"} /\ row # None
             \/ q.pc \in {"rows", "undraft", "uncheck", "leave"} /\ q.todo # <<>> /\ row # None
          /\ Target(r) \in request[o].rows}

(* Mutant: nobody looks for deadlocks.                                     *)
DeadlockedNever(r) == FALSE

Deadlocked(r) ==
    \E S \in SUBSET Requests :
        /\ r \in S
        /\ \A q \in S : WaitsFor(q) # {}
        /\ UNION {WaitsFor(q) : q \in S} = S

(* A statement fails or its connection is lost; the deadlock detector      *)
(* makes one of a cycle fail.                                              *)
Abort(r) ==
    /\ request[r].pc \notin {"idle", "submit", "claim"}
    /\ Leave(r)

BreakDeadlock(r) == Deadlocked(r) /\ Abort(r)

-----------------------------------------------------------------------------
(* A chapter is created by the bulk insert of its project, or with users   *)
(* (createChapterAssignment); Starts also has chapters already on their    *)
(* way.  The history has every stage a chapter has been in, the present    *)
(* one last.                                                               *)
ASSUME StartsAssumption ==
    \A start \in Starts : \A k \in Chapters :
        /\ start[k].row \in Row \cup {None}
        /\ start[k].past \in Seq(DOMAIN DefaultWorkflow)
        /\ start[k].row # None =>
              /\ start[k].past # <<>> /\ Last(start[k].past) = start[k].row.status
              /\ ~start[k].row.conflict /\ start[k].row.rival = None

Init ==
    /\ stages = DefaultWorkflow
    /\ \E start \in Starts :
          /\ chapter = [k \in Chapters |-> start[k].row]
          /\ history = [k \in Chapters |->
                [n \in DOMAIN start[k].past |-> [status |-> start[k].past[n], at |-> 0]]]
    /\ active = FALSE
    /\ request = [r \in Requests |-> Idle]
    /\ clock = 0

Proceed(r) ==
    \/ BeginSubmit(r) \/ Refresh(r) \/ SubmitPeerCheck(r) \/ ReadAgain(r) \/ Advance(r)
    \/ BeginClaim(r) \/ Take(r) \/ CommitClaim(r) \/ Look(r) \/ FlagConflict(r)
    \/ Activate(r) \/ ReadItem(r) \/ WriteItem(r) \/ Touch(r)
    \/ LockForReset(r) \/ LockRow(r) \/ ResetRows(r)
    \/ ListAffected(r) \/ UpdateDrafters(r) \/ UpdateCheckers(r) \/ RecordRemoval(r)
    \/ ListAll(r) \/ ClearRow(r) \/ LeaveOrganization(r)

Arrive(r) ==
    \/ \E u \in Users, k \in Chapters : Submit(r, u, k) \/ Claim(r, u, k)
    \/ \E items \in Updates \cup Selections : Update(r, items)
    \/ \E ids \in Orders : Reset(r, ids)
    \/ \E u \in Leavers : RemoveMember(r, u) \/ RemoveUser(r, u)

Manage ==
    \/ \E k \in Chapters : Delete({k})
    \/ Delete({k \in Chapters : chapter[k] # None})
    \/ \E s \in CustomStages : AddStage(s)
    \/ \E s \in DOMAIN stages : DeleteStage(s)
    \/ ReorderStages

Next == Manage \/ \E r \in Requests : Arrive(r) \/ Proceed(r) \/ Abort(r)

Spec == Init /\ [][Next]_vars

-----------------------------------------------------------------------------
(* The properties.                                                         *)

(* However the stages are edited while submissions and updates are under    *)
(* way, positions have no gap and no duplicate, the fixed stages open the   *)
(* workflow and "complete" closes it, and no chapter is left in a stage the *)
(* workflow does not have: its next submission would find no next stage.    *)
WorkflowWellFormed ==
    /\ \A n \in 0..Cardinality(DOMAIN stages) - 1 : \E s \in DOMAIN stages : stages[s] = n
    /\ Fixed \subseteq DOMAIN stages
    /\ stages["not_started"] = 0 /\ stages["draft"] = 1 /\ stages["peer_check"] = 2
    /\ stages["complete"] = Cardinality(DOMAIN stages) - 1
    /\ \A k \in Chapters : chapter[k] # None => chapter[k].status \in DOMAIN stages

(* The step ends the removal of a user who had to do with the chapter.     *)
RemovedFrom(k, statements) ==
    \E r \in Requests : /\ request[r].pc \in statements /\ request'[r].pc = "idle"
                        /\ request[r].listed[k] # None \/ request[r].work[k] # None

(* Although recordStatusChange compares with a row read without a lock,    *)
(* the last status history row is the status of the chapter: whatever      *)
(* changes the status leaves them the same, and nothing makes them differ  *)
(* but the removal of a member, which goes by rows and words read earlier. *)
Follows(k) == history[k] # <<>> /\ Last(history[k]).status = chapter[k].status
HistoryFollowsStatus ==
    [][\A k \in Chapters :
          chapter'[k] # None /\ ~RemovedFrom(k, {"uncheck"}) =>
              \/ Follows(k)'
              \/ ~Follows(k) /\ chapter'[k].status = chapter[k].status]_vars

(* A claim conflict always names a loser, and one that begins or stands is *)
(* between the loser and another drafter, as long as no removal takes the  *)
(* drafter away, which does not end it.                                    *)
Disputed(row) == row.conflict => row.drafter \notin {None, row.rival}
ConflictHasRival ==
    [][\A k \in Chapters :
          chapter[k] # None /\ chapter'[k] # None =>
              /\ chapter'[k].conflict <=> chapter'[k].rival # None
              /\ Disputed(chapter[k]) =>
                    \/ Disputed(chapter'[k])
                    \/ chapter'[k].drafter = None /\ RemovedFrom(k, {"uncheck", "leave"})]_vars

(* A stage some chapter has ever reached keeps its place, and so do the    *)
(* stages before it, even after the chapter was reset.                     *)
ReachedStagesStay ==
    [][\A s \in Locked : s \in DOMAIN stages' /\ stages'[s] = stages[s]]_vars

(* A chapter leaves peer check for a later stage only by a user who is not *)
(* its drafter, and goes one stage.                                        *)
PeerCheckedByOther ==
    [][\A k \in Chapters :
          (/\ chapter[k] # None /\ chapter[k].status = "peer_check" /\ chapter'[k] # None
           /\ chapter'[k].status \notin {"not_started", "draft", "peer_check"})
          => /\ chapter'[k].checker \notin {None, chapter[k].drafter}
             /\ chapter[k].drafter # None
             /\ chapter'[k].status \in NextStages("peer_check")]_vars

(* A claim answers what its commit has stored: the chapter is the          *)
(* claimant's and nobody had it, or the conflict is flagged.               *)
ClaimAnswersStored ==
    [][\A r \in Requests :
          LET k == Target(r)
              u == request[r].user IN
          /\ (request'[r].answer = "claimed" /\ request[r].answer # "claimed") =>
                chapter[k].drafter = None /\ chapter'[k].drafter = u
          /\ (request'[r].answer = "conflict" /\ request[r].answer # "conflict") =>
                chapter'[k].conflict /\ chapter'[k].drafter \notin {None, u}]_vars

(* The last rows, given in some order, if they are of the current status.  *)
TrailingRun(status, rows) ==
    {n \in DOMAIN rows : \A o \in n..Len(rows) : rows[o].status = status}

(* resolveStageEnteredAt: the time of the first row of the trailing run,   *)
(* in the order of their times and then of their ids.                      *)
ResolveStageEnteredAt(k) ==
    LET at(n) == history[k][n].at
        ids == SetToSortSeq(DOMAIN history[k],
                            LAMBDA m, n : at(m) < at(n) \/ (at(m) = at(n) /\ m < n))
        rows == [n \in DOMAIN ids |-> history[k][ids[n]]]
        run == TrailingRun(chapter[k].status, rows) IN
    IF run = {} THEN None ELSE rows[Min(run)].at

(* "Truthful current-stage entry time": the time answered, if any, is of   *)
(* the latest run of the current status, and not of an earlier one that a  *)
(* reset has ended.                                                        *)
StageEntryTruthful ==
    \A k \in Chapters :
        chapter[k] # None =>
            ResolveStageEnteredAt(k) \in
                {None} \cup {history[k][n].at : n \in TrailingRun(chapter[k].status, history[k])}
=============================================================================
