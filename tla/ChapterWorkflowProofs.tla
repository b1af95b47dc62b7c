------------------------ MODULE ChapterWorkflowProofs ------------------------
(***************************************************************************)
(* Safety of ChapterWorkflow for any chapters, users, stages, updates and  *)
(* number of transactions.                                                 *)
(*                                                                         *)
(* The locks are what it rests on.  A row a transaction has locked is not  *)
(* changed by another one, so what it wrote still fits the row when it     *)
(* commits (Fits).  While a transaction holds the project no stage moves   *)
(* and no chapter changes its status but to not_started, by a removal,     *)
(* which does not lock it; so the stage a submission has chosen under that *)
(* lock is still the next one, or it starts the chapter (Advancing).       *)
(* Every step is a statement of one transaction, a commit, the commit of a *)
(* removal, a deletion or an edit of the stages (StepShapes), and each of  *)
(* the five keeps the invariant.                                           *)
(***************************************************************************)
EXTENDS ChapterWorkflow, FiniteSetTheorems, SequenceTheorems, TLAPS

(* Positions are 0, 1, ... without a gap and without a duplicate.          *)
Placed ==
    /\ IsFiniteSet(DOMAIN stages)
    /\ \A n \in 0..Cardinality(DOMAIN stages) - 1 : \E s \in DOMAIN stages : stages[s] = n
    /\ \A s \in DOMAIN stages : stages[s] < Cardinality(DOMAIN stages)
    /\ \A s, t \in DOMAIN stages : stages[s] = stages[t] => s = t
    /\ Fixed \subseteq DOMAIN stages
    /\ stages["not_started"] = 0 /\ stages["draft"] = 1 /\ stages["peer_check"] = 2
    /\ stages["complete"] = Cardinality(DOMAIN stages) - 1

Staged == \A k \in Chapters : chapter[k] # None => chapter[k].status \in DOMAIN stages

(* The status of a chapter is fixed, or one its history has entered.       *)
Entered ==
    \A k \in Chapters :
        chapter[k] # None => chapter[k].status \in Fixed \cup {e.status : e \in Range(history[k])}

RivalNamed(row) == row.conflict <=> row.rival # None
Named == \A k \in Chapters : chapter[k] # None => RivalNamed(chapter[k])

(* One transaction holds the project, and one a row; a locked row is not   *)
(* deleted.                                                                *)
Locks ==
    /\ \A q, r \in Requests : request[q].project /\ request[r].project => q = r
    /\ \A q, r \in Requests : request[q].rows \cap request[r].rows # {} => q = r
    /\ \A r \in Requests : \A k \in request[r].rows : chapter[k] # None

(* The statements of a removal that write.                                 *)
Clearing == {"undraft", "uncheck", "leave"}

(* What is written to a row fits what is committed of it.  A removal may   *)
(* leave the conflict behind, and a chapter not started, unrecorded.       *)
Fits(pc, k, w) ==
    LET row == chapter[k] IN
    /\ w.row.status \in {"not_started", "draft", row.status}
    /\ RivalNamed(w.row)
    /\ pc \notin Clearing =>
          /\ ~w.entered => w.row.status = row.status
          /\ Disputed(row) => Disputed(w.row)
    /\ pc \in Clearing =>
          /\ w.row.status \in {"not_started", row.status}
          /\ pc = "leave" => w.row.status = row.status
          /\ Disputed(row) => Disputed(w.row) \/ w.row.drafter = None

Pending(q) == \A k \in Chapters : q.work[k] # None => k \in q.rows /\ Fits(q.pc, k, q.work[k])

(* The steps at which nothing is locked; of a submission or a claim; of    *)
(* an update; and of a submission that has chosen the next stage.          *)
Unlocked == {"idle", "submit", "lock", "claim", "take", "look", "flag", "lookAgain", "flagAgain",
             "reset", "activate", "list", "drafters", "listAll"}
Asking == {"submit", "lock", "check", "read", "write",
           "claim", "take", "claimed", "look", "flag", "lookAgain", "flagAgain"}
Updating == {"activate", "readItem", "writeItem", "touch"}

Advancing(q) ==
    LET row == chapter[Head(q.todo).id] IN
    /\ q.project /\ q.rows = {}
    /\ q.next \in DOMAIN stages \ {"not_started"}
    /\ q.pc = "write" => q.seen.status # q.next
    /\ row # None =>
          /\ row.status = "not_started" \/ q.next \in NextStages(row.status)
          /\ q.pc \in {"read", "write"} => row.status # "peer_check"

Claimed(q) ==
    LET k == Head(q.todo).id IN
    /\ q.work[k] # None /\ q.work[k].row.drafter = q.user
    /\ chapter[k].drafter = None

Phase(q) ==
    /\ q.pc \in Unlocked => ~q.project /\ q.rows = {}
    /\ q.pc \in Asking => q.todo # <<>> /\ q.user \in Users
    /\ q.pc \in Updating => q.todo # <<>>
    /\ q.pc \in {"check", "read", "write"} => Advancing(q)
    /\ q.pc \in {"write", "writeItem"} => q.seen \in Row
    /\ q.pc \in {"readItem", "writeItem"} => q.project \/ q.rows = {}
    /\ q.pc = "claimed" => Claimed(q)
    /\ q.pc = "rows" => q.project

IInv ==
    /\ TypeOK
    /\ Placed
    /\ Staged
    /\ Entered
    /\ Named
    /\ Locks
    /\ \A r \in Requests : Pending(request[r]) /\ Phase(request[r])

-----------------------------------------------------------------------------
(* The five shapes of a step.                                              *)

(* A statement of r that is not its last one: it changes only what r is    *)
(* doing, and locks only what is free.                                     *)
Statement(r, q) ==
    /\ request' = [request EXCEPT ![r] = q]
    /\ q.project => request[r].project \/ ProjectFree(r)
    /\ \A k \in q.rows : \/ k \in request[r].rows
                         \/ RowFree(r, k) /\ chapter[k] # None
    /\ Pending(q) /\ Phase(q)
    /\ q.answer \in {None, request[r].answer}
    /\ UNCHANGED <<stages, chapter, history, active>> /\ clock' \in Nat

(* A row that r may commit: nobody else has locked it, a status that       *)
(* changes is recorded, and changes only while nobody else has the project *)
(* locked.                                                                 *)
MayCommit(r, k, w) ==
    LET row == chapter[k] IN
    /\ row # None /\ RowFree(r, k)
    /\ ~w.entered => w.row.status = row.status
    /\ w.row.status = row.status \/ ProjectFree(r)
    /\ w.row.status \in DOMAIN stages
    /\ RivalNamed(w.row)
    /\ Disputed(row) => Disputed(w.row)
    /\ row.status = "peer_check" /\ w.row.status \notin {"not_started", "draft", "peer_check"} =>
          /\ w.row.checker \notin {None, row.drafter} /\ row.drafter # None
          /\ w.row.status \in NextStages("peer_check")

AnswersWork(r, work, answer) ==
    LET k == Target(r)
        row == work[k].row
        u == request[r].user IN
    /\ answer = "claimed" =>
          k \in Chapters /\ work[k] # None /\ chapter[k].drafter = None /\ row.drafter = u
    /\ answer = "conflict" =>
          k \in Chapters /\ work[k] # None /\ row.conflict /\ row.drafter \notin {None, u}

Commits(r, work, answer) ==
    /\ Commit(r, work, answer)
    /\ \A k \in Chapters : work[k] # None => MayCommit(r, k, work[k])
    /\ AnswersWork(r, work, answer)

(* The commit of a removal, of what has been written of its locked rows.   *)
Removes(r, begun) ==
    /\ CommitRemoval(r, begun)
    /\ request[r].pc \in {"uncheck", "leave"}
    /\ request[r].pc = "leave" => begun = {}
    /\ \A k \in begun : request[r].listed[k] # None

(* The manager's edits: the stages stay in place as far as any chapter has *)
(* come.                                                                   *)
Edit ==
    /\ \A r \in Requests : ~request[r].project
    /\ stages' \in [DOMAIN stages' -> Nat] /\ DOMAIN stages' \subseteq StageNames
    /\ Placed'
    /\ \A s \in Locked : s \in DOMAIN stages' /\ stages'[s] = stages[s]
    /\ UNCHANGED <<chapter, history, active, request, clock>>

Answers == {None, "claimed", "conflict"}
Works == [Chapters -> Write \cup {None}]

-----------------------------------------------------------------------------
(* Each of the five keeps the invariant.                                   *)

(* The next item of a request names a chapter.                             *)
LEMMA TargetType ==
    ASSUME NEW q \in RequestState, q.todo # <<>>
    PROVE  Head(q.todo) \in Item /\ Head(q.todo).id \in Chapters
<1>1. q.todo \in Seq(Item)
    BY DEF RequestState
<1>2. Head(q.todo) \in Item
  <2> HIDE DEF Item
  <2> QED BY <1>1
<1> QED BY <1>2 DEF Item

Answered(answer) == [Idle EXCEPT !.answer = answer]

(* A request that has been answered is idle, and holds nothing.            *)
LEMMA IdleOK ==
    ASSUME NEW answer \in Answers
    PROVE  /\ Answered(answer) \in RequestState
           /\ Answered(answer).project = FALSE /\ Answered(answer).rows = {}
           /\ Answered(answer).answer = answer
           /\ Pending(Answered(answer)) /\ Phase(Answered(answer))
           /\ Pending(Answered(answer))' /\ Phase(Answered(answer))'
<1> DEFINE q == Answered(answer)
<1>1. <<>> \in Seq(Item) /\ NoWork \in [Chapters -> Write \cup {None}]
      /\ NoWork \in [Chapters -> Row \cup {None}]
    BY DEF NoWork
<1>2. q \in RequestState
    BY <1>1 DEF Answered, Idle, RequestState, Steps, Answers
<1>3. q.pc = "idle" /\ q.project = FALSE /\ q.rows = {} /\ q.work = NoWork /\ q.answer = answer
    BY DEF Answered, Idle
<1> HIDE DEF q
<1>4. Pending(q) /\ Pending(q)'
    BY <1>3 DEF Pending, NoWork
<1>5. Phase(q) /\ Phase(q)'
    BY <1>3 DEF Phase, Unlocked, Asking, Updating
<1> QED BY <1>2, <1>3, <1>4, <1>5 DEF q

(* A request starts idle, and holds nothing.                               *)
LEMMA IdleType ==
    /\ Idle \in RequestState
    /\ Idle.pc = "idle" /\ Idle.project = FALSE /\ Idle.rows = {} /\ Idle.work = NoWork
    /\ Idle.answer = None
<1>1. <<>> \in Seq(Item) /\ NoWork \in [Chapters -> Write \cup {None}]
      /\ NoWork \in [Chapters -> Row \cup {None}]
    BY DEF NoWork
<1> QED BY <1>1 DEF Idle, RequestState, Steps

(* A statement that commits nothing keeps the invariant.                   *)
LEMMA StatementKeeps ==
    ASSUME IInv, NEW r \in Requests, NEW q \in RequestState, Statement(r, q)
    PROVE  IInv'
<1>1. TypeOK /\ request' \in [Requests -> RequestState]
    BY DEF IInv, TypeOK, Statement
<1>2. request'[r] = q /\ \A p \in Requests \ {r} : request'[p] = request[p]
    BY <1>1 DEF TypeOK, Statement
<1>3. TypeOK'
    BY <1>1 DEF TypeOK, Statement
<1>4. UNCHANGED <<stages, chapter, history>>
    BY DEF Statement
<1>5. Placed' /\ Staged' /\ Entered' /\ Named'
    BY <1>4 DEF IInv, Placed, Staged, Entered, Named
<1>6. Locks'
  <2>1. \A p \in Requests \ {r} : q.project => ~request[p].project
      BY DEF IInv, Locks, Statement, ProjectFree
  <2>2. \A p \in Requests \ {r} : q.rows \cap request[p].rows = {}
      BY DEF IInv, Locks, Statement, RowFree
  <2>3. \A k \in q.rows : chapter[k] # None
      BY DEF IInv, Locks, Statement
  <2> QED BY <1>2, <1>4, <2>1, <2>2, <2>3 DEF IInv, Locks
<1>7. ASSUME NEW p \in Requests PROVE Pending(request[p])' /\ Phase(request[p])'
  <2>1. Pending(request'[p]) /\ Phase(request'[p])
      BY <1>2 DEF IInv, Statement
  <2> QED BY <1>4, <2>1 DEF Pending, Fits, Phase, Advancing, Claimed, NextStages
<1> QED BY <1>3, <1>5, <1>6, <1>7 DEF IInv

(* A sequence that is appended to has what it had, and the new element.    *)
LEMMA AppendedRange ==
    ASSUME NEW S, NEW seq \in Seq(S), NEW e
    PROVE  /\ e \in Range(Append(seq, e)) /\ Range(seq) \subseteq Range(Append(seq, e))
           /\ Append(seq, e) # <<>> /\ Last(Append(seq, e)) = e
<1>1. /\ Len(seq) \in Nat /\ DOMAIN seq = 1..Len(seq) /\ DOMAIN Append(seq, e) = 1..Len(seq) + 1
      /\ Append(seq, e)[Len(seq) + 1] = e /\ Len(Append(seq, e)) = Len(seq) + 1
      /\ \A n \in 1..Len(seq) : Append(seq, e)[n] = seq[n]
    OBVIOUS
<1> QED BY <1>1 DEF Range, Last

(* What a commit writes: the rows written, and a history row for each      *)
(* stage entered.                                                          *)
LEMMA CommitEffect ==
    ASSUME TypeOK, NEW r \in Requests, NEW work \in Works, NEW answer \in Answers,
           Commit(r, work, answer)
    PROVE  /\ TypeOK'
           /\ \A k \in Chapters : chapter'[k] = IF work[k] # None THEN work[k].row ELSE chapter[k]
           /\ \A k \in Chapters :
                 history'[k] = IF work[k] # None /\ work[k].entered
                               THEN Append(history[k], [status |-> work[k].row.status, at |-> request[r].at])
                               ELSE history[k]
           /\ request'[r] = Answered(answer)
           /\ \A p \in Requests \ {r} : request'[p] = request[p]
           /\ UNCHANGED stages
<1> DEFINE Entry == [status : StageNames, at : Nat]
           entry(k) == [status |-> work[k].row.status, at |-> request[r].at]
<1>1. Answered(answer) \in RequestState
    BY IdleOK
<1>2. request' = [request EXCEPT ![r] = Answered(answer)] /\ UNCHANGED <<stages, clock>>
    BY DEF Commit, Go, Answered
<1>3. \A k \in Chapters : work[k] # None => work[k].row \in Row /\ work[k].row.status \in StageNames
    BY DEF Works, Write, Row
<1>4. chapter' \in [Chapters -> Row \cup {None}]
    BY <1>3 DEF Commit, Written, TypeOK
<1>5. history' \in [Chapters -> Seq(Entry)]
  <2>1. \A k \in Chapters : history[k] \in Seq(Entry)
      BY DEF TypeOK
  <2>2. request[r].at \in Nat
      BY DEF TypeOK, RequestState
  <2>3. \A k \in Chapters : work[k] # None => entry(k) \in Entry
      BY <1>3, <2>2
  <2>4. ASSUME NEW k \in Chapters, work[k] # None
        PROVE  Append(history[k], entry(k)) \in Seq(Entry)
    <3>1. history[k] \in Seq(Entry) /\ entry(k) \in Entry
        BY <2>1, <2>3, <2>4
    <3> HIDE DEF Entry, entry
    <3> QED BY <3>1
  <2>5. history' = [k \in Chapters |-> IF work[k] # None /\ work[k].entered
                                       THEN Append(history[k], entry(k)) ELSE history[k]]
      BY DEF Commit
  <2> HIDE DEF Entry, entry
  <2> QED BY <2>1, <2>4, <2>5
<1>6. active' \in BOOLEAN
    BY DEF Commit, TypeOK, RequestState
<1>7. TypeOK'
    BY <1>1, <1>2, <1>4, <1>5, <1>6 DEF TypeOK
<1>8. \A k \in Chapters :
        /\ chapter'[k] = IF work[k] # None THEN work[k].row ELSE chapter[k]
        /\ history'[k] = IF work[k] # None /\ work[k].entered THEN Append(history[k], entry(k))
                         ELSE history[k]
    BY DEF Commit, Written
<1>9. request'[r] = Answered(answer) /\ \A p \in Requests \ {r} : request'[p] = request[p]
    BY <1>2 DEF TypeOK
<1> QED BY <1>2, <1>7, <1>8, <1>9

(* A commit of rows locked by their transaction keeps the invariant.       *)
LEMMA CommitKeeps ==
    ASSUME IInv, NEW r \in Requests, NEW work \in Works, NEW answer \in Answers,
           Commits(r, work, answer)
    PROVE  IInv'
<1>0. TypeOK /\ Commit(r, work, answer)
    BY DEF IInv, Commits
<1>1. TypeOK' /\ UNCHANGED stages
    BY <1>0, CommitEffect
<1>2. \A p \in Requests \ {r} : request'[p] = request[p]
    BY <1>0, CommitEffect
<1>3. request'[r].project = FALSE /\ request'[r].rows = {}
  <2>1. request'[r] = Answered(answer)
      BY <1>0, CommitEffect
  <2> QED BY <2>1, IdleOK
<1> DEFINE entry(k) == [status |-> work[k].row.status, at |-> request[r].at]
<1>4. \A k \in Chapters :
        \/ work[k] = None /\ chapter'[k] = chapter[k] /\ history'[k] = history[k]
        \/ /\ work[k] # None /\ MayCommit(r, k, work[k])
           /\ chapter'[k] = work[k].row
           /\ history'[k] = IF work[k].entered THEN Append(history[k], entry(k)) ELSE history[k]
  <2>1. \A k \in Chapters : work[k] # None => MayCommit(r, k, work[k])
      BY DEF Commits
  <2>2. \A k \in Chapters :
          /\ chapter'[k] = IF work[k] # None THEN work[k].row ELSE chapter[k]
          /\ history'[k] = IF work[k] # None /\ work[k].entered
                           THEN Append(history[k], entry(k)) ELSE history[k]
      BY <1>0, CommitEffect
  <2> HIDE DEF entry
  <2> QED BY <2>1, <2>2
<1>5. Placed' /\ Staged' /\ Named'
  <2>1. Placed'
      BY <1>1 DEF IInv, Placed
  <2>2. Staged'
      BY <1>1, <1>4 DEF IInv, Staged, MayCommit
  <2>3. Named'
    <3>1. \A k \in Chapters : MayCommit(r, k, work[k]) => RivalNamed(work[k].row)
        BY DEF MayCommit
    <3>2. \A k \in Chapters : chapter'[k] = chapter[k] \/ RivalNamed(chapter'[k])
        BY <1>4, <3>1
    <3> QED BY <3>2 DEF IInv, Named, RivalNamed
  <2> QED BY <2>1, <2>2, <2>3
<1>6. Entered'
  <2> SUFFICES ASSUME NEW k \in Chapters, chapter'[k] # None
               PROVE  chapter'[k].status \in Fixed \cup {e.status : e \in Range(history'[k])}
      BY DEF Entered
  <2>1. chapter[k] # None => chapter[k].status \in Fixed \cup {e.status : e \in Range(history[k])}
      BY DEF IInv, Entered
  <2>2. CASE work[k] # None /\ work[k].entered
    <3>1. history[k] \in Seq([status : StageNames, at : Nat])
        BY <1>0 DEF TypeOK
    <3>2. entry(k).status = work[k].row.status
        OBVIOUS
    <3> HIDE DEF entry
    <3>3. history'[k] = Append(history[k], entry(k)) /\ chapter'[k] = work[k].row
        BY <1>4, <2>2
    <3>4. entry(k) \in Range(history'[k])
        BY <3>1, <3>3, AppendedRange
    <3> QED BY <3>2, <3>3, <3>4
  <2>3. CASE ~(work[k] # None /\ work[k].entered)
      BY <1>4, <2>1, <2>3 DEF MayCommit
  <2> QED BY <2>2, <2>3
<1>7. ASSUME NEW p \in Requests \ {r}, NEW k \in request[p].rows
      PROVE  k \in Chapters /\ chapter'[k] = chapter[k] /\ chapter[k] # None
  <2>1. k \in Chapters /\ chapter[k] # None
      BY <1>0 DEF TypeOK, RequestState, IInv, Locks
  <2>2. ~RowFree(r, k)
      BY DEF RowFree
  <2> QED BY <1>4, <2>1, <2>2 DEF MayCommit
<1>8. Locks'
    BY <1>2, <1>3, <1>7 DEF IInv, Locks
<1>9. ASSUME NEW p \in Requests \ {r} PROVE Pending(request[p])' /\ Phase(request[p])'
  <2>1. Pending(request[p]) /\ Phase(request[p]) /\ request[p] \in RequestState
      BY <1>0 DEF IInv, TypeOK
  <2>2. Pending(request[p])'
      BY <1>2, <1>7, <2>1 DEF Pending, Fits
  <2>3. request[p].pc = "claimed" => Claimed(request[p])'
    <3>1. request[p].pc = "claimed" => Head(request[p].todo).id \in Chapters
        BY <2>1, TargetType DEF Phase, Asking
    <3>2. request'[p] = request[p]
        BY <1>2
    <3>3. ASSUME request[p].pc = "claimed", NEW k \in Chapters, k = Head(request[p].todo).id
          PROVE  chapter'[k] = chapter[k]
      <4>1. k \in request[p].rows
          BY <2>1, <3>3 DEF Phase, Claimed, Pending
      <4> QED BY <1>7, <4>1
    <3> QED BY <2>1, <3>1, <3>2, <3>3 DEF Phase, Claimed
  <2>4. ASSUME request[p].pc \in {"check", "read", "write"} PROVE Advancing(request[p])'
    <3>1. Advancing(request[p]) /\ request[p].todo # <<>>
        BY <2>1, <2>4 DEF Phase, Asking
    <3>2. ~ProjectFree(r)
        BY <3>1 DEF Advancing, ProjectFree
    <3>3. \A k \in Chapters :
             chapter'[k] # None => chapter[k] # None /\ chapter'[k].status = chapter[k].status
        BY <1>4, <3>2 DEF MayCommit
    <3>4. Head(request[p].todo).id \in Chapters
        BY <2>1, <3>1, TargetType
    <3>5. UNCHANGED stages /\ \A s : NextStages(s)' = NextStages(s)
        BY <1>1 DEF NextStages
    <3>6. request'[p] = request[p]
        BY <1>2
    <3> QED BY <3>1, <3>3, <3>4, <3>5, <3>6 DEF Advancing
  <2> QED BY <1>2, <2>1, <2>2, <2>3, <2>4 DEF Phase
<1>10. Pending(request[r])' /\ Phase(request[r])'
  <2>1. request'[r] = Answered(answer)
      BY <1>0, CommitEffect
  <2>2. Pending(Answered(answer))' /\ Phase(Answered(answer))'
      BY IdleOK
  <2> QED BY <2>1, <2>2
<1> QED BY <1>1, <1>5, <1>6, <1>8, <1>9, <1>10 DEF IInv

(* What a removal writes: its rows, and that chapters are not started.     *)
LEMMA RemovalEffect ==
    ASSUME IInv, NEW r \in Requests, NEW begun \in SUBSET Chapters, Removes(r, begun)
    PROVE  /\ TypeOK'
           /\ \A k \in Chapters :
                 \/ request[r].work[k] = None /\ chapter'[k] = chapter[k]
                 \/ /\ request[r].work[k] # None /\ k \in request[r].rows
                    /\ Fits(request[r].pc, k, request[r].work[k])
                    /\ chapter[k] # None /\ RowFree(r, k)
                    /\ chapter'[k] = request[r].work[k].row
           /\ \A k \in Chapters :
                 /\ history'[k] = history[k] \/ k \in begun
                 /\ Range(history[k]) \subseteq Range(history'[k])
           /\ request'[r] = Answered(None)
           /\ \A p \in Requests \ {r} : request'[p] = request[p]
           /\ UNCHANGED stages
<1> DEFINE q == request[r]
           Entry == [status : StageNames, at : Nat]
           entry == [status |-> "not_started", at |-> q.at]
<1>1. TypeOK /\ q \in RequestState /\ Pending(q)
    BY DEF IInv, TypeOK
<1>2. Answered(None) = Idle /\ Idle \in RequestState
    BY IdleType DEF Answered, Idle
<1>3. request' = [request EXCEPT ![r] = Idle] /\ UNCHANGED <<stages, active, clock>>
    BY DEF Removes, CommitRemoval, Go
<1>4. \A k \in Chapters : chapter'[k] = IF q.work[k] # None THEN q.work[k].row ELSE chapter[k]
    BY DEF Removes, CommitRemoval, Written
<1>5. \A k \in Chapters : q.work[k] # None => q.work[k].row \in Row
    BY <1>1 DEF RequestState, Write
<1>6. chapter' \in [Chapters -> Row \cup {None}]
    BY <1>1, <1>5 DEF Removes, CommitRemoval, Written, TypeOK
<1>7. \A k \in Chapters : history[k] \in Seq(Entry)
    BY <1>1 DEF TypeOK
<1>8. entry \in Entry
    BY <1>1 DEF RequestState, StageNames, Fixed
<1>9. history' = [k \in Chapters |-> IF k \in begun THEN Append(history[k], entry) ELSE history[k]]
    BY DEF Removes, CommitRemoval
<1> HIDE DEF Entry, entry
<1>10. history' \in [Chapters -> Seq(Entry)]
  <2>1. \A k \in Chapters : Append(history[k], entry) \in Seq(Entry)
      BY <1>7, <1>8
  <2> QED BY <1>7, <1>9, <2>1
<1>11. TypeOK'
    BY <1>1, <1>2, <1>3, <1>6, <1>10 DEF TypeOK, Entry
<1>12. \A k \in Chapters : history'[k] = history[k] \/ k \in begun
    BY <1>9
<1>13. \A k \in Chapters : Range(history[k]) \subseteq Range(history'[k])
  <2>1. \A k \in Chapters : Range(history[k]) \subseteq Range(Append(history[k], entry))
      BY <1>7, AppendedRange
  <2> QED BY <1>9, <2>1
<1>14. \A k \in Chapters :
         q.work[k] # None => /\ k \in q.rows /\ Fits(q.pc, k, q.work[k])
                             /\ chapter[k] # None /\ RowFree(r, k)
    BY <1>1 DEF Pending, IInv, Locks, RowFree
<1>15. request'[r] = Answered(None) /\ \A p \in Requests \ {r} : request'[p] = request[p]
    BY <1>1, <1>2, <1>3 DEF TypeOK
<1> QED BY <1>3, <1>4, <1>11, <1>12, <1>13, <1>14, <1>15

(* The commit of a removal keeps the invariant.                            *)
LEMMA RemovalKeeps ==
    ASSUME IInv, NEW r \in Requests, NEW begun \in SUBSET Chapters, Removes(r, begun)
    PROVE  IInv'
<1>0. TypeOK /\ request[r].pc \in Clearing
    BY DEF IInv, Removes, Clearing
<1>1. TypeOK' /\ UNCHANGED stages
    BY RemovalEffect
<1>2. \A p \in Requests \ {r} : request'[p] = request[p]
    BY RemovalEffect
<1>3. request'[r] = Answered(None)
    BY RemovalEffect
<1>4. \A k \in Chapters :
        \/ chapter'[k] = chapter[k]
        \/ /\ chapter[k] # None /\ RowFree(r, k) /\ RivalNamed(chapter'[k])
           /\ chapter'[k].status \in {"not_started", chapter[k].status}
  <2>1. \A k \in Chapters : \A w :
          Fits(request[r].pc, k, w) => RivalNamed(w.row) /\ w.row.status \in {"not_started", chapter[k].status}
      BY <1>0 DEF Fits
  <2>2. \A k \in Chapters :
                 \/ chapter'[k] = chapter[k]
                 \/ /\ Fits(request[r].pc, k, request[r].work[k])
                    /\ chapter[k] # None /\ RowFree(r, k)
                    /\ chapter'[k] = request[r].work[k].row
      BY RemovalEffect
  <2> QED BY <2>1, <2>2
<1>5. Placed' /\ Staged' /\ Named'
  <2>1. Placed'
      BY <1>1 DEF IInv, Placed
  <2>2. Staged'
      BY <1>1, <1>4 DEF IInv, Staged, Placed, Fixed
  <2>3. Named'
      BY <1>4 DEF IInv, Named, RivalNamed
  <2> QED BY <2>1, <2>2, <2>3
<1>6. Entered'
  <2>1. \A k \in Chapters : Range(history[k]) \subseteq Range(history'[k])
      BY RemovalEffect
  <2> QED BY <1>4, <2>1 DEF IInv, Entered, Fixed
<1>7. ASSUME NEW p \in Requests \ {r}, NEW k \in request[p].rows
      PROVE  k \in Chapters /\ chapter'[k] = chapter[k] /\ chapter[k] # None
  <2>1. k \in Chapters /\ chapter[k] # None
      BY <1>0 DEF TypeOK, RequestState, IInv, Locks
  <2>2. ~RowFree(r, k)
      BY DEF RowFree
  <2> QED BY <1>4, <2>1, <2>2
<1>8. Locks'
  <2>1. request'[r].project = FALSE /\ request'[r].rows = {}
      BY <1>3, IdleOK DEF Answers
  <2> QED BY <1>2, <1>7, <2>1 DEF IInv, Locks
<1>9. ASSUME NEW p \in Requests \ {r} PROVE Pending(request[p])' /\ Phase(request[p])'
  <2>1. Pending(request[p]) /\ Phase(request[p]) /\ request[p] \in RequestState
      BY <1>0 DEF IInv, TypeOK
  <2>2. Pending(request[p])'
      BY <1>2, <1>7, <2>1 DEF Pending, Fits
  <2>3. request[p].pc = "claimed" => Claimed(request[p])'
    <3>1. request[p].pc = "claimed" => Head(request[p].todo).id \in Chapters
        BY <2>1, TargetType DEF Phase, Asking
    <3>2. ASSUME request[p].pc = "claimed", NEW k \in Chapters, k = Head(request[p].todo).id
          PROVE  chapter'[k] = chapter[k]
      <4>1. k \in request[p].rows
          BY <2>1, <3>2 DEF Phase, Claimed, Pending
      <4> QED BY <1>7, <4>1
    <3> QED BY <1>2, <2>1, <3>1, <3>2 DEF Phase, Claimed
  <2>4. ASSUME request[p].pc \in {"check", "read", "write"} PROVE Advancing(request[p])'
    <3>1. Advancing(request[p]) /\ request[p].todo # <<>>
        BY <2>1, <2>4 DEF Phase, Asking
    <3>2. \A k \in Chapters :
             chapter'[k] # None => /\ chapter[k] # None
                                   /\ chapter'[k].status \in {"not_started", chapter[k].status}
        BY <1>4
    <3>3. Head(request[p].todo).id \in Chapters
        BY <2>1, <3>1, TargetType
    <3>4. UNCHANGED stages /\ \A s : NextStages(s)' = NextStages(s)
        BY <1>1 DEF NextStages
    <3>5. request'[p] = request[p]
        BY <1>2
    <3> QED BY <3>1, <3>2, <3>3, <3>4, <3>5 DEF Advancing
  <2> QED BY <1>2, <2>1, <2>2, <2>3, <2>4 DEF Phase
<1>10. Pending(request[r])' /\ Phase(request[r])'
  <2>1. Pending(Answered(None))' /\ Phase(Answered(None))'
      BY IdleOK DEF Answers
  <2> QED BY <1>3, <2>1
<1> QED BY <1>1, <1>5, <1>6, <1>8, <1>9, <1>10 DEF IInv

(* So does a deletion, which waits for the locks of its rows.              *)
LEMMA DeleteKeeps ==
    ASSUME IInv, NEW S \in SUBSET Chapters, Delete(S)
    PROVE  IInv'
<1>0. TypeOK
    BY DEF IInv
<1>1. /\ \A k \in Chapters : /\ chapter'[k] = IF k \in S THEN None ELSE chapter[k]
                             /\ history'[k] = IF k \in S THEN <<>> ELSE history[k]
      /\ UNCHANGED <<stages, active, request, clock>>
      /\ \A k \in S : \A r \in Requests : k \notin request[r].rows
    BY DEF Delete
<1>2. TypeOK'
  <2>1. <<>> \in Seq([status : StageNames, at : Nat])
      OBVIOUS
  <2>2. history' \in [Chapters -> Seq([status : StageNames, at : Nat])]
      BY <1>0, <2>1 DEF Delete, TypeOK
  <2> QED BY <1>0, <2>2 DEF Delete, TypeOK
<1>3. Placed' /\ Staged' /\ Entered' /\ Named'
    BY <1>1 DEF IInv, Placed, Staged, Entered, Named
<1>4. \A r \in Requests : \A k \in request[r].rows : k \in Chapters /\ chapter'[k] = chapter[k]
    BY <1>0, <1>1 DEF TypeOK, RequestState
<1>5. Locks'
    BY <1>1, <1>4 DEF IInv, Locks
<1>6. ASSUME NEW r \in Requests PROVE Pending(request[r])' /\ Phase(request[r])'
  <2>1. Pending(request[r]) /\ Phase(request[r]) /\ request[r] \in RequestState
      BY <1>0 DEF IInv, TypeOK
  <2>2. Pending(request[r])'
      BY <1>1, <1>4, <2>1 DEF Pending, Fits
  <2>3. request[r].pc \in Asking => Head(request[r].todo).id \in Chapters
      BY <2>1, TargetType DEF Phase
  <2>4. request[r].pc = "claimed" => Claimed(request[r])'
      BY <1>1, <1>4, <2>1, <2>3 DEF Phase, Claimed, Pending, Asking
  <2>5. request[r].pc \in {"check", "read", "write"} => Advancing(request[r])'
      BY <1>1, <2>1, <2>3 DEF Phase, Advancing, NextStages, Asking
  <2> QED BY <1>1, <2>1, <2>2, <2>4, <2>5 DEF Phase
<1> QED BY <1>2, <1>3, <1>5, <1>6 DEF IInv

(* So does an edit of the stages, which waits for the lock of the project. *)
LEMMA EditKeeps ==
    ASSUME IInv, Edit
    PROVE  IInv'
<1>1. TypeOK'
    BY DEF IInv, TypeOK, Edit
<1>2. Entered' /\ Named' /\ Locks'
    BY DEF IInv, Edit, Entered, Named, Locks
<1>3. Staged'
  <2> SUFFICES ASSUME NEW k \in Chapters, chapter[k] # None
               PROVE  chapter[k].status \in DOMAIN stages'
      BY DEF Staged, Edit
  <2>1. /\ chapter[k].status \in DOMAIN stages
        /\ chapter[k].status \in Fixed \cup {e.status : e \in Range(history[k])}
      BY DEF IInv, Staged, Entered
  <2>2. CASE chapter[k].status \in Fixed
      BY <2>2 DEF Edit, Placed
  <2>3. CASE chapter[k].status \notin Fixed
    <3>1. chapter[k].status \in Reached
        BY <2>1, <2>3 DEF Reached
    <3>2. chapter[k].status \in Locked
        BY <2>1, <3>1 DEF Locked, IInv, TypeOK
    <3> QED BY <3>2 DEF Edit
  <2> QED BY <2>2, <2>3
<1>4. ASSUME NEW r \in Requests PROVE Pending(request[r])' /\ Phase(request[r])'
    BY DEF IInv, Edit, Pending, Fits, Phase, Advancing, Claimed
<1> QED BY <1>1, <1>2, <1>3, <1>4 DEF IInv, Edit

-----------------------------------------------------------------------------
(* Every step has one of the shapes, transaction by transaction.           *)

Stated(r) == \E q \in RequestState : Statement(r, q)
Committed(r) == \E work \in Works, answer \in Answers : Commits(r, work, answer)
Removed(r) == \E begun \in SUBSET Chapters : Removes(r, begun)

(* What has been written keeps fitting if it was not by a removal.         *)
Alike(new, old) == (new \in Clearing <=> old \in Clearing) /\ (new = "leave" <=> old = "leave")

(* A statement that writes no row and locks none.                          *)
LEMMA SameLocks ==
    ASSUME IInv, NEW r \in Requests, NEW q \in RequestState,
           request' = [request EXCEPT ![r] = q], clock' \in Nat,
           UNCHANGED <<stages, chapter, history, active>>,
           q.project => request[r].project \/ ProjectFree(r),
           q.rows = request[r].rows, q.work = request[r].work, q.answer = request[r].answer,
           q.rows = {} \/ Alike(q.pc, request[r].pc),
           Phase(q)
    PROVE  Stated(r)
<1>1. Pending(request[r])
    BY DEF IInv
<1>2. Pending(q)
    BY <1>1 DEF Pending, Fits, Alike
<1>3. Statement(r, q)
    BY <1>2 DEF Statement
<1> QED BY <1>3 DEF Stated

(* A request that starts is a statement, for it holds no lock.             *)
LEMMA Fresh ==
    ASSUME IInv, NEW r \in Requests, NEW q \in RequestState,
           request' = [request EXCEPT ![r] = q], clock' \in Nat,
           UNCHANGED <<stages, chapter, history, active>>,
           q.project = FALSE, q.rows = {}, q.work = NoWork, q.answer = None, Phase(q)
    PROVE  Stated(r)
BY DEF Statement, Stated, Pending, NoWork

(* A transaction that is rolled back, or answers without having written.   *)
LEMMA LeaveShape ==
    ASSUME IInv, NEW r \in Requests, Leave(r)
    PROVE  Stated(r)
<1>1. Phase(Idle)
    BY IdleType DEF Phase, Unlocked, Asking, Updating
<1> QED BY <1>1, IdleType, Fresh DEF Leave, Step, Go, IInv, TypeOK

(* Passing the access check is a statement.                                *)
LEMMA AskShape ==
    ASSUME IInv, NEW r \in Requests, NEW pc \in {"submit", "claim"}, NEW u \in Users,
           NEW k \in Chapters, Ask(r, pc, u, k)
    PROVE  Stated(r)
<1> DEFINE item == [id |-> k, drafter |-> Keep, checker |-> Keep]
           q == [Idle EXCEPT !.pc = pc, !.user = u, !.todo = <<item>>]
<1>1. <<item>> \in Seq(Item) /\ <<item>> # <<>>
  <2>1. item \in Item
      BY DEF Item
  <2> HIDE DEF item, Item
  <2> QED BY <2>1
<1> HIDE DEF item
<1>2. /\ q \in RequestState
      /\ q.pc = pc /\ q.user = u /\ q.todo = <<item>> /\ q.project = FALSE /\ q.rows = {}
      /\ q.work = NoWork /\ q.answer = None
    BY <1>1, IdleType DEF RequestState, Steps, Idle
<1> HIDE DEF q
<1>3. Phase(q)
    BY <1>1, <1>2 DEF Phase, Unlocked, Asking, Updating
<1>4. request' = [request EXCEPT ![r] = q] /\ UNCHANGED <<stages, chapter, history, active, clock>>
    BY DEF Ask, Step, Go, q, item
<1> QED BY <1>2, <1>3, <1>4, Fresh DEF IInv, TypeOK

(* A transaction begins at its own time. *)
LEMMA BeginEffect ==
    ASSUME IInv, NEW r \in Requests, NEW q \in RequestState, Begin(r, q), Phase(q), Pending(q),
           q.project = FALSE, q.rows = {}, q.answer \in {None, request[r].answer}
    PROVE  Stated(r)
<1> DEFINE timed == [q EXCEPT !.at = clock + 1]
<1>1. clock \in Nat /\ clock + 1 \in Nat
    BY DEF IInv, TypeOK
<1>2. /\ timed \in RequestState
      /\ timed.pc = q.pc /\ timed.user = q.user /\ timed.todo = q.todo /\ timed.seen = q.seen
      /\ timed.project = FALSE /\ timed.rows = {} /\ timed.work = q.work /\ timed.next = q.next
      /\ timed.answer = q.answer
    BY <1>1 DEF RequestState
<1>3. /\ clock' \in Nat /\ request' = [request EXCEPT ![r] = timed]
      /\ UNCHANGED <<stages, chapter, history, active>>
    BY <1>1 DEF Begin, Go
<1> HIDE DEF timed
<1>4. Phase(timed)
    BY <1>2 DEF Phase, Advancing, Claimed
<1>5. Pending(timed)
    BY <1>2 DEF Pending
<1>6. Statement(r, timed)
    BY <1>2, <1>3, <1>4, <1>5 DEF Statement
<1> QED BY <1>2, <1>6 DEF Stated

(* So is beginning the transaction of a submission or a claim.             *)
LEMMA BeginShape ==
    ASSUME IInv, NEW r \in Requests, BeginSubmit(r) \/ BeginClaim(r)
    PROVE  Stated(r)
<1> DEFINE q(pc) == [request[r] EXCEPT !.pc = pc]
<1>1. request[r] \in RequestState /\ Phase(request[r]) /\ Pending(request[r])
    BY DEF IInv, TypeOK
<1>2. PICK pc \in {"lock", "take"} : request[r].pc \in {"submit", "claim"} /\ Begin(r, q(pc))
    BY DEF BeginSubmit, BeginClaim
<1>3. /\ q(pc) \in RequestState
      /\ q(pc).pc = pc /\ q(pc).user = request[r].user /\ q(pc).todo = request[r].todo
      /\ q(pc).project = request[r].project /\ q(pc).rows = request[r].rows
      /\ q(pc).work = request[r].work /\ q(pc).answer = request[r].answer
    BY <1>1 DEF RequestState, Steps
<1> HIDE DEF q
<1>4. Phase(q(pc))
    BY <1>1, <1>2, <1>3 DEF Phase, Unlocked, Asking, Updating
<1>5. Pending(q(pc)) /\ q(pc).project = FALSE /\ q(pc).rows = {}
    BY <1>1, <1>2, <1>3 DEF Pending, Phase, Unlocked, RequestState
<1> QED BY <1>2, <1>3, <1>4, <1>5, BeginEffect

(* So is the start of an assignment,                                       *)
LEMMA UpdateShape ==
    ASSUME IInv, NEW r \in Requests, NEW items \in Updates \cup Selections, Update(r, items)
    PROVE  Stated(r)
<1> DEFINE q(pc) == [Idle EXCEPT !.todo = items, !.pc = pc]
<1>1. items \in Seq(Item) /\ items # <<>>
    BY UpdatesAssumption
<1>2. PICK pc \in {"activate", "readItem"} : Begin(r, q(pc))
    BY DEF Update
<1>3. /\ q(pc) \in RequestState
      /\ q(pc).pc = pc /\ q(pc).todo = items /\ q(pc).project = FALSE /\ q(pc).rows = {}
      /\ q(pc).work = NoWork /\ q(pc).answer = None
    BY <1>1, IdleType DEF RequestState, Steps, Idle
<1> HIDE DEF q
<1>4. Phase(q(pc)) /\ Pending(q(pc))
    BY <1>1, <1>3 DEF Phase, Unlocked, Asking, Updating, Pending, NoWork
<1> QED BY <1>2, <1>3, <1>4, BeginEffect

(* the activation of its projects,                                         *)
LEMMA ActivateShape ==
    ASSUME IInv, NEW r \in Requests, Activate(r)
    PROVE  Stated(r)
<1> DEFINE q == [request[r] EXCEPT !.pc = "readItem", !.project = TRUE, !.activates = TRUE]
<1>1. request[r] \in RequestState /\ Phase(request[r])
    BY DEF IInv, TypeOK
<1>2. /\ request[r].pc = "activate" /\ ProjectFree(r)
      /\ request' = [request EXCEPT ![r] = q]
      /\ UNCHANGED <<stages, chapter, history, active, clock>>
    BY DEF Activate, Step, Go
<1>3. /\ q \in RequestState
      /\ q.pc = "readItem" /\ q.todo = request[r].todo /\ q.project /\ q.rows = request[r].rows
      /\ q.work = request[r].work /\ q.answer = request[r].answer
    BY <1>1 DEF RequestState, Steps
<1> HIDE DEF q
<1>4. Phase(q) /\ q.rows = {}
    BY <1>1, <1>2, <1>3 DEF Phase, Unlocked, Asking, Updating
<1> QED BY <1>2, <1>3, <1>4, SameLocks DEF IInv, TypeOK

(* The chapters of a reset, or those an UPDATE looks at.                   *)
LEMMA EmptiedType ==
    ASSUME NEW n \in Nat, NEW ids \in [1..n -> Chapters]
    PROVE  Emptied(ids) \in Seq(Item)
<1>1. Emptied(ids) \in [1..n -> Item]
    BY DEF Emptied, Item
<1> HIDE DEF Item
<1> QED BY <1>1, SeqDef

(* and the start of a reset,                                               *)
LEMMA ResetShape ==
    ASSUME IInv, NEW r \in Requests, NEW ids \in Orders, Reset(r, ids)
    PROVE  Stated(r)
<1> DEFINE q == [Idle EXCEPT !.pc = "reset", !.todo = Emptied(ids)]
<1>1. Emptied(ids) \in Seq(Item)
  <2>1. Cardinality(Chapters) \in Nat
      BY ChaptersAssumption, FS_CardinalityType
  <2>2. PICK n \in Nat : ids \in [1..n -> Chapters]
      BY <2>1 DEF Orders
  <2> QED BY <2>2, EmptiedType
<1>2. Begin(r, q)
    BY DEF Reset
<1>3. /\ q \in RequestState
      /\ q.pc = "reset" /\ q.project = FALSE /\ q.rows = {}
      /\ q.work = NoWork /\ q.answer = None
    BY <1>1, IdleType DEF RequestState, Steps, Idle
<1> HIDE DEF q
<1>4. Phase(q) /\ Pending(q)
    BY <1>3 DEF Phase, Unlocked, Asking, Updating, Pending, NoWork
<1> QED BY <1>2, <1>3, <1>4, BeginEffect

(* or of a removal.                                                        *)
LEMMA RemoveShape ==
    ASSUME IInv, NEW r \in Requests, NEW u \in Leavers, RemoveMember(r, u) \/ RemoveUser(r, u)
    PROVE  Stated(r)
<1> DEFINE q(pc) == [Idle EXCEPT !.pc = pc, !.user = u]
<1>1. u \in Users
    BY UsersAssumption
<1>2. PICK pc \in {"list", "listAll"} : Begin(r, q(pc))
    BY DEF RemoveMember, RemoveUser
<1>3. /\ q(pc) \in RequestState
      /\ q(pc).pc = pc /\ q(pc).project = FALSE /\ q(pc).rows = {}
      /\ q(pc).work = NoWork /\ q(pc).answer = None
    BY <1>1, IdleType DEF RequestState, Steps, Idle
<1> HIDE DEF q
<1>4. Phase(q(pc)) /\ Pending(q(pc))
    BY <1>3 DEF Phase, Unlocked, Asking, Updating, Pending, NoWork
<1> QED BY <1>2, <1>3, <1>4, BeginEffect

(* What a transaction has written. *)
LEMMA AlsoType ==
    ASSUME NEW work \in Works, NEW k \in Chapters, NEW row \in Row, NEW entered \in BOOLEAN
    PROVE  LET w == [row |-> row, entered |-> entered] IN
           /\ w \in Write /\ w # None
           /\ Also(work, k, row, entered) \in Works
           /\ Also(work, k, row, entered)[k] = w
           /\ \A j \in Chapters \ {k} : Also(work, k, row, entered)[j] = work[j]
<1> DEFINE w == [row |-> row, entered |-> entered]
<1>1. w \in Write /\ w # None
    BY NullAssumption DEF Write
<1> QED BY <1>1 DEF Also, Works

(* What a transaction has locked, no other one has.                        *)
LEMMA HeldIsFree ==
    ASSUME IInv, NEW r \in Requests
    PROVE  /\ request[r].project => ProjectFree(r)
           /\ \A k \in request[r].rows : k \in Chapters /\ RowFree(r, k) /\ chapter[k] # None
BY DEF IInv, Locks, ProjectFree, RowFree, TypeOK, RequestState

(* The commit of one row. *)
LEMMA OnlyCommits ==
    ASSUME NEW r \in Requests, Target(r) \in Chapters, NEW row \in Row, NEW entered \in BOOLEAN,
           NEW answer \in {None, "conflict"},
           Commit(r, Only(Target(r), row, entered), answer),
           MayCommit(r, Target(r), [row |-> row, entered |-> entered]),
           answer = "conflict" => row.conflict /\ row.drafter \notin {None, request[r].user}
    PROVE  Committed(r)
<1> DEFINE k == Target(r)
           w == [row |-> row, entered |-> entered]
           work == Only(k, row, entered)
<1>1. NoWork \in Works
    BY DEF NoWork, Works
<1>2. w # None /\ work \in Works /\ work[k] = w /\ \A j \in Chapters \ {k} : work[j] = None
    BY <1>1, AlsoType DEF Only, NoWork
<1>3. w.row = row
    OBVIOUS
<1>4. \A j \in Chapters : work[j] # None => MayCommit(r, j, work[j])
    BY <1>2
<1>5. AnswersWork(r, work, answer)
    BY <1>2, <1>3, NullAssumption DEF AnswersWork
<1> HIDE DEF work, w, k
<1>6. Commit(r, work, answer)
    BY DEF work, k
<1>7. Commits(r, work, answer)
    BY <1>4, <1>5, <1>6 DEF Commits
<1> QED BY <1>2, <1>7 DEF Committed, Answers

(* The commit of all a transaction has written. *)
LEMMA PendingCommits ==
    ASSUME IInv, NEW r \in Requests, NEW answer \in {None, "claimed"},
           Commit(r, request[r].work, answer),
           request[r].rows = {} \/ ProjectFree(r),
           request[r].pc \notin Clearing,
           answer = "claimed" => request[r].pc = "claimed"
    PROVE  Committed(r)
<1> DEFINE work == request[r].work
<1>1. request[r] \in RequestState /\ Pending(request[r]) /\ Phase(request[r])
    BY DEF IInv, TypeOK
<1>2. work \in Works
    BY <1>1 DEF RequestState, Works
<1>3. ASSUME NEW k \in Chapters, work[k] # None PROVE MayCommit(r, k, work[k])
  <2>1. k \in request[r].rows /\ Fits(request[r].pc, k, work[k])
      BY <1>1, <1>3 DEF Pending
  <2>2. RowFree(r, k) /\ chapter[k] # None /\ ProjectFree(r)
      BY <2>1, HeldIsFree
  <2>3. chapter[k].status \in DOMAIN stages /\ {"not_started", "draft"} \subseteq DOMAIN stages
      BY <2>2 DEF IInv, Staged, Placed, Fixed
  <2> QED BY <2>1, <2>2, <2>3 DEF MayCommit, Fits
<1>4. answer = "claimed" =>
        /\ Target(r) \in Chapters /\ work[Target(r)] # None
        /\ chapter[Target(r)].drafter = None /\ work[Target(r)].row.drafter = request[r].user
  <2>1. request[r].pc = "claimed" => Target(r) \in Chapters
      BY <1>1, TargetType DEF Phase, Asking, Target
  <2> QED BY <1>1, <2>1 DEF Phase, Claimed, Target
<1>5. Commits(r, work, answer)
    BY <1>3, <1>4, NullAssumption DEF Commits, AnswersWork
<1> QED BY <1>2, <1>5 DEF Committed, Answers

(* The next stage is another one, and no chapter goes on to the first.     *)
LEMMA StartsNothing ==
    ASSUME IInv, NEW k \in Chapters, chapter[k] # None, NEW s \in NextStages(chapter[k].status)
    PROVE  s \in DOMAIN stages \ {"not_started", chapter[k].status}
<1>1. stages["not_started"] = 0 /\ stages \in [DOMAIN stages -> Nat] /\ chapter[k].status \in DOMAIN stages
    BY DEF IInv, Placed, Staged, TypeOK
<1>2. s \in DOMAIN stages /\ stages[s] > stages[chapter[k].status]
    BY DEF NextStages
<1> QED BY <1>1, <1>2

(* A submission chooses the next stage under the lock of the project.      *)
LEMMA RefreshShape ==
    ASSUME IInv, NEW r \in Requests, Refresh(r)
    PROVE  Stated(r)
<1> DEFINE row == chapter[Target(r)]
           q(pc, s) == [request[r] EXCEPT !.pc = pc, !.next = s, !.project = TRUE]
<1>1. request[r] \in RequestState /\ Phase(request[r]) /\ TypeOK
    BY DEF IInv, TypeOK
<1>2. CASE row = None \/ NextStages(row.status) = {}
    BY <1>2, LeaveShape DEF Refresh
<1>3. CASE ~(row = None \/ NextStages(row.status) = {})
  <2>1. /\ request[r].pc = "lock" /\ ProjectFree(r)
        /\ \E s \in NextStages(row.status) :
              Step(r, q(IF row.status = "peer_check" THEN "check" ELSE "read", s))
      BY <1>3 DEF Refresh
  <2>2. PICK s \in NextStages(row.status), pc \in {"check", "read"} :
              Step(r, q(pc, s)) /\ (pc = "read" => row.status # "peer_check")
      BY <2>1
  <2>3. s \in StageNames /\ s \in DOMAIN stages /\ s # "not_started"
      BY <1>1, <1>3, <2>1, StartsNothing, TargetType DEF NextStages, TypeOK, Phase, Asking, Target
  <2>4. /\ q(pc, s) \in RequestState
        /\ q(pc, s).pc = pc /\ q(pc, s).user = request[r].user /\ q(pc, s).todo = request[r].todo
        /\ q(pc, s).next = s /\ q(pc, s).project /\ q(pc, s).rows = request[r].rows
        /\ q(pc, s).work = request[r].work /\ q(pc, s).answer = request[r].answer
      BY <1>1, <2>3 DEF RequestState, Steps
  <2> HIDE DEF q
  <2>5. request[r].rows = {}
      BY <1>1, <2>1 DEF Phase, Unlocked
  <2>6. Phase(q(pc, s))
      BY <1>1, <2>1, <2>2, <2>3, <2>4, <2>5 DEF Phase, Unlocked, Asking, Updating, Advancing, Target
  <2> QED BY <2>1, <2>2, <2>4, <2>5, <2>6, SameLocks, <1>1 DEF Step, Go, TypeOK
<1> QED BY <1>2, <1>3

(* A submission reads its row again under the lock of the project.         *)
LEMMA ReadAgainShape ==
    ASSUME IInv, NEW r \in Requests, ReadAgain(r)
    PROVE  Stated(r)
<1> DEFINE row == chapter[Target(r)]
           q == [request[r] EXCEPT !.pc = "write", !.seen = row]
<1>1. request[r] \in RequestState /\ Phase(request[r]) /\ TypeOK /\ request[r].pc = "read"
    BY DEF IInv, TypeOK, ReadAgain
<1>2. CASE row = None
    BY <1>2, LeaveShape DEF ReadAgain
<1>3. CASE row # None
  <2>1. Step(r, q)
      BY <1>3 DEF ReadAgain
  <2>2. row \in Row
    <3>1. Target(r) \in Chapters
        BY <1>1, TargetType DEF Phase, Asking, Target
    <3> QED BY <1>1, <1>3, <3>1 DEF TypeOK
  <2>3. /\ q \in RequestState
        /\ q.pc = "write" /\ q.user = request[r].user /\ q.todo = request[r].todo
        /\ q.next = request[r].next /\ q.seen = row
        /\ q.project = request[r].project /\ q.rows = request[r].rows
        /\ q.work = request[r].work /\ q.answer = request[r].answer
      BY <1>1, <2>2 DEF RequestState, Steps
  <2> HIDE DEF q
  <2>4. Advancing(request[r]) /\ Target(r) \in Chapters
      BY <1>1, TargetType DEF Phase, Asking, Target
  <2>5. row.status # request[r].next
      BY <1>3, <2>4, StartsNothing DEF Advancing, Target
  <2>6. Phase(q) /\ q.rows = {}
      BY <1>1, <2>2, <2>3, <2>4, <2>5 DEF Phase, Unlocked, Asking, Updating, Advancing, Target
  <2> QED BY <1>1, <2>1, <2>3, <2>6, SameLocks DEF Step, Go, TypeOK
<1> QED BY <1>2, <1>3

(* A claim that has lost reads who has won.                                *)
LEMMA LookShape ==
    ASSUME IInv, NEW r \in Requests, Look(r)
    PROVE  Stated(r)
<1> DEFINE q(pc) == [request[r] EXCEPT !.pc = pc]
<1>1. /\ request[r] \in RequestState /\ Phase(request[r]) /\ TypeOK
      /\ request[r].pc \in {"look", "lookAgain"}
    BY DEF IInv, TypeOK, Look
<1>2. Leave(r) \/ \E pc \in {"flag", "flagAgain"} : Step(r, q(pc))
    BY DEF Look
<1>3. ASSUME NEW pc \in {"flag", "flagAgain"}, Step(r, q(pc)) PROVE Stated(r)
  <2>1. /\ q(pc) \in RequestState
        /\ q(pc).pc = pc /\ q(pc).user = request[r].user /\ q(pc).todo = request[r].todo
        /\ q(pc).project = request[r].project /\ q(pc).rows = request[r].rows
        /\ q(pc).work = request[r].work /\ q(pc).answer = request[r].answer
      BY <1>1 DEF RequestState, Steps
  <2> HIDE DEF q
  <2>2. Phase(q(pc)) /\ q(pc).rows = {}
      BY <1>1, <2>1 DEF Phase, Unlocked, Asking, Updating
  <2> QED BY <1>1, <1>3, <2>1, <2>2, SameLocks DEF Step, Go, TypeOK
<1> QED BY <1>2, <1>3, LeaveShape

(* A submission writes the stage it has chosen, and commits.               *)
LEMMA AdvanceShape ==
    ASSUME IInv, NEW r \in Requests, Advance(r)
    PROVE  Stated(r) \/ Committed(r)
<1> DEFINE q == request[r]
           row == chapter[Target(r)]
           new == [row EXCEPT !.status = q.next]
<1>1. /\ q \in RequestState /\ Phase(q) /\ TypeOK /\ q.pc = "write"
      /\ Target(r) \in Chapters
  <2>1. q \in RequestState /\ Phase(q) /\ TypeOK /\ q.pc = "write"
      BY DEF IInv, TypeOK, Advance
  <2> QED BY <2>1, TargetType DEF Phase, Asking, Target
<1>2. CASE row = None
    BY <1>2, LeaveShape DEF Advance
<1>3. CASE row # None
  <2>1. RowFree(r, Target(r)) /\ Commit(r, Only(Target(r), new, q.next # q.seen.status), None)
      BY <1>3 DEF Advance
  <2>2. /\ q.project /\ q.next \in DOMAIN stages /\ row.status # "peer_check"
        /\ q.seen.status # q.next
      BY <1>1, <1>3 DEF Phase, Advancing, Target
  <2>3. q.next \in StageNames
      BY <1>1, <2>2 DEF TypeOK
  <2>4. /\ row \in Row /\ new \in Row /\ new.status = q.next /\ new.drafter = row.drafter
        /\ new.conflict = row.conflict /\ new.rival = row.rival
      BY <1>1, <1>3, <2>3 DEF TypeOK, Row
  <2>5. ProjectFree(r)
      BY <2>2, HeldIsFree
  <2>6. RivalNamed(row)
      BY <1>1, <1>3 DEF IInv, Named
  <2> DEFINE w == [row |-> new, entered |-> q.next # q.seen.status]
  <2>7. w.row = new /\ w.entered = TRUE /\ (q.next # q.seen.status) = TRUE
      BY <2>2, <2>3
  <2> HIDE DEF new
  <2>8. MayCommit(r, Target(r), w)
    <3> HIDE DEF w
    <3> QED BY <1>3, <2>1, <2>2, <2>3, <2>4, <2>5, <2>6, <2>7 DEF MayCommit, RivalNamed, Disputed
  <2>9. Commit(r, Only(Target(r), new, TRUE), None) /\ MayCommit(r, Target(r), [row |-> new, entered |-> TRUE])
      BY <2>1, <2>7, <2>8
  <2> QED BY <1>1, <2>4, <2>9, OnlyCommits, NullAssumption
<1> QED BY <1>2, <1>3

(* A peer check commits only for a checker who is not the drafter.         *)
LEMMA SubmitPeerCheckShape ==
    ASSUME IInv, NEW r \in Requests, SubmitPeerCheck(r)
    PROVE  Stated(r) \/ Committed(r)
<1> DEFINE q == request[r]
           row == chapter[Target(r)]
           new == [row EXCEPT !.status = q.next, !.checker = q.user]
<1>1. /\ q \in RequestState /\ Phase(q) /\ TypeOK /\ q.pc = "check"
      /\ Target(r) \in Chapters /\ q.user \in Users
  <2>1. q \in RequestState /\ Phase(q) /\ TypeOK /\ q.pc = "check"
      BY DEF IInv, TypeOK, SubmitPeerCheck
  <2> QED BY <2>1, TargetType DEF Phase, Asking, Target
<1>2. CASE ~PeerEligible(q.user, row)
    BY <1>2, LeaveShape DEF SubmitPeerCheck
<1>3. CASE PeerEligible(q.user, row)
  <2>1. RowFree(r, Target(r)) /\ Commit(r, Only(Target(r), new, q.next # "peer_check"), None)
      BY <1>3 DEF SubmitPeerCheck
  <2>2. /\ row # None /\ row.status = "peer_check" /\ row.drafter \notin {None, q.user}
        /\ q.project /\ q.next \in NextStages(row.status)
      BY <1>1, <1>3 DEF Phase, Advancing, Target, PeerEligible
  <2>3. q.next \in StageNames /\ q.next \in DOMAIN stages /\ q.next # row.status
      BY <1>1, <2>2, StartsNothing DEF TypeOK
  <2>4. /\ row \in Row /\ new \in Row /\ new.status = q.next /\ new.drafter = row.drafter
        /\ new.conflict = row.conflict /\ new.rival = row.rival /\ new.checker = q.user
      BY <1>1, <2>2, <2>3 DEF TypeOK, Row
  <2>5. ProjectFree(r)
      BY <2>2, HeldIsFree
  <2>6. RivalNamed(row)
      BY <1>1, <2>2 DEF IInv, Named
  <2>7. q.user # None
      BY <1>1, UsersAssumption
  <2> DEFINE w == [row |-> new, entered |-> q.next # "peer_check"]
  <2>8. w.row = new /\ w.entered = TRUE /\ (q.next # "peer_check") = TRUE
      BY <2>2, <2>3
  <2> HIDE DEF new
  <2>9. MayCommit(r, Target(r), w)
    <3> HIDE DEF w
    <3> QED BY <2>1, <2>2, <2>3, <2>4, <2>5, <2>6, <2>7, <2>8 DEF MayCommit, RivalNamed, Disputed
  <2>10. Commit(r, Only(Target(r), new, TRUE), None) /\ MayCommit(r, Target(r), [row |-> new, entered |-> TRUE])
      BY <2>1, <2>8, <2>9
  <2> QED BY <1>1, <2>4, <2>10, OnlyCommits, NullAssumption
<1> QED BY <1>2, <1>3

(* flagClaimConflict writes no status.                                     *)
LEMMA FlagConflictShape ==
    ASSUME IInv, NEW r \in Requests, FlagConflict(r)
    PROVE  Stated(r) \/ Committed(r)
<1> DEFINE q == request[r]
           row == chapter[Target(r)]
           new == [row EXCEPT !.conflict = TRUE, !.rival = IF @ = None THEN q.user ELSE @]
           again == [q EXCEPT !.pc = "lookAgain"]
<1>1. /\ q \in RequestState /\ Phase(q) /\ TypeOK /\ q.pc \in {"flag", "flagAgain"}
      /\ Target(r) \in Chapters /\ q.user \in Users
  <2>1. q \in RequestState /\ Phase(q) /\ TypeOK /\ q.pc \in {"flag", "flagAgain"}
      BY DEF IInv, TypeOK, FlagConflict
  <2> QED BY <2>1, TargetType DEF Phase, Asking, Target
<1>2. CASE ~Flaggable(q.user, row)
  <2>1. Leave(r) \/ Step(r, again)
      BY <1>2 DEF FlagConflict
  <2>2. /\ again \in RequestState
        /\ again.pc = "lookAgain" /\ again.user = q.user /\ again.todo = q.todo
        /\ again.project = q.project /\ again.rows = q.rows
        /\ again.work = q.work /\ again.answer = q.answer
      BY <1>1 DEF RequestState, Steps
  <2> HIDE DEF again
  <2>3. Phase(again) /\ again.rows = {}
      BY <1>1, <2>2 DEF Phase, Unlocked, Asking, Updating
  <2>4. Step(r, again) => Stated(r)
      BY <1>1, <2>2, <2>3, SameLocks DEF Step, Go, TypeOK
  <2> QED BY <2>1, <2>4, LeaveShape
<1>3. CASE Flaggable(q.user, row)
  <2>1. RowFree(r, Target(r)) /\ Commit(r, Only(Target(r), new, FALSE), "conflict")
      BY <1>3 DEF FlagConflict
  <2>2. row # None /\ row.drafter \notin {None, q.user} /\ row.status # "complete"
      BY <1>3 DEF Flaggable
  <2>3. row \in Row /\ q.user # None
      BY <1>1, <2>2, UsersAssumption DEF TypeOK
  <2>4. /\ new \in Row /\ new.status = row.status /\ new.drafter = row.drafter
        /\ new.conflict = TRUE /\ new.rival = IF row.rival = None THEN q.user ELSE row.rival
      BY <1>1, <2>3 DEF Row
  <2>5. row.status \in DOMAIN stages
      BY <1>1, <2>2 DEF IInv, Staged
  <2>6. RivalNamed(row)
      BY <1>1, <2>2 DEF IInv, Named
  <2> HIDE DEF new
  <2>7. RivalNamed(new)
      BY <2>2, <2>3, <2>4, <2>6 DEF RivalNamed, Row
  <2>8. /\ row.status # "peer_check" \/ new.status = "peer_check"
        /\ Disputed(row) => Disputed(new)
      BY <2>2, <2>3, <2>4, <2>6 DEF Disputed, RivalNamed
  <2> DEFINE w == [row |-> new, entered |-> FALSE]
  <2>9. w.row = new /\ w.entered = FALSE
      OBVIOUS
  <2>10. MayCommit(r, Target(r), w)
    <3> HIDE DEF w
    <3> QED BY <2>1, <2>2, <2>4, <2>5, <2>7, <2>8, <2>9 DEF MayCommit
  <2> QED BY <1>1, <2>1, <2>2, <2>4, <2>10, OnlyCommits
<1> QED BY <1>2, <1>3

(* A claim takes a row only while nobody has it.                           *)
LEMMA TakeShape ==
    ASSUME IInv, NEW r \in Requests, Take(r)
    PROVE  Stated(r)
<1> DEFINE q == request[r]
           k == Target(r)
           row == chapter[k]
           new == [row EXCEPT !.status = "draft", !.drafter = q.user]
           look == [q EXCEPT !.pc = "look"]
           taken == [q EXCEPT !.pc = "claimed", !.rows = {k}, !.activates = TRUE,
                              !.work = Only(k, new, TRUE)]
<1>1. /\ q \in RequestState /\ Phase(q) /\ TypeOK /\ q.pc = "take"
      /\ k \in Chapters /\ q.user \in Users
  <2>1. q \in RequestState /\ Phase(q) /\ TypeOK /\ q.pc = "take"
      BY DEF IInv, TypeOK, Take
  <2> QED BY <2>1, TargetType DEF Phase, Asking, Target
<1>2. CASE ~Unclaimed(row)
  <2>1. Step(r, look)
      BY <1>2 DEF Take
  <2>2. /\ look \in RequestState
        /\ look.pc = "look" /\ look.user = q.user /\ look.todo = q.todo
        /\ look.project = q.project /\ look.rows = q.rows
        /\ look.work = q.work /\ look.answer = q.answer
      BY <1>1 DEF RequestState, Steps
  <2> HIDE DEF look
  <2>3. Phase(look) /\ look.rows = {}
      BY <1>1, <2>2 DEF Phase, Unlocked, Asking, Updating
  <2> QED BY <1>1, <2>1, <2>2, <2>3, SameLocks DEF Step, Go, TypeOK
<1>3. CASE Unclaimed(row)
  <2>1. RowFree(r, k) /\ Step(r, taken)
      BY <1>3 DEF Take
  <2>2. row # None /\ row.drafter = None
      BY <1>3 DEF Unclaimed
  <2>3. row \in Row
      BY <1>1, <2>2 DEF TypeOK
  <2>4. /\ new \in Row /\ new.status = "draft" /\ new.drafter = q.user
        /\ new.conflict = row.conflict /\ new.rival = row.rival
      BY <1>1, <2>3 DEF Row, StageNames, Fixed
  <2>5. RivalNamed(row)
      BY <1>1, <2>2 DEF IInv, Named
  <2> HIDE DEF new
  <2> DEFINE w == [row |-> new, entered |-> TRUE]
             work == Only(k, new, TRUE)
  <2>6. w # None /\ work \in Works /\ work[k] = w /\ \A j \in Chapters \ {k} : work[j] = None
    <3>1. NoWork \in Works
        BY DEF NoWork, Works
    <3> QED BY <1>1, <2>4, <3>1, AlsoType DEF Only, NoWork
  <2>7. w.row = new /\ w.entered = TRUE
      OBVIOUS
  <2> HIDE DEF w, work
  <2>8. Fits("claimed", k, w)
      BY <2>2, <2>4, <2>5, <2>7 DEF Fits, RivalNamed, Disputed, Clearing
  <2>9. /\ taken \in RequestState
        /\ taken.pc = "claimed" /\ taken.user = q.user /\ taken.todo = q.todo
        /\ taken.project = q.project /\ taken.rows = {k} /\ taken.work = work
        /\ taken.answer = q.answer
      BY <1>1, <2>6 DEF RequestState, Steps, Works, work
  <2> HIDE DEF taken
  <2>10. Pending(taken)
      BY <2>6, <2>8, <2>9 DEF Pending
  <2>11. Phase(taken)
      BY <1>1, <2>2, <2>4, <2>6, <2>7, <2>9 DEF Phase, Unlocked, Asking, Updating, Claimed, Target
  <2>12. /\ request' = [request EXCEPT ![r] = taken] /\ clock' \in Nat
         /\ UNCHANGED <<stages, chapter, history, active>>
      BY <1>1, <2>1 DEF Step, Go, TypeOK
  <2>13. Statement(r, taken)
      BY <2>1, <2>2, <2>9, <2>10, <2>11, <2>12 DEF Statement
  <2> QED BY <2>9, <2>13 DEF Stated
<1> QED BY <1>2, <1>3

(* It commits the row it has taken.                                        *)
LEMMA CommitClaimShape ==
    ASSUME IInv, NEW r \in Requests, CommitClaim(r)
    PROVE  Committed(r)
BY PendingCommits DEF CommitClaim, Clearing

(* The loop of an update: the next row, or the end of it.                  *)
LEMMA ReadItemShape ==
    ASSUME IInv, NEW r \in Requests, ReadItem(r)
    PROVE  Stated(r) \/ Committed(r)
<1> DEFINE row == chapter[Target(r)]
           q == [request[r] EXCEPT !.pc = "writeItem", !.seen = row]
<1>1. request[r] \in RequestState /\ Phase(request[r]) /\ TypeOK /\ request[r].pc = "readItem"
    BY DEF IInv, TypeOK, ReadItem
<1>2. CASE row = None
  <2>1. request[r].rows = {} \/ ProjectFree(r)
      BY <1>1, HeldIsFree DEF Phase
  <2>2. Commit(r, request[r].work, None)
      BY <1>2 DEF ReadItem
  <2> QED BY <1>1, <2>1, <2>2, PendingCommits, NullAssumption DEF Clearing
<1>3. CASE row # None
  <2>1. Step(r, q)
      BY <1>3 DEF ReadItem
  <2>2. row \in Row
    <3>1. Target(r) \in Chapters
        BY <1>1, TargetType DEF Phase, Updating, Target
    <3> QED BY <1>1, <1>3, <3>1 DEF TypeOK
  <2>3. /\ q \in RequestState
        /\ q.pc = "writeItem" /\ q.todo = request[r].todo /\ q.seen = row
        /\ q.project = request[r].project /\ q.rows = request[r].rows
        /\ q.work = request[r].work /\ q.answer = request[r].answer
      BY <1>1, <2>2 DEF RequestState, Steps
  <2> HIDE DEF q
  <2>4. Phase(q)
      BY <1>1, <2>2, <2>3 DEF Phase, Unlocked, Asking, Updating
  <2>5. Alike(q.pc, request[r].pc)
      BY <1>1, <2>3 DEF Alike, Clearing
  <2> QED BY <1>1, <2>1, <2>3, <2>4, <2>5, SameLocks DEF Step, Go, TypeOK
<1> QED BY <1>2, <1>3

(* What an update makes of a row keeps its status or drafts it, and never  *)
(* leaves a claim conflict beside another drafter.                         *)
LEMMA AssignedFits ==
    ASSUME NEW item \in Item, NEW seen \in Row, NEW row \in Row, RivalNamed(row)
    PROVE  LET new == Assigned(item, seen, row) IN
           /\ new \in Row /\ RivalNamed(new) /\ (Disputed(row) => Disputed(new))
           /\ new.status \in {"draft", row.status}
           /\ new.status = seen.status => new.status = row.status
<1> DEFINE new == Assigned(item, seen, row)
<1>1. Given(item.drafter, row.drafter) \in Users \cup {None}
    BY DEF Given, Item, Row
<1>2. Given(item.checker, row.checker) \in Users \cup {None}
    BY DEF Given, Item, Row
<1>3. /\ new.status = IF seen.status = "not_started" /\ {item.drafter, item.checker} # {Keep}
                      THEN "draft" ELSE row.status
      /\ new.drafter = Given(item.drafter, row.drafter)
      /\ new.conflict = IF item.drafter = Keep THEN row.conflict ELSE FALSE
      /\ new.rival = IF item.drafter = Keep THEN row.rival ELSE None
    BY DEF Assigned
<1>4. new \in Row
    BY <1>1, <1>2 DEF Assigned, Row, StageNames, Fixed
<1> HIDE DEF new
<1>5. RivalNamed(new) /\ (Disputed(row) => Disputed(new))
    BY <1>3 DEF RivalNamed, Disputed, Given
<1> QED BY <1>3, <1>4, <1>5 DEF new

(* An update writes its row with the lock of that row, and commits after   *)
(* its last item.                                                          *)
LEMMA WriteItemShape ==
    ASSUME IInv, NEW r \in Requests, WriteItem(r)
    PROVE  Stated(r) \/ Committed(r)
<1> DEFINE q == request[r]
           k == Target(r)
           row == chapter[k]
           new == Assigned(Head(q.todo), q.seen, row)
           entered == new.status # q.seen.status
           written == [q EXCEPT !.pc = "touch", !.rows = @ \cup {k}, !.work = Also(@, k, new, entered)]
<1>1. /\ q \in RequestState /\ Phase(q) /\ Pending(q) /\ TypeOK /\ q.pc = "writeItem"
      /\ k \in Chapters /\ Head(q.todo) \in Item /\ q.todo # <<>> /\ q.seen \in Row
  <2>1. q \in RequestState /\ Phase(q) /\ Pending(q) /\ TypeOK /\ q.pc = "writeItem"
      BY DEF IInv, TypeOK, WriteItem
  <2>2. q.todo # <<>> /\ q.seen \in Row
      BY <2>1 DEF Phase, Updating
  <2> QED BY <2>1, <2>2, TargetType DEF Target
<1>2. CASE row = None
  <2>1. q.rows = {} \/ ProjectFree(r)
      BY <1>1, HeldIsFree DEF Phase
  <2>2. Commit(r, q.work, None)
      BY <1>2 DEF WriteItem
  <2> QED BY <1>1, <2>1, <2>2, PendingCommits, NullAssumption DEF Clearing
<1>3. CASE row # None
  <2>1. RowFree(r, k) /\ Step(r, written)
      BY <1>3 DEF WriteItem
  <2>2. row \in Row /\ RivalNamed(row)
      BY <1>1, <1>3 DEF TypeOK, IInv, Named
  <2>3. /\ new \in Row /\ RivalNamed(new) /\ (Disputed(row) => Disputed(new))
        /\ new.status \in {"draft", row.status}
        /\ new.status = q.seen.status => new.status = row.status
      BY <1>1, <2>2, AssignedFits
  <2>4. entered \in BOOLEAN /\ (~entered => new.status = row.status)
      BY <2>3
  <2> HIDE DEF new, entered
  <2> DEFINE w == [row |-> new, entered |-> entered]
             work == Also(q.work, k, new, entered)
  <2>5. w # None /\ work \in Works /\ work[k] = w /\ \A j \in Chapters \ {k} : work[j] = q.work[j]
    <3>1. q.work \in Works
        BY <1>1 DEF RequestState, Works
    <3> QED BY <1>1, <2>3, <2>4, <3>1, AlsoType
  <2>6. w.row = new /\ w.entered = entered
      OBVIOUS
  <2> HIDE DEF w, work
  <2>7. Fits("touch", k, w)
      BY <2>3, <2>4, <2>6 DEF Fits, Clearing
  <2>8. /\ written \in RequestState
        /\ written.pc = "touch" /\ written.todo = q.todo
        /\ written.project = q.project /\ written.rows = q.rows \cup {k} /\ written.work = work
        /\ written.answer = q.answer
      BY <1>1, <2>5 DEF RequestState, Steps, Works, work
  <2> HIDE DEF written
  <2>9. Pending(written)
    <3>1. \A j \in Chapters : Fits("writeItem", j, q.work[j]) => Fits("touch", j, q.work[j])
        BY DEF Fits, Clearing
    <3> QED BY <1>1, <2>5, <2>7, <2>8, <3>1 DEF Pending
  <2>10. Phase(written)
      BY <1>1, <2>8 DEF Phase, Unlocked, Asking, Updating
  <2>11. /\ request' = [request EXCEPT ![r] = written] /\ clock' \in Nat
         /\ UNCHANGED <<stages, chapter, history, active>>
      BY <1>1, <2>1 DEF Step, Go, TypeOK, written, work
  <2>12. Statement(r, written)
      BY <1>3, <2>1, <2>8, <2>9, <2>10, <2>11 DEF Statement
  <2> QED BY <2>8, <2>12 DEF Stated
<1> QED BY <1>2, <1>3

(* The rest of a sequence of items.                                        *)
LEMMA TailType ==
    ASSUME NEW todo \in Seq(Item), todo # <<>>
    PROVE  Tail(todo) \in Seq(Item) /\ (Len(todo) # 1 => Tail(todo) # <<>>)
<1> HIDE DEF Item
<1>1. Tail(todo) \in Seq(Item) /\ Len(Tail(todo)) = Len(todo) - 1 /\ Len(todo) \in Nat /\ Len(todo) # 0
    OBVIOUS
<1>2. Len(<<>>) = 0
    OBVIOUS
<1>3. Len(todo) # 1 => Len(Tail(todo)) # 0
    BY <1>1
<1>4. Len(todo) # 1 => Tail(todo) # <<>>
    BY <1>2, <1>3
<1> QED BY <1>1, <1>4

(* An assignment of all chapters commits after it has touched the project. *)
LEMMA TouchShape ==
    ASSUME IInv, NEW r \in Requests, Touch(r)
    PROVE  Stated(r) \/ Committed(r)
<1> DEFINE q == [request[r] EXCEPT !.pc = "readItem", !.project = TRUE, !.todo = Tail(@)]
<1>1. /\ request[r] \in RequestState /\ Phase(request[r]) /\ TypeOK
      /\ request[r].pc = "touch" /\ ProjectFree(r)
    BY DEF IInv, TypeOK, Touch
<1>2. CASE Len(request[r].todo) = 1
  <2>1. Commit(r, request[r].work, None)
      BY <1>2 DEF Touch
  <2> QED BY <1>1, <2>1, PendingCommits, NullAssumption DEF Clearing
<1>3. CASE Len(request[r].todo) # 1
  <2>1. Step(r, q)
      BY <1>3 DEF Touch
  <2>2. Tail(request[r].todo) \in Seq(Item) /\ Tail(request[r].todo) # <<>>
      BY <1>1, <1>3, TailType DEF RequestState, Phase, Updating
  <2>3. /\ q \in RequestState
        /\ q.pc = "readItem" /\ q.todo = Tail(request[r].todo)
        /\ q.project /\ q.rows = request[r].rows
        /\ q.work = request[r].work /\ q.answer = request[r].answer
      BY <1>1, <2>2 DEF RequestState, Steps
  <2> HIDE DEF q
  <2>4. Phase(q)
      BY <2>2, <2>3 DEF Phase, Unlocked, Asking, Updating
  <2>5. Alike(q.pc, request[r].pc)
      BY <1>1, <2>3 DEF Alike, Clearing
  <2> QED BY <1>1, <2>1, <2>3, <2>4, <2>5, SameLocks DEF Step, Go, TypeOK
<1> QED BY <1>2, <1>3

(* A reset locks the project, then its rows, then writes them all.         *)
LEMMA LockForResetShape ==
    ASSUME IInv, NEW r \in Requests, LockForReset(r)
    PROVE  Stated(r)
<1> DEFINE q == [request[r] EXCEPT !.pc = "rows", !.project = TRUE]
<1>1. /\ request[r] \in RequestState /\ Phase(request[r]) /\ TypeOK /\ ProjectFree(r)
      /\ request[r].pc = "reset"
    BY DEF IInv, TypeOK, LockForReset
<1>2. Leave(r) \/ Step(r, q)
    BY DEF LockForReset
<1>3. /\ q \in RequestState
      /\ q.pc = "rows" /\ q.project /\ q.rows = request[r].rows
      /\ q.work = request[r].work /\ q.answer = request[r].answer
    BY <1>1 DEF RequestState, Steps
<1> HIDE DEF q
<1>4. Phase(q) /\ q.rows = {}
    BY <1>1, <1>3 DEF Phase, Unlocked, Asking, Updating
<1>5. Step(r, q) => Stated(r)
    BY <1>1, <1>3, <1>4, SameLocks DEF Step, Go, TypeOK
<1> QED BY <1>2, <1>5, LeaveShape

(* A reset locks its rows in the order of their ids.                       *)
LEMMA LockRowShape ==
    ASSUME IInv, NEW r \in Requests, LockRow(r)
    PROVE  Stated(r)
<1> DEFINE k == Target(r)
           q == [request[r] EXCEPT !.rows = @ \cup {k}, !.todo = Tail(@)]
<1>1. /\ request[r] \in RequestState /\ Phase(request[r]) /\ Pending(request[r]) /\ TypeOK
      /\ request[r].pc = "rows" /\ request[r].todo # <<>> /\ k \in Chapters
  <2>1. /\ request[r] \in RequestState /\ Phase(request[r]) /\ Pending(request[r]) /\ TypeOK
        /\ request[r].pc = "rows" /\ request[r].todo # <<>>
      BY DEF IInv, TypeOK, LockRow
  <2> QED BY <2>1, TargetType DEF Target
<1>2. CASE chapter[k] = None
    BY <1>2, LeaveShape DEF LockRow
<1>3. CASE chapter[k] # None
  <2>1. RowFree(r, k) /\ Step(r, q)
      BY <1>3 DEF LockRow
  <2>2. Tail(request[r].todo) \in Seq(Item)
      BY <1>1, TailType DEF RequestState
  <2>3. /\ q \in RequestState
        /\ q.pc = "rows" /\ q.project = request[r].project /\ q.rows = request[r].rows \cup {k}
        /\ q.work = request[r].work /\ q.answer = request[r].answer
      BY <1>1, <2>2 DEF RequestState, Steps
  <2> HIDE DEF q
  <2>4. Phase(q)
      BY <1>1, <2>3 DEF Phase, Unlocked, Asking, Updating
  <2>5. Pending(q)
      BY <1>1, <2>3 DEF Pending
  <2>6. /\ request' = [request EXCEPT ![r] = q] /\ clock' \in Nat
        /\ UNCHANGED <<stages, chapter, history, active>>
      BY <1>1, <2>1 DEF Step, Go, TypeOK
  <2>7. Statement(r, q)
      BY <1>3, <2>1, <2>3, <2>4, <2>5, <2>6 DEF Statement
  <2> QED BY <2>3, <2>7 DEF Stated
<1> QED BY <1>2, <1>3

(* It commits only rows whose status it may reset.                         *)
LEMMA ResetRowsShape ==
    ASSUME IInv, NEW r \in Requests, ResetRows(r)
    PROVE  Stated(r) \/ Committed(r)
<1> DEFINE rows == request[r].rows
           w == [row |-> Restarted, entered |-> TRUE]
           work == [k \in Chapters |-> IF k \in rows THEN w ELSE None]
<1>1. /\ request[r] \in RequestState /\ Phase(request[r]) /\ TypeOK
      /\ request[r].pc = "rows"
    BY DEF IInv, TypeOK, ResetRows
<1>2. Leave(r) \/ Commit(r, work, None)
    BY DEF ResetRows
<1>3. /\ Restarted \in Row /\ Restarted.status = "not_started" /\ RivalNamed(Restarted) /\ Disputed(Restarted)
    BY DEF Restarted, Row, StageNames, Fixed, RivalNamed, Disputed
<1>4. w \in Write /\ w.row = Restarted /\ w.entered = TRUE
    BY <1>3 DEF Write
<1> HIDE DEF w
<1>5. work \in Works /\ \A k \in Chapters : work[k] # None => k \in rows /\ work[k] = w
    BY <1>4 DEF Works
<1> HIDE DEF work
<1>6. ASSUME NEW k \in Chapters, work[k] # None PROVE MayCommit(r, k, work[k])
  <2>1. RowFree(r, k) /\ chapter[k] # None /\ ProjectFree(r)
      BY <1>1, <1>5, <1>6, HeldIsFree DEF Phase
  <2>2. "not_started" \in DOMAIN stages
      BY DEF IInv, Placed, Fixed
  <2> QED BY <1>3, <1>4, <1>5, <1>6, <2>1, <2>2 DEF MayCommit
<1>7. Commit(r, work, None) => Committed(r)
    BY <1>5, <1>6, NullAssumption DEF Commits, AnswersWork, Committed, Answers
<1> QED BY <1>2, <1>7, LeaveShape

(* A removal reads the rows of the user, ...                               *)
LEMMA ListAffectedShape ==
    ASSUME IInv, NEW r \in Requests, ListAffected(r)
    PROVE  Stated(r)
<1> DEFINE affected == HeldBy(request[r].user)
           listed == [k \in Chapters |-> IF k \in affected THEN chapter[k] ELSE None]
           q == [request[r] EXCEPT !.pc = "drafters", !.listed = listed]
<1>1. request[r] \in RequestState /\ Phase(request[r]) /\ TypeOK /\ request[r].pc = "list"
    BY DEF IInv, TypeOK, ListAffected
<1>2. Leave(r) \/ Step(r, q)
    BY DEF ListAffected
<1>3. listed \in [Chapters -> Row \cup {None}]
    BY <1>1 DEF TypeOK
<1>4. /\ q \in RequestState
      /\ q.pc = "drafters" /\ q.project = request[r].project /\ q.rows = request[r].rows
      /\ q.work = request[r].work /\ q.answer = request[r].answer
    BY <1>1, <1>3 DEF RequestState, Steps
<1> HIDE DEF q
<1>5. Phase(q) /\ q.rows = {}
    BY <1>1, <1>4 DEF Phase, Unlocked, Asking, Updating
<1>6. Step(r, q) => Stated(r)
    BY <1>1, <1>4, <1>5, SameLocks DEF Step, Go, TypeOK
<1> QED BY <1>2, <1>6, LeaveShape

(* ... finds the rows its statements look at, ...                          *)
LEMMA ScanShape ==
    ASSUME IInv, NEW r \in Requests, UpdateDrafters(r) \/ UpdateCheckers(r) \/ ListAll(r)
    PROVE  Stated(r)
<1> DEFINE q(pc, ids) == [request[r] EXCEPT !.pc = pc, !.todo = Emptied(ids)]
<1>1. request[r] \in RequestState /\ Phase(request[r]) /\ TypeOK
    BY DEF IInv, TypeOK
<1>2. PICK pc \in Clearing, S \in SUBSET Chapters :
         /\ Scan(r, pc, S)
         /\ \/ request[r].pc \in {"drafters", "listAll"}
            \/ request[r].pc = "undraft" /\ pc = "uncheck"
    BY DEF UpdateDrafters, UpdateCheckers, ListAll, ScanFor, HeldBy, Clearing
<1>3. PICK ids \in Orderings(S) : Step(r, q(pc, ids))
    BY <1>2 DEF Scan
<1>4. Emptied(ids) \in Seq(Item)
  <2>1. IsFiniteSet(S) /\ Cardinality(S) \in Nat
      BY ChaptersAssumption, FS_Subset, FS_CardinalityType
  <2>2. ids \in [1..Cardinality(S) -> Chapters]
      BY DEF Orderings
  <2> QED BY <2>1, <2>2, EmptiedType
<1>5. /\ q(pc, ids) \in RequestState
      /\ q(pc, ids).pc = pc /\ q(pc, ids).project = request[r].project
      /\ q(pc, ids).rows = request[r].rows
      /\ q(pc, ids).work = request[r].work /\ q(pc, ids).answer = request[r].answer
    BY <1>1, <1>4 DEF RequestState, Steps, Clearing
<1> HIDE DEF q
<1>6. Phase(q(pc, ids))
    BY <1>5 DEF Phase, Unlocked, Asking, Updating, Clearing
<1>7. request[r].rows = {} \/ Alike(pc, request[r].pc)
    BY <1>1, <1>2 DEF Phase, Unlocked, Alike, Clearing
<1> QED BY <1>1, <1>3, <1>5, <1>6, <1>7, SameLocks DEF Step, Go, TypeOK

(* What is taken away leaves the rest of the row.                          *)
LEMMA ClearedFits ==
    ASSUME NEW pc \in Clearing, NEW u, NEW row \in Row, NEW new \in Cleared(pc, u, row),
           RivalNamed(row)
    PROVE  /\ new \in Row /\ RivalNamed(new)
           /\ new.status \in {row.status, "not_started"}
           /\ pc = "leave" => new.status = row.status
           /\ new.drafter \in {None, row.drafter}
           /\ new.conflict = row.conflict /\ new.rival = row.rival
<1>1. CASE pc = "undraft"
  <2>1. PICK s \in {row.status, "not_started"} : new = [row EXCEPT !.drafter = None, !.status = s]
      BY <1>1 DEF Cleared
  <2>2. s \in StageNames
      BY <2>1 DEF Row, StageNames, Fixed
  <2> QED BY <1>1, <2>1, <2>2 DEF Row, RivalNamed
<1>2. CASE pc = "uncheck"
  <2>1. new = [row EXCEPT !.checker = None]
      BY <1>2 DEF Cleared
  <2> QED BY <1>2, <2>1 DEF Row, RivalNamed
<1>3. CASE pc = "leave"
  <2>1. new = [row EXCEPT !.drafter = IF @ = u THEN None ELSE @, !.checker = IF @ = u THEN None ELSE @]
      BY <1>3 DEF Cleared
  <2> QED BY <1>3, <2>1 DEF Row, RivalNamed
<1> QED BY <1>1, <1>2, <1>3 DEF Clearing

(* ... takes the user from each of them under its lock, ...                *)
LEMMA ClearRowShape ==
    ASSUME IInv, NEW r \in Requests, ClearRow(r)
    PROVE  Stated(r)
<1> DEFINE q == request[r]
           k == Target(r)
           row == Seen(r, k)
           passed == [q EXCEPT !.todo = Tail(@)]
           cleared(new) == [q EXCEPT !.todo = Tail(@), !.rows = @ \cup {k}, !.work = Also(@, k, new, FALSE)]
<1>1. /\ q \in RequestState /\ Phase(q) /\ Pending(q) /\ TypeOK /\ q.pc \in Clearing
      /\ q.todo # <<>> /\ k \in Chapters
  <2>1. q \in RequestState /\ Phase(q) /\ Pending(q) /\ TypeOK /\ q.pc \in Clearing /\ q.todo # <<>>
      BY DEF IInv, TypeOK, ClearRow, Clearing
  <2> QED BY <2>1, TargetType DEF Target
<1>2. Tail(q.todo) \in Seq(Item)
    BY <1>1, TailType DEF RequestState
<1>3. CASE ~Removable(q.pc, q.user, row)
  <2>1. Step(r, passed)
      BY <1>3 DEF ClearRow
  <2>2. /\ passed \in RequestState
        /\ passed.pc = q.pc /\ passed.project = q.project /\ passed.rows = q.rows
        /\ passed.work = q.work /\ passed.answer = q.answer
      BY <1>1, <1>2 DEF RequestState
  <2> HIDE DEF passed
  <2>3. Phase(passed) /\ Alike(passed.pc, q.pc)
      BY <1>1, <2>2 DEF Phase, Unlocked, Asking, Updating, Clearing, Alike
  <2> QED BY <1>1, <2>1, <2>2, <2>3, SameLocks DEF Step, Go, TypeOK
<1>4. CASE Removable(q.pc, q.user, row)
  <2>1. row # None /\ RowFree(r, k)
      BY <1>4 DEF Removable, ClearRow
  <2>2. PICK new \in Cleared(q.pc, q.user, row) : Step(r, cleared(new))
      BY <1>4 DEF ClearRow
  <2>3. /\ chapter[k] # None /\ row \in Row /\ RivalNamed(row)
        /\ row.status \in {chapter[k].status, "not_started"}
        /\ q.pc = "leave" => row.status = chapter[k].status
        /\ Disputed(chapter[k]) => Disputed(row) \/ row.drafter = None
    <3>1. CASE q.work[k] # None
      <4>1. k \in q.rows /\ Fits(q.pc, k, q.work[k]) /\ row = q.work[k].row /\ q.work[k] \in Write
          BY <1>1, <3>1 DEF Pending, Seen, RequestState
      <4>2. chapter[k] # None
          BY <4>1, HeldIsFree
      <4> QED BY <1>1, <4>1, <4>2 DEF Fits, Write
    <3>2. CASE q.work[k] = None
      <4>1. row = chapter[k]
          BY <3>2 DEF Seen
      <4> QED BY <1>1, <2>1, <4>1 DEF IInv, Named, TypeOK
    <3> QED BY <3>1, <3>2
  <2>4. /\ new \in Row /\ RivalNamed(new)
        /\ new.status \in {row.status, "not_started"}
        /\ q.pc = "leave" => new.status = row.status
        /\ new.drafter \in {None, row.drafter}
        /\ new.conflict = row.conflict /\ new.rival = row.rival
    <3> HIDE DEF row
    <3> QED BY <1>1, <2>3, ClearedFits
  <2> DEFINE w == [row |-> new, entered |-> FALSE]
             work == Also(q.work, k, new, FALSE)
  <2>5. w # None /\ work \in Works /\ work[k] = w /\ \A j \in Chapters \ {k} : work[j] = q.work[j]
    <3>1. q.work \in Works
        BY <1>1 DEF RequestState, Works
    <3> QED BY <1>1, <2>4, <3>1, AlsoType
  <2>6. w.row = new
      OBVIOUS
  <2> HIDE DEF w, work
  <2>7. Fits(q.pc, k, w)
    <3>1. Disputed(chapter[k]) => Disputed(new) \/ new.drafter = None
        BY <2>3, <2>4 DEF Disputed
    <3> HIDE DEF row
    <3> QED BY <1>1, <2>3, <2>4, <2>6, <3>1 DEF Fits
  <2> DEFINE after == cleared(new)
  <2>8. /\ after \in RequestState
        /\ after.pc = q.pc /\ after.project = q.project /\ after.rows = q.rows \cup {k}
        /\ after.work = work /\ after.answer = q.answer
      BY <1>1, <1>2, <2>5 DEF RequestState, Works, work
  <2>9. /\ request' = [request EXCEPT ![r] = after] /\ clock' \in Nat
        /\ UNCHANGED <<stages, chapter, history, active>>
      BY <1>1, <2>2 DEF Step, Go, TypeOK
  <2> HIDE DEF after
  <2>10. Pending(after)
      BY <1>1, <2>5, <2>7, <2>8 DEF Pending
  <2>11. Phase(after)
      BY <1>1, <2>8 DEF Phase, Unlocked, Asking, Updating, Clearing
  <2>12. Statement(r, after)
      BY <2>1, <2>3, <2>8, <2>9, <2>10, <2>11 DEF Statement
  <2> QED BY <2>8, <2>12 DEF Stated
<1> QED BY <1>3, <1>4

(* ... and commits, with a history for the rows it has read.               *)
LEMMA RemovedShape ==
    ASSUME IInv, NEW r \in Requests, RecordRemoval(r) \/ LeaveOrganization(r)
    PROVE  Stated(r) \/ Removed(r)
<1>1. CASE RecordRemoval(r)
  <2>1. \/ Leave(r)
        \/ \E begun \in SUBSET {k \in Listed(request[r], "undraft") : request[r].listed[k].status = "draft"} :
              CommitRemoval(r, begun)
      BY <1>1 DEF RecordRemoval
  <2>2. ASSUME NEW begun \in SUBSET Listed(request[r], "undraft"), CommitRemoval(r, begun)
        PROVE  Removed(r)
    <3>1. begun \in SUBSET Chapters /\ \A k \in begun : request[r].listed[k] # None
        BY DEF Listed, Removable
    <3>2. Removes(r, begun)
        BY <1>1, <2>2, <3>1 DEF Removes, RecordRemoval
    <3> QED BY <3>1, <3>2 DEF Removed
  <2> QED BY <2>1, <2>2, LeaveShape
<1>2. CASE LeaveOrganization(r)
  <2>1. Removes(r, {})
      BY <1>2 DEF Removes, LeaveOrganization
  <2> QED BY <2>1 DEF Removed
<1> QED BY <1>1, <1>2

-----------------------------------------------------------------------------
(* The manager's edits of the stages.                                      *)

(* Nothing before a stage that is locked can be free.                      *)
LEMMA LockedIsDownward ==
    ASSUME TypeOK, NEW s \in DOMAIN stages, NEW t \in Locked, stages[s] <= stages[t]
    PROVE  s \in Locked
BY DEF Locked, TypeOK

(* A stage is added only while no chapter has reached complete, which      *)
(* moves down.                                                             *)
LEMMA AddStageShape ==
    ASSUME IInv, NEW s \in CustomStages, AddStage(s)
    PROVE  Edit
<1> DEFINE D == DOMAIN stages
           n == Cardinality(D)
           new == [t \in D \cup {s} |-> IF t = s THEN stages["complete"]
                                        ELSE IF t = "complete" THEN stages["complete"] + 1
                                        ELSE stages[t]]
<1>1. /\ s \notin D /\ "complete" \notin Locked /\ stages' = new
      /\ \A r \in Requests : ~request[r].project
      /\ UNCHANGED <<chapter, history, active, request, clock>>
    BY DEF AddStage, EditStages
<1>2. Placed /\ stages \in [D -> Nat] /\ D \subseteq StageNames
    BY DEF IInv, TypeOK
<1>3. IsFiniteSet(D) /\ n \in Nat
    BY <1>2, FS_CardinalityType DEF Placed
<1>4. IsFiniteSet(D \cup {s}) /\ Cardinality(D \cup {s}) = n + 1
    BY <1>1, <1>3, FS_AddElement
<1>5. /\ DOMAIN new = D \cup {s}
      /\ new[s] = n - 1 /\ "complete" \in D /\ "complete" # s /\ new["complete"] = n
      /\ \A t \in D \ {"complete"} : new[t] = stages[t] /\ new[t] \in Nat /\ new[t] < n /\ new[t] # n - 1
      /\ stages["complete"] = n - 1 /\ n - 1 \in Nat
    BY <1>1, <1>2, <1>3 DEF Placed, Fixed
<1> HIDE DEF new
<1>6. new \in [D \cup {s} -> Nat]
  <2>1. new = [t \in D \cup {s} |-> new[t]]
      BY DEF new
  <2> QED BY <1>3, <1>5, <2>1
<1>7. Placed'
  <2>1. \A m \in 0..n : \E t \in D \cup {s} : new[t] = m
    <3> SUFFICES ASSUME NEW m \in 0..n, m # n, m # n - 1 PROVE \E t \in D \cup {s} : new[t] = m
        BY <1>5
    <3>1. m \in 0..n - 1
        BY <1>3
    <3>2. PICK t \in D : stages[t] = m
        BY <1>2, <3>1 DEF Placed
    <3> QED BY <1>5, <3>2
  <2>2. \A t \in D \cup {s} : new[t] < n + 1
      BY <1>3, <1>5
  <2>3. \A t, u \in D \cup {s} : new[t] = new[u] => t = u
    <3>1. \A t, u \in D : stages[t] = stages[u] => t = u
        BY <1>2 DEF Placed
    <3>2. n # n - 1
        BY <1>3
    <3> QED BY <1>3, <1>5, <3>1, <3>2
  <2>4. /\ Fixed \subseteq D \cup {s}
        /\ new["not_started"] = 0 /\ new["draft"] = 1 /\ new["peer_check"] = 2
      BY <1>2, <1>5 DEF Placed, Fixed
  <2>5. new["complete"] = (n + 1) - 1 /\ (n + 1) - 1 = n
      BY <1>3, <1>5
  <2>6. DOMAIN stages' = D \cup {s} /\ Cardinality(DOMAIN stages') = n + 1 /\ IsFiniteSet(DOMAIN stages')
      BY <1>1, <1>4, <1>5
  <2>7. \A m \in 0..Cardinality(DOMAIN stages') - 1 : \E t \in DOMAIN stages' : stages'[t] = m
      BY <1>1, <1>5, <2>1, <2>5, <2>6
  <2>8. /\ \A t \in DOMAIN stages' : stages'[t] < Cardinality(DOMAIN stages')
        /\ \A t, u \in DOMAIN stages' : stages'[t] = stages'[u] => t = u
      BY <1>1, <2>2, <2>3, <2>6
  <2>9. /\ Fixed \subseteq DOMAIN stages'
        /\ stages'["not_started"] = 0 /\ stages'["draft"] = 1 /\ stages'["peer_check"] = 2
        /\ stages'["complete"] = Cardinality(DOMAIN stages') - 1
      BY <1>1, <2>4, <2>5, <2>6
  <2> QED BY <2>6, <2>7, <2>8, <2>9 DEF Placed
<1>8. \A t \in Locked : t \in DOMAIN new /\ new[t] = stages[t]
    BY <1>1, <1>5 DEF Locked
<1>9. DOMAIN new \subseteq StageNames
    BY <1>2, <1>5 DEF StageNames
<1> QED BY <1>1, <1>5, <1>6, <1>7, <1>8, <1>9 DEF Edit

(* A stage that was reached is not deleted, and those after it close the   *)
(* gap.                                                                    *)
LEMMA DeleteStageShape ==
    ASSUME IInv, NEW s \in DOMAIN stages, DeleteStage(s)
    PROVE  Edit
<1> DEFINE D == DOMAIN stages
           n == Cardinality(D)
           p == stages[s]
           new == [t \in D \ {s} |-> IF stages[t] > stages[s] THEN stages[t] - 1 ELSE stages[t]]
<1>1. /\ s \in D \ (Fixed \cup Locked) /\ stages' = new
      /\ \A r \in Requests : ~request[r].project
      /\ UNCHANGED <<chapter, history, active, request, clock>>
    BY DEF DeleteStage, EditStages
<1>2. Placed /\ stages \in [D -> Nat] /\ D \subseteq StageNames /\ TypeOK
    BY DEF IInv, TypeOK
<1>3. IsFiniteSet(D) /\ n \in Nat
    BY <1>2, FS_CardinalityType DEF Placed
<1>4. IsFiniteSet(D \ {s}) /\ Cardinality(D \ {s}) = n - 1
    BY <1>1, <1>3, FS_RemoveElement
<1>5. DOMAIN new = D \ {s}
    OBVIOUS
<1>6. \A t \in D \ {s} : new[t] = IF stages[t] > p THEN stages[t] - 1 ELSE stages[t]
    OBVIOUS
<1>7. \A t \in D : stages[t] \in Nat /\ stages[t] < n
    BY <1>2 DEF Placed
<1>8. \A t, u \in D : stages[t] = stages[u] => t = u
    BY <1>2 DEF Placed
<1> HIDE DEF new
<1>9. new \in [D \ {s} -> Nat]
  <2>1. new = [t \in D \ {s} |-> new[t]]
      BY DEF new
  <2>2. \A t \in D \ {s} : new[t] \in Nat
      BY <1>1, <1>6, <1>7
  <2> QED BY <2>1, <2>2
<1>10. p \in Nat /\ p > 2 /\ p < n - 1
  <2>1. /\ Fixed \subseteq D /\ s \notin Fixed
        /\ stages["not_started"] = 0 /\ stages["draft"] = 1 /\ stages["peer_check"] = 2
        /\ stages["complete"] = n - 1
      BY <1>1, <1>2 DEF Placed
  <2>2. p \notin {0, 1, 2, n - 1}
      BY <1>8, <2>1 DEF Fixed
  <2> QED BY <1>3, <1>7, <2>2
<1>11. Placed'
  <2>1. \A m \in 0..(n - 1) - 1 : \E t \in D \ {s} : new[t] = m
    <3> SUFFICES ASSUME NEW m \in 0..(n - 1) - 1 PROVE \E t \in D \ {s} : new[t] = m
        OBVIOUS
    <3>1. CASE m < p
      <4>1. PICK t \in D : stages[t] = m
          BY <1>2, <1>3 DEF Placed
      <4> QED BY <1>6, <1>10, <3>1, <4>1
    <3>2. CASE ~(m < p)
      <4>1. m + 1 \in 0..n - 1 /\ m + 1 > p /\ (m + 1) - 1 = m
          BY <1>3, <1>10, <3>2
      <4>2. PICK t \in D : stages[t] = m + 1
          BY <1>2, <4>1 DEF Placed
      <4> QED BY <1>6, <1>10, <4>1, <4>2
    <3> QED BY <3>1, <3>2
  <2>2. \A t \in D \ {s} : new[t] < n - 1
      BY <1>3, <1>6, <1>7, <1>10
  <2>3. \A t, u \in D \ {s} : new[t] = new[u] => t = u
    <3> SUFFICES ASSUME NEW t \in D \ {s}, NEW u \in D \ {s}, new[t] = new[u] PROVE stages[t] = stages[u]
        BY <1>8
    <3>1. stages[t] # p /\ stages[u] # p
        BY <1>8
    <3> QED BY <1>6, <1>7, <1>10, <3>1
  <2>4. /\ Fixed \subseteq D \ {s}
        /\ new["not_started"] = 0 /\ new["draft"] = 1 /\ new["peer_check"] = 2
        /\ new["complete"] = (n - 1) - 1
      BY <1>1, <1>2, <1>3, <1>6, <1>10 DEF Placed, Fixed
  <2> QED BY <1>1, <1>4, <1>5, <2>1, <2>2, <2>3, <2>4 DEF Placed
<1>12. \A t \in Locked : t \in DOMAIN new /\ new[t] = stages[t]
  <2> TAKE t \in Locked
  <2>1. t \in D \ {s}
      BY <1>1 DEF Locked
  <2>2. ~(stages[t] > p)
      BY <1>1, <1>2, <1>7, <1>10, <2>1, LockedIsDownward
  <2> QED BY <1>5, <1>6, <2>1, <2>2
<1> QED BY <1>1, <1>2, <1>5, <1>9, <1>11, <1>12 DEF Edit

(* An order is accepted only if it leaves the stages reached where they    *)
(* are.                                                                    *)
LEMMA ReorderStagesShape ==
    ASSUME IInv, ReorderStages
    PROVE  Edit
<1> DEFINE D == DOMAIN stages
           n == Cardinality(D)
           movable == D \ (Fixed \cup Locked)
           new(place) == [s \in D |-> IF s \in movable THEN stages[place[s]] ELSE stages[s]]
<1>1. PICK place \in Rearranged(movable) :
         /\ stages' = new(place)
         /\ \A r \in Requests : ~request[r].project
         /\ UNCHANGED <<chapter, history, active, request, clock>>
    BY DEF ReorderStages, EditStages
<1>2. Placed /\ stages \in [D -> Nat] /\ D \subseteq StageNames
    BY DEF IInv, TypeOK
<1>3. place \in [movable -> movable] /\ \A s \in movable : \E t \in movable : place[t] = s
    BY DEF Rearranged
<1>4. \A s, t \in movable : place[s] = place[t] => s = t
  <2>1. IsFiniteSet(movable)
      BY <1>2, FS_Subset DEF Placed
  <2>2. place \in Surjection(movable, movable)
      BY <1>3 DEF Surjection
  <2>3. place \in Injection(movable, movable)
      BY <2>1, <2>2, FS_SurjSameCardinalityImpliesInj
  <2> QED BY <2>3 DEF Injection, IsInjective
<1>5. /\ DOMAIN new(place) = D
      /\ \A s \in movable : new(place)[s] = stages[place[s]] /\ place[s] \in movable
      /\ \A s \in D \ movable : new(place)[s] = stages[s]
    BY <1>3
<1>6. new(place) \in [D -> Nat]
    BY <1>2, <1>3
<1> HIDE DEF new
<1>7. \A s \in Fixed \cup Locked : s \in D /\ s \notin movable
    BY <1>2 DEF Placed, Locked
<1>8. Placed'
  <2>1. \A m \in 0..n - 1 : \E s \in D : new(place)[s] = m
    <3> TAKE m \in 0..n - 1
    <3>1. PICK t \in D : stages[t] = m
        BY <1>2 DEF Placed
    <3>2. CASE t \in movable
        BY <1>3, <1>5, <3>1, <3>2
    <3>3. CASE t \notin movable
        BY <1>5, <3>1, <3>3
    <3> QED BY <3>2, <3>3
  <2>2. \A s \in D : new(place)[s] < n
      BY <1>2, <1>5 DEF Placed
  <2>3. \A s, t \in D : new(place)[s] = new(place)[t] => s = t
    <3>1. \A s, t \in D : stages[s] = stages[t] => s = t
        BY <1>2 DEF Placed
    <3> HIDE DEF movable
    <3> QED BY <1>4, <1>5, <3>1 DEF movable
  <2>4. /\ Fixed \subseteq D
        /\ new(place)["not_started"] = 0 /\ new(place)["draft"] = 1 /\ new(place)["peer_check"] = 2
        /\ new(place)["complete"] = n - 1
      BY <1>2, <1>5, <1>7 DEF Placed, Fixed
  <2> QED BY <1>1, <1>2, <1>5, <2>1, <2>2, <2>3, <2>4 DEF Placed
<1>9. \A s \in Locked : s \in DOMAIN new(place) /\ new(place)[s] = stages[s]
    BY <1>5, <1>7
<1> QED BY <1>1, <1>2, <1>5, <1>6, <1>8, <1>9 DEF Edit

-----------------------------------------------------------------------------
(* The invariant.                                                          *)

(* Every step is a statement, a commit, the commit of a removal, a         *)
(* deletion or an edit.                                                    *)
LEMMA StepShapes ==
    ASSUME IInv, Next
    PROVE  \/ \E r \in Requests : Stated(r) \/ Committed(r) \/ Removed(r)
           \/ \E S \in SUBSET Chapters : Delete(S)
           \/ Edit
<1>1. CASE Manage
  <2>1. \A k \in Chapters : Delete({k}) => \E S \in SUBSET Chapters : Delete(S)
      OBVIOUS
  <2>2. Delete({k \in Chapters : chapter[k] # None}) => \E S \in SUBSET Chapters : Delete(S)
      OBVIOUS
  <2> QED BY <1>1, <2>1, <2>2, AddStageShape, DeleteStageShape, ReorderStagesShape DEF Manage
<1>2. CASE \E r \in Requests : Arrive(r) \/ Proceed(r) \/ Abort(r)
  <2>1. PICK r \in Requests : Arrive(r) \/ Proceed(r) \/ Abort(r)
      BY <1>2
  <2>2. CASE Arrive(r)
      BY <2>2, AskShape, UpdateShape, ResetShape, RemoveShape DEF Arrive, Submit, Claim
  <2>3. CASE Proceed(r)
      BY <2>3, BeginShape, RefreshShape, SubmitPeerCheckShape, ReadAgainShape, AdvanceShape,
         TakeShape, CommitClaimShape, LookShape, FlagConflictShape, ActivateShape,
         ReadItemShape, WriteItemShape, TouchShape, LockForResetShape, LockRowShape,
         ResetRowsShape, ListAffectedShape, ScanShape, ClearRowShape, RemovedShape DEF Proceed
  <2>4. CASE Abort(r)
      BY <2>4, LeaveShape DEF Abort
  <2> QED BY <2>1, <2>2, <2>3, <2>4
<1> QED BY <1>1, <1>2 DEF Next

(* The workflow a project begins with.                                     *)
LEMMA DefaultIsPlaced ==
    ASSUME stages = DefaultWorkflow
    PROVE  /\ Placed
           /\ stages \in [DOMAIN stages -> Nat] /\ DOMAIN stages \subseteq StageNames
<1> DEFINE first == <<"not_started", "draft", "peer_check">>
           names == first \o Reviews \o <<"complete">>
           L == Len(Reviews)
           S == Fixed \cup Range(Reviews)
<1>1. /\ Reviews \in Seq(S) /\ L \in Nat /\ DOMAIN Reviews = 1..L
      /\ \A n \in 1..L : Reviews[n] \in Range(Reviews) /\ Reviews[n] \notin Fixed
  <2>1. Reviews \in Seq(Range(Reviews)) /\ Range(Reviews) \cap Fixed = {}
      BY ReviewsAssumption
  <2>2. L \in Nat /\ DOMAIN Reviews = 1..L
      BY <2>1, LenProperties
  <2>3. Reviews \in Seq(S)
      BY <2>1, SeqMonotonic
  <2> QED BY <2>1, <2>2, <2>3 DEF Range
<1>2. /\ names \in Seq(S) /\ Len(names) = L + 4 /\ DOMAIN names = 1..L + 4
      /\ names[1] = "not_started" /\ names[2] = "draft" /\ names[3] = "peer_check"
      /\ \A n \in 4..L + 3 : n - 3 \in 1..L /\ names[n] = Reviews[n - 3]
      /\ names[L + 4] = "complete"
  <2>1. first \in Seq(S) /\ Len(first) = 3 /\ <<"complete">> \in Seq(S) /\ Len(<<"complete">>) = 1
      BY DEF Fixed
  <2>2. /\ first[1] = "not_started" /\ first[2] = "draft" /\ first[3] = "peer_check"
        /\ <<"complete">>[1] = "complete"
      OBVIOUS
  <2> HIDE DEF S, first
  <2>3. /\ first \o Reviews \in Seq(S) /\ Len(first \o Reviews) = 3 + L
        /\ \A n \in 1..3 + L : (first \o Reviews)[n] = IF n <= 3 THEN first[n] ELSE Reviews[n - 3]
    <3>1. /\ first \o Reviews \in Seq(S) /\ Len(first \o Reviews) = Len(first) + Len(Reviews)
          /\ \A n \in 1..Len(first) + Len(Reviews) :
                (first \o Reviews)[n] = IF n <= Len(first) THEN first[n] ELSE Reviews[n - Len(first)]
        BY <1>1, <2>1, ConcatProperties
    <3> QED BY <2>1, <3>1
  <2>4. /\ names \in Seq(S) /\ Len(names) = (3 + L) + 1
        /\ \A n \in 1..(3 + L) + 1 :
              names[n] = IF n <= 3 + L THEN (first \o Reviews)[n] ELSE <<"complete">>[n - (3 + L)]
      BY <2>1, <2>3, ConcatProperties
  <2>5. DOMAIN names = 1..L + 4 /\ Len(names) = L + 4
      BY <1>1, <2>4, LenProperties
  <2>6. \A n \in 1..L + 4 : names[n] = IF n <= 3 THEN first[n]
                                       ELSE IF n <= L + 3 THEN Reviews[n - 3] ELSE "complete"
      BY <1>1, <2>2, <2>3, <2>4
  <2> HIDE DEF names
  <2> QED BY <1>1, <2>2, <2>4, <2>5, <2>6
<1> HIDE DEF names, L, S
<1>3. \A m, n \in 1..L + 4 : names[m] = names[n] => m = n
  <2>1. \A m, n \in 1..L : Reviews[m] = Reviews[n] => m = n
      BY <1>1, ReviewsAssumption
  <2>2. \A n \in 1..L + 4 : \/ n = 1 \/ n = 2 \/ n = 3 \/ n = L + 4
                            \/ n \in 4..L + 3 /\ names[n] \notin Fixed
      BY <1>1, <1>2
  <2>3. SUFFICES ASSUME NEW m \in 1..L + 4, NEW n \in 1..L + 4, names[m] = names[n] PROVE m = n
      OBVIOUS
  <2>4. CASE m \in 4..L + 3 /\ n \in 4..L + 3
    <3>1. m - 3 = n - 3
        BY <1>2, <2>1, <2>3, <2>4
    <3> QED BY <1>1, <2>4, <3>1
  <2>5. CASE ~(m \in 4..L + 3 /\ n \in 4..L + 3)
      BY <1>1, <1>2, <2>2, <2>3, <2>5 DEF Fixed
  <2> QED BY <2>4, <2>5
<1> DEFINE D == {names[n] : n \in 1..L + 4}
<1>4. /\ DOMAIN stages = D /\ stages = [s \in D |-> stages[s]]
      /\ \A n \in 1..L + 4 : names[n] \in D /\ stages[names[n]] = n - 1
      /\ \A s \in D : \E n \in 1..L + 4 : s = names[n]
  <2> DEFINE e(s) == (CHOOSE n \in DOMAIN names : names[n] = s) - 1
  <2>1. stages = [s \in Range(names) |-> e(s)]
      BY <1>1 DEF DefaultWorkflow, names
  <2>2. Range(names) = D
      BY <1>2 DEF Range
  <2>3. ASSUME NEW n \in DOMAIN names PROVE (CHOOSE m \in DOMAIN names : names[m] = names[n]) = n
      BY <1>2, <1>3
  <2>4. \A n \in DOMAIN names : names[n] \in Range(names)
      BY DEF Range
  <2>5. \A n \in DOMAIN names : stages[names[n]] = n - 1
    <3> TAKE n \in DOMAIN names
    <3>1. stages[names[n]] = (CHOOSE m \in DOMAIN names : names[m] = names[n]) - 1
        BY <2>1, <2>4
    <3> QED BY <2>3, <3>1
  <2> HIDE DEF e
  <2>6. DOMAIN stages = D /\ stages = [s \in D |-> stages[s]]
      BY <2>1, <2>2
  <2> QED BY <1>2, <2>4, <2>5, <2>6
<1>5. IsFiniteSet(D) /\ Cardinality(D) = L + 4
  <2> DEFINE f == [n \in 1..L + 4 |-> names[n]]
  <2>1. f \in Bijection(1..L + 4, D)
      BY <1>3 DEF Bijection, Injection, Surjection, IsInjective
  <2>2. ExistsBijection(1..L + 4, D)
      BY <2>1 DEF ExistsBijection
  <2>3. IsFiniteSet(1..L + 4) /\ Cardinality(1..L + 4) = L + 4
      BY <1>1, FS_Interval
  <2> QED BY <2>2, <2>3, FS_Bijection
<1> HIDE DEF D
<1>6. D \subseteq S
    BY <1>2, <1>4, ElementOfSeq
<1>7. stages \in [D -> Nat]
  <2>1. \A s \in D : stages[s] \in Nat
      BY <1>1, <1>4
  <2> QED BY <1>4, <2>1
<1>8. Placed
  <2>1. \A m \in 0..L + 3 : \E s \in D : stages[s] = m
    <3> TAKE m \in 0..L + 3
    <3>1. m + 1 \in 1..L + 4 /\ (m + 1) - 1 = m
        BY <1>1
    <3> QED BY <1>4, <3>1
  <2>2. \A s \in D : stages[s] < L + 4
      BY <1>1, <1>4
  <2>3. \A s, t \in D : stages[s] = stages[t] => s = t
      BY <1>1, <1>4
  <2>4. /\ 1 \in 1..L + 4 /\ 2 \in 1..L + 4 /\ 3 \in 1..L + 4 /\ L + 4 \in 1..L + 4
        /\ 1 - 1 = 0 /\ 2 - 1 = 1 /\ 3 - 1 = 2 /\ (L + 4) - 1 = L + 3
      BY <1>1
  <2>5. /\ Fixed \subseteq D
        /\ stages["not_started"] = 0 /\ stages["draft"] = 1 /\ stages["peer_check"] = 2
        /\ stages["complete"] = (L + 4) - 1 /\ (L + 4) - 1 = L + 3
    <3>1. /\ names[1] \in D /\ names[2] \in D /\ names[3] \in D /\ names[L + 4] \in D
          /\ stages[names[1]] = 0 /\ stages[names[2]] = 1 /\ stages[names[3]] = 2
          /\ stages[names[L + 4]] = (L + 4) - 1
        BY <1>4, <2>4
    <3> QED BY <1>2, <2>4, <3>1 DEF Fixed
  <2>6. \A m \in 0..Cardinality(D) - 1 : \E s \in D : stages[s] = m
      BY <1>5, <2>1, <2>5
  <2> HIDE DEF D
  <2> QED BY <1>4, <1>5, <2>2, <2>3, <2>5, <2>6 DEF Placed
<1> QED BY <1>4, <1>6, <1>7, <1>8 DEF S, StageNames

(* A project starts with the default stages and the chapters as created.   *)
LEMMA InitIInv == Init => IInv
<1> SUFFICES ASSUME Init PROVE IInv
    OBVIOUS
<1> DEFINE Entry == [status : StageNames, at : Nat]
<1>1. /\ stages = DefaultWorkflow /\ active = FALSE /\ clock = 0
      /\ request = [r \in Requests |-> Idle]
    BY DEF Init
<1>2. /\ Placed
      /\ stages \in [DOMAIN stages -> Nat] /\ DOMAIN stages \subseteq StageNames
    BY <1>1, DefaultIsPlaced
<1>3. PICK start \in Starts :
         /\ chapter = [k \in Chapters |-> start[k].row]
         /\ history = [k \in Chapters |->
               [n \in DOMAIN start[k].past |-> [status |-> start[k].past[n], at |-> 0]]]
    BY DEF Init
<1>4. ASSUME NEW k \in Chapters
      PROVE  /\ chapter[k] \in Row \cup {None}
             /\ history[k] \in Seq(Entry)
             /\ chapter[k] # None =>
                   /\ history[k] # <<>> /\ Last(history[k]).status = chapter[k].status
                   /\ chapter[k].status \in DOMAIN stages /\ RivalNamed(chapter[k])
  <2> DEFINE past == start[k].past
             h == [n \in DOMAIN past |-> [status |-> past[n], at |-> 0]]
  <2>1. /\ start[k].row \in Row \cup {None} /\ past \in Seq(DOMAIN stages)
        /\ start[k].row # None =>
              /\ past # <<>> /\ Last(past) = start[k].row.status
              /\ ~start[k].row.conflict /\ start[k].row.rival = None
      BY <1>1, <1>3, StartsAssumption
  <2>2. chapter[k] = start[k].row /\ history[k] = h
      BY <1>3
  <2>3. Len(past) \in Nat /\ DOMAIN past = 1..Len(past) /\ \A n \in DOMAIN past : past[n] \in DOMAIN stages
      BY <2>1, LenProperties
  <2>4. h \in [1..Len(past) -> Entry]
      BY <1>2, <2>3
  <2>5. \A n \in DOMAIN past : h[n].status = past[n]
      OBVIOUS
  <2> HIDE DEF Entry, h, past
  <2>6. h \in Seq(Entry) /\ Len(h) = Len(past)
    <3>1. h \in Seq(Entry)
        BY <2>3, <2>4, SeqDef
    <3> QED BY <2>3, <2>4, <3>1, LenProperties
  <2>7. chapter[k] # None => h # <<>> /\ Last(h).status = Last(past) /\ Last(past) \in DOMAIN stages
    <3> SUFFICES ASSUME chapter[k] # None
                 PROVE  h # <<>> /\ Last(h).status = Last(past) /\ Last(past) \in DOMAIN stages
        OBVIOUS
    <3>1. past # <<>> /\ Len(past) \in DOMAIN past
        BY <2>1, <2>2, <2>3, EmptySeq DEF past
    <3> QED BY <2>3, <2>5, <2>6, <3>1, EmptySeq DEF Last
  <2> QED BY <2>1, <2>2, <2>6, <2>7 DEF RivalNamed
<1>5. TypeOK
  <2>1. history = [k \in Chapters |-> history[k]] /\ chapter = [k \in Chapters |-> chapter[k]]
      BY <1>3
  <2>2. history \in [Chapters -> Seq(Entry)] /\ chapter \in [Chapters -> Row \cup {None}]
      BY <1>4, <2>1
  <2> QED BY <1>1, <1>2, <2>2, IdleType DEF TypeOK
<1>6. Staged /\ Entered /\ Named
  <2>1. Staged /\ Named
      BY <1>4 DEF Staged, Named
  <2>2. Entered
    <3> SUFFICES ASSUME NEW k \in Chapters, chapter[k] # None
                 PROVE  \E e \in Range(history[k]) : chapter[k].status = e.status
        BY DEF Entered
    <3>1. history[k] \in Seq(Entry) /\ history[k] # <<>> /\ Last(history[k]).status = chapter[k].status
        BY <1>4
    <3> HIDE DEF Entry
    <3>2. Last(history[k]) \in Range(history[k])
        BY <3>1 DEF Last, Range
    <3> QED BY <3>1, <3>2
  <2> QED BY <2>1, <2>2
<1>7. Locks
    BY <1>1, IdleType DEF Locks
<1>8. \A r \in Requests : Pending(request[r]) /\ Phase(request[r])
    BY <1>1, IdleType DEF Pending, NoWork, Phase, Unlocked, Asking, Updating
<1> QED BY <1>2, <1>5, <1>6, <1>7, <1>8 DEF IInv

(* Every step keeps the invariant, by the five shapes.                     *)
LEMMA NextKeeps ==
    ASSUME IInv, [Next]_vars
    PROVE  IInv'
<1>1. CASE Next
    BY <1>1, StepShapes, StatementKeeps, CommitKeeps, RemovalKeeps, DeleteKeeps, EditKeeps
       DEF Stated, Committed, Removed
<1>2. CASE UNCHANGED vars
  <2>1. UNCHANGED <<stages, chapter, history, active, request, clock>>
      BY <1>2 DEF vars
  <2>2. TypeOK' /\ Placed' /\ Staged' /\ Entered' /\ Named' /\ Locks'
    <3>1. TypeOK'
        BY <2>1 DEF IInv, TypeOK
    <3>2. Placed' /\ Staged'
        BY <2>1 DEF IInv, Placed, Staged
    <3>3. Entered' /\ Named' /\ Locks'
        BY <2>1 DEF IInv, Entered, Named, Locks
    <3> QED BY <3>1, <3>2, <3>3
  <2>3. ASSUME NEW r \in Requests PROVE Pending(request[r])' /\ Phase(request[r])'
    <3>1. Pending(request[r]) /\ Phase(request[r])
        BY DEF IInv
    <3>2. Pending(request[r])'
        BY <2>1, <3>1 DEF Pending, Fits
    <3>3. Phase(request[r])'
        BY <2>1, <3>1 DEF Phase, Advancing, Claimed, NextStages
    <3> QED BY <3>2, <3>3
  <2> QED BY <2>2, <2>3 DEF IInv
<1> QED BY <1>1, <1>2

(* The invariant the theorems of this module rest on.                      *)
THEOREM Invariance == Spec => []IInv
<1>1. IInv /\ [Next]_vars => IInv'
    BY NextKeeps
<1> QED BY InitIInv, <1>1, PTL DEF Spec

(* Assignments, histories and what transactions have read and locked are   *)
(* of their types.                                                         *)
THEOREM TypeCorrect == Spec => []TypeOK
<1>1. IInv => TypeOK
    BY DEF IInv
<1> QED BY Invariance, <1>1, PTL

(* Whatever the managers do to the stages while submissions, updates and   *)
(* resets are under way, the workflow keeps its order and no chapter is    *)
(* left in a stage it does not have.                                       *)
THEOREM WellFormed == Spec => []WorkflowWellFormed
<1>1. IInv => WorkflowWellFormed
    BY DEF IInv, Placed, Staged, WorkflowWellFormed
<1> QED BY Invariance, <1>1, PTL

-----------------------------------------------------------------------------
(* What a step may never do.                                               *)

(* Whatever changes the status of a chapter records it, although it        *)
(* compares with a row read without a lock: the last status history row is *)
(* the status, and only the removal of a member makes them differ.         *)
THEOREM HistoryFollows == Spec => HistoryFollowsStatus
<1> DEFINE Kept ==
      \A k \in Chapters :
          chapter'[k] # None /\ ~RemovedFrom(k, {"uncheck"}) =>
              \/ Follows(k)'
              \/ ~Follows(k) /\ chapter'[k].status = chapter[k].status
<1>1. ASSUME IInv, [Next]_vars PROVE [Kept]_vars
  <2> SUFFICES ASSUME Next, NEW k \in Chapters, chapter'[k] # None, ~RemovedFrom(k, {"uncheck"})
               PROVE  \/ Follows(k)'
                      \/ ~Follows(k) /\ chapter'[k].status = chapter[k].status
      BY <1>1
  <2>1. SUFFICES ASSUME ~(history'[k] = history[k] /\ chapter'[k].status = chapter[k].status)
                 PROVE  Follows(k)'
      BY DEF Follows
  <2>2. CASE \E r \in Requests : Committed(r)
    <3>1. PICK r \in Requests, work \in Works, answer \in Answers : Commits(r, work, answer)
        BY <2>2 DEF Committed
    <3> DEFINE entry == [status |-> work[k].row.status, at |-> request[r].at]
    <3>2. /\ chapter'[k] = IF work[k] # None THEN work[k].row ELSE chapter[k]
          /\ history'[k] = IF work[k] # None /\ work[k].entered THEN Append(history[k], entry)
                           ELSE history[k]
        BY <1>1, <3>1, CommitEffect DEF IInv, Commits
    <3>3. history[k] \in Seq([status : StageNames, at : Nat]) /\ entry.status = work[k].row.status
        BY <1>1 DEF IInv, TypeOK
    <3> HIDE DEF entry
    <3>4. work[k] # None /\ work[k].entered
        BY <2>1, <3>1, <3>2 DEF Commits, MayCommit
    <3>5. Append(history[k], entry) # <<>> /\ Last(Append(history[k], entry)) = entry
        BY <3>3, AppendedRange
    <3> QED BY <3>2, <3>3, <3>4, <3>5 DEF Follows
  <2>3. CASE \E r \in Requests : Removed(r)
    <3>1. PICK r \in Requests, begun \in SUBSET Chapters : Removes(r, begun)
        BY <2>3 DEF Removed
    <3>2. /\ \/ request[r].work[k] = None /\ chapter'[k] = chapter[k]
             \/ /\ request[r].work[k] # None /\ Fits(request[r].pc, k, request[r].work[k])
                /\ chapter'[k] = request[r].work[k].row
          /\ history'[k] = history[k] \/ k \in begun
          /\ request'[r] = Answered(None)
        BY <1>1, <3>1, RemovalEffect
    <3>3. request'[r].pc = "idle"
        BY <3>2 DEF Answered, Idle
    <3>4. request[r].pc = "leave" \/ (request[r].work[k] = None /\ request[r].listed[k] = None)
        BY <3>1, <3>3 DEF RemovedFrom, Removes
    <3> QED BY <2>1, <3>1, <3>2, <3>4 DEF Removes, Fits, Clearing
  <2>4. CASE (\E S \in SUBSET Chapters : Delete(S)) \/ Edit \/ \E r \in Requests : Stated(r)
    <3>1. chapter'[k] = chapter[k] /\ history'[k] = history[k]
        BY <2>4 DEF Delete, Edit, Stated, Statement
    <3> QED BY <2>1, <3>1
  <2> QED BY <1>1, <2>2, <2>3, <2>4, StepShapes
<1> QED BY Invariance, <1>1, PTL DEF Spec, HistoryFollowsStatus

(* A claim conflict names a loser, and stays between the loser and another *)
(* drafter until it is ended or a removal takes the drafter away.          *)
THEOREM Conflicts == Spec => ConflictHasRival
<1> DEFINE Kept ==
      \A k \in Chapters :
          chapter[k] # None /\ chapter'[k] # None =>
              /\ chapter'[k].conflict <=> chapter'[k].rival # None
              /\ Disputed(chapter[k]) =>
                    \/ Disputed(chapter'[k])
                    \/ chapter'[k].drafter = None /\ RemovedFrom(k, {"uncheck", "leave"})
<1>1. ASSUME IInv, [Next]_vars PROVE [Kept]_vars
  <2> SUFFICES ASSUME Next, NEW k \in Chapters, chapter[k] # None, chapter'[k] # None
               PROVE  /\ chapter'[k].conflict <=> chapter'[k].rival # None
                      /\ Disputed(chapter[k]) =>
                            \/ Disputed(chapter'[k])
                            \/ chapter'[k].drafter = None /\ RemovedFrom(k, {"uncheck", "leave"})
      BY <1>1
  <2>1. chapter'[k].conflict <=> chapter'[k].rival # None
    <3>1. IInv'
        BY <1>1, NextKeeps
    <3> QED BY <3>1 DEF IInv, Named, RivalNamed
  <2>2. SUFFICES ASSUME chapter'[k] # chapter[k], Disputed(chapter[k]), ~Disputed(chapter'[k])
                 PROVE  chapter'[k].drafter = None /\ RemovedFrom(k, {"uncheck", "leave"})
      BY <2>1
  <2>3. CASE \E r \in Requests : Committed(r)
    <3>1. PICK r \in Requests, work \in Works, answer \in Answers : Commits(r, work, answer)
        BY <2>3 DEF Committed
    <3>2. chapter'[k] = IF work[k] # None THEN work[k].row ELSE chapter[k]
        BY <1>1, <3>1, CommitEffect DEF IInv, Commits
    <3> QED BY <2>2, <3>1, <3>2 DEF Commits, MayCommit
  <2>4. CASE \E r \in Requests : Removed(r)
    <3>1. PICK r \in Requests, begun \in SUBSET Chapters : Removes(r, begun)
        BY <2>4 DEF Removed
    <3>2. /\ request[r].work[k] # None /\ Fits(request[r].pc, k, request[r].work[k])
          /\ chapter'[k] = request[r].work[k].row /\ request'[r] = Answered(None)
        BY <1>1, <2>2, <3>1, RemovalEffect
    <3>3. request'[r].pc = "idle" /\ request[r].pc \in {"uncheck", "leave"}
        BY <3>1, <3>2 DEF Answered, Idle, Removes
    <3> QED BY <2>2, <3>2, <3>3 DEF RemovedFrom, Fits, Clearing
  <2>5. CASE (\E S \in SUBSET Chapters : Delete(S)) \/ Edit \/ \E r \in Requests : Stated(r)
    <3>1. chapter'[k] \in {None, chapter[k]}
        BY <2>5 DEF Delete, Edit, Stated, Statement
    <3> QED BY <2>2, <3>1
  <2> QED BY <1>1, <2>3, <2>4, <2>5, StepShapes
<1> QED BY Invariance, <1>1, PTL DEF Spec, ConflictHasRival

(* A stage some chapter has reached keeps its place.                       *)
THEOREM ReachedStay == Spec => ReachedStagesStay
<1> DEFINE Stay == \A s \in Locked : s \in DOMAIN stages' /\ stages'[s] = stages[s]
<1>1. ASSUME IInv, [Next]_vars PROVE [Stay]_vars
  <2> SUFFICES ASSUME Next PROVE Stay
      BY <1>1
  <2>1. Edit \/ stages' = stages
      BY <1>1, StepShapes DEF Stated, Statement, Committed, Commits, Commit, Removed, Removes,
         CommitRemoval, Delete
  <2> QED BY <2>1 DEF Edit, Locked
<1> QED BY Invariance, <1>1, PTL DEF Spec, ReachedStagesStay

(* Only a user who is not the drafter takes a chapter past peer check, and *)
(* one stage at a time.                                                    *)
THEOREM PeerChecked == Spec => PeerCheckedByOther
<1> DEFINE Checked ==
      \A k \in Chapters :
          (/\ chapter[k] # None /\ chapter[k].status = "peer_check" /\ chapter'[k] # None
           /\ chapter'[k].status \notin {"not_started", "draft", "peer_check"})
          => /\ chapter'[k].checker \notin {None, chapter[k].drafter}
             /\ chapter[k].drafter # None
             /\ chapter'[k].status \in NextStages("peer_check")
<1>1. ASSUME IInv, [Next]_vars PROVE [Checked]_vars
  <2> SUFFICES ASSUME Next PROVE Checked
      BY <1>1
  <2>1. CASE \E r \in Requests : Committed(r)
    <3>1. PICK r \in Requests, work \in Works, answer \in Answers : Commits(r, work, answer)
        BY <2>1 DEF Committed
    <3>2. \A k \in Chapters : chapter'[k] = IF work[k] # None THEN work[k].row ELSE chapter[k]
        BY <1>1, <3>1, CommitEffect DEF IInv, Commits
    <3> QED BY <3>1, <3>2 DEF Commits, MayCommit
  <2>2. CASE \E S \in SUBSET Chapters : Delete(S)
    <3>1. \A k \in Chapters : chapter'[k] \in {None, chapter[k]}
        BY <2>2 DEF Delete
    <3> QED BY <3>1
  <2>3. CASE Edit \/ \E r \in Requests : Stated(r)
      BY <2>3 DEF Edit, Stated, Statement
  <2>4. CASE \E r \in Requests : Removed(r)
    <3>1. PICK r \in Requests, begun \in SUBSET Chapters : Removes(r, begun)
        BY <2>4 DEF Removed
    <3>2. \A k \in Chapters :
            \/ chapter'[k] = chapter[k]
            \/ /\ Fits(request[r].pc, k, request[r].work[k])
               /\ chapter'[k] = request[r].work[k].row
        BY <1>1, <3>1, RemovalEffect
    <3>3. request[r].pc \in Clearing
        BY <3>1 DEF Removes, Clearing
    <3> QED BY <3>2, <3>3 DEF Fits
  <2> QED BY <1>1, <2>1, <2>2, <2>3, <2>4, StepShapes
<1> QED BY Invariance, <1>1, PTL DEF Spec, PeerCheckedByOther

(* A claim is never answered with what its commit has not stored.          *)
THEOREM ClaimAnswers == Spec => ClaimAnswersStored
<1> DEFINE Stored ==
      \A r \in Requests :
          LET k == Target(r)
              u == request[r].user IN
          /\ (request'[r].answer = "claimed" /\ request[r].answer # "claimed") =>
                chapter[k].drafter = None /\ chapter'[k].drafter = u
          /\ (request'[r].answer = "conflict" /\ request[r].answer # "conflict") =>
                chapter'[k].conflict /\ chapter'[k].drafter \notin {None, u}
<1>1. ASSUME IInv, [Next]_vars PROVE [Stored]_vars
  <2> SUFFICES ASSUME Next PROVE Stored
      BY <1>1
  <2>1. TypeOK
      BY <1>1 DEF IInv
  <2>2. CASE \E r \in Requests : Committed(r)
    <3>1. PICK r \in Requests, work \in Works, answer \in Answers : Commits(r, work, answer)
        BY <2>2 DEF Committed
    <3>2. /\ \A k \in Chapters : work[k] # None => chapter'[k] = work[k].row
          /\ request'[r] = Answered(answer)
          /\ \A p \in Requests \ {r} : request'[p] = request[p]
        BY <2>1, <3>1, CommitEffect DEF Commits
    <3>3. request'[r].answer = answer
        BY <3>2, IdleOK
    <3> QED BY <3>1, <3>2, <3>3 DEF Commits, AnswersWork
  <2>3. CASE \E r \in Requests : Stated(r)
    <3>1. PICK r \in Requests, q \in RequestState : Statement(r, q)
        BY <2>3 DEF Stated
    <3>2. request'[r] = q /\ \A p \in Requests \ {r} : request'[p] = request[p]
        BY <2>1, <3>1 DEF Statement, TypeOK
    <3> QED BY <3>1, <3>2, NullAssumption DEF Statement
  <2>4. CASE Edit \/ \E S \in SUBSET Chapters : Delete(S)
      BY <2>4 DEF Edit, Delete
  <2>5. CASE \E r \in Requests : Removed(r)
    <3>1. PICK r \in Requests, begun \in SUBSET Chapters : Removes(r, begun)
        BY <2>5 DEF Removed
    <3>2. request'[r] = Answered(None) /\ \A p \in Requests \ {r} : request'[p] = request[p]
        BY <1>1, <3>1, RemovalEffect
    <3>3. request'[r].answer = None
        BY <3>2, IdleOK DEF Answers
    <3> QED BY <3>2, <3>3, NullAssumption
  <2> QED BY <1>1, <2>2, <2>3, <2>4, <2>5, StepShapes
<1> QED BY Invariance, <1>1, PTL DEF Spec, ClaimAnswersStored
=============================================================================
