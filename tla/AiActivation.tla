---------------------------- MODULE AiActivation ----------------------------
(***************************************************************************)
(* The AI suggestions of one language family: the project units that share *)
(* an organization, a source and a target language.  A suggestion is asked *)
(* for only once the family has a number of drafted verses; the save that  *)
(* takes it there makes up for the chapters assigned before.               *)
(* domains/translated-verses, domains/ai-suggestions and                   *)
(* workers/ai-trigger.worker.                                              *)
(*                                                                         *)
(* A save is a transaction of several statements (READ COMMITTED); what    *)
(* else a request does are single queries between two awaits.  A queue of  *)
(* policy exclusive keeps one job for each verse.  The service that writes *)
(* the suggestions is external: it answers the trigger at once, and stores *)
(* what it has generated later, or never.                                  *)
(***************************************************************************)
EXTENDS Naturals, FiniteSets, Sequences

CONSTANTS
    Requests,   \* the requests of a behaviour; each is served once
    Nobody,     \* none of them
    Units,      \* the project units of the family
    Verses,     \* <<chapter, number>>, the bible texts
    Groups,     \* chapter -> its pericopes, sequences of sets of verses, or <<>>
    Threshold,  \* AI_ACTIVATION_THRESHOLD_VERSES, positive
    Lookahead,  \* AI_DEFAULT_LOOKAHEAD
    Initially,  \* AI_INITIAL_QUEUE_COUNT
    Batch,      \* batchSize of the worker
    Retries,    \* retryLimit of the queue
    Saves,      \* what is saved: records [unit, verse, content]
    Imports,    \* what is imported: sets of such records
    Calls,      \* the other calls: [kind, unit, verse, on]
    Drafted,    \* the verses, pairs <<unit, verse>>, drafted to begin with
    Enabled     \* [<<unit, chapter>> -> "none", "off" or "on"] to begin with

VARIABLES
    draft,       \* translated_verses: [Units \X Verses -> content]
    suggested,   \* ai_suggestions, pairs <<unit, verse>>
    toggle,      \* chapter_assignments.isAiEnabled; "none": not assigned
    lock,        \* who holds the advisory lock of the family
    request,     \* [Requests -> what it is doing]
    job,         \* live jobs: pair -> attempts that have failed
    batch,       \* the pairs the worker has taken
    generating,  \* the pairs the external service has been asked for
    history      \* what has happened, for the properties

vars == <<draft, suggested, toggle, lock, request, job, batch, generating, history>>

Pairs == Units \X Verses
Chapters == {v[1] : v \in Verses}

(* blank: white space only.                                                *)
Contents == {"absent", "empty", "blank", "imported", "words"}

(* familyHasReachedAiActivationThreshold counts trimmed content, and the   *)
(* queries that choose verses compare it with ''.                          *)
HasWords(content) == content \in {"imported", "words"}
NoDraft(content) == content \in {"absent", "empty"}

Idle == [pc |-> "idle", kind |-> "none", unit |-> CHOOSE u \in Units : TRUE,
         verse |-> CHOOSE v \in Verses : TRUE, content |-> "absent", before |-> FALSE,
         crossed |-> FALSE, todo |-> <<>>, wanted |-> {}, result |-> "none"]

Steps == {"idle", "lock", "write", "measure", "commit", "gate", "read", "met", "send", "done"}

Kinds == {"none", "save", "navigate", "toggle", "assign", "pericopes"}
Request ==
    [pc : Steps, kind : Kinds, unit : Units, verse : Verses, content : Contents,
     before : BOOLEAN, crossed : BOOLEAN, todo : Seq(Nat),
     wanted : SUBSET Pairs, result : {"none", "ok", "failed"}]

TypeOK ==
    /\ draft \in [Pairs -> Contents]
    /\ suggested \subseteq Pairs
    /\ toggle \in [Units \X Chapters -> {"none", "off", "on"}]
    /\ lock \in Requests \cup {Nobody}
    /\ request \in [Requests -> Request]
    /\ DOMAIN job \subseteq Pairs /\ \A p \in DOMAIN job : job[p] \in 0..Retries
    /\ batch \subseteq DOMAIN job
    /\ generating \subseteq Pairs
    /\ history \in [claims : BOOLEAN, claimed : BOOLEAN, imported : BOOLEAN,
                    cleared : BOOLEAN, lost : SUBSET Pairs]

(* What is asked of a family: a save has a content of its own, an import   *)
(* fills in for it.                                                        *)
AskedOK ==
    /\ Units # {} /\ Verses # {} /\ Verses \subseteq Nat \X Nat /\ Nobody \notin Requests
    /\ Retries \in Nat /\ Enabled \in [Units \X Chapters -> {"none", "off", "on"}]
    /\ Saves \subseteq [unit : Units, verse : Verses, content : {"empty", "blank", "words"}]
    /\ \A rows \in Imports : \A s \in rows : s.content \in Contents
    /\ \A call \in Calls : call.unit \in Units /\ call.verse \in Verses

-----------------------------------------------------------------------------
(* The activation threshold.                                               *)

(* Mutant of ReachedWith: the family counts the rows it has.               *)
ReachedWithRows(drafts) == Cardinality({p \in Pairs : drafts[p] # "absent"}) >= Threshold

ReachedWith(drafts) == Cardinality({p \in Pairs : HasWords(drafts[p])}) >= Threshold
Reached == ReachedWith(draft)

Move(r, q) == request' = [request EXCEPT ![r] = q]
Done(q, result) ==
    [Idle EXCEPT !.pc = "done", !.kind = q.kind, !.unit = q.unit, !.verse = q.verse,
                 !.crossed = q.crossed, !.result = result]
Pair(q) == <<q.unit, q.verse>>

(* A save that is between its write and its commit holds the rows of the   *)
(* verse and of the project.                                               *)
Writing(r) == request[r].pc \in {"measure", "commit"}

Begin(kind, u, v, content) ==
    [Idle EXCEPT !.kind = kind, !.unit = u, !.verse = v, !.content = content]

UnchangedByRequests == UNCHANGED <<suggested, batch, generating>>

(* claimActivationCrossing: an active family takes no lock.                *)
Save(r, s) ==
    /\ request[r].pc = "idle"
    /\ Move(r, [Begin("save", s.unit, s.verse, s.content) EXCEPT
                   !.pc = IF Reached THEN "write" ELSE "lock", !.before = Reached])
    /\ UnchangedByRequests /\ UNCHANGED <<draft, toggle, lock, job, history>>

(* Mutant of Lock: nobody waits.                                           *)
LockNothing(r) ==
    /\ request[r].pc = "lock"
    /\ Move(r, [request[r] EXCEPT !.pc = "write", !.before = Reached])
    /\ UnchangedByRequests /\ UNCHANGED <<draft, lock, toggle, job, history>>

(* lockAiActivationFamily, and the measurement before the write.           *)
Lock(r) ==
    /\ request[r].pc = "lock" /\ lock = Nobody
    /\ lock' = r
    /\ Move(r, [request[r] EXCEPT !.pc = "write", !.before = Reached])
    /\ UnchangedByRequests /\ UNCHANGED <<draft, toggle, job, history>>

(* The upsert and touchProjectActivity wait for rows other saves hold.     *)
Write(r) ==
    /\ request[r].pc = "write"
    /\ \A o \in Requests : Writing(o) => request[o].unit # request[r].unit
    /\ Move(r, [request[r] EXCEPT !.pc = IF request[r].before THEN "commit" ELSE "measure"])
    /\ UnchangedByRequests /\ UNCHANGED <<draft, toggle, lock, job, history>>

(* The measurement after the write sees it, uncommitted as it is.          *)
Measure(r) ==
    /\ request[r].pc = "measure"
    /\ Move(r, [request[r] EXCEPT !.pc = "commit",
                   !.crossed = ReachedWith([draft EXCEPT ![Pair(request[r])] = request[r].content])])
    /\ UnchangedByRequests /\ UNCHANGED <<draft, toggle, lock, job, history>>

(* What a commit of drafts means for the properties.                       *)
Remember(crossed, drafts, imported) ==
    history' = [history EXCEPT
        !.claimed = @ \/ crossed,
        !.claims = (@ \/ crossed) /\ ReachedWith(drafts),
        !.imported = @ \/ imported,
        !.cleared = @ \/ \E p \in Pairs : ~NoDraft(draft[p]) /\ NoDraft(drafts[p])]

(* The commit ends the lock as well.  The save that crossed goes on to the *)
(* backfill of its chapter and the next one, handleThresholdCrossed.       *)
Commit(r) ==
    LET q == request[r] IN
    /\ q.pc = "commit"
    /\ draft' = [draft EXCEPT ![Pair(q)] = q.content]
    /\ Remember(q.crossed, draft', FALSE)
    /\ lock' = IF lock = r THEN Nobody ELSE lock
    /\ IF q.crossed
       THEN Move(r, [Done(q, "ok") EXCEPT !.pc = "gate", !.todo = <<q.verse[1], q.verse[1] + 1>>])
       ELSE Move(r, Done(q, "ok"))
    /\ UnchangedByRequests /\ UNCHANGED <<toggle, job>>

(* Mutant of Import: the rows are upserted.                                *)
ImportOver(rows) ==
    /\ \A o \in Requests, s \in rows : Writing(o) => request[o].unit # s.unit
    /\ draft' = [p \in Pairs |-> IF \E s \in rows : <<s.unit, s.verse>> = p
                                 THEN (CHOOSE s \in rows : <<s.unit, s.verse>> = p).content
                                 ELSE draft[p]]
    /\ draft' # draft
    /\ Remember(FALSE, draft', TRUE)
    /\ UnchangedByRequests /\ UNCHANGED <<toggle, lock, request, job>>

(* insertMissing: an imported project brings drafts and claims nothing.    *)
Import(rows) ==
    /\ \A o \in Requests, s \in rows : Writing(o) => request[o].unit # s.unit
    /\ draft' = [p \in Pairs |-> IF draft[p] = "absent" /\ \E s \in rows : <<s.unit, s.verse>> = p
                                 THEN (CHOOSE s \in rows : <<s.unit, s.verse>> = p).content
                                 ELSE draft[p]]
    /\ draft' # draft
    /\ Remember(FALSE, draft', TRUE)
    /\ UnchangedByRequests /\ UNCHANGED <<toggle, lock, request, job>>

(* Mutant of Fail: the lock is the session's, not the transaction's.       *)
FailHolding(r) ==
    /\ request[r].pc \notin {"idle", "done"}
    /\ Move(r, Done(request[r], "failed"))
    /\ UnchangedByRequests /\ UNCHANGED <<draft, toggle, lock, job, history>>

(* A query throws, or the request dies with its process: a transaction is  *)
(* rolled back, and what is left of a call given up.                       *)
Fail(r) ==
    /\ request[r].pc \notin {"idle", "done"}
    /\ Move(r, Done(request[r], "failed"))
    /\ lock' = IF lock = r THEN Nobody ELSE lock
    /\ UnchangedByRequests /\ UNCHANGED <<draft, toggle, job, history>>

-----------------------------------------------------------------------------
(* Which verses are queued, and when.                                      *)

(* Mutant of Toggle: nothing is queued for a chapter that was assigned.    *)
ToggleQuietly(r, call) ==
    LET place == <<call.unit, call.verse[1]>> IN
    /\ request[r].pc = "idle" /\ call.kind = "toggle" /\ toggle[place] # "none"
    /\ toggle' = [toggle EXCEPT ![place] = IF call.on THEN "on" ELSE "off"]
    /\ Move(r, Done(Begin("toggle", call.unit, call.verse, "absent"), "ok"))
    /\ UnchangedByRequests /\ UNCHANGED <<draft, lock, job, history>>

(* updateChapterAssignmentAiStatus: the switch is committed first.         *)
Toggle(r, call) ==
    LET place == <<call.unit, call.verse[1]>> IN
    /\ request[r].pc = "idle" /\ call.kind = "toggle" /\ toggle[place] # "none"
    /\ toggle' = [toggle EXCEPT ![place] = IF call.on THEN "on" ELSE "off"]
    /\ Move(r, IF call.on
               THEN [Begin("toggle", call.unit, call.verse, "absent") EXCEPT
                        !.pc = "gate", !.todo = <<call.verse[1]>>, !.result = "ok"]
               ELSE Done(Begin("toggle", call.unit, call.verse, "absent"), "ok"))
    /\ UnchangedByRequests /\ UNCHANGED <<draft, lock, job, history>>

(* handleChapterAssigned after an assignment or a claim, queueNextVerses   *)
(* and queuePericopes begin.                                               *)
Call(r, call) ==
    /\ request[r].pc = "idle" /\ call.kind \in {"assign", "navigate", "pericopes"}
    /\ Move(r, [Begin(call.kind, call.unit, call.verse, "absent") EXCEPT
                   !.pc = IF call.kind = "pericopes" THEN "read" ELSE "gate",
                   !.todo = <<call.verse[1]>>, !.result = "ok"])
    /\ UnchangedByRequests /\ UNCHANGED <<draft, toggle, lock, job, history>>

(* The next chapter of the backfill, or the end.                           *)
Next1(q) ==
    IF Len(q.todo) > 1 THEN [q EXCEPT !.pc = "gate", !.todo = Tail(@), !.wanted = {}]
    ELSE Done(q, q.result)

EnabledIn(u, c) == c \in Chapters /\ toggle[<<u, c>>] = "on"

(* Mutant of Open: only the switch counts.                                 *)
OpenSwitched(q) == EnabledIn(q.unit, Head(q.todo))

(* Both gates, but for the save that has crossed the threshold itself.     *)
Open(q) == EnabledIn(q.unit, Head(q.todo)) /\ (q.kind = "save" \/ Reached)

Gate(r) ==
    LET q == request[r] IN
    /\ q.pc = "gate"
    /\ Move(r, IF Open(q) THEN [q EXCEPT !.pc = "read"] ELSE Next1(q))
    /\ UnchangedByRequests /\ UNCHANGED <<draft, toggle, lock, job, history>>

In(c, group) == {<<c, n>> : n \in group} \cap Verses

(* The verses of S without a draft or a suggestion.                        *)
Needy(u, S) == {v \in S : NoDraft(draft[<<u, v>>]) /\ <<u, v>> \notin suggested}

(* The first k of them after verse n, findNextUntranslatedVerses.          *)
NextNeedy(u, c, n, k) ==
    LET after == Needy(u, {v \in Verses : v[1] = c /\ v[2] > n})
    IN {v \in after : Cardinality({w \in after : w[2] < v[2]}) < k}

FromVerse(u, v) ==
    LET c == v[1]
        at == {i \in DOMAIN Groups[c] : v[2] \in Groups[c][i]}
    IN IF Groups[c] = <<>> THEN NextNeedy(u, c, v[2], Lookahead)
       ELSE Needy(u, UNION {In(c, Groups[c][i]) : i \in DOMAIN Groups[c] \cap UNION {{j, j + 1} : j \in at}})

FirstPericope(u, c) ==
    IF Groups[c] = <<>> THEN NextNeedy(u, c, 0, Initially) ELSE Needy(u, In(c, Groups[c][1]))

(* queueFromVerse about the verse itself, queueFirstPericope for a chapter *)
(* that is not the verse's, or has just been assigned; queuePericopes, for *)
(* one pericope, looks at the trimmed content.                             *)
Wanted(q) ==
    LET c == Head(q.todo) IN
    CASE q.kind = "pericopes" ->
            {v \in UNION {In(c, g) : g \in {Groups[c][i] : i \in DOMAIN Groups[c]}} :
                /\ \E i \in DOMAIN Groups[c] : {v[2], q.verse[2]} \subseteq Groups[c][i]
                /\ ~HasWords(draft[<<q.unit, v>>]) /\ <<q.unit, v>> \notin suggested}
      [] q.kind = "navigate" \/ (q.kind = "save" /\ c = q.verse[1]) -> FromVerse(q.unit, q.verse)
      [] OTHER -> FirstPericope(q.unit, c)

(* queuePericopes has read the switch with the verses, and looks at the    *)
(* threshold afterwards.                                                   *)
Read(r) ==
    LET q == request[r]
        pairs == {<<q.unit, v>> : v \in Wanted(q)} IN
    /\ q.pc = "read"
    /\ Move(r, IF q.kind = "pericopes" /\ ~EnabledIn(q.unit, q.verse[1]) THEN Next1(q)
               ELSE IF q.kind = "pericopes" THEN [q EXCEPT !.pc = "met", !.wanted = pairs]
               ELSE [q EXCEPT !.pc = "send", !.wanted = pairs])
    /\ UnchangedByRequests /\ UNCHANGED <<draft, toggle, lock, job, history>>

Met(r) ==
    LET q == request[r] IN
    /\ q.pc = "met"
    /\ Move(r, IF Reached THEN [q EXCEPT !.pc = "send"] ELSE Next1(q))
    /\ UnchangedByRequests /\ UNCHANGED <<draft, toggle, lock, job, history>>

(* sendVerseJobs: all are sent, any may fail, and pg-boss drops a job whose *)
(* singleton key is queued or running.                                     *)
Send(r) ==
    LET q == request[r] IN
    /\ q.pc = "send"
    /\ \E sent \in SUBSET q.wanted :
          /\ job' = [p \in DOMAIN job \cup sent |-> IF p \in DOMAIN job THEN job[p] ELSE 0]
          /\ Move(r, Next1([q EXCEPT !.result = IF sent = q.wanted THEN @ ELSE "failed"]))
    /\ UnchangedByRequests /\ UNCHANGED <<draft, toggle, lock, history>>

-----------------------------------------------------------------------------
(* The worker and the external service.                                    *)

Without(pairs) == [p \in DOMAIN job \ pairs |-> job[p]]
UnchangedByWorker == UNCHANGED <<draft, toggle, lock, request>>

Take ==
    /\ batch = {}
    /\ batch' \in {S \in SUBSET DOMAIN job : S # {} /\ Cardinality(S) <= Batch}
    /\ UnchangedByWorker /\ UNCHANGED <<suggested, job, generating, history>>

(* Mutant of Trigger: the batch is not given back.                         *)
TriggerKeeping ==
    /\ batch # {}
    /\ generating' = generating \cup batch
    /\ job' = Without(batch)
    /\ UnchangedByWorker /\ UNCHANGED <<suggested, batch, history>>

(* The service answers: the jobs of the batch are complete.                *)
Trigger ==
    /\ batch # {}
    /\ generating' = generating \cup batch
    /\ job' = Without(batch) /\ batch' = {}
    /\ UnchangedByWorker /\ UNCHANGED <<suggested, history>>

(* Mutant of FailBatch: the failure is swallowed.                          *)
SwallowFailure ==
    /\ batch # {}
    /\ \E heard \in BOOLEAN : generating' = IF heard THEN generating \cup batch ELSE generating
    /\ job' = Without(batch) /\ batch' = {}
    /\ UnchangedByWorker /\ UNCHANGED <<suggested, history>>

(* The trigger fails, or times out though the service has heard it: every  *)
(* job of the batch is retried, or goes to the dead letter queue.          *)
FailBatch ==
    LET dead == {p \in batch : job[p] = Retries} IN
    /\ batch # {}
    /\ \E heard \in BOOLEAN : generating' = IF heard THEN generating \cup batch ELSE generating
    /\ job' = [p \in DOMAIN job \ dead |-> IF p \in batch THEN job[p] + 1 ELSE job[p]]
    /\ batch' = {}
    /\ history' = [history EXCEPT !.lost = @ \cup dead]
    /\ UnchangedByWorker /\ UNCHANGED suggested

(* saveAiSuggestions, which the service calls; it may also give up.        *)
Generate(p) ==
    /\ p \in generating
    /\ generating' = generating \ {p}
    /\ \/ suggested' = suggested \cup {p} /\ UNCHANGED history
       \/ history' = [history EXCEPT !.lost = @ \cup {p}] /\ UNCHANGED suggested
    /\ UnchangedByWorker /\ UNCHANGED <<job, batch>>

-----------------------------------------------------------------------------

Init ==
    /\ \E some \in SUBSET Drafted : draft = [p \in Pairs |-> IF p \in some THEN "words" ELSE "absent"]
    /\ suggested = {}
    /\ toggle = Enabled
    /\ lock = Nobody
    /\ request = [r \in Requests |-> Idle]
    /\ job = [p \in {} |-> 0]
    /\ batch = {}
    /\ generating = {}
    /\ history = [claims |-> FALSE, claimed |-> Reached, imported |-> FALSE,
                  cleared |-> FALSE, lost |-> {}]

Handle(r) ==
    Lock(r) \/ Write(r) \/ Measure(r) \/ Commit(r) \/ Gate(r) \/ Read(r) \/ Met(r) \/ Send(r)

Next ==
    \/ \E r \in Requests : Handle(r) \/ Fail(r)
    \/ \E r \in Requests, s \in Saves : Save(r, s)
    \/ \E r \in Requests, call \in Calls : Toggle(r, call) \/ Call(r, call)
    \/ \E rows \in Imports : Import(rows)
    \/ Take \/ Trigger \/ FailBatch
    \/ \E p \in Pairs : Generate(p)

Spec == Init /\ [][Next]_vars

-----------------------------------------------------------------------------
(* Properties                                                              *)

(* Between two saves that claim to have crossed the threshold the family   *)
(* has been below it: concurrent saves do not both start the backfill.     *)
ClaimedOnce ==
    \A r \in Requests :
        (request[r].pc = "commit" /\ request'[r].pc = "gate") => ~history.claims

(* As long as only saves write drafts, a family is not past the threshold  *)
(* for the first time without a save that has claimed it: concurrent saves *)
(* do not cross it unobserved (the comment of claimActivationCrossing).    *)
(* And nothing is asked of the service before that.                        *)
NoneUnobserved ==
    /\ Reached /\ ~history.imported => history.claimed
    /\ (DOMAIN job # {} \/ generating # {}) => history.claimed \/ history.imported

(* An import never replaces what a translator has saved, however the two   *)
(* transactions interleave.                                                *)
ImportKeepsEdits ==
    \A p \in Pairs : draft[p] # draft'[p] /\ draft'[p] = "imported" => draft[p] = "absent"

(* Somebody takes care of the verse, or has given up on it for good.       *)
Covered(p) ==
    \/ ~NoDraft(draft[p]) \/ p \in suggested
    \/ p \in DOMAIN job \/ p \in generating \/ p \in history.lost

Steady(u, c) == \A call \in Calls : ~(call.kind = "toggle" /\ call.unit = u /\ call.verse[1] = c)

(* A backfill that reported success leaves no verse of the pericope of the *)
(* saved verse, or the next one, to nobody: neither deduplication nor a    *)
(* batch that fails loses one.                                             *)
BackfillComplete ==
    \A r \in Requests :
        LET q == request[r]
            c == q.verse[1] IN
        (/\ q.kind = "save" /\ q.crossed /\ q.pc = "done" /\ q.result = "ok"
         /\ EnabledIn(q.unit, c) /\ Steady(q.unit, c) /\ ~history.cleared)
        => \A i \in DOMAIN Groups[c] : \A j \in {i, i + 1} \cap DOMAIN Groups[c] :
              q.verse[2] \in Groups[c][i] => \A v \in In(c, Groups[c][j]) : Covered(<<q.unit, v>>)

(* A chapter switched on while a save of the chapter before it crosses the *)
(* threshold is noticed by one of the two: the switch is committed before  *)
(* the threshold is read, and the drafts before the switch.                *)
NextChapterNoticed ==
    \A r \in Requests :
        LET q == request[r]
            c == q.verse[1] + 1 IN
        (/\ q.kind = "save" /\ q.crossed /\ q.pc = "done" /\ q.result = "ok"
         /\ EnabledIn(q.unit, c) /\ ~history.cleared
         /\ \A o \in Requests :
               request[o].kind = "toggle" => request[o].pc = "done" /\ request[o].result = "ok")
        => \A v \in Verses :
              v \in (IF Groups[c] = <<>>
                     THEN {w \in Verses : w[1] = c /\ w[2] <= Initially}
                     ELSE In(c, Groups[c][1]))
              => Covered(<<q.unit, v>>)
=============================================================================
