--------------------------- MODULE ImportPipeline ---------------------------
(***************************************************************************)
(* How a book gets into a project with its chapters and its imported       *)
(* verses: the requests that create, change and delete projects and        *)
(* milestones (projects.service.ts, milestones.service.ts,                 *)
(* milestone-usfm-import.service.ts), the worker that ingests the text of  *)
(* the source Bible (ingest-bible-text.worker.ts), the materialization of  *)
(* imported USFM against that text (usfm-import.service.ts), its retries   *)
(* and the sweep that recovers what has been forgotten                     *)
(* (usfm-import-recovery.ts).                                              *)
(*                                                                         *)
(* There is one source Bible.  A transaction of a request shows as the     *)
(* statements that read what others write meanwhile, and as its commit;    *)
(* until then its writes are in the request.  The verses of a book are one *)
(* value, and so are the settings of a project and of a milestone.         *)
(***************************************************************************)
EXTENDS Naturals, FiniteSets, FiniteSetsExt

CONSTANTS
    Requests,     \* the requests to the API in flight
    Projects,     \* the projects there may be
    Units,        \* the ids of milestones (project_units), numbers: one for each
                  \* milestone at first and each request
    Books,        \* the books of the source Bible, numbers
    Chapters,     \* the chapters of each book, numbers
    Calls,        \* what may be requested
    Initial,      \* what there may be at first: [projects, units, links, ingested, jobs]
    Retries,      \* the retryLimit of the queues
    MaxRequests,  \* bound: requests in a behaviour
    MaxFaults,    \* bound: failed statements, sends and fetches, and crashes
    None

VARIABLES
    project,   \* the projects there are
    holder,    \* who has locked a project's row
    unit,      \* the project a milestone belongs to, "unborn" or "deleted"
    held,      \* of a milestone and a book: its link, chapters and verses
    import,    \* of the milestone an import was made in, and a book: where it is, and its state
    text,      \* the chapters of a book that are in bible_texts
    complete,  \* the books with text_ingested_at
    job,       \* the ingestion jobs that wait
    worker,    \* the job that is being done, and how far it is
    retry,     \* the materialization job of a book: state and retries left
    dead,      \* what is in the dead letter queues: <<queue, book>>
    rows,      \* the imports each materialization is at
    sweep,     \* the books the recovery sweep has found ready
    request, started, faults

vars == <<project, holder, unit, held, import, text, complete, job, worker, retry, dead, rows,
          sweep, request, started, faults>>

Materializers == Requests \cup {"ingest", "retry"}
Ids == Units \X Books
NoCall == [kind |-> "none", project |-> None, unit |-> 0, books |-> {}, move |-> {}, target |-> 0,
           remove |-> {}, files |-> FALSE]
Idle == [pc |-> "idle", call |-> NoCall, new |-> 0, places |-> {},
         staged |-> [b \in Books |-> {}], send |-> {}]
NoWork == [pc |-> "idle", job |-> None, todo |-> {}, bad |-> {}, done |-> {}]
Nothing == [link |-> "none", chapters |-> {}, verses |-> FALSE]
NoImport == [at |-> 0, state |-> "none"]
NoRows == [left |-> {}, failed |-> FALSE, pending |-> FALSE]

UnitsOf(p) == {u \in Units : unit[u] = p}
Exists(u) == u \in Units /\ unit[u] \in Projects
Ingest(books, p, u, left) == [books |-> books, project |-> p, unit |-> u, left |-> left]

Kinds == {"none", "createProject", "import", "createMilestone", "update",
          "deleteMilestone", "deleteProject", "cascade"}
Asked == [kind : Kinds, project : Projects \cup {None}, unit : Units \cup {0}, books : SUBSET Books,
          move : SUBSET Books, target : Units \cup {0}, remove : SUBSET Books, files : BOOLEAN]
Steps == {"idle", "lock", "write", "decide", "commit", "enqueue", "read", "materialize", "requeue"}
Request == [pc : Steps, call : Asked, new : Units \cup {0}, places : SUBSET Ids,
            staged : [Books -> SUBSET Chapters], send : SUBSET Books]
Job == [books : SUBSET Books, project : Projects \cup {None}, unit : Units \cup {0}, left : 0 .. Retries]
Work == [pc : {"idle", "fetch", "book", "materialize", "assign"}, job : Job \cup {None},
         todo : SUBSET (Books \X Chapters), bad : SUBSET Books, done : SUBSET Books]

TypeOK ==
    /\ project \subseteq Projects
    /\ holder \in [Projects -> Requests \cup {None}]
    /\ unit \in [Units -> Projects \cup {"unborn", "deleted"}]
    /\ held \in [Units -> [Books -> [link : {"none", "active", "removed"},
                                     chapters : SUBSET Chapters, verses : BOOLEAN]]]
    /\ import \in [Ids -> [at : Units \cup {0}, state : {"none", "pending", "done"}]]
    /\ text \in [Books -> SUBSET Chapters] /\ complete \subseteq Books
    /\ job \subseteq Job /\ worker \in Work
    /\ retry \in [Books -> [state : {"none", "queued", "active"}, left : 0..Retries]]
    /\ request \in [Requests -> Request]
    /\ \A r \in Requests : (request[r].pc = "idle") => (request[r] = Idle)
    /\ \A p \in Projects : holder[p] # None => request[holder[p]].call.project = p

(* What is asked, and what the database is like at first: a project has a  *)
(* book in one milestone, and only it, and a job is of a milestone there   *)
(* is.                                                                     *)
StartOK(d) ==
    /\ d.projects \subseteq Projects /\ d.ingested \subseteq Books /\ d.jobs \subseteq Job
    /\ DOMAIN d.units \subseteq Units /\ \A u \in DOMAIN d.units : d.units[u] \in d.projects
    /\ DOMAIN d.links \subseteq (DOMAIN d.units) \X Books
    /\ \A i \in DOMAIN d.links : d.links[i] \in {"active", "removed"}
    /\ \A i, j \in DOMAIN d.links : i[2] = j[2] /\ d.units[i[1]] = d.units[j[1]] => i = j
    /\ \A j \in d.jobs : j.unit # 0 => j.unit \in DOMAIN d.units
AskedOK ==
    /\ Units \subseteq Nat \ {0} /\ Books \subseteq Nat /\ Chapters \subseteq Nat
    /\ Chapters # {} /\ Retries \in Nat
    /\ None \notin Requests \cup Projects \cup Job /\ {"unborn", "deleted"} \cap Projects = {}
    /\ Calls \subseteq Asked
    /\ \A c \in Calls : /\ c.project \in Projects /\ c.kind # "none"
                        /\ c.files => c.kind \in {"createProject", "import"}
    /\ \A d \in Initial : StartOK(d)

(* The database at first: milestones with the books they have or had, the  *)
(* books whose text is there, and the jobs that wait.                      *)
Start(d) ==
    /\ project = d.projects
    /\ unit = [u \in Units |-> IF u \in DOMAIN d.units THEN d.units[u] ELSE "unborn"]
    /\ held = [u \in Units |-> [b \in Books |->
                  IF <<u, b>> \in DOMAIN d.links
                  THEN [Nothing EXCEPT !.link = d.links[<<u, b>>],
                                       !.chapters = IF b \in d.ingested THEN Chapters ELSE {}]
                  ELSE Nothing]]
    /\ complete = d.ingested
    /\ job = d.jobs

Init ==
    /\ \E d \in Initial : Start(d)
    /\ holder = [p \in Projects |-> None]
    /\ import = [i \in Ids |-> NoImport]
    /\ text = [b \in Books |-> IF b \in complete THEN Chapters ELSE {}]
    /\ worker = NoWork
    /\ retry = [b \in Books |-> [state |-> "none", left |-> 0]]
    /\ dead = {} /\ sweep = {}
    /\ rows = [m \in Materializers |-> NoRows]
    /\ request = [r \in Requests |-> Idle]
    /\ started = 0 /\ faults = 0

(* A fault of the environment, of which there are boundedly many. *)
Fault == faults < MaxFaults /\ faults' = faults + 1

unchangedDb == <<project, unit, held, import, text, complete>>
unchangedQueues == <<job, worker, retry, dead, sweep>>

-----------------------------------------------------------------------------
(* What the statements of the repositories do to the milestones' contents. *)

(* The links a project has to some of the books: removed ones included. *)
Placements(p, books) == {i \in UnitsOf(p) \X books : held[i[1]][i[2]].link # "none"}
Active(places) == {i \in places : held[i[1]][i[2]].link = "active"}
BooksOf(places) == {i[2] : i \in places}

(* moveBookToMilestone of the books at places, at most one for each: the   *)
(* link becomes active at the target and takes the rest with it.           *)
Moved(h, places, to) ==
    [u \in Units |-> [b \in Books |->
        IF u = to /\ b \in BooksOf(places)
        THEN LET from == {i[1] : i \in {j \in places : j[2] = b}} \cup {to}
             IN [link |-> "active", chapters |-> UNION {h[v][b].chapters : v \in from},
                 verses |-> \E v \in from : h[v][b].verses]
        ELSE IF <<u, b>> \in places THEN Nothing ELSE h[u][b]]]
ImportsMoved(imports, places, to) ==
    [i \in Ids |-> IF <<imports[i].at, i[2]>> \in places THEN [imports[i] EXCEPT !.at = to]
                                                        ELSE imports[i]]

(* A unique key the moved rows meet at their target: the move fails. *)
MoveConflicts(places, to) ==
    \E i \in places :
        /\ i[1] # to
        /\ \/ held[to][i[2]].link # "none"
           \/ held[to][i[2]].verses /\ held[i[1]][i[2]].verses
           \/ \E j, k \in Ids : j[2] = i[2] /\ k[2] = i[2] /\ import[j].at = i[1] /\ import[k].at = to

(* insertBibleBookLinks with the chapter assignments of the same           *)
(* transaction, made from the text there was.                              *)
Linked(h, u, books, staged) ==
    [h EXCEPT ![u] = [b \in Books |-> IF b \in books THEN [Nothing EXCEPT !.link = "active", !.chapters = staged[b]]
                                                     ELSE @[b]]]
Unlinked(h, u, books) ==
    [h EXCEPT ![u] = [b \in Books |-> IF b \in books /\ @[b].link = "active"
                                      THEN [@[b] EXCEPT !.link = "removed"] ELSE @[b]]]

(* What the foreign keys delete with milestones. *)
Deleted(units) ==
    /\ unit' = [u \in Units |-> IF u \in units THEN "deleted" ELSE unit[u]]
    /\ held' = [u \in Units |-> IF u \in units THEN [b \in Books |-> Nothing] ELSE held[u]]
    /\ import' = [i \in Ids |-> IF import[i].at \in units THEN NoImport ELSE import[i]]

(* A queue of policy "exclusive" takes a job of a key only while it has    *)
(* none of that key, waiting or active.                                    *)
SendRetry(books) ==
    retry' = [b \in Books |-> IF b \in books /\ retry[b].state = "none"
                              THEN [state |-> "queued", left |-> Retries] ELSE retry[b]]

-----------------------------------------------------------------------------
(* The requests: a pre-check, a transaction under the lock of the project's *)
(* row, and what follows the commit.                                        *)

(* The ids are a bound: a milestone is written while there is one left.    *)
Fresh(u) == unit[u] = "unborn" /\ \A r \in Requests : request[r].new # u
Numbered == \E u \in Units : Fresh(u)
NewUnit == Min({u \in Units : Fresh(u)})

Answer(r) == request' = [request EXCEPT ![r] = Idle]
Release(r) == holder' = [p \in Projects |-> IF holder[p] = r THEN None ELSE holder[p]]

(* importUsfmMilestone checks the files before anything, without the lock; *)
(* updateMilestone and deleteMilestone look for their milestone.           *)
Begin(r, c) ==
    /\ request[r].pc = "idle" /\ started < MaxRequests
    /\ started' = started + 1
    /\ CASE c.kind = "createProject" -> c.project \notin project /\ \A q \in Requests : request[q].call.project # c.project
         [] c.kind = "import" -> c.project \in project /\ Placements(c.project, c.books) = {}
         [] c.kind \in {"update", "deleteMilestone"} -> Exists(c.unit) /\ unit[c.unit] = c.project
         [] OTHER -> c.project \in project
    /\ request' = [request EXCEPT ![r] = [Idle EXCEPT !.pc = IF c.kind = "createProject" THEN "write" ELSE "lock",
                                                      !.call = c]]
    /\ UNCHANGED <<unchangedDb, unchangedQueues, holder, rows, faults>>

(* Mutant of Lock: the row is read, not locked. *)
LockNothing(r) ==
    LET p == request[r].call.project
    IN /\ request[r].pc = "lock"
       /\ IF p \in project THEN request' = [request EXCEPT ![r].pc = "write"] ELSE Answer(r)
       /\ UNCHANGED <<unchangedDb, unchangedQueues, holder, rows, started, faults>>

(* lockProjectById and lockProjectSourceBible: the row may have gone while *)
(* the request waited for it.                                              *)
Lock(r) ==
    LET p == request[r].call.project
    IN /\ request[r].pc = "lock" /\ holder[p] = None
       /\ IF p \in project
          THEN holder' = [holder EXCEPT ![p] = r] /\ request' = [request EXCEPT ![r].pc = "write"]
          ELSE Answer(r) /\ UNCHANGED holder
       /\ UNCHANGED <<unchangedDb, unchangedQueues, rows, started, faults>>

(* A request whose checks under the lock fail. *)
Refuse(r) ==
    /\ Answer(r) /\ Release(r)
    /\ UNCHANGED <<unchangedDb, unchangedQueues, rows, started, faults>>

(* The transaction stages its rows: the new milestone's id, the placements *)
(* it revives (those were read under the lock), and chapter                *)
(* assignments for the chapters whose text is there at this moment         *)
(* (createChapterAssignmentForProjectUnit).                                *)
Stage(r, u, books, places, pc) ==
    /\ request' = [request EXCEPT ![r].pc = pc, ![r].new = u, ![r].places = places,
                                  ![r].staged = [b \in Books |-> IF b \in books THEN text[b] ELSE {}],
                                  ![r].send = {b \in books : text[b] = {}}]
    /\ UNCHANGED <<unchangedDb, unchangedQueues, holder, rows, started, faults>>

WriteProject(r) ==
    LET c == request[r].call
    IN /\ request[r].pc = "write" /\ c.kind = "createProject" /\ (c.books = {} \/ Numbered)
       /\ Stage(r, IF c.books = {} THEN 0 ELSE NewUnit, c.books, {}, IF c.books = {} THEN "commit" ELSE "decide")

(* createMilestone revives the books that were removed elsewhere. *)
WriteMilestone(r) ==
    LET c == request[r].call
        places == Placements(c.project, c.books)
    IN /\ request[r].pc = "write" /\ c.kind = "createMilestone" /\ Numbered
       /\ IF Active(places) # {} THEN Refuse(r)
          ELSE Stage(r, NewUnit, c.books \ BooksOf(places), places, "commit")

(* An import takes no book the project has or had. *)
WriteImport(r) ==
    LET c == request[r].call
    IN /\ request[r].pc = "write" /\ c.kind = "import" /\ Numbered
       /\ IF Placements(c.project, c.books) # {} THEN Refuse(r)
          ELSE Stage(r, NewUnit, c.books, {}, "decide")

(* updateMilestone moves books away, adds books and removes books, in this *)
(* order.  A book that has just been moved away is active elsewhere.       *)
Away(c) == {c.unit} \X c.move
WriteUpdate(r) ==
    LET c == request[r].call
        added == Placements(c.project, c.books)
    IN /\ request[r].pc = "write" /\ c.kind = "update"
       /\ IF \/ ~Exists(c.unit)
             \/ Away(c) # Active(Away(c))
             \/ c.move # {} /\ ~(Exists(c.target) /\ unit[c.target] = c.project)
             \/ MoveConflicts(Away(c), c.target)
             \/ Active(added) # {} \/ MoveConflicts(added, c.unit)
          THEN Refuse(r)
          ELSE Stage(r, c.unit, c.books \ BooksOf(added), added, "commit")

(* deleteProject counts the milestones unless it was told to cascade. *)
WriteDelete(r) ==
    LET c == request[r].call
    IN /\ request[r].pc = "write" /\ c.kind \in {"deleteMilestone", "deleteProject"}
       /\ IF c.kind = "deleteProject" /\ UnitsOf(c.project) # {} THEN Refuse(r)
          ELSE Stage(r, 0, {}, {}, "commit")

(* createProject sends one job for the books that need one, through the    *)
(* queue's own connection; the import of a milestone keeps one for each    *)
(* book in its transaction.  An import needs complete books; an ordinary   *)
(* project is content with any text of them.                               *)
Decide(r) ==
    LET c == request[r].call
        missing == {b \in c.books : IF c.files THEN b \notin complete ELSE text[b] = {}}
    IN /\ request[r].pc = "decide"
       /\ request' = [request EXCEPT ![r].pc = "commit", ![r].send = missing]
       /\ job' = IF c.kind = "createProject" /\ missing # {}
                 THEN job \cup {Ingest(missing, c.project, 0, Retries)} ELSE job
       /\ UNCHANGED <<unchangedDb, holder, worker, retry, dead, sweep, rows, started, faults>>

(* Mutant of DecideFails: with files too. *)
DecideAnyway(r) ==
    /\ request[r].pc = "decide" /\ Fault
    /\ request' = [request EXCEPT ![r].pc = "commit", ![r].send = {}]
    /\ UNCHANGED <<unchangedDb, unchangedQueues, holder, rows, started>>

(* The send fails: a project without files is created all the same. *)
DecideFails(r) ==
    /\ request[r].pc = "decide" /\ Fault
    /\ IF request[r].call.files
       THEN Answer(r) /\ Release(r)
       ELSE request' = [request EXCEPT ![r].pc = "commit", ![r].send = {}] /\ UNCHANGED holder
    /\ UNCHANGED <<unchangedDb, unchangedQueues, rows, started>>

(* A statement of the transaction fails, or its connection is lost. *)
Abort(r) ==
    /\ request[r].pc \in {"write", "decide", "commit"} /\ Fault
    /\ Answer(r) /\ Release(r)
    /\ UNCHANGED <<unchangedDb, unchangedQueues, rows, started>>

CommitNew(r) ==
    LET c == request[r].call
        n == request[r].new
        places == request[r].places
    IN /\ request[r].pc = "commit" /\ c.kind \in {"createProject", "createMilestone", "import"}
       /\ project' = project \cup {c.project}
       /\ unit' = [u \in Units |-> IF u = n THEN c.project ELSE unit[u]]
       /\ held' = IF n = 0 THEN held
                  ELSE Moved(Linked(held, n, c.books \ BooksOf(places), request[r].staged), places, n)
       /\ import' = [i \in Ids |-> IF c.files /\ i[1] = n /\ i[2] \in c.books
                                   THEN [at |-> n, state |-> "pending"] ELSE ImportsMoved(import, places, n)[i]]
       /\ job' = IF c.kind = "import" THEN job \cup {Ingest({b}, None, n, Retries) : b \in request[r].send}
                                      ELSE job
       /\ request' = [request EXCEPT ![r] =
              IF c.files THEN [@ EXCEPT !.pc = "read"]
              ELSE IF c.kind = "createMilestone" /\ @.send # {} THEN [@ EXCEPT !.pc = "enqueue"] ELSE Idle]
       /\ Release(r)
       /\ UNCHANGED <<text, complete, worker, retry, dead, sweep, rows, started, faults>>

CommitUpdate(r) ==
    LET c == request[r].call
        added == request[r].places
    IN /\ request[r].pc = "commit" /\ c.kind = "update"
       /\ held' = LET away == Moved(held, Away(c), c.target)
                      with == Linked(away, c.unit, c.books \ BooksOf(added), request[r].staged)
                  IN Unlinked(Moved(with, added, c.unit), c.unit, c.remove)
       /\ import' = ImportsMoved(ImportsMoved(import, Away(c), c.target), added, c.unit)
       /\ request' = [request EXCEPT ![r] = IF @.send # {} THEN [@ EXCEPT !.pc = "enqueue"] ELSE Idle]
       /\ Release(r)
       /\ UNCHANGED <<project, unit, text, complete, unchangedQueues, rows, started, faults>>

CommitDelete(r) ==
    LET c == request[r].call
    IN /\ request[r].pc = "commit" /\ c.kind \in {"deleteMilestone", "deleteProject"}
       /\ Deleted(IF c.kind = "deleteProject" THEN UnitsOf(c.project) ELSE {c.unit})
       /\ project' = IF c.kind = "deleteProject" THEN project \ {c.project} ELSE project
       /\ Answer(r) /\ Release(r)
       /\ UNCHANGED <<text, complete, unchangedQueues, rows, started, faults>>

(* deleteProject with cascadeUnits: one statement, which waits for whoever *)
(* has locked the row.                                                     *)
Cascade(r, p) ==
    /\ request[r].pc = "idle" /\ started < MaxRequests /\ started' = started + 1
    /\ p \in project /\ holder[p] = None
    /\ project' = project \ {p} /\ Deleted(UnitsOf(p))
    /\ UNCHANGED <<text, complete, unchangedQueues, holder, rows, request, faults>>

(* After the commit a job is sent for each book without any chapter; that  *)
(* a send fails is only logged.                                            *)
Enqueue(r, b) ==
    /\ request[r].pc = "enqueue" /\ b \in request[r].send
    /\ request' = [request EXCEPT ![r] = IF @.send = {b} THEN Idle ELSE [@ EXCEPT !.send = request[r].send \ {b}]]
    /\ \/ job' = job \cup {Ingest({b}, None, request[r].new, Retries)} /\ UNCHANGED faults
       \/ Fault /\ UNCHANGED job
    /\ UNCHANGED <<unchangedDb, holder, worker, retry, dead, sweep, rows, started>>

(* The process dies: what was committed stays, the rest is forgotten. *)
Die(r) ==
    /\ request[r].pc \in {"enqueue", "read", "materialize", "requeue"} /\ Fault
    /\ Answer(r) /\ rows' = [rows EXCEPT ![r] = NoRows]
    /\ UNCHANGED <<unchangedDb, unchangedQueues, holder, started>>

-----------------------------------------------------------------------------
(* Materialization, by a request, by the ingestion worker or by a retry.   *)

(* The imports are read once; what moves afterwards is written where it    *)
(* was (getPendingUsfmImports).                                            *)
Found(m, ids) ==
    rows' = [rows EXCEPT ![m] = [NoRows EXCEPT !.left =
        {[id |-> i, at |-> import[i].at, step |-> "write"] : i \in ids}]]
PendingOf(books) == {i \in Ids : import[i].state = "pending" /\ i[2] \in books}
LinkedImports(ids) == {i \in ids : held[import[i].at][i[2]].link # "none"}

(* materializeUsfmImport: without complete text the import stays pending;  *)
(* the verses that are there are kept (importTranslatedVerses).            *)
Write(m, row) ==
    LET b == row.id[2]
        rest == rows[m].left \ {row}
    IN /\ row \in rows[m].left /\ row.step = "write"
       /\ IF b \notin complete
          THEN rows' = [rows EXCEPT ![m].left = rest, ![m].pending = TRUE] /\ UNCHANGED held
          ELSE IF Exists(row.at)
               THEN /\ held' = [held EXCEPT ![row.at][b].verses = TRUE]
                    /\ rows' = [rows EXCEPT ![m].left = rest \cup {[row EXCEPT !.step = "mark"]}]
               ELSE rows' = [rows EXCEPT ![m].left = rest, ![m].failed = TRUE] /\ UNCHANGED held
       /\ UNCHANGED <<project, unit, import, text, complete, unchangedQueues, holder, request, started, faults>>

Mark(m, row) ==
    /\ row \in rows[m].left /\ row.step = "mark"
    /\ import' = [import EXCEPT ![row.id].state = IF @ = "pending" THEN "done" ELSE @]
    /\ rows' = [rows EXCEPT ![m].left = @ \ {row}]
    /\ UNCHANGED <<project, unit, held, text, complete, unchangedQueues, holder, request, started, faults>>

(* Each import fails on its own, at either statement. *)
RowFails(m, row) ==
    /\ row \in rows[m].left /\ Fault
    /\ rows' = [rows EXCEPT ![m].left = @ \ {row}, ![m].failed = TRUE]
    /\ UNCHANGED <<unchangedDb, unchangedQueues, holder, request, started>>

RequestReads(r) ==
    /\ request[r].pc = "read"
    /\ Found(r, {i \in PendingOf(request[r].call.books) : import[i].at = request[r].new})
    /\ request' = [request EXCEPT ![r].pc = "materialize"]
    /\ UNCHANGED <<unchangedDb, unchangedQueues, holder, started, faults>>

(* A request that could not materialize asks for a retry of every book. *)
RequestDone(r) ==
    /\ request[r].pc = "materialize" /\ rows[r].left = {}
    /\ IF rows[r].failed THEN request' = [request EXCEPT ![r].pc = "requeue", ![r].send = request[r].call.books]
                         ELSE Answer(r)
    /\ rows' = [rows EXCEPT ![r] = NoRows]
    /\ UNCHANGED <<unchangedDb, unchangedQueues, holder, started, faults>>

Requeue(r, b) ==
    /\ request[r].pc = "requeue" /\ b \in request[r].send
    /\ request' = [request EXCEPT ![r] = IF @.send = {b} THEN Idle ELSE [@ EXCEPT !.send = request[r].send \ {b}]]
    /\ \/ SendRetry({b}) /\ UNCHANGED faults
       \/ Fault /\ UNCHANGED retry
    /\ UNCHANGED <<unchangedDb, job, worker, dead, sweep, holder, rows, started>>

-----------------------------------------------------------------------------
(* The ingestion worker: one job at a time.                                *)

unchangedByWorker == <<holder, request, started>>

Take(j) ==
    /\ worker.pc = "idle" /\ j \in job
    /\ job' = job \ {j}
    /\ worker' = [NoWork EXCEPT !.pc = "fetch", !.job = j, !.todo = j.books \X Chapters]
    /\ UNCHANGED <<unchangedDb, retry, dead, sweep, rows, faults, unchangedByWorker>>

NextChapter == CHOOSE x \in worker.todo :
    \A y \in worker.todo : x[1] < y[1] \/ (x[1] = y[1] /\ x[2] <= y[2])

(* A chapter that fails is left out, and its book is not complete. *)
FetchChapter ==
    LET b == NextChapter[1]
        last == {x \in worker.todo : x[1] = b} = {NextChapter}
    IN /\ worker.pc = "fetch" /\ worker.todo # {}
       /\ \/ text' = [text EXCEPT ![b] = @ \cup {NextChapter[2]}] /\ UNCHANGED faults
             /\ worker' = [worker EXCEPT !.todo = @ \ {NextChapter},
                                         !.pc = IF last /\ b \notin worker.bad THEN "book" ELSE "fetch",
                                         !.done = IF last /\ b \notin worker.bad THEN @ \cup {b} ELSE @]
          \/ Fault /\ UNCHANGED text
             /\ worker' = [worker EXCEPT !.todo = @ \ {NextChapter}, !.bad = @ \cup {b}]
       /\ UNCHANGED <<project, unit, held, import, complete, job, retry, dead, sweep, rows, unchangedByWorker>>

(* text_ingested_at of a book all of whose chapters came. *)
FinishBook ==
    /\ worker.pc = "book"
    /\ complete' = complete \cup worker.done
    /\ worker' = [worker EXCEPT !.pc = "fetch"]
    /\ UNCHANGED <<project, unit, held, import, text, job, retry, dead, sweep, rows, faults, unchangedByWorker>>

(* Completed books finish the imports of every project that waits for      *)
(* them, before the failure of another book is thrown.                     *)
WorkerReads ==
    /\ worker.pc = "fetch" /\ worker.todo = {}
    /\ worker' = [worker EXCEPT !.pc = "materialize"]
    /\ Found("ingest", LinkedImports(PendingOf(worker.done)))
    /\ UNCHANGED <<unchangedDb, job, retry, dead, sweep, faults, unchangedByWorker>>

(* Mutant of Throw: the failure is swallowed, the job done. *)
Swallow == worker' = NoWork /\ rows' = [rows EXCEPT !["ingest"] = NoRows] /\ UNCHANGED <<job, dead>>

(* pg-boss retries a job whose handler throws, and moves it to the dead    *)
(* letter queue in the end.                                                *)
Throw ==
    LET j == worker.job
    IN /\ worker' = NoWork
       /\ IF j.left > 0 THEN job' = job \cup {[j EXCEPT !.left = @ - 1]} /\ UNCHANGED dead
                        ELSE dead' = dead \cup {<<"ingest", b>> : b \in j.books} /\ UNCHANGED job
       /\ rows' = [rows EXCEPT !["ingest"] = NoRows]

WorkerMaterialized ==
    /\ worker.pc = "materialize" /\ rows["ingest"].left = {}
    /\ \/ rows["ingest"].failed /\ SendRetry(worker.done)
       \/ ~rows["ingest"].failed /\ UNCHANGED retry
    /\ IF worker.bad # {} THEN Throw
       ELSE /\ worker' = [worker EXCEPT !.pc = "assign"]
            /\ rows' = [rows EXCEPT !["ingest"] = NoRows]
            /\ UNCHANGED <<job, dead>>
    /\ UNCHANGED <<unchangedDb, sweep, faults, unchangedByWorker>>

(* The chapters are created in the milestone of the job, or in all of its  *)
(* project.  One that has no link to a book of the job fails as a whole.   *)
Assign ==
    LET j == worker.job
        units == IF j.unit # 0 THEN {j.unit} ELSE UnitsOf(j.project)
        fits(u) == \A b \in j.books : held[u][b].link # "none"
    IN /\ worker.pc = "assign"
       /\ held' = [u \in Units |-> IF u \in units /\ fits(u)
                                   THEN [b \in Books |-> IF b \in j.books THEN [held[u][b] EXCEPT !.chapters = @ \cup text[b]]
                                                                          ELSE held[u][b]]
                                   ELSE held[u]]
       /\ IF \A u \in units : fits(u) THEN worker' = NoWork /\ UNCHANGED <<job, dead, rows>>
                                      ELSE Throw
       /\ UNCHANGED <<project, unit, import, text, complete, retry, sweep, faults, unchangedByWorker>>

(* The worker dies, or cannot send the retries: the job is tried again. *)
WorkerFails ==
    /\ worker.pc # "idle" /\ Fault /\ Throw
    /\ UNCHANGED <<unchangedDb, retry, sweep, unchangedByWorker>>

-----------------------------------------------------------------------------
(* The retries of materialization and the sweep. *)

RetryTake(b) ==
    /\ retry[b].state = "queued" /\ \A c \in Books : retry[c].state # "active"
    /\ retry' = [retry EXCEPT ![b].state = "active"]
    /\ Found("retry", LinkedImports(PendingOf({b})))
    /\ UNCHANGED <<unchangedDb, job, worker, dead, sweep, faults, unchangedByWorker>>

(* An import that is still pending is a failure too. *)
RetryDone(b) ==
    /\ retry[b].state = "active" /\ rows["retry"].left = {}
    /\ LET again == rows["retry"].failed \/ rows["retry"].pending
           spent == again /\ retry[b].left = 0
       IN /\ retry' = [retry EXCEPT ![b] = IF again /\ ~spent THEN [state |-> "queued", left |-> @.left - 1]
                                                             ELSE [state |-> "none", left |-> 0]]
          /\ dead' = IF spent THEN dead \cup {<<"materialize", b>>} ELSE dead
    /\ rows' = [rows EXCEPT !["retry"] = NoRows]
    /\ UNCHANGED <<unchangedDb, job, worker, sweep, faults, unchangedByWorker>>

(* Mutant of Ready: the sweep runs when the worker starts, and never again. *)
ReadyAtStart == IF started = 0 THEN BooksOf(PendingOf(complete)) ELSE {}

(* getUsfmImportsReadyForMaterialization *)
Ready == BooksOf({i \in PendingOf(complete) : held[import[i].at][i[2]].link = "active"})

SweepReads ==
    /\ sweep = {} /\ Ready # {}
    /\ sweep' = Ready
    /\ UNCHANGED <<unchangedDb, job, worker, retry, dead, rows, faults, unchangedByWorker>>

(* What has a job, or had one that failed for good, is left alone; a send  *)
(* that fails is left to the next sweep.                                   *)
SweepSends ==
    /\ sweep # {} /\ sweep' = {}
    /\ LET due == {b \in sweep : <<"materialize", b>> \notin dead /\ retry[b].state = "none"}
       IN \/ SendRetry(due) /\ UNCHANGED faults
          \/ \E unsent \in due : SendRetry(due \ {unsent}) /\ Fault
    /\ UNCHANGED <<unchangedDb, job, worker, dead, rows, unchangedByWorker>>

-----------------------------------------------------------------------------
Requesting(r) ==
    \E c \in Calls : IF c.kind = "cascade" THEN Cascade(r, c.project) ELSE Begin(r, c)

(* What a request, once begun, goes through unless something fails. *)
Proceed(r) ==
    \/ Lock(r)
    \/ WriteProject(r) \/ WriteMilestone(r) \/ WriteImport(r) \/ WriteUpdate(r) \/ WriteDelete(r)
    \/ Decide(r) \/ CommitNew(r) \/ CommitUpdate(r) \/ CommitDelete(r)
    \/ \E b \in Books : Enqueue(r, b) \/ Requeue(r, b)
    \/ RequestReads(r) \/ RequestDone(r)

Materialize(m) == \E row \in rows[m].left : Write(m, row) \/ Mark(m, row)

Ingestion ==
    \/ \E j \in job : Take(j)
    \/ FetchChapter \/ FinishBook \/ WorkerReads \/ WorkerMaterialized \/ Assign

Retrying(b) == RetryTake(b) \/ RetryDone(b)
Sweep == SweepReads \/ SweepSends

Fails ==
    \/ \E r \in Requests : DecideFails(r) \/ Abort(r) \/ Die(r)
    \/ \E m \in Materializers : \E row \in rows[m].left : RowFails(m, row)
    \/ WorkerFails

Next ==
    \/ \E r \in Requests : Requesting(r) \/ Proceed(r)
    \/ \E m \in Materializers : Materialize(m)
    \/ Ingestion
    \/ \E b \in Books : Retrying(b)
    \/ Sweep
    \/ Fails

Spec == Init /\ [][Next]_vars

-----------------------------------------------------------------------------
(* The properties.                                                         *)

(* A project has a book in one milestone only, removed placements counted: *)
(* two requests that add it at once, or an import and a request that       *)
(* revives it, do not both succeed.  The unique key of the table does not  *)
(* say so, the lock of the project does.                                   *)
OnePlacement ==
    \A p \in Projects, b \in Books : Cardinality(Placements(p, {b})) <= 1

(* An import that waits for the text of its book has somebody who fetches  *)
(* it: "an import whose job could not be queued is rolled back rather than *)
(* committed" (docs/features/usfm-import/design.md).  And the rollback     *)
(* "leaves no job behind for a milestone that doesn't exist".              *)
Fetching(b) ==
    \/ \E j \in job : b \in j.books
    \/ worker.pc # "idle" /\ b \in worker.job.books
    \/ <<"ingest", b>> \in dead
ImportsHaveJobs ==
    /\ \A i \in Ids : import[i].state = "pending" => i[2] \in complete \/ Fetching(i[2])
    /\ \A j \in job : j.unit # 0 => unit[j.unit] # "unborn"

(* Deleting a project that has no milestones deletes none, also when one   *)
(* is being added at that moment.                                          *)
DeletesNoMilestone ==
    \A r \in Requests :
        /\ request[r].pc = "commit" /\ request[r].call.kind = "deleteProject"
        /\ request[r].call.project \notin project'
        => UnitsOf(request[r].call.project) = {}

(* An import that has been committed does not wait for ever: its verses    *)
(* are written, unless its book is removed or a job of the book is in a    *)
(* dead letter queue, where "retained failures require operator            *)
(* investigation" (usfm-import-recovery.ts).                               *)
Waits(i) == import[i].state = "pending"
Settled(i) ==
    \/ import[i].state # "pending"
    \/ held[import[i].at][i[2]].link # "active"
    \/ {<<"ingest", i[2]>>, <<"materialize", i[2]>>} \cap dead # {}

(* The verses of an import that has been materialized are in the milestone *)
(* its book is in ("Keep pending materialization and the original USFM     *)
(* file with the book", milestones.repository.ts).                         *)
VersesWithBook ==
    \A i \in Ids : import[i].state = "done" => held[import[i].at][i[2]].verses
=============================================================================
