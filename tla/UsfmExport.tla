----------------------------- MODULE UsfmExport -----------------------------
(***************************************************************************)
(* The export of a milestone as a zip of USFM files: streamed to the       *)
(* client, or made by a job that uploads it to the exports bucket, from    *)
(* where its requester may download it for an hour.                        *)
(*                                                                         *)
(* pg-boss is modelled from how it is used: an exclusive queue takes no    *)
(* second job of a key that is queued, active or waits for a retry; a job  *)
(* that is active for too long is failed although its handler runs on; the *)
(* answer of a handler counts only while its attempt does.  The bucket     *)
(* shows an object when its upload is complete.  Of the text an archive    *)
(* contains, the model keeps whether it is all there.                      *)
(***************************************************************************)
EXTENDS Naturals, FiniteSets

CONSTANTS
    Requests,     \* the requests the server handles at a time
    Jobs,         \* job ids, in the order they are given: 1 .. n
    Attempts,     \* handlers of the worker processes that may run at a time: 1 .. n
    Books,        \* the books of the milestone
    Calls,        \* what may be requested: [kind, user, books, file]
    None,         \* no job, no object
    Retries,      \* retryLimit of the queue
    Ttl,          \* EXPORT_TTL_MS, in ticks
    LinkTtl,      \* SAS_TTL_MINUTES, in ticks
    MaxTime,      \* bound on the clock
    MaxRequests,  \* bound on the requests that are made
    MaxFaults     \* bound on the reads and uploads that fail and on the crashes

VARIABLES
    request,      \* what each request does
    job,          \* the jobs of the queue usfm-export
    attempt,      \* what each handler does
    object,       \* the objects of the bucket, by the job they are named for
    links,        \* the URLs that have been signed
    sweep,        \* what deleteExpiredExports has listed and not yet looked at
    linked,       \* the books that are linked to the milestone
    now,          \* the time
    started,      \* requests made so far
    faults        \* faults so far

vars == <<request, job, attempt, object, links, sweep, linked, now, started, faults>>

Idle == [step |-> "idle", call |-> None, created |-> 0]
NoAttempt == [job |-> None, step |-> "none", late |-> FALSE, whole |-> TRUE, until |-> 0]

At(r, step) == request[r].step = step
CallOf(r) == request[r].call
Moved(r, step) == [request EXCEPT ![r].step = step]
Answered(r, answer) == [request EXCEPT ![r] = Idle]   \* nothing depends on the answer

Pending(j) == job[j] # None /\ job[j].state \in {"created", "retry", "active"}
Selected(books) == IF books = {} THEN linked ELSE books \cap linked

-----------------------------------------------------------------------------
(* Requests. *)

Call(r) ==
    /\ At(r, "idle") /\ started < MaxRequests
    /\ started' = started + 1
    /\ \E call \in Calls :
          request' = [request EXCEPT ![r] = [Idle EXCEPT !.call = call,
                                !.step = IF call.kind = "download" THEN "head" ELSE "validate"]]
    /\ UNCHANGED <<job, attempt, object, links, sweep, linked, now, faults>>

Validate(r) ==
    /\ At(r, "validate")
    /\ request' = IF ~(CallOf(r).books \subseteq linked) THEN Answered(r, "invalid")
                  ELSE Moved(r, IF CallOf(r).kind = "send" THEN "send" ELSE "books")
    /\ UNCHANGED <<job, attempt, object, links, sweep, linked, now, started, faults>>

(* The same user's export of the same books is asked for once at a time.    *)
Send(r) ==
    LET same(j) == Pending(j) /\ job[j].user = CallOf(r).user /\ job[j].books = CallOf(r).books
        free == {j \in Jobs : job[j] = None}
    IN /\ At(r, "send")
       /\ IF \E j \in Jobs : same(j) THEN request' = Answered(r, "conflict") /\ UNCHANGED job
          ELSE \E j \in free :
                 /\ \A i \in free : j <= i
                 /\ job' = [job EXCEPT ![j] = [user |-> CallOf(r).user, books |-> CallOf(r).books,
                                               state |-> "created", tries |-> 0, until |-> 0]]
                 /\ request' = Answered(r, "queued")
       /\ UNCHANGED <<attempt, object, links, sweep, linked, now, started, faults>>

(* The archive of a request is destroyed when it has ended, failed or been  *)
(* aborted by the client.  An abort during the query for the books is not   *)
(* noticed; the archive is then written to a stream that swallows it.       *)
ListBooks(r) ==
    /\ At(r, "books")
    /\ request' = IF Selected(CallOf(r).books) = {} THEN Answered(r, "noBooks") ELSE Moved(r, "stream")
    /\ UNCHANGED <<job, attempt, object, links, sweep, linked, now, started, faults>>

Stream(r) ==
    /\ At(r, "stream")
    /\ request' = Answered(r, "streamed")
    /\ UNCHANGED <<job, attempt, object, links, sweep, linked, now, started, faults>>

(* A download looks at the object, then signs a URL for as long as the      *)
(* object it has seen has left.                                             *)
Head(r) ==
    LET file == object[CallOf(r).file] IN
    /\ At(r, "head")
    /\ request' = IF file # None /\ now - file.created <= Ttl /\ file.user = CallOf(r).user
                    THEN [request EXCEPT ![r].step = "sign", ![r].created = file.created]
                    ELSE Answered(r, "notFound")
    /\ UNCHANGED <<job, attempt, object, links, sweep, linked, now, started, faults>>

(* Mutant of Expiry: a URL is good for a quarter of an hour. *)
ExpiryUncapped(created) == now + LinkTtl
Expiry(created) == IF created + Ttl < now + LinkTtl THEN created + Ttl ELSE now + LinkTtl

Sign(r) ==
    LET created == request[r].created IN
    /\ At(r, "sign")
    /\ IF created + Ttl <= now THEN request' = Answered(r, "error") /\ UNCHANGED links
       ELSE /\ links' = links \cup {[job |-> CallOf(r).file, user |-> CallOf(r).user,
                                     created |-> created, until |-> Expiry(created)]}
            /\ request' = Answered(r, "redirect")
    /\ UNCHANGED <<job, attempt, object, sweep, linked, now, started, faults>>

-----------------------------------------------------------------------------
(* The worker. *)

Failed(j) ==
    [job EXCEPT ![j].state = IF job[j].tries < Retries THEN "retry" ELSE "failed",
                ![j].tries = IF job[j].tries < Retries THEN @ + 1 ELSE @]

Fetch(a, j) ==
    /\ attempt[a] = NoAttempt /\ \A b \in Attempts : attempt[b] = NoAttempt => a <= b
    /\ job[j] # None /\ job[j].state \in {"created", "retry"}
    /\ job' = [job EXCEPT ![j].state = "active"]
    /\ attempt' = [attempt EXCEPT ![a].job = j, ![a].step = "books"]
    /\ UNCHANGED <<request, object, links, sweep, linked, now, started, faults>>

JobOf(a) == attempt[a].job

(* What a handler throws fails its job, if pg-boss still waits for it.      *)
Throw(a) ==
    /\ attempt' = [attempt EXCEPT ![a] = NoAttempt]
    /\ job' = IF attempt[a].late THEN job ELSE Failed(JobOf(a))

List(a) ==
    /\ attempt[a].step = "books"
    /\ IF Selected(job[JobOf(a)].books) = {} THEN Throw(a)
       ELSE attempt' = [attempt EXCEPT ![a].step = "read"] /\ UNCHANGED job
    /\ UNCHANGED <<request, object, links, sweep, linked, now, started, faults>>

Read(a) ==
    /\ attempt[a].step = "read"
    /\ attempt' = [attempt EXCEPT ![a].step = "upload"]
    /\ UNCHANGED <<request, job, object, links, sweep, linked, now, started, faults>>

(* Mutant of Broken: the stream that breaks is ended. *)
BrokenEnds(a) == [attempt EXCEPT ![a].step = "upload", ![a].whole = FALSE]

(* An archive that is destroyed neither ends nor fails the stream it is     *)
(* piped to: the upload waits for ever, and with it the handler.            *)
Broken(a) == [attempt EXCEPT ![a].step = "stuck"]

ReadFails(a) ==
    /\ attempt[a].step = "read" /\ faults < MaxFaults
    /\ faults' = faults + 1
    /\ attempt' = Broken(a)
    /\ UNCHANGED <<request, job, object, links, sweep, linked, now, started>>

UploadEnds(a) ==
    /\ attempt[a].step = "upload"
    /\ object' = [object EXCEPT ![JobOf(a)] =
                     [user |-> job[JobOf(a)].user, created |-> now, whole |-> attempt[a].whole]]
    /\ attempt' = [attempt EXCEPT ![a].step = "uploaded", ![a].until = now + Ttl]
    /\ UNCHANGED <<request, job, links, sweep, linked, now, started, faults>>

UploadFails(a) ==
    /\ attempt[a].step = "upload" /\ faults < MaxFaults
    /\ faults' = faults + 1
    /\ Throw(a)
    /\ UNCHANGED <<request, object, links, sweep, linked, now, started>>

(* The name of the project is read, and the job answered.                   *)
Complete(a) ==
    /\ attempt[a].step = "uploaded"
    /\ job' = IF attempt[a].late THEN job
              ELSE [job EXCEPT ![JobOf(a)].state = "completed", ![JobOf(a)].until = attempt[a].until]
    /\ attempt' = [attempt EXCEPT ![a] = NoAttempt]
    /\ UNCHANGED <<request, object, links, sweep, linked, now, started, faults>>

(* expireInSeconds have passed. *)
Expire(j) ==
    /\ job[j] # None /\ job[j].state = "active"
    /\ job' = Failed(j)
    /\ attempt' = [a \in Attempts |-> IF JobOf(a) = j THEN [attempt[a] EXCEPT !.late = TRUE] ELSE attempt[a]]
    /\ UNCHANGED <<request, object, links, sweep, linked, now, started, faults>>

Crash ==
    /\ faults < MaxFaults
    /\ \E a \in Attempts : attempt[a] # NoAttempt
    /\ faults' = faults + 1
    /\ attempt' = [a \in Attempts |-> NoAttempt]
    /\ sweep' = {}
    /\ UNCHANGED <<request, job, object, links, linked, now, started>>

-----------------------------------------------------------------------------
(* deleteExpiredExports, of the worker as well: it lists the objects, then  *)
(* deletes those that were too old according to the listing.                *)
SweepLists ==
    /\ sweep = {}
    /\ sweep' = {[job |-> j, created |-> object[j].created] : j \in {i \in Jobs : object[i] # None}}
    /\ sweep' # {}
    /\ UNCHANGED <<request, job, attempt, object, links, linked, now, started, faults>>

SweepLooks ==
    /\ \E entry \in sweep :
          /\ sweep' = sweep \ {entry}
          /\ object' = IF now - entry.created > Ttl THEN [object EXCEPT ![entry.job] = None] ELSE object
    /\ UNCHANGED <<request, job, attempt, links, linked, now, started, faults>>

(* Another request gives a book to the milestone or takes it away (see      *)
(* ImportPipeline).                                                         *)
Relink ==
    /\ started < MaxRequests /\ started' = started + 1
    /\ \E b \in Books : linked' = IF b \in linked THEN linked \ {b} ELSE linked \cup {b}
    /\ UNCHANGED <<request, job, attempt, object, links, sweep, now, faults>>

Tick ==
    /\ now < MaxTime /\ now' = now + 1
    /\ UNCHANGED <<request, job, attempt, object, links, sweep, linked, started, faults>>

-----------------------------------------------------------------------------
Init ==
    /\ request = [r \in Requests |-> Idle]
    /\ job = [j \in Jobs |-> None]
    /\ attempt = [a \in Attempts |-> NoAttempt]
    /\ object = [j \in Jobs |-> None]
    /\ links = {} /\ sweep = {} /\ linked = Books
    /\ now = 0 /\ started = 0 /\ faults = 0

Proceed(r) == Validate(r) \/ Send(r) \/ ListBooks(r) \/ Stream(r) \/ Head(r) \/ Sign(r)
Handle(a) == List(a) \/ Read(a) \/ UploadEnds(a) \/ Complete(a)
Fetching(j) == \E a \in Attempts : Fetch(a, j)

Next ==
    \/ \E r \in Requests : Call(r) \/ Proceed(r)
    \/ \E a \in Attempts : Handle(a) \/ ReadFails(a) \/ UploadFails(a)
    \/ \E j \in Jobs : Fetching(j) \/ Expire(j)
    \/ Crash \/ SweepLists \/ SweepLooks \/ Relink \/ Tick

Spec == Init /\ [][Next]_vars

-----------------------------------------------------------------------------
(* What the theorems assume of the constants: a download names a file,     *)
(* and no row, call or job is None.                                        *)
CallsOK ==
    LET users == {call.user : call \in Calls} IN
    /\ Calls \subseteq [kind : {"export", "send", "download"}, user : users,
                        books : SUBSET Books, file : Jobs \cup {0}]
    /\ \A call \in Calls : call.kind = "download" => call.file \in Jobs
    /\ Jobs \subseteq Nat /\ Retries \in Nat /\ Ttl \in Nat /\ LinkTtl \in Nat
    /\ None \notin Jobs /\ None \notin Calls
    /\ None \notin [user : users, books : SUBSET Books, tries : Nat, until : Nat,
                    state : {"created", "retry", "active", "completed", "failed"}]
    /\ None \notin [user : users, created : Nat, whole : BOOLEAN]

(* Properties. *)

TypeOK ==
    /\ \A j \in Jobs : job[j] # None =>
          /\ job[j].state \in {"created", "retry", "active", "completed", "failed"}
          /\ job[j].tries \in 0 .. Retries
    /\ \A a \in Attempts : attempt[a].step \in {"none", "books", "read", "stuck", "upload", "uploaded"}
    /\ \A j \in Jobs : object[j] # None => object[j].created \in 0 .. now
    /\ linked \subseteq Books
    /\ now \in 0 .. MaxTime /\ started \in 0 .. MaxRequests /\ faults \in 0 .. MaxFaults

(* What is offered is a whole archive; what a job that was done at once     *)
(* promises is kept for as long as it says, whatever the sweep does; a URL  *)
(* is its requester's and does not outlive what it was signed for           *)
(* (blob-storage.ts: "it can never outlive the object").                    *)
OfferedWhole == \A j \in Jobs : object[j] # None => object[j].whole
DoneAtOnce(j) == job[j] # None /\ job[j].state = "completed" /\ job[j].tries = 0
PromiseKept == \A j \in Jobs : DoneAtOnce(j) /\ now < job[j].until => object[j] # None
LinksEnd ==
    \A l \in links :
        /\ l.user = job[l.job].user
        /\ l.until <= l.created + Ttl
        /\ DoneAtOnce(l.job) /\ now < l.until => object[l.job] # None
ExportsKept == OfferedWhole /\ PromiseKept /\ LinksEnd

(* A job ends, whatever becomes of its handlers, and its key is free again. *)
JobEnds(j) == job[j] # None /\ ~Pending(j)
=============================================================================
