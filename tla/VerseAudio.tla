----------------------------- MODULE VerseAudio -----------------------------
(***************************************************************************)
(* Recorded verse audio: one recording per unit (a bible text of one       *)
(* project unit), many takes per recording, one of them active.  Clients   *)
(* that recorded offline race to replace the active take; the server       *)
(* decides each race with a compare-and-swap on the recording's            *)
(* versionToken and marks what it cannot decide as a conflict, which a     *)
(* manager resolves.  domains/verse-audio: upload.service, service,        *)
(* repository, takes.repository and coverage-writes.                       *)
(*                                                                         *)
(* A request is a sequence of steps, each one SQL statement or one         *)
(* transaction of the handler; the steps of different requests interleave. *)
(* A client here is one request at a time.  Bytes are their content hash;  *)
(* their storage (claim, PUT, reclaim) is another module's subject.        *)
(***************************************************************************)
EXTENDS VerseAudioCoverage

CONSTANTS
    Units,        \* the bible texts of one project unit
    Anchor,       \* [Units -> where the bible text is: a book and a reference]
    RangeEnds,    \* the references a pericope recording may end at
    Clients,      \* concurrent requests
    Hashes,       \* the distinct audio files
    Ops,          \* the operations clients use, among AllOps
    Activates,    \* the values of the "activate" field clients send
    Faults,       \* whether a request may die half way
    MaxRequests   \* bound: requests started in a behaviour

AllOps == {"upload", "resolve", "deleteTake", "deleteRecording", "prune"}

ASSUME UnitsAssumption == Units # {} /\ Hashes # {}
ASSUME AnchorAssumption == Anchor \in [Units -> [book : Nat, ref : VerseRef]]
ASSUME RangeEndsAssumption == RangeEnds \subseteq VerseRef
ASSUME OpsAssumption == Ops \subseteq AllOps
ASSUME ActivatesAssumption == Activates \subseteq BOOLEAN
ASSUME FaultsAssumption == Faults \in BOOLEAN
ASSUME MaxRequestsAssumption == MaxRequests \in Nat

VARIABLES
    recording,     \* [Units -> a row of verse_audio_recordings or NoRecording]
    take,          \* the rows of verse_audio_takes, by id
    nextRecording, \* the sequence of recording ids
    nextTake,      \* the sequence of take ids
    request,       \* [Clients -> the request being served]
    started,       \* how many requests have been started
    agedUnits,     \* units whose row was not updated for the retention window
    agedTakes,     \* takes created before the retention window
    sweep,         \* the takes the retention sweep has listed and not yet judged
    surfaced       \* history: takes that were active, or listed in a conflict

vars == <<recording, take, nextRecording, nextTake, request, started,
          agedUnits, agedTakes, sweep, surfaced>>
rows == <<recording, take, nextRecording, nextTake, agedUnits, agedTakes>>

Status == {"clean", "conflict", "resolved"}

(* Row ids start at 1: id 0 is "no row", active 0 is a null activeTakeId. *)
RecordingRow ==
    [id : Nat, token : Nat, status : Status, active : Nat, shape : Shape]

NoRecording ==
    [id |-> 0, token |-> 0, status |-> "clean", active |-> 0, shape |-> VerseShape]

TakeRow == [rec : Nat \ {0}, hash : Hashes, shape : Shape]

(* Where a request is: the statement it runs next.                         *)
Steps == {"idle", "get", "first", "find", "insert", "replace", "flag", "mark",
          "promote", "rewrite", "readback", "scan", "lookup", "resolve"}

RequestState ==
    [pc : Steps, unit : Units, hash : Hashes, shape : Shape,
     activate : BOOLEAN,
     replacing : BOOLEAN,  \* baseVersionToken is absent or matches the snapshot
     snap : RecordingRow,  \* the recording as the request read it
     take : Nat,           \* the take the request wrote, matched or names
     scan : BOOLEAN]       \* whether overlaps are scanned in the end

IdleRequest ==
    [pc |-> "idle", unit |-> CHOOSE u \in Units : TRUE,
     hash |-> CHOOSE h \in Hashes : TRUE, shape |-> VerseShape,
     activate |-> TRUE, replacing |-> TRUE, snap |-> NoRecording,
     take |-> 0, scan |-> FALSE]

TypeOK ==
    /\ recording \in [Units -> RecordingRow]
    /\ DOMAIN take \subseteq Nat \ {0}
    /\ \A i \in DOMAIN take : take[i] \in TakeRow
    /\ nextRecording \in Nat \ {0} /\ nextTake \in Nat \ {0}
    /\ request \in [Clients -> RequestState]
    /\ started \in 0 .. MaxRequests
    /\ agedUnits \subseteq Units
    /\ agedTakes \subseteq Nat /\ sweep \subseteq Nat /\ surfaced \subseteq Nat

-----------------------------------------------------------------------------
(* Helpers *)

Present(u) == recording[u].id # 0

TakesOf(id) == {i \in DOMAIN take : take[i].rec = id}

TakesWithHash(id, hash) == {i \in TakesOf(id) : take[i].hash = hash}

(* The geometry of a recording, and of a shape recorded at a unit. *)
RangeAt(u, shape) == coverageFromActive(shape, Anchor[u].ref)

(* Mutant of GeometryChanges: reusing a take never widens the coverage.    *)
NeverWidens(r) == FALSE

(* Whether the upload's shape covers another stretch than the recording.    *)
GeometryChanges(r) == ~rangesEqual(RangeAt(r.unit, r.snap.shape), RangeAt(r.unit, r.shape))

(* The predicate of every compare-and-swap: the row the request read is    *)
(* still there, at the version it read.                                    *)
Unchanged(r) ==
    /\ Present(r.unit)
    /\ recording[r.unit].id = r.snap.id
    /\ recording[r.unit].token = r.snap.token

Move(c, r) == request' = [request EXCEPT ![c] = r]

Finish(c) == Move(c, IdleRequest)

(* Mutant of Update: the version token is not bumped. *)
UpdateUnversioned(u, row) ==
    /\ recording' = [recording EXCEPT ![u] = [row EXCEPT !.token = recording[u].token]]
    /\ agedUnits' = agedUnits \ {u}

(* UPDATE of one recording row; $onUpdate restarts the retention window.   *)
Update(u, row) ==
    /\ recording' = [recording EXCEPT ![u] = row]
    /\ agedUnits' = agedUnits \ {u}

(* INSERT of a take, or the row that already has these bytes (unique on    *)
(* recording and content hash).                                            *)
Store(id, hash, shape, i) ==
    \/ /\ i \in TakesWithHash(id, hash)
       /\ UNCHANGED <<take, nextTake>>
    \/ /\ TakesWithHash(id, hash) = {}
       /\ i = nextTake
       /\ nextTake' = nextTake + 1
       /\ take' = [j \in DOMAIN take \cup {i} |->
                     IF j = i THEN [rec |-> id, hash |-> hash, shape |-> shape]
                     ELSE take[j]]

(* DELETE of takes.  active_take_id is ON DELETE SET NULL, so a recording  *)
(* never points at a missing take; what it may lose is its active take.    *)
WithoutActive(row, gone) ==
    IF row.active \in gone THEN [row EXCEPT !.active = 0] ELSE row

Drop(gone) ==
    /\ take' = [j \in DOMAIN take \ gone |-> take[j]]
    /\ agedTakes' = agedTakes \ gone

(* A take is before the manager's eyes when it is active or its unit is in *)
(* conflict; the history variable remembers which takes ever were.         *)
Visible(i) ==
    \E u \in Units :
        /\ Present(u) /\ recording[u].id = take[i].rec
        /\ recording[u].active = i \/ recording[u].status = "conflict"

Observe == surfaced' = {i \in DOMAIN take' : i \in surfaced \/ Visible(i)'}

-----------------------------------------------------------------------------
(* Upload: the unit is read, and the request goes one of three ways.       *)

LookUp(c, r) ==
    \/ /\ ~Present(r.unit)
       /\ Move(c, [r EXCEPT !.pc = "first"])
    \/ /\ Present(r.unit)
       /\ \E replacing \in IF r.activate THEN BOOLEAN ELSE {TRUE} :
             Move(c, [r EXCEPT !.pc = "find", !.snap = recording[r.unit],
                               !.replacing = replacing])

StartUpload(c) ==
    /\ "upload" \in Ops
    /\ request[c].pc = "idle"
    /\ started < MaxRequests
    /\ started' = started + 1
    /\ \E u \in Units, h \in Hashes, activate \in Activates :
          \E s \in AcceptedShapes(Anchor[u].ref, RangeEnds) :
             LookUp(c, [IdleRequest EXCEPT !.unit = u, !.hash = h, !.shape = s,
                                           !.activate = activate])
    /\ UNCHANGED <<rows, sweep>>
    /\ Observe

(* Mutant of UploadAgain: the re-entry takes the first-upload path again.  *)
RetryFirst(c) ==
    /\ request[c].pc = "get"
    /\ Move(c, [request[c] EXCEPT !.pc = "first"])
    /\ UNCHANGED <<rows, sweep, started>>
    /\ Observe

(* A first upload that lost to an inactive one re-enters uploadRecording.  *)
UploadAgain(c) ==
    /\ request[c].pc = "get"
    /\ LookUp(c, request[c])
    /\ UNCHANGED <<rows, sweep, started>>
    /\ Observe

(* The unit has no recording: recording and take in one transaction.  A    *)
(* concurrent winner may have inserted the recording since.                *)
CreateRecording(c) ==
    LET r == request[c]
        row == [id |-> nextRecording, token |-> IF r.activate THEN 2 ELSE 1,
                status |-> "clean", active |-> IF r.activate THEN nextTake ELSE 0,
                shape |-> r.shape] IN
    /\ r.pc = "first"
    /\ ~Present(r.unit)
    /\ Store(nextRecording, r.hash, r.shape, nextTake)
    /\ Update(r.unit, row)
    /\ nextRecording' = nextRecording + 1
    /\ IF r.activate
       THEN Move(c, [r EXCEPT !.pc = "scan", !.snap = row, !.take = nextTake, !.scan = TRUE])
       ELSE Finish(c)
    /\ UNCHANGED <<agedTakes, sweep, started>>
    /\ Observe

JoinRecording(c) ==
    LET r == request[c]
        row == recording[r.unit] IN
    /\ r.pc = "first"
    /\ Present(r.unit)
    /\ \E i \in TakesWithHash(row.id, r.hash) \cup {nextTake} :
          /\ Store(row.id, r.hash, r.shape, i)
          /\ \/ ~r.activate /\ Finish(c)
             \/ r.activate /\ row.active = 0 /\ Move(c, [r EXCEPT !.pc = "get"])
             \/ /\ r.activate /\ row.active # 0
                /\ Move(c, [r EXCEPT !.pc = IF row.active = i THEN "scan" ELSE "mark",
                                     !.snap = row, !.take = i, !.scan = TRUE])
    /\ UNCHANGED <<recording, nextRecording, agedUnits, agedTakes, sweep, started>>
    /\ Observe

(* The unit has a recording: are these bytes already one of its takes?  A  *)
(* retry needs nothing more; neither does an inactive upload, or a stale   *)
(* one that names a take which is not active.                              *)
AnswerDuplicate(c) ==
    LET r == request[c] IN
    /\ r.pc = "find"
    /\ \E i \in TakesWithHash(r.snap.id, r.hash) :
          \/ ~r.activate
          \/ i = r.snap.active /\ take[i].shape = r.shape
          \/ i # r.snap.active /\ ~r.replacing
    /\ Finish(c)
    /\ UNCHANGED <<rows, sweep, started>>
    /\ Observe

(* Otherwise the existing take is made active, its coverage rewritten when *)
(* the upload carries another shape; a stale base may do neither, and only *)
(* contests the active take.                                               *)
UseDuplicate(c) ==
    LET r == request[c] IN
    /\ r.pc = "find" /\ r.activate
    /\ \E i \in TakesWithHash(r.snap.id, r.hash) :
          \/ /\ r.replacing /\ take[i].shape # r.shape
             /\ Move(c, [r EXCEPT !.pc = "rewrite", !.take = i, !.scan = GeometryChanges(r)])
          \/ /\ r.replacing /\ take[i].shape = r.shape /\ i # r.snap.active
             /\ Move(c, [r EXCEPT !.pc = "promote", !.take = i, !.scan = GeometryChanges(r)])
          \/ /\ ~r.replacing /\ take[i].shape # r.shape /\ i = r.snap.active
             /\ Move(c, [r EXCEPT !.pc = "mark", !.take = i, !.scan = FALSE])
    /\ UNCHANGED <<rows, sweep, started>>
    /\ Observe

FindNothing(c) ==
    LET r == request[c] IN
    /\ r.pc = "find"
    /\ TakesWithHash(r.snap.id, r.hash) = {}
    /\ Move(c, [r EXCEPT !.pc = "insert"])
    /\ UNCHANGED <<rows, sweep, started>>
    /\ Observe

(* The take goes in on its own, before the recording is touched: a deleted *)
(* recording fails the foreign key, a concurrent insert of the same bytes  *)
(* answers with its take.                                                  *)
InsertTake(c) ==
    LET r == request[c] IN
    /\ r.pc = "insert"
    /\ \/ /\ recording[r.unit].id # r.snap.id
          /\ Finish(c)
          /\ UNCHANGED <<take, nextTake>>
       \/ /\ recording[r.unit].id = r.snap.id
          /\ \E i \in TakesWithHash(r.snap.id, r.hash) \cup {nextTake} :
                /\ Store(r.snap.id, r.hash, r.shape, i)
                /\ IF r.activate
                   THEN Move(c, [r EXCEPT !.pc = IF r.replacing THEN "replace" ELSE "flag",
                                          !.take = i, !.scan = TRUE])
                   ELSE Finish(c)
    /\ UNCHANGED <<recording, nextRecording, agedUnits, agedTakes, sweep, started>>
    /\ Observe

(* Mutants of Swap: the version is not compared; a take deleted meanwhile   *)
(* is not noticed; a miss is answered like a hit.                          *)
SwapBlindly(c, row, applied, missed) ==
    LET r == request[c] IN
    IF Present(r.unit) /\ row.active \in DOMAIN take \cup {0}
    THEN Update(r.unit, row) /\ Move(c, applied)
    ELSE Move(c, missed) /\ UNCHANGED <<recording, agedUnits>>

SwapDangling(c, row, applied, missed) ==
    LET r == request[c] IN
    IF Unchanged(r)
    THEN Update(r.unit, row) /\ Move(c, applied)
    ELSE Move(c, missed) /\ UNCHANGED <<recording, agedUnits>>

SwapUnnoticed(c, row, applied, missed) ==
    LET r == request[c] IN
    /\ Move(c, applied)
    /\ IF Unchanged(r) THEN Update(r.unit, row) ELSE UNCHANGED <<recording, agedUnits>>

(* A compare-and-swap of the recording row: a miss goes on to missed.  An  *)
(* activeTakeId that names a deleted take fails the foreign key instead.   *)
Swap(c, row, applied, missed) ==
    LET r == request[c] IN
    \/ /\ Unchanged(r)
       /\ row.active \in DOMAIN take \cup {0}
       /\ Update(r.unit, row)
       /\ Move(c, applied)
    \/ /\ Unchanged(r)
       /\ row.active \notin DOMAIN take \cup {0}
       /\ Finish(c)
       /\ UNCHANGED <<recording, agedUnits>>
    \/ /\ ~Unchanged(r)
       /\ Move(c, missed)
       /\ UNCHANGED <<recording, agedUnits>>

(* A fresh base takes over as the active take and leaves the status alone. *)
ReplaceActive(c) ==
    LET r == request[c] IN
    /\ r.pc = "replace"
    /\ Swap(c, [recording[r.unit] EXCEPT !.token = r.snap.token + 1, !.active = r.take,
                                         !.shape = r.shape],
            [r EXCEPT !.pc = "readback"], [r EXCEPT !.pc = "mark"])
    /\ UNCHANGED <<take, nextRecording, nextTake, agedTakes, sweep, started>>
    /\ Observe

(* A stale base keeps the active take and opens a conflict. *)
FlagStaleBase(c) ==
    LET r == request[c] IN
    /\ r.pc = "flag"
    /\ Swap(c, [recording[r.unit] EXCEPT !.token = r.snap.token + 1, !.status = "conflict"],
            [r EXCEPT !.pc = "readback"], [r EXCEPT !.pc = "mark"])
    /\ UNCHANGED <<take, nextRecording, nextTake, agedTakes, sweep, started>>
    /\ Observe

(* Make an existing take of the same shape active; a miss is left alone.   *)
PromoteDuplicate(c) ==
    LET r == request[c] IN
    /\ r.pc = "promote"
    /\ Swap(c, [recording[r.unit] EXCEPT !.token = r.snap.token + 1, !.active = r.take,
                                         !.shape = r.shape],
            IF r.scan THEN [r EXCEPT !.pc = "readback"] ELSE IdleRequest, IdleRequest)
    /\ UNCHANGED <<take, nextRecording, nextTake, agedTakes, sweep, started>>
    /\ Observe

(* Coverage of the take and the recording in one transaction, rolled back  *)
(* when either row is not what the request read.                           *)
RewriteCoverage(c) ==
    LET r == request[c] IN
    /\ r.pc = "rewrite"
    /\ \/ /\ r.take \in DOMAIN take /\ Unchanged(r)
          /\ take' = [take EXCEPT ![r.take].shape = r.shape]
          /\ Update(r.unit,
                [recording[r.unit] EXCEPT
                   !.token = r.snap.token + 1, !.shape = r.shape,
                   !.active = IF r.take = r.snap.active THEN @ ELSE r.take])
          /\ IF r.scan THEN Move(c, [r EXCEPT !.pc = "scan"]) ELSE Finish(c)
       \/ /\ r.take \notin DOMAIN take \/ ~Unchanged(r)
          /\ Finish(c)
          /\ UNCHANGED <<take, recording, agedUnits>>
    /\ UNCHANGED <<nextRecording, nextTake, agedTakes, sweep, started>>
    /\ Observe

(* Mutant of MarkConflict: the mark, too, needs the version that was read. *)
MarkIfUnchanged(c) ==
    LET r == request[c]
        row == recording[r.unit] IN
    /\ r.pc = "mark"
    /\ IF r.scan /\ Present(r.unit) /\ row.id = r.snap.id
       THEN Move(c, [r EXCEPT !.pc = "readback"]) ELSE Finish(c)
    /\ IF Unchanged(r) /\ row.status # "resolved"
       THEN Update(r.unit, [row EXCEPT !.status = "conflict", !.token = @ + 1])
       ELSE UNCHANGED <<recording, agedUnits>>
    /\ UNCHANGED <<take, nextRecording, nextTake, agedTakes, sweep, started>>
    /\ Observe

(* The loser of a race keeps its take and opens a conflict, except on a    *)
(* unit a manager has just resolved.                                       *)
MarkConflict(c) ==
    LET r == request[c]
        row == recording[r.unit] IN
    /\ r.pc = "mark"
    /\ IF r.scan /\ Present(r.unit) /\ row.id = r.snap.id
       THEN Move(c, [r EXCEPT !.pc = "readback"]) ELSE Finish(c)
    /\ IF Present(r.unit) /\ row.id = r.snap.id /\ row.status # "resolved"
       THEN Update(r.unit, [row EXCEPT !.status = "conflict", !.token = @ + 1])
       ELSE UNCHANGED <<recording, agedUnits>>
    /\ UNCHANGED <<take, nextRecording, nextTake, agedTakes, sweep, started>>
    /\ Observe

(* The repository reads the updated row back; gone, the request fails.     *)
ReadBack(c) ==
    LET r == request[c] IN
    /\ r.pc = "readback"
    /\ IF Present(r.unit) THEN Move(c, [r EXCEPT !.pc = "scan"]) ELSE Finish(c)
    /\ UNCHANGED <<rows, sweep, started>>
    /\ Observe

(* The overlap scan locks every recording of the project unit and marks    *)
(* the ones the upload's shape intersects in the same book, and the        *)
(* uploaded unit itself; resolved ones are contention but stay resolved.   *)
Intersecting(u, shape) ==
    {v \in Units \ {u} :
        /\ Present(v)
        /\ Anchor[v].book = Anchor[u].book
        /\ rangesOverlap(RangeAt(u, shape), RangeAt(v, recording[v].shape))}

ToMark(u, shape) ==
    LET others == Intersecting(u, shape) IN
    {v \in others \cup (IF others = {} THEN {} ELSE {u}) :
        Present(v) /\ recording[v].status # "resolved"}

ScanOverlaps(c) ==
    LET r == request[c]
        marked == ToMark(r.unit, r.shape) IN
    /\ r.pc = "scan"
    /\ recording' = [v \in Units |->
                       IF v \in marked THEN [recording[v] EXCEPT !.status = "conflict"]
                       ELSE recording[v]]
    /\ agedUnits' = agedUnits \ marked
    /\ Finish(c)
    /\ UNCHANGED <<take, nextRecording, nextTake, agedTakes, sweep, started>>
    /\ Observe

-----------------------------------------------------------------------------
(* Resolve: read the unit, read the chosen take, swap.  Only a unit in     *)
(* conflict can be resolved; any other request changes nothing.            *)

StartResolve(c) ==
    /\ "resolve" \in Ops
    /\ request[c].pc = "idle"
    /\ started < MaxRequests
    /\ started' = started + 1
    /\ \E u \in Units :
          /\ Present(u) /\ recording[u].status = "conflict"
          /\ Move(c, [IdleRequest EXCEPT !.pc = "lookup", !.unit = u, !.snap = recording[u]])
    /\ UNCHANGED <<rows, sweep>>
    /\ Observe

LookUpTake(c) ==
    LET r == request[c] IN
    /\ r.pc = "lookup"
    /\ \/ TakesOf(r.snap.id) = {} /\ Finish(c)
       \/ \E i \in TakesOf(r.snap.id) :
             Move(c, [r EXCEPT !.pc = "resolve", !.take = i, !.shape = take[i].shape])
    /\ UNCHANGED <<rows, sweep, started>>
    /\ Observe

ResolveConflict(c) ==
    LET r == request[c] IN
    /\ r.pc = "resolve"
    /\ Swap(c, [recording[r.unit] EXCEPT !.token = r.snap.token + 1, !.active = r.take,
                                         !.shape = r.shape, !.status = "resolved"],
            IdleRequest, IdleRequest)
    /\ UNCHANGED <<take, nextRecording, nextTake, agedTakes, sweep, started>>
    /\ Observe

-----------------------------------------------------------------------------
(* Deletion.  What these requests read beforehand is immutable or read     *)
(* again under the lock, so each is the one transaction that decides.      *)

(* Mutant of newestTake: no take left is not told from a take. *)
newestOrMinus(ids) ==
    {i \in ids \cup {-1} : \A j \in ids : j <= i}

(* The take a deletion promotes: the newest one left (ids are handed out in *)
(* the order of creation), or 0 when none is.                               *)
newestTake(ids) ==
    IF ids = {} THEN {0} ELSE {i \in ids : \A j \in ids : j <= i}

(* Deleting the active take promotes the newest remaining one, if any, and *)
(* leaves the conflict status alone; a stale base is refused (no step).    *)
DeleteTake(c) ==
    /\ "deleteTake" \in Ops
    /\ request[c].pc = "idle"
    /\ started < MaxRequests
    /\ started' = started + 1
    /\ \E u \in Units :
          /\ Present(u)
          /\ \E i \in TakesOf(recording[u].id) :
                /\ Drop({i})
                /\ \/ /\ recording[u].active # i
                      /\ UNCHANGED <<recording, agedUnits>>
                   \/ /\ recording[u].active = i
                      /\ \E promoted \in newestTake(TakesOf(recording[u].id) \ {i}) :
                            Update(u, [recording[u] EXCEPT
                                !.token = @ + 1, !.active = promoted,
                                !.shape = IF promoted \in DOMAIN take THEN take[promoted].shape ELSE @])
    /\ UNCHANGED <<nextRecording, nextTake, request, sweep>>
    /\ Observe

(* Takes go with their recording (ON DELETE CASCADE). *)
DeleteRecording(c) ==
    /\ "deleteRecording" \in Ops
    /\ request[c].pc = "idle"
    /\ started < MaxRequests
    /\ started' = started + 1
    /\ \E u \in Units :
          /\ Present(u)
          /\ Drop(TakesOf(recording[u].id))
          /\ Update(u, NoRecording)
    /\ UNCHANGED <<nextRecording, nextTake, request, sweep>>
    /\ Observe

-----------------------------------------------------------------------------
(* Retention: the sweep lists superseded takes of settled units, then       *)
(* locks their recordings and deletes the ones that still qualify.          *)

Superseded(i) ==
    /\ i \in agedTakes
    /\ \E u \in agedUnits :
          /\ Present(u)
          /\ recording[u].id = take[i].rec
          /\ recording[u].status \in {"clean", "resolved"}
          /\ recording[u].active \notin {0, i}

ListSuperseded ==
    /\ "prune" \in Ops
    /\ sweep = {}
    /\ sweep' \in (SUBSET {i \in DOMAIN take : Superseded(i)}) \ {{}}
    /\ UNCHANGED <<rows, request, started>>
    /\ Observe

(* Mutant of PruneTakes: what was listed is deleted without a second look. *)
PruneListed ==
    /\ sweep # {}
    /\ sweep' = {}
    /\ Drop(sweep)
    /\ recording' = [u \in Units |-> WithoutActive(recording[u], sweep)]
    /\ UNCHANGED <<nextRecording, nextTake, agedUnits, request, started>>
    /\ Observe

PruneTakes ==
    LET gone == {i \in sweep \cap DOMAIN take : Superseded(i)} IN
    /\ sweep # {}
    /\ sweep' = {}
    /\ Drop(gone)
    /\ recording' = [u \in Units |-> WithoutActive(recording[u], gone)]
    /\ UNCHANGED <<nextRecording, nextTake, agedUnits, request, started>>
    /\ Observe

(* The retention window passes: no request and no sweep lasts that long.   *)
TimePasses ==
    /\ "prune" \in Ops
    /\ sweep = {} /\ \A c \in Clients : request[c].pc = "idle"
    /\ agedTakes # DOMAIN take \/ \E u \in Units \ agedUnits : Present(u)
    /\ agedTakes' = DOMAIN take
    /\ agedUnits' = {u \in Units : Present(u)}
    /\ UNCHANGED <<recording, take, nextRecording, nextTake, sweep, request, started>>
    /\ Observe

(* A request dies: the process is killed, the client hangs up, a statement *)
(* or the storage of the bytes fails.  What it committed stays.            *)
Abort(c) ==
    /\ Faults
    /\ request[c].pc # "idle"
    /\ Finish(c)
    /\ UNCHANGED <<rows, sweep, started>>
    /\ Observe

-----------------------------------------------------------------------------
Init ==
    /\ recording = [u \in Units |-> NoRecording]
    /\ take = [i \in {} |-> 0]
    /\ nextRecording = 1 /\ nextTake = 1
    /\ request = [c \in Clients |-> IdleRequest]
    /\ started = 0
    /\ agedUnits = {} /\ agedTakes = {} /\ sweep = {}
    /\ surfaced = {}

(* The steps of a request that is being served. *)
Proceed(c) ==
    \/ UploadAgain(c) \/ CreateRecording(c) \/ JoinRecording(c)
    \/ AnswerDuplicate(c) \/ UseDuplicate(c) \/ FindNothing(c)
    \/ InsertTake(c) \/ ReplaceActive(c) \/ FlagStaleBase(c)
    \/ PromoteDuplicate(c) \/ RewriteCoverage(c) \/ MarkConflict(c)
    \/ ReadBack(c) \/ ScanOverlaps(c)
    \/ LookUpTake(c) \/ ResolveConflict(c)

Next ==
    \/ \E c \in Clients :
          \/ StartUpload(c) \/ StartResolve(c) \/ DeleteTake(c) \/ DeleteRecording(c)
          \/ Proceed(c) \/ Abort(c)
    \/ ListSuperseded \/ PruneTakes \/ TimePasses

Spec == Init /\ [][Next]_vars

-----------------------------------------------------------------------------
(* Properties *)

(* The active take of a recording is a take of that recording.  The foreign *)
(* key only says that it exists; that it belongs is up to every handler     *)
(* that writes activeTakeId from a take it looked up earlier.               *)
ActiveTakeBelongs ==
    \A u \in Units :
        recording[u].active # 0 =>
            /\ Present(u)
            /\ recording[u].active \in DOMAIN take
            /\ take[recording[u].active].rec = recording[u].id

(* An unchanged version token means an unchanged selection: what a request  *)
(* read before is still so when its compare-and-swap applies, hence no      *)
(* replace, promote or resolve overwrites a selection it did not see.       *)
SnapshotCoherent ==
    \A c \in Clients :
        LET r == request[c]
            row == recording[r.unit] IN
        r.pc \notin {"idle", "get", "first"} /\ Unchanged(r) =>
            /\ row.active = r.snap.active
            /\ row.shape = r.snap.shape
            /\ r.snap.status # "clean" => row.status = r.snap.status

(* No upload that goes to its read-back or its scan has a take that nobody  *)
(* is told of: the take was active or in an open conflict, or its unit      *)
(* stands resolved.  An upload that finds its bytes among the takes may     *)
(* answer without either (AnswerDuplicate, a missed PromoteDuplicate); that *)
(* not all of those owe nothing is what NoSilentLoser shows.                *)
LosersSurfaced ==
    \A c \in Clients :
        request[c].pc \in {"readback", "scan"} /\ request[c].take \in DOMAIN take =>
            \/ request[c].take \in surfaced
            \/ \E u \in Units : /\ Present(u) /\ recording[u].status = "resolved"
                                /\ recording[u].id = take[request[c].take].rec

(* The same of every take there is, once nobody is uploading its bytes:     *)
(* "Race loser: keep the winner's active take and surface ours as a         *)
(* conflict" (verse-audio.upload.service.ts).  Says something only where    *)
(* every upload is to be active and no request dies.                        *)
NoSilentLoser ==
    \A i \in DOMAIN take :
        \/ i \in surfaced
        \/ \E c \in Clients : /\ request[c].pc # "idle"
                              /\ request[c].hash = take[i].hash
                              /\ recording[request[c].unit].id = take[i].rec
        \/ \E u \in Units : /\ Present(u) /\ recording[u].status = "resolved"
                            /\ recording[u].id = take[i].rec

(* Once all requests are answered, two recordings of one book that cover    *)
(* the same verse, each with an active take, are not both clean: whoever    *)
(* made the second of them active was to scan for the first.                *)
OverlapsSurfaced ==
    (\A c \in Clients : request[c].pc = "idle") =>
        \A u \in Units : Present(u) =>
            \A v \in Intersecting(u, recording[u].shape) :
                recording[u].active # 0 /\ recording[v].active # 0
                => "clean" # recording[u].status \/ "clean" # recording[v].status

(* Together, what concurrent uploads that are all to be active owe to their *)
(* users: whoever lost, and whoever overlaps, is told.                      *)
AllSurfaced == OverlapsSurfaced /\ NoSilentLoser

(* The retention sweep never takes a unit's active take away, although a    *)
(* take it has listed may be promoted before it deletes (the hazard the     *)
(* comment of pruneSupersededTakes describes).                              *)
SweepKeepsActive == [][PruneTakes => UNCHANGED recording]_vars

(* The recordings, whatever their takes and geometry, keep the contract of  *)
(* a recorded unit.                                                         *)
UnitView ==
    [u \in Units |-> [id |-> recording[u].id, token |-> recording[u].token,
                      status |-> recording[u].status, active |-> recording[u].active]]

Contract == INSTANCE AudioUnitContract WITH unit <- UnitView, fresh <- nextRecording

KeepsContract == Contract!Spec
=============================================================================
