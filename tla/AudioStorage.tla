---------------------------- MODULE AudioStorage ----------------------------
(***************************************************************************)
(* Where the audio of one recorded unit is kept: the bytes of a take in a  *)
(* bucket under a key made of its content hash, a storage_objects row that *)
(* says the object exists, and the rows that refer to it.  Postgres and    *)
(* the bucket share no transaction: an upload claims the row, writes the   *)
(* object and only then inserts the take; the reclaim deletes an object    *)
(* nothing refers to while it holds the lock of its row.                   *)
(* domains/verse-audio: storage-objects.repository, reclaim.service, and   *)
(* storeTakeBytes and deleteTakeObject of the services.                    *)
(***************************************************************************)
EXTENDS Naturals

CONSTANTS
    Keys,         \* the objects of the unit, one for each distinct content
    NoKey,        \* a null activeTakeId
    Uploaders,    \* concurrent upload requests
    SlowUploads,  \* whether an upload may outlast the grace period
    LostDeletes,  \* whether a reclaim may fail although it deleted the bytes
    MaxUploads    \* bound: uploads started in a behaviour

ASSUME NoKeyAssumption == NoKey \notin Keys
ASSUME SlowUploadsAssumption == SlowUploads \in BOOLEAN
ASSUME LostDeletesAssumption == LostDeletes \in BOOLEAN
ASSUME MaxUploadsAssumption == MaxUploads \in Nat

VARIABLES
    object,     \* [Keys -> the row of storage_objects, or NoObject]
    bytes,      \* [Keys -> whether the bucket has the object]
    take,       \* [Keys -> the storageObjectId of the take's row, 0 without a take]
    recording,  \* the row of verse_audio_recordings, or NoRecording
    upload,     \* [Uploaders -> the upload being served]
    nextObject, \* the sequence of storage object ids
    started     \* how many uploads have been started

vars == <<object, bytes, take, recording, upload, nextObject, started>>

(* reclaim: who is at the row.  "open" nobody, "locked" a reclaim that has  *)
(* found it orphaned, "wiped" one that has deleted the bytes as well.       *)
NoObject == [id |-> 0, old |-> FALSE, reclaim |-> "open"]

ObjectRow ==
    [id : Nat \ {0}, old : BOOLEAN, reclaim : {"open", "locked", "wiped"}] \cup {NoObject}

RecordingRow == [present : BOOLEAN, active : Keys \cup {NoKey}, object : Nat]

NoRecording == [present |-> FALSE, active |-> NoKey, object |-> 0]

Upload == [pc : {"idle", "claim", "put", "insert"}, key : Keys \cup {NoKey}, id : Nat]

IdleUpload == [pc |-> "idle", key |-> NoKey, id |-> 0]

TypeOK ==
    /\ object \in [Keys -> ObjectRow]
    /\ bytes \in [Keys -> BOOLEAN]
    /\ take \in [Keys -> Nat]
    /\ recording \in RecordingRow
    /\ upload \in [Uploaders -> Upload]
    /\ nextObject \in Nat \ {0}
    /\ started \in 0 .. MaxUploads

Exists(k) == object[k].id # 0

(* The orphan predicate: no take and no recording points at the row.       *)
Referenced(k) == take[k] # 0 \/ recording.object = object[k].id

-----------------------------------------------------------------------------
(* Upload *)

(* An upload of bytes that no take has yet; the others store nothing.      *)
StartUpload(c) ==
    /\ upload[c].pc = "idle"
    /\ started < MaxUploads
    /\ started' = started + 1
    /\ \E k \in Keys :
          /\ take[k] = 0
          /\ upload' = [upload EXCEPT ![c] = [IdleUpload EXCEPT !.pc = "claim", !.key = k]]
    /\ UNCHANGED <<object, bytes, take, recording, nextObject>>

(* Mutant of Claim: the revived row keeps its age. *)
ClaimStale(c) ==
    LET k == upload[c].key IN
    /\ upload[c].pc = "claim"
    /\ object[k].reclaim = "open"
    /\ IF Exists(k)
       THEN UNCHANGED <<object, nextObject>>
       ELSE /\ object' = [object EXCEPT ![k] = [NoObject EXCEPT !.id = nextObject]]
            /\ nextObject' = nextObject + 1
    /\ upload' = [upload EXCEPT ![c] = [@ EXCEPT !.pc = "put", !.id = object'[k].id]]
    /\ UNCHANGED <<bytes, take, recording, started>>

(* The row of the key is inserted, or revived as if it were new.  The      *)
(* upsert waits for a reclaim that holds the row.                          *)
Claim(c) ==
    LET k == upload[c].key IN
    /\ upload[c].pc = "claim"
    /\ object[k].reclaim = "open"
    /\ IF Exists(k)
       THEN object' = [object EXCEPT ![k].old = FALSE] /\ UNCHANGED nextObject
       ELSE /\ object' = [object EXCEPT ![k] = [NoObject EXCEPT !.id = nextObject]]
            /\ nextObject' = nextObject + 1
    /\ upload' = [upload EXCEPT ![c] = [@ EXCEPT !.pc = "put", !.id = object'[k].id]]
    /\ UNCHANGED <<bytes, take, recording, started>>

PutBytes(c) ==
    /\ upload[c].pc = "put"
    /\ bytes' = [bytes EXCEPT ![upload[c].key] = TRUE]
    /\ upload' = [upload EXCEPT ![c].pc = "insert"]
    /\ UNCHANGED <<object, take, recording, nextObject, started>>

(* The take refers to the claimed row: the foreign key waits for a reclaim *)
(* and fails when the row is gone.  The first take brings its recording,   *)
(* which is of these bytes whether or not the take is made active.         *)
InsertTake(c) ==
    LET u == upload[c] IN
    /\ u.pc = "insert"
    /\ object[u.key].reclaim = "open"
    /\ \/ /\ object[u.key].id = u.id
          /\ take' = [take EXCEPT ![u.key] = u.id]
          /\ \/ recording.present /\ UNCHANGED recording
             \/ /\ ~recording.present
                /\ \E active \in {u.key, NoKey} :
                      recording' = [present |-> TRUE, active |-> active, object |-> u.id]
       \/ object[u.key].id # u.id /\ UNCHANGED <<take, recording>>
    /\ upload' = [upload EXCEPT ![c] = IdleUpload]
    /\ UNCHANGED <<object, bytes, nextObject, started>>

(* The request dies, or its PUT or INSERT fails: what is stored stays.     *)
Abort(c) ==
    /\ upload[c].pc # "idle"
    /\ upload' = [upload EXCEPT ![c] = IdleUpload]
    /\ UNCHANGED <<object, bytes, take, recording, nextObject, started>>

-----------------------------------------------------------------------------
(* The rows that refer to objects.  Which take is selected when, and who   *)
(* may delete what, is the subject of VerseAudio.                          *)

(* An upload, a retry or a resolve makes a take active. *)
Select(k) ==
    /\ recording.present /\ take[k] # 0
    /\ recording' = [recording EXCEPT !.active = k, !.object = take[k]]
    /\ UNCHANGED <<object, bytes, take, upload, nextObject, started>>

(* Another take follows the active one, or nothing does. *)
DeleteTake(k) ==
    LET remaining == {j \in Keys \ {k} : take[j] # 0} IN
    /\ recording.present /\ take[k] # 0
    /\ take' = [take EXCEPT ![k] = 0]
    /\ \/ recording.active # k /\ UNCHANGED recording
       \/ /\ recording.active = k /\ remaining # {}
          /\ \E j \in remaining :
                recording' = [recording EXCEPT !.active = j, !.object = take[j]]
       \/ /\ recording.active = k /\ remaining = {}
          /\ recording' = [recording EXCEPT !.active = NoKey, !.object = 0]
    /\ UNCHANGED <<object, bytes, upload, nextObject, started>>

(* Mutant of DeleteRecording: the storage rows go with it. *)
DeleteCascading ==
    /\ recording.present
    /\ recording' = NoRecording
    /\ take' = [k \in Keys |-> 0]
    /\ object' = [k \in Keys |-> NoObject]
    /\ UNCHANGED <<bytes, upload, nextObject, started>>

(* The recording and its takes go, also when the project unit does.        *)
DeleteRecording ==
    /\ recording.present
    /\ recording' = NoRecording
    /\ take' = [k \in Keys |-> 0]
    /\ UNCHANGED <<object, bytes, upload, nextObject, started>>

PruneTake(k) ==
    /\ take[k] # 0
    /\ recording.active \notin {k, NoKey}
    /\ take' = [take EXCEPT ![k] = 0]
    /\ UNCHANGED <<object, bytes, recording, upload, nextObject, started>>

-----------------------------------------------------------------------------
(* Reclaim, by the hourly sweep or after a deletion: the row is locked and  *)
(* checked, the object deleted, the row deleted, in one transaction.        *)

(* The grace period of a row passes.  An upload that is not slow has        *)
(* inserted its take, or given up, before that.                             *)
Age(k) ==
    /\ Exists(k) /\ ~object[k].old
    /\ SlowUploads \/ \A c \in Uploaders :
                         upload[c].key = k => upload[c].pc \notin {"put", "insert"}
    /\ object' = [object EXCEPT ![k].old = TRUE]
    /\ UNCHANGED <<bytes, take, recording, upload, nextObject, started>>

(* Mutant of LockOrphan: only recordings are looked at for references.     *)
LockUnselected(k) ==
    /\ Exists(k) /\ object[k].old /\ object[k].reclaim = "open"
    /\ recording.object # object[k].id
    /\ object' = [object EXCEPT ![k].reclaim = "locked"]
    /\ UNCHANGED <<bytes, take, recording, upload, nextObject, started>>

LockOrphan(k) ==
    /\ Exists(k) /\ object[k].old /\ object[k].reclaim = "open"
    /\ ~Referenced(k)
    /\ object' = [object EXCEPT ![k].reclaim = "locked"]
    /\ UNCHANGED <<bytes, take, recording, upload, nextObject, started>>

(* Mutant of WipeBytes: a failed deletion of the object is swallowed.      *)
WipeNothing(k) ==
    /\ object[k].reclaim = "locked"
    /\ object' = [object EXCEPT ![k].reclaim = "wiped"]
    /\ UNCHANGED <<bytes, take, recording, upload, nextObject, started>>

WipeBytes(k) ==
    /\ object[k].reclaim = "locked"
    /\ bytes' = [bytes EXCEPT ![k] = FALSE]
    /\ object' = [object EXCEPT ![k].reclaim = "wiped"]
    /\ UNCHANGED <<take, recording, upload, nextObject, started>>

(* Mutant of CommitReclaim: the row is half removed.                       *)
CommitHalf(k) ==
    /\ object[k].reclaim = "wiped"
    /\ object' = [object EXCEPT ![k].id = 0]
    /\ UNCHANGED <<bytes, take, recording, upload, nextObject, started>>

CommitReclaim(k) ==
    /\ object[k].reclaim = "wiped"
    /\ object' = [object EXCEPT ![k] = NoObject]
    /\ UNCHANGED <<bytes, take, recording, upload, nextObject, started>>

(* The process dies, the bucket's answer or the commit is lost: the        *)
(* transaction is rolled back, the object is as the bucket has it.         *)
RollBack(k) ==
    /\ LostDeletes
    /\ object[k].reclaim # "open"
    /\ object' = [object EXCEPT ![k].reclaim = "open"]
    /\ UNCHANGED <<bytes, take, recording, upload, nextObject, started>>

-----------------------------------------------------------------------------
Init ==
    /\ object = [k \in Keys |-> NoObject]
    /\ bytes = [k \in Keys |-> FALSE]
    /\ take = [k \in Keys |-> 0]
    /\ recording = NoRecording
    /\ upload = [c \in Uploaders |-> IdleUpload]
    /\ nextObject = 1
    /\ started = 0

Store(c) == Claim(c) \/ PutBytes(c) \/ InsertTake(c)

Next ==
    \/ \E c \in Uploaders : StartUpload(c) \/ Store(c) \/ Abort(c)
    \/ \E k \in Keys :
          \/ Select(k) \/ DeleteTake(k) \/ PruneTake(k)
          \/ Age(k) \/ LockOrphan(k) \/ WipeBytes(k) \/ CommitReclaim(k) \/ RollBack(k)
    \/ DeleteRecording

Spec == Init /\ [][Next]_vars

(* Uploads are served, time passes, and the sweep comes back every hour to  *)
(* what it has not deleted yet: the bucket does not fail it for ever.       *)
Fairness ==
    /\ \A c \in Uploaders : WF_vars(Store(c))
    /\ \A k \in Keys :
          /\ WF_vars(Age(k)) /\ WF_vars(LockOrphan(k))
          /\ SF_vars(WipeBytes(k)) /\ SF_vars(CommitReclaim(k))

FairSpec == Spec /\ Fairness

-----------------------------------------------------------------------------
(* Properties *)

(* Every take can be played: its storage row and its bytes are there.  The  *)
(* row is the foreign key's doing, the bytes the order of claim, PUT and    *)
(* INSERT on one side and of lock, DELETE and row deletion on the other:    *)
(* "a blocked concurrent FK insert cannot commit a live reference to bytes  *)
(* that were reclaimed" (storage-objects.repository.ts).                    *)
NoDanglingTake ==
    \A k \in Keys : take[k] # 0 => object[k].id = take[k] /\ bytes[k]

(* "a row can always be traced back to bytes that need reclaiming"          *)
(* (schema.ts): no object is in the bucket without a row the sweep finds.   *)
BytesTracked == \A k \in Keys : bytes[k] => Exists(k)

(* "the grace period keeps the sweep off anything that young" (storage-     *)
(* objects.repository.ts): no upload loses the row it has claimed, not even *)
(* one that revived the row of an object dead for long.                     *)
GraceProtects ==
    \A c \in Uploaders :
        upload[c].pc \in {"put", "insert"} =>
            /\ object[upload[c].key].id = upload[c].id
            /\ object[upload[c].key].reclaim = "open"

(* Audio nothing refers to is deleted in the end, also when the reclaim     *)
(* fails between the bucket and the database, unless it is used again.      *)
OrphansReclaimed ==
    \A k \in Keys : bytes[k] /\ ~Referenced(k) ~> ~bytes[k] \/ Referenced(k)
=============================================================================
