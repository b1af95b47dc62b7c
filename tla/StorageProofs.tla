--------------------------- MODULE StorageProofs ----------------------------
(***************************************************************************)
(* Safety of AudioStorage for any keys, uploaders and number of uploads.   *)
(* A take never loses its bytes unless two things come together: an upload *)
(* that outlasts the grace period, and a reclaim that is rolled back after *)
(* it has deleted the object: then the upload commits its take to a row    *)
(* whose object has gone.  The theorems show that nothing else does it.    *)
(*                                                                         *)
(* After it the other files that are stored: the archives of UsfmExport.   *)
(***************************************************************************)
EXTENDS AudioStorage, TLAPS, Sequences, FiniteSets, FiniteSetTheorems

(* A take refers to the row of its own key, and nobody is reclaiming it.   *)
TakesStored ==
    \A k \in Keys :
        take[k] # 0 => /\ object[k].id = take[k] /\ bytes[k]
                       /\ object[k].reclaim = "open"

IdsFresh ==
    /\ \A k \in Keys : object[k].id < nextObject
    /\ \A c \in Uploaders : upload[c].id < nextObject

(* Until its row is reclaimed, an upload finds the bytes it has written.   *)
UploadStored(c) ==
    LET u == upload[c] IN
    /\ u.pc # "idle" => u.key \in Keys
    /\ u.pc \in {"put", "insert"} => u.id # 0
    /\ u.pc = "insert" /\ object[u.key].id = u.id /\ object[u.key].reclaim # "wiped"
       => bytes[u.key]

(* When the grace period outlasts every upload, rows of uploads are young, *)
(* and only old rows are reclaimed.                                        *)
Guarded ==
    /\ \A c \in Uploaders :
          upload[c].pc \in {"put", "insert"} =>
              /\ object[upload[c].key].id = upload[c].id
              /\ ~object[upload[c].key].old
    /\ \A k \in Keys :
          /\ bytes[k] => Exists(k)
          /\ object[k].reclaim = "wiped" => ~bytes[k]

IInv ==
    /\ TypeOK /\ IdsFresh /\ TakesStored
    /\ \A c \in Uploaders : UploadStored(c)
    /\ \A k \in Keys : object[k].reclaim # "open" => object[k].old
    /\ ~SlowUploads => Guarded

(* The database is empty when the uploads begin.                           *)
LEMMA InitIInv == Init => IInv
BY MaxUploadsAssumption
   DEF Init, IInv, TypeOK, IdsFresh, TakesStored, UploadStored, Guarded, Exists, ObjectRow,
       NoObject, RecordingRow, NoRecording, Upload, IdleUpload

-----------------------------------------------------------------------------
(* Steps that write neither the storage rows nor the bucket keep the       *)
(* invariant when new takes are stored and other uploads stay as they are. *)
LEMMA RowsUntouched ==
    ASSUME IInv, TypeOK', UNCHANGED <<object, bytes, nextObject>>,
           \A k \in Keys : take'[k] # 0 => \/ take'[k] = take[k]
                                           \/ /\ object[k].id = take'[k] /\ bytes[k]
                                              /\ object[k].reclaim = "open",
           \A c \in Uploaders :
              \/ upload'[c] = upload[c]
              \/ upload'[c].pc = "idle" /\ upload'[c].id = 0
              \/ /\ upload'[c].pc = "claim" /\ upload'[c].id = 0
                 /\ upload'[c].key \in Keys
    PROVE  IInv'
<1>1. IdsFresh'
    BY DEF IInv, IdsFresh, TypeOK
<1>2. TakesStored'
    BY DEF IInv, TakesStored
<1>3. \A c \in Uploaders : UploadStored(c)'
    BY DEF IInv, UploadStored
<1>4. ~SlowUploads => Guarded'
    BY DEF IInv, Guarded, Exists
<1> QED BY <1>1, <1>2, <1>3, <1>4 DEF IInv

(* A recording row written from its fields is one.                         *)
LEMMA RecordingType ==
    /\ NoRecording \in RecordingRow
    /\ \A present \in BOOLEAN, active \in Keys \cup {NoKey}, id \in Nat :
          [present |-> present, active |-> active, object |-> id] \in RecordingRow
BY DEF RecordingRow, NoRecording

(* So is a recording whose active take is exchanged.                       *)
LEMMA SelectedType ==
    ASSUME TypeOK, NEW k \in Keys \cup {NoKey}, NEW id \in Nat
    PROVE  [recording EXCEPT !.active = k, !.object = id] \in RecordingRow
<1>1. PICK row \in RecordingRow : row = recording
    BY DEF TypeOK
<1>2. [row EXCEPT !.active = k, !.object = id] \in RecordingRow
    BY DEF RecordingRow
<1> QED BY <1>1, <1>2

(* The existence checks of an upload write nothing.                        *)
LEMMA StartUploadKeeps ==
    ASSUME IInv, NEW c \in Uploaders, StartUpload(c)
    PROVE  IInv'
<1>1. PICK k \in Keys :
         upload' = [upload EXCEPT ![c] = [IdleUpload EXCEPT !.pc = "claim", !.key = k]]
    BY DEF StartUpload
<1>2. TypeOK'
  <2>1. [IdleUpload EXCEPT !.pc = "claim", !.key = k] \in Upload
    BY DEF Upload, IdleUpload
  <2>2. started' \in 0 .. MaxUploads
    BY MaxUploadsAssumption DEF StartUpload, IInv, TypeOK
  <2> QED BY <1>1, <2>1, <2>2 DEF StartUpload, IInv, TypeOK
<1> QED BY <1>1, <1>2, RowsUntouched DEF StartUpload, IInv, TypeOK, IdleUpload

(* A request that fails writes nothing.                                    *)
LEMMA AbortKeeps ==
    ASSUME IInv, NEW c \in Uploaders, Abort(c)
    PROVE  IInv'
<1>1. TypeOK'
    BY DEF Abort, IInv, TypeOK, Upload, IdleUpload
<1> QED BY <1>1, RowsUntouched DEF Abort, IInv, TypeOK, IdleUpload

(* A take is inserted on bytes its upload has claimed.                     *)
LEMMA InsertTakeKeeps ==
    ASSUME IInv, NEW c \in Uploaders, InsertTake(c)
    PROVE  IInv'
<1>1. PICK u \in Upload : u = upload[c]
    BY DEF IInv, TypeOK
<1>2. /\ u.pc = "insert" /\ u.key \in Keys /\ u.id \in Nat \ {0}
      /\ object[u.key].id = u.id /\ object[u.key].reclaim # "wiped" => bytes[u.key]
    BY <1>1 DEF IInv, UploadStored, InsertTake, Upload
<1>3. TypeOK'
  <2>1. upload' \in [Uploaders -> Upload]
    BY DEF InsertTake, IInv, TypeOK, Upload, IdleUpload
  <2>2. recording' \in RecordingRow
    <3>1. CASE UNCHANGED recording
      BY <3>1 DEF IInv, TypeOK
    <3>2. ASSUME NEW active \in {u.key, NoKey},
                 recording' = [present |-> TRUE, active |-> active, object |-> u.id]
          PROVE  recording' \in RecordingRow
      BY <1>2, <3>2, RecordingType
    <3> QED BY <1>1, <3>1, <3>2 DEF InsertTake
  <2>3. take' \in [Keys -> Nat]
    BY <1>1, <1>2 DEF InsertTake, IInv, TypeOK
  <2> QED BY <2>1, <2>2, <2>3 DEF InsertTake, IInv, TypeOK
<1>4. \A k \in Keys : take'[k] # 0 => \/ take'[k] = take[k]
                                      \/ /\ object[k].id = take'[k] /\ bytes[k]
                                         /\ object[k].reclaim = "open"
    BY <1>1, <1>2 DEF InsertTake, IInv, TypeOK
<1> QED BY <1>3, <1>4, RowsUntouched DEF InsertTake, IInv, TypeOK, IdleUpload

(* Making another take the active one, and deleting takes, leaves every    *)
(* take on bytes that are kept.                                            *)
LEMMA SelectKeeps ==
    ASSUME IInv, NEW k \in Keys, Select(k) \/ DeleteTake(k) \/ PruneTake(k) \/ DeleteRecording
    PROVE  IInv'
<1>1. TypeOK'
  <2>1. \A j \in Keys : take[j] \in Nat
    BY DEF IInv, TypeOK
  <2>2. take' \in [Keys -> Nat]
    <3>1. CASE UNCHANGED take \/ take' = [take EXCEPT ![k] = 0] \/ take' = [j \in Keys |-> 0]
      BY <3>1 DEF IInv, TypeOK
    <3> QED BY <3>1 DEF Select, DeleteTake, PruneTake, DeleteRecording
  <2>3. recording' \in RecordingRow
    <3>1. CASE Select(k)
      BY <2>1, <3>1, SelectedType DEF Select, IInv
    <3>2. CASE DeleteTake(k)
      <4>1. CASE UNCHANGED recording
        BY <4>1 DEF IInv, TypeOK
      <4>2. ASSUME NEW j \in Keys \cup {NoKey}, NEW id \in Nat,
                   recording' = [recording EXCEPT !.active = j, !.object = id]
            PROVE  recording' \in RecordingRow
        BY <4>2, SelectedType DEF IInv
      <4> QED BY <2>1, <3>2, <4>1, <4>2 DEF DeleteTake
    <3>3. CASE PruneTake(k)
      BY <3>3 DEF PruneTake, IInv, TypeOK
    <3>4. CASE DeleteRecording
      BY <3>4, RecordingType DEF DeleteRecording
    <3> QED BY <3>1, <3>2, <3>3, <3>4
  <2> QED BY <2>2, <2>3 DEF Select, DeleteTake, PruneTake, DeleteRecording, IInv, TypeOK
<1>2. \A j \in Keys : take'[j] # 0 => take'[j] = take[j]
    BY DEF Select, DeleteTake, PruneTake, DeleteRecording, IInv, TypeOK
<1> QED BY <1>1, <1>2, RowsUntouched DEF Select, DeleteTake, PruneTake, DeleteRecording

-----------------------------------------------------------------------------
(* Uploads write the bucket and the storage rows. *)

(* The fields of a tracked object are of their types.                      *)
LEMMA Rows ==
    ASSUME TypeOK, NEW k \in Keys
    PROVE  /\ object[k].id \in Nat
           /\ object[k].id = 0 => object[k].reclaim = "open" /\ object[k].old = FALSE
           /\ object[k] \in ObjectRow
BY DEF TypeOK, ObjectRow, NoObject

(* Writing bytes disturbs no other upload.                                 *)
LEMMA PutBytesKeeps ==
    ASSUME IInv, NEW c \in Uploaders, PutBytes(c)
    PROVE  IInv'
<1>1. PICK u \in Upload : u = upload[c]
    BY DEF IInv, TypeOK
<1>2. /\ u.pc = "put" /\ u.key \in Keys /\ u.id # 0
      /\ bytes' = [bytes EXCEPT ![u.key] = TRUE]
      /\ upload' = [upload EXCEPT ![c] = [u EXCEPT !.pc = "insert"]]
      /\ UNCHANGED <<object, take, recording, nextObject, started>>
    BY <1>1 DEF PutBytes, IInv, UploadStored
<1>3. PICK s \in Upload :
         /\ upload'[c] = s /\ s.pc = "insert" /\ s.key = u.key /\ s.id = u.id
         /\ upload' \in [Uploaders -> Upload]
         /\ \A d \in Uploaders \ {c} : upload'[d] = upload[d]
    BY <1>2 DEF IInv, TypeOK, Upload
<1>4. /\ bytes' \in [Keys -> BOOLEAN] /\ bytes'[u.key]
      /\ \A k \in Keys : k # u.key => bytes'[k] = bytes[k]
      /\ \A k \in Keys : bytes[k] => bytes'[k]
    BY <1>2 DEF IInv, TypeOK
<1>5. TypeOK'
    BY <1>2, <1>3, <1>4 DEF IInv, TypeOK
<1>6. IdsFresh'
    BY <1>1, <1>2, <1>3 DEF IInv, IdsFresh
<1>7. TakesStored'
    BY <1>2, <1>4 DEF IInv, TakesStored
<1>8. ASSUME NEW d \in Uploaders
      PROVE  UploadStored(d)'
    BY <1>2, <1>3, <1>4 DEF IInv, UploadStored
<1>9. ASSUME ~SlowUploads
      PROVE  Guarded'
  <2>1. object[u.key].id = u.id /\ ~object[u.key].old
    BY <1>1, <1>2, <1>9 DEF IInv, Guarded
  <2>2. object[u.key].reclaim # "wiped"
    BY <1>2, <2>1 DEF IInv
  <2> QED BY <1>1, <1>2, <1>3, <1>4, <1>9, <2>1, <2>2 DEF IInv, Guarded, Exists
<1> QED BY <1>2, <1>5, <1>6, <1>7, <1>8, <1>9 DEF IInv

(* The claim of an object waits for its reclaim, and starts its row        *)
(* afresh.                                                                 *)
LEMMA ClaimKeeps ==
    ASSUME IInv, NEW c \in Uploaders, Claim(c)
    PROVE  IInv'
<1>1. PICK u \in Upload : u = upload[c]
    BY DEF IInv, TypeOK
<1>2. /\ u.pc = "claim" /\ u.key \in Keys /\ object[u.key].reclaim = "open"
      /\ UNCHANGED <<bytes, take, recording, started>>
    BY <1>1 DEF Claim, IInv, UploadStored
<1>3. /\ object[u.key].id \in Nat /\ object[u.key] \in ObjectRow
      /\ object[u.key].id < nextObject /\ nextObject \in Nat \ {0}
    BY <1>2, Rows DEF IInv, IdsFresh, TypeOK
<1>4. PICK row \in ObjectRow :
         /\ object' = [object EXCEPT ![u.key] = row]
         /\ row.id \in Nat \ {0} /\ row.old = FALSE /\ row.reclaim = "open"
         /\ \/ row.id = object[u.key].id /\ nextObject' = nextObject
            \/ /\ object[u.key].id = 0 /\ row.id = nextObject
               /\ nextObject' = nextObject + 1
  <2>1. CASE Exists(u.key)
    <3> DEFINE row == [object[u.key] EXCEPT !.old = FALSE]
    <3>1. /\ row \in ObjectRow /\ row.id = object[u.key].id
          /\ row.old = FALSE /\ row.reclaim = "open"
      BY <1>2, <1>3, <2>1 DEF Exists, ObjectRow, NoObject
    <3>2. object' = [object EXCEPT ![u.key] = row] /\ nextObject' = nextObject
      BY <1>1, <2>1 DEF Claim
    <3> QED BY <1>3, <2>1, <3>1, <3>2 DEF Exists
  <2>2. CASE ~Exists(u.key)
    <3> DEFINE row == [NoObject EXCEPT !.id = nextObject]
    <3>1. /\ row \in ObjectRow /\ row.id = nextObject
          /\ row.old = FALSE /\ row.reclaim = "open"
      BY <1>3 DEF ObjectRow, NoObject
    <3>2. object' = [object EXCEPT ![u.key] = row] /\ nextObject' = nextObject + 1
      BY <1>1, <2>2 DEF Claim
    <3> QED BY <1>3, <2>2, <3>1, <3>2 DEF Exists
  <2> QED BY <2>1, <2>2
<1>5. /\ object' \in [Keys -> ObjectRow] /\ object'[u.key] = row
      /\ \A k \in Keys : k # u.key => object'[k] = object[k]
    BY <1>2, <1>4 DEF IInv, TypeOK
<1>6. PICK s \in Upload :
         /\ upload'[c] = s /\ s.pc = "put" /\ s.key = u.key /\ s.id = row.id
         /\ upload' \in [Uploaders -> Upload]
         /\ \A d \in Uploaders \ {c} : upload'[d] = upload[d]
  <2> DEFINE s == [u EXCEPT !.pc = "put", !.id = row.id]
  <2>1. s \in Upload /\ s.pc = "put" /\ s.key = u.key /\ s.id = row.id
    BY <1>4 DEF Upload
  <2>2. upload' = [upload EXCEPT ![c] = s]
    BY <1>1, <1>4, <1>5 DEF Claim
  <2> HIDE DEF s
  <2> QED BY <2>1, <2>2 DEF IInv, TypeOK
<1>7. nextObject' \in Nat \ {0} /\ nextObject <= nextObject' /\ row.id < nextObject'
    BY <1>3, <1>4
<1>8. TypeOK'
    BY <1>2, <1>5, <1>6, <1>7 DEF IInv, TypeOK
<1>9. IdsFresh'
  <2>1. \A k \in Keys : object[k].id \in Nat /\ object[k].id < nextObject
    BY Rows DEF IInv, IdsFresh
  <2>2. \A d \in Uploaders : upload[d].id \in Nat /\ upload[d].id < nextObject
    BY DEF IInv, IdsFresh, TypeOK, Upload
  <2>3. \A k \in Keys : object'[k].id < nextObject'
    BY <1>3, <1>5, <1>7, <2>1
  <2>4. \A d \in Uploaders : upload'[d].id < nextObject'
    BY <1>3, <1>6, <1>7, <2>2
  <2> QED BY <2>3, <2>4 DEF IdsFresh
<1>10. \A k \in Keys : object[k].id # 0 => object'[k].id = object[k].id
    BY <1>4, <1>5
<1>11. \A k \in Keys : object[k].reclaim = "open" => object'[k].reclaim = "open"
    BY <1>4, <1>5
<1>12. TakesStored'
    BY <1>2, <1>10, <1>11 DEF IInv, TakesStored
<1>13. ASSUME NEW d \in Uploaders
       PROVE  UploadStored(d)'
  <2>1. CASE d = c
    BY <1>2, <1>4, <1>6, <2>1 DEF UploadStored
  <2>2. CASE d # c
    <3>1. upload'[d] = upload[d] /\ upload[d].id \in Nat /\ upload[d].id < nextObject
      BY <1>6, <2>2 DEF IInv, IdsFresh, TypeOK, Upload
    <3>2. ASSUME upload[d].pc = "insert", object'[upload[d].key].id = upload[d].id,
                 object'[upload[d].key].reclaim # "wiped"
          PROVE  bytes[upload[d].key]
      <4>1. upload[d].key \in Keys
        BY <3>2 DEF IInv, UploadStored
      <4>2. object[upload[d].key].id = upload[d].id
        BY <1>3, <1>4, <1>5, <3>1, <3>2, <4>1
      <4>3. object[upload[d].key].reclaim # "wiped"
        BY <1>2, <1>5, <3>2, <4>1
      <4> QED BY <3>2, <4>2, <4>3 DEF IInv, UploadStored
    <3>3. /\ upload[d].pc # "idle" => upload[d].key \in Keys
          /\ upload[d].pc \in {"put", "insert"} => upload[d].id # 0
      BY DEF IInv, UploadStored
    <3> QED BY <1>2, <3>1, <3>2, <3>3 DEF UploadStored
  <2> QED BY <2>1, <2>2
<1>14. ASSUME ~SlowUploads
       PROVE  Guarded'
  <2>1. ASSUME NEW d \in Uploaders, upload'[d].pc \in {"put", "insert"}
        PROVE  object'[upload'[d].key].id = upload'[d].id /\ ~object'[upload'[d].key].old
    <3>1. CASE d = c
      BY <1>2, <1>4, <1>5, <1>6, <3>1
    <3>2. CASE d # c
      <4>1. /\ upload'[d] = upload[d] /\ upload[d].id # 0 /\ upload[d].key \in Keys
            /\ object[upload[d].key].id = upload[d].id /\ ~object[upload[d].key].old
        BY <1>6, <1>14, <2>1, <3>2 DEF IInv, UploadStored, Guarded
      <4> QED BY <1>4, <1>5, <1>10, <4>1
    <3> QED BY <3>1, <3>2
  <2>2. \A k \in Keys : bytes'[k] => object'[k].id # 0
    BY <1>2, <1>10, <1>14 DEF IInv, Guarded, Exists
  <2>3. \A k \in Keys : object'[k].reclaim = "wiped" => ~bytes'[k]
    BY <1>2, <1>4, <1>5, <1>14 DEF IInv, Guarded
  <2> QED BY <2>1, <2>2, <2>3 DEF Guarded, Exists
<1>15. \A k \in Keys : object'[k].reclaim # "open" => object'[k].old
    BY <1>4, <1>5 DEF IInv
<1> QED BY <1>8, <1>9, <1>12, <1>13, <1>14, <1>15 DEF IInv

-----------------------------------------------------------------------------
(* Time and the reclaim write one row, and what they delete is not used. *)

(* A row stays a row when it is locked, wiped or grows old.                *)
LEMMA RowTypes ==
    ASSUME TypeOK, NEW k \in Keys, object[k].id # 0,
           NEW reclaim \in {"open", "locked", "wiped"}
    PROVE  /\ LET row == [object[k] EXCEPT !.reclaim = reclaim]
              IN  /\ row \in ObjectRow /\ row.id = object[k].id /\ row.old = object[k].old
                  /\ row.reclaim = reclaim
           /\ LET row == [object[k] EXCEPT !.old = TRUE]
              IN  /\ row \in ObjectRow /\ row.id = object[k].id /\ row.old = TRUE
                  /\ row.reclaim = object[k].reclaim
<1>1. PICK row \in [id : Nat \ {0}, old : BOOLEAN, reclaim : {"open", "locked", "wiped"}] :
         row = object[k]
    BY DEF TypeOK, ObjectRow, NoObject
<1>2. LET new == [row EXCEPT !.reclaim = reclaim]
      IN  /\ new \in ObjectRow /\ new.id = row.id /\ new.old = row.old
          /\ new.reclaim = reclaim
    BY DEF ObjectRow
<1>3. LET new == [row EXCEPT !.old = TRUE]
      IN  /\ new \in ObjectRow /\ new.id = row.id /\ new.old = TRUE
          /\ new.reclaim = row.reclaim
    BY DEF ObjectRow
<1> QED BY <1>1, <1>2, <1>3

(* A step that writes the row of k, and in the bucket at most its object.  *)
RowStep(k, row) ==
    /\ object' = [object EXCEPT ![k] = row]
    /\ bytes' \in [Keys -> BOOLEAN] /\ \A j \in Keys \ {k} : bytes'[j] = bytes[j]
    /\ UNCHANGED <<take, recording, upload, nextObject, started>>
    /\ row.id = 0 \/ row.id = object[k].id
    /\ row.reclaim # "open" => row.old

(* It keeps what the take and the uploads of k rely on. *)
RowHarmless(k, row) ==
    /\ take[k] # 0 => /\ row.id = object[k].id /\ row.reclaim = "open"
                      /\ bytes[k] => bytes'[k]
    /\ \A c \in Uploaders :
          upload[c].key = k /\ upload[c].pc = "insert" /\ row.id = upload[c].id
             /\ row.reclaim # "wiped" => bytes'[k]
    /\ ~SlowUploads =>
          /\ \A c \in Uploaders :
                upload[c].key = k /\ upload[c].pc \in {"put", "insert"} =>
                   row.id = upload[c].id /\ ~row.old
          /\ bytes'[k] => row.id # 0
          /\ row.reclaim = "wiped" => ~bytes'[k]

(* A row that changes under no take and no claim keeps the invariant.      *)
LEMMA RowWritten ==
    ASSUME IInv, NEW k \in Keys, NEW row \in ObjectRow, RowStep(k, row), RowHarmless(k, row)
    PROVE  IInv'
<1>1. /\ object' \in [Keys -> ObjectRow] /\ object'[k] = row
      /\ \A j \in Keys : j # k => object'[j] = object[j] /\ bytes'[j] = bytes[j]
    BY DEF RowStep, IInv, TypeOK
<1>2. TypeOK'
    BY <1>1 DEF RowStep, IInv, TypeOK
<1>3. IdsFresh'
  <2>1. row.id < nextObject
    BY DEF RowStep, IInv, IdsFresh, TypeOK
  <2> QED BY <1>1, <2>1 DEF RowStep, IInv, IdsFresh
<1>4. TakesStored'
    BY <1>1 DEF RowStep, RowHarmless, IInv, TakesStored
<1>5. ASSUME NEW c \in Uploaders
      PROVE  UploadStored(c)'
  <2>1. UploadStored(c)
    BY DEF IInv
  <2> QED BY <1>1, <2>1 DEF RowStep, RowHarmless, UploadStored
<1>6. \A j \in Keys : object'[j].reclaim # "open" => object'[j].old
    BY <1>1 DEF RowStep, IInv
<1>7. ASSUME ~SlowUploads
      PROVE  Guarded'
  <2>1. Guarded /\ \A c \in Uploaders : UploadStored(c)
    BY <1>7 DEF IInv
  <2>2. \A c \in Uploaders : upload[c].pc \in {"put", "insert"} => upload[c].key \in Keys
    BY <2>1 DEF UploadStored
  <2> QED BY <1>1, <1>7, <2>1, <2>2 DEF RowStep, RowHarmless, Guarded, Exists
<1> QED BY <1>2, <1>3, <1>4, <1>5, <1>6, <1>7 DEF IInv

(* An object that grows old is still what it was.                          *)
LEMMA AgeKeeps ==
    ASSUME IInv, NEW k \in Keys, Age(k)
    PROVE  IInv'
<1>1. PICK row \in ObjectRow :
         /\ object' = [object EXCEPT ![k] = row]
         /\ row.id = object[k].id /\ row.old /\ row.reclaim = object[k].reclaim
  <2>1. object[k].id # 0
    BY DEF Age, Exists
  <2> QED BY <2>1, RowTypes DEF IInv, Age
<1>2. bytes' \in [Keys -> BOOLEAN] /\ \A j \in Keys : bytes'[j] = bytes[j]
    BY DEF Age, IInv, TypeOK
<1>3. \A c \in Uploaders :
         upload[c].key = k /\ upload[c].pc = "insert" /\ row.id = upload[c].id
            /\ row.reclaim # "wiped" => bytes'[k]
    BY <1>1, <1>2 DEF IInv, UploadStored
<1>4. take[k] # 0 => row.reclaim = "open" /\ (bytes[k] => bytes'[k])
    BY <1>1, <1>2 DEF IInv, TakesStored
<1>5. ~SlowUploads =>
         /\ \A c \in Uploaders : ~(upload[c].key = k /\ upload[c].pc \in {"put", "insert"})
         /\ bytes'[k] => row.id # 0
         /\ row.reclaim = "wiped" => ~bytes'[k]
    BY <1>1, <1>2 DEF Age, IInv, Guarded, Exists
<1>6. RowStep(k, row) /\ RowHarmless(k, row)
    BY <1>1, <1>2, <1>3, <1>4, <1>5 DEF RowStep, RowHarmless, Age
<1> QED BY <1>6, RowWritten

(* What the reclaim writes is the row of an object without takes. *)
LEMMA LockOrphanKeeps ==
    ASSUME IInv, NEW k \in Keys, LockOrphan(k)
    PROVE  IInv'
<1>1. PICK row \in ObjectRow :
         /\ object' = [object EXCEPT ![k] = row]
         /\ row.id = object[k].id /\ row.old /\ row.reclaim = "locked"
  <2>1. object[k].id # 0
    BY DEF LockOrphan, Exists
  <2> QED BY <2>1, RowTypes DEF IInv, LockOrphan
<1>2. bytes' \in [Keys -> BOOLEAN] /\ \A j \in Keys : bytes'[j] = bytes[j]
    BY DEF LockOrphan, IInv, TypeOK
<1>3. \A c \in Uploaders :
         upload[c].key = k /\ upload[c].pc = "insert" /\ row.id = upload[c].id => bytes'[k]
    BY <1>1, <1>2 DEF LockOrphan, IInv, UploadStored
<1>4. take[k] = 0
    BY DEF LockOrphan, Referenced
<1>5. ~SlowUploads =>
         /\ \A c \in Uploaders : ~(upload[c].key = k /\ upload[c].pc \in {"put", "insert"})
         /\ bytes'[k] => row.id # 0
    BY <1>1, <1>2 DEF LockOrphan, IInv, Guarded, Exists
<1>6. RowStep(k, row) /\ RowHarmless(k, row)
    BY <1>1, <1>2, <1>3, <1>4, <1>5 DEF RowStep, RowHarmless, LockOrphan
<1> QED BY <1>6, RowWritten

(* While a row is being reclaimed its key has no take, and, when uploads    *)
(* are not slow, no upload relies on it.                                    *)
LEMMA Reclaiming ==
    ASSUME IInv, NEW k \in Keys, object[k].reclaim # "open"
    PROVE  /\ object[k].id \in Nat \ {0} /\ object[k].old /\ take[k] = 0
           /\ ~SlowUploads =>
                 \A c \in Uploaders :
                    ~(upload[c].key = k /\ upload[c].pc \in {"put", "insert"})
BY Rows DEF IInv, TakesStored, Guarded

(* The reclaim deletes only bytes it has found without a take, under the   *)
(* lock of their row.                                                      *)
LEMMA WipeBytesKeeps ==
    ASSUME IInv, NEW k \in Keys, WipeBytes(k)
    PROVE  IInv'
<1>1. /\ object[k].id \in Nat \ {0} /\ object[k].old /\ take[k] = 0
      /\ ~SlowUploads =>
            \A c \in Uploaders : ~(upload[c].key = k /\ upload[c].pc \in {"put", "insert"})
    BY Reclaiming DEF WipeBytes
<1>2. PICK row \in ObjectRow :
         /\ object' = [object EXCEPT ![k] = row]
         /\ row.id = object[k].id /\ row.old /\ row.reclaim = "wiped"
  <2>1. object[k].id # 0 /\ TypeOK
    BY <1>1 DEF IInv
  <2>2. PICK row : row = [object[k] EXCEPT !.reclaim = "wiped"]
    OBVIOUS
  <2>3. /\ row \in ObjectRow /\ row.id = object[k].id /\ row.old = object[k].old
        /\ row.reclaim = "wiped"
    BY <2>1, <2>2, RowTypes
  <2>4. object' = [object EXCEPT ![k] = row]
    BY <2>2 DEF WipeBytes
  <2> QED BY <1>1, <2>3, <2>4
<1>3. /\ bytes' \in [Keys -> BOOLEAN] /\ ~bytes'[k]
      /\ \A j \in Keys \ {k} : bytes'[j] = bytes[j]
    BY DEF WipeBytes, IInv, TypeOK
<1>4. RowStep(k, row) /\ RowHarmless(k, row)
    BY <1>1, <1>2, <1>3 DEF RowStep, RowHarmless, WipeBytes
<1> QED BY <1>4, RowWritten

(* The row that is removed then has no take and no upload.                 *)
LEMMA CommitReclaimKeeps ==
    ASSUME IInv, NEW k \in Keys, CommitReclaim(k)
    PROVE  IInv'
<1>1. /\ object[k].id \in Nat \ {0} /\ object[k].old /\ take[k] = 0
      /\ ~SlowUploads =>
            \A c \in Uploaders : ~(upload[c].key = k /\ upload[c].pc \in {"put", "insert"})
    BY Reclaiming DEF CommitReclaim
<1>2. PICK row \in ObjectRow :
         /\ object' = [object EXCEPT ![k] = row]
         /\ row.id = 0 /\ row.reclaim = "open"
    BY NoObject \in ObjectRow DEF CommitReclaim, ObjectRow, NoObject
<1>3. bytes' \in [Keys -> BOOLEAN] /\ \A j \in Keys : bytes'[j] = bytes[j]
    BY DEF CommitReclaim, IInv, TypeOK
<1>4. \A c \in Uploaders : upload[c].key = k /\ upload[c].pc = "insert" => row.id # upload[c].id
    BY <1>2 DEF IInv, UploadStored
<1>5. ~SlowUploads => ~bytes'[k]
    BY <1>3 DEF CommitReclaim, IInv, Guarded
<1>6. RowStep(k, row) /\ RowHarmless(k, row)
    BY <1>1, <1>2, <1>3, <1>4, <1>5 DEF RowStep, RowHarmless, CommitReclaim
<1> QED BY <1>6, RowWritten

(* The step that needs the assumption: the row is there again, but its      *)
(* bytes may be gone; an upload that had written them must not be left.     *)
LEMMA RollBackKeeps ==
    ASSUME ~(SlowUploads /\ LostDeletes), IInv, NEW k \in Keys, RollBack(k)
    PROVE  IInv'
<1>1. /\ object[k].id \in Nat \ {0} /\ object[k].old /\ take[k] = 0
      /\ \A c \in Uploaders : ~(upload[c].key = k /\ upload[c].pc \in {"put", "insert"})
    BY Reclaiming DEF RollBack
<1>2. PICK row \in ObjectRow :
         /\ object' = [object EXCEPT ![k] = row]
         /\ row.id = object[k].id /\ row.reclaim = "open"
  <2>1. object[k].id # 0
    BY <1>1
  <2> QED BY <1>1, <2>1, RowTypes DEF IInv, RollBack
<1>3. bytes' \in [Keys -> BOOLEAN] /\ \A j \in Keys : bytes'[j] = bytes[j]
    BY DEF RollBack, IInv, TypeOK
<1>4. RowStep(k, row) /\ RowHarmless(k, row)
    BY <1>1, <1>2, <1>3 DEF RowStep, RowHarmless, RollBack
<1> QED BY <1>4, RowWritten

-----------------------------------------------------------------------------
(* Every step keeps the invariant, unless uploads may be slow and deletes  *)
(* lost.                                                                   *)
LEMMA NextIInv ==
    ASSUME ~(SlowUploads /\ LostDeletes), IInv, [Next]_vars
    PROVE  IInv'
<1>1. ASSUME NEW c \in Uploaders, StartUpload(c) \/ Store(c) \/ Abort(c)
      PROVE  IInv'
    BY <1>1, StartUploadKeeps, ClaimKeeps, PutBytesKeeps, InsertTakeKeeps, AbortKeeps DEF Store
<1>2. ASSUME NEW k \in Keys, Select(k) \/ DeleteTake(k) \/ PruneTake(k)
      PROVE  IInv'
    BY <1>2, SelectKeeps
<1>3. ASSUME NEW k \in Keys,
             Age(k) \/ LockOrphan(k) \/ WipeBytes(k) \/ CommitReclaim(k) \/ RollBack(k)
      PROVE  IInv'
    BY <1>3, AgeKeeps, LockOrphanKeeps, WipeBytesKeeps, CommitReclaimKeeps, RollBackKeeps
<1>4. CASE DeleteRecording
  <2>1. CASE Keys = {}
    BY <1>4, <2>1, RecordingType
       DEF DeleteRecording, IInv, TypeOK, IdsFresh, TakesStored, UploadStored, Guarded, Exists
  <2>2. CASE Keys # {}
    BY <1>4, <2>2, SelectKeeps
  <2> QED BY <2>1, <2>2
<1>5. CASE UNCHANGED vars
    BY <1>5 DEF vars, IInv, TypeOK, IdsFresh, TakesStored, UploadStored, Guarded, Exists
<1> QED BY <1>1, <1>2, <1>3, <1>4, <1>5 DEF Next

(* The strengthening holds whenever uploads stay inside the grace period or *)
(* a reclaim that deletes the object also deletes its row.                  *)
LEMMA Invariant ==
    ASSUME ~(SlowUploads /\ LostDeletes)
    PROVE  Spec => []IInv
BY InitIInv, NextIInv, PTL DEF Spec

(* Every row has its type: no step of an upload, of a deletion or of the    *)
(* sweep leaves half of a storage row, a recording or an upload.            *)
THEOREM StorageTyped ==
    ASSUME ~(SlowUploads /\ LostDeletes)
    PROVE  Spec => []TypeOK
<1>1. IInv => TypeOK
    BY DEF IInv
<1> QED BY <1>1, Invariant, PTL

(* No take ever refers to audio that is gone, for any keys and uploads,     *)
(* however slow the uploads, if no reclaim is rolled back after the object  *)
(* was deleted, and also with such reclaims, if no upload outlasts the      *)
(* grace period.                                                            *)
THEOREM TakesPlayable ==
    ASSUME ~(SlowUploads /\ LostDeletes)
    PROVE  Spec => []NoDanglingTake
<1>1. IInv => NoDanglingTake
    BY DEF IInv, TakesStored, NoDanglingTake
<1> QED BY <1>1, Invariant, PTL

(* Within the grace period no object is in the bucket without its row: what *)
(* crashed uploads and rolled back reclaims leave can be found by the sweep.*)
THEOREM NothingLeaks ==
    ASSUME ~SlowUploads
    PROVE  Spec => []BytesTracked
<1>1. IInv => BytesTracked
    BY DEF IInv, Guarded, BytesTracked
<1> QED BY <1>1, Invariant, PTL

(* Within the grace period an upload never loses the row it has claimed.    *)
THEOREM ClaimsKept ==
    ASSUME ~SlowUploads
    PROVE  Spec => []GraceProtects
<1>1. IInv => GraceProtects
    BY DEF IInv, Guarded, UploadStored, GraceProtects
<1> QED BY <1>1, Invariant, PTL

-----------------------------------------------------------------------------
(* UsfmExport is another component: what has a name of AudioStorage too,    *)
(* the objects and how much has been started, is declared once.             *)
CONSTANTS Requests, Jobs, Attempts, Books, Calls, None, Retries, Ttl, LinkTtl, MaxTime, MaxRequests, MaxFaults
VARIABLES request, job, attempt, links, sweep, linked, now, faults
Export == INSTANCE UsfmExport

-----------------------------------------------------------------------------
(* The exports of a milestone.                                             *)

Exporters == {call.user : call \in Calls}
JobRow == [user : Exporters, books : SUBSET Books, tries : Nat, until : Nat,
           state : {"created", "retry", "active", "completed", "failed"}]
ExportedRow == [user : Exporters, created : Nat, whole : BOOLEAN]
AttemptRow == [job : Jobs \cup {None}, late : BOOLEAN, whole : BOOLEAN, until : Nat,
               step : {"none", "books", "read", "stuck", "upload", "uploaded"}]
CallRow == [step : {"idle", "head", "sign", "validate", "send", "books", "stream"},
            call : Calls \cup {None}, created : Nat]
ExportTyped ==
    /\ request \in [Requests -> CallRow]
    /\ job \in [Jobs -> JobRow \cup {None}]
    /\ attempt \in [Attempts -> AttemptRow]
    /\ object \in [Jobs -> ExportedRow \cup {None}]
    /\ links \subseteq [job : Jobs, user : Exporters, created : Nat, until : Nat]
    /\ sweep \subseteq [job : Jobs, created : Nat]
    /\ linked \subseteq Books /\ now \in Nat /\ started \in Nat /\ faults \in Nat
    /\ \A r \in Requests :
          /\ request[r].step # "idle" => request[r].call \in Calls
          /\ request[r].step \in {"head", "sign"} => request[r].call.file \in Jobs
    /\ \A a \in Attempts :
          attempt[a].step # "none" => attempt[a].job \in Jobs /\ job[attempt[a].job] # None

(* Whose the archives and the links are, and that they are whole.          *)
Signing(r, j) == request[r].step = "sign" /\ request[r].call.file = j
Owned ==
    /\ \A a \in Attempts : attempt[a].whole
    /\ \A j \in Jobs : object[j] # None => job[j] # None /\ object[j].whole /\ object[j].user = job[j].user
    /\ \A r \in Requests, j \in Jobs : Signing(r, j) => job[j] # None /\ request[r].call.user = job[j].user
    /\ \A l \in links : job[l.job] # None /\ l.user = job[l.job].user /\ l.until <= l.created + Ttl

(* The handler that pg-boss waits for is the only one of an active job.     *)
Waits(a, j) == attempt[a].step # "none" /\ attempt[a].job = j
Answering ==
    /\ \A a \in Attempts, j \in Jobs : Waits(a, j) /\ ~attempt[a].late => job[j].state = "active"
    /\ \A a, b \in Attempts, j \in Jobs :
          Waits(a, j) /\ Waits(b, j) /\ ~attempt[a].late /\ ~attempt[b].late => a = b
    /\ \A j \in Jobs : job[j] # None => (job[j].state = "created" => job[j].tries = 0)
                                        /\ (job[j].state = "retry" => job[j].tries > 0)

(* Until its first handler uploads it, nobody knows of the file of a job;  *)
(* afterwards all that is known of it is of that one upload.               *)
Unmade(j) ==
    /\ object[j] = None
    /\ \A e \in sweep : e.job # j
    /\ \A l \in links : l.job # j
    /\ \A r \in Requests : ~Signing(r, j)
MadeOnce(j, until) ==
    /\ object[j] # None => object[j].created + Ttl = until
    /\ now < until => object[j] # None
    /\ \A e \in sweep : e.job = j => e.created + Ttl = until
    /\ \A l \in links : l.job = j => l.created + Ttl = until
    /\ \A r \in Requests : Signing(r, j) => request[r].created + Ttl = until
FirstTries ==
    /\ \A j \in Jobs : job[j] = None \/ job[j].state = "created"
                       => Unmade(j) /\ \A a \in Attempts : ~Waits(a, j)
    /\ \A j \in Jobs : Export!DoneAtOnce(j)
                       => MadeOnce(j, job[j].until) /\ \A a \in Attempts : ~Waits(a, j)
    /\ \A j \in Jobs, a \in Attempts :
          job[j] # None /\ job[j].state = "active" /\ job[j].tries = 0 /\ Waits(a, j)
          => /\ ~attempt[a].late
             /\ IF attempt[a].step = "uploaded" THEN MadeOnce(j, attempt[a].until) ELSE Unmade(j)

ExportInv == ExportTyped /\ Owned /\ Answering /\ FirstTries

(* The shapes of the rows.                                                 *)
LEMMA RowShapes ==
    ASSUME Export!CallsOK
    PROVE  /\ None \notin Jobs /\ None \notin Calls /\ None \notin JobRow /\ None \notin ExportedRow
           /\ \A call \in Calls : call.user \in Exporters /\ call.books \in SUBSET Books
                                  /\ (call.kind = "download" => call.file \in Jobs)
           /\ Jobs \subseteq Nat /\ Retries \in Nat /\ Ttl \in Nat /\ LinkTtl \in Nat
<1>1. Export!CallsOK
    OBVIOUS
<1>2. \A call \in Calls : call \in [kind : {"export", "send", "download"}, user : Exporters,
                                    books : SUBSET Books, file : Jobs \cup {0}]
    BY <1>1 DEF Export!CallsOK, Exporters
<1>3. None \notin Jobs /\ None \notin Calls /\ None \notin JobRow /\ None \notin ExportedRow
    BY <1>1 DEF Export!CallsOK, Exporters, JobRow, ExportedRow
<1> QED BY <1>1, <1>2, <1>3 DEF Export!CallsOK

(* Nothing has been made at first.                                         *)
LEMMA ExportStarts ==
    ASSUME Export!CallsOK, Export!Init
    PROVE  ExportInv
<1>a. Export!Idle \in CallRow /\ Export!Idle.step = "idle"
    BY DEF CallRow, Export!Idle
<1>1. PICK idle \in CallRow : idle = Export!Idle /\ idle.step = "idle"
    BY <1>a
<1>2. request \in [Requests -> CallRow] /\ \A r \in Requests : request[r].step = "idle"
    BY <1>1 DEF Export!Init
<1>b. Export!NoAttempt \in AttemptRow /\ Export!NoAttempt.step = "none" /\ Export!NoAttempt.whole
    BY DEF AttemptRow, Export!NoAttempt
<1>3. PICK none \in AttemptRow : none = Export!NoAttempt /\ none.step = "none" /\ none.whole
    BY <1>b
<1>4. attempt \in [Attempts -> AttemptRow] /\ \A a \in Attempts : attempt[a].step = "none" /\ attempt[a].whole
    BY <1>3 DEF Export!Init
<1>5. ExportTyped
    BY <1>2, <1>4 DEF Export!Init, ExportTyped
<1>6. Owned
    BY <1>2, <1>4 DEF Export!Init, Owned, Signing
<1>7. Answering
    BY <1>4 DEF Export!Init, Answering, Waits
<1>8. FirstTries
    BY <1>2, <1>4 DEF Export!Init, FirstTries, Unmade, Waits, Signing, Export!DoneAtOnce
<1> QED BY <1>5, <1>6, <1>7, <1>8 DEF ExportInv

(* A request goes on; one that goes on to sign a URL has seen the object.   *)
LEMMA RequestMoves ==
    ASSUME ExportInv, NEW r \in Requests, NEW x \in CallRow,
           request' = [request EXCEPT ![r] = x],
           UNCHANGED <<job, attempt, object, links, sweep, linked, now, faults>>, started' \in Nat,
           x.step # "idle" => x.call \in Calls,
           x.step \in {"head", "sign"} => x.call.file \in Jobs,
           x.step = "sign" => /\ object[x.call.file] # None
                              /\ object[x.call.file].user = x.call.user
                              /\ object[x.call.file].created = x.created
    PROVE  ExportInv'
<1>1. request'[r] = x /\ \A q \in Requests \ {r} : request'[q] = request[q]
    BY DEF ExportInv, ExportTyped
<1>2. ExportTyped'
    BY <1>1 DEF ExportInv, ExportTyped
<1>3. \A q \in Requests, j \in Jobs : Signing(q, j)'
          => \/ Signing(q, j) /\ request'[q] = request[q]
             \/ /\ q = r /\ x.call.file = j /\ object[j] # None /\ object[j].user = x.call.user
                /\ object[j].created = x.created
  <2>1. ASSUME NEW j \in Jobs, x.step = "sign", x.call.file = j
        PROVE  object[j] # None /\ object[j].user = x.call.user /\ object[j].created = x.created
      BY <2>1
  <2> QED BY <1>1, <2>1 DEF Signing
<1>4. Owned'
    BY <1>1, <1>3 DEF ExportInv, Owned
<1>5. Answering'
    BY DEF ExportInv, Answering, Waits
<1>6. \A j \in Jobs : Unmade(j) => Unmade(j)'
    BY <1>3 DEF Unmade
<1>7. \A j \in Jobs : \A until \in Nat : MadeOnce(j, until) => MadeOnce(j, until)'
    BY <1>1, <1>3 DEF MadeOnce
<1>8. FirstTries'
  <2>1. \A j \in Jobs : job[j] # None => job[j].until \in Nat
      BY DEF ExportInv, ExportTyped, JobRow
  <2>2. \A a \in Attempts : attempt[a].until \in Nat
      BY DEF ExportInv, ExportTyped, AttemptRow
  <2> QED BY <1>6, <1>7, <2>1, <2>2 DEF ExportInv, FirstTries, Waits, Export!DoneAtOnce
<1> QED BY <1>2, <1>4, <1>5, <1>8 DEF ExportInv

(* The steps that only move their request.                                 *)
LEMMA RequestSteps ==
    ASSUME Export!CallsOK, ExportInv, NEW r \in Requests,
           Export!Call(r) \/ Export!Validate(r) \/ Export!ListBooks(r) \/ Export!Stream(r) \/ Export!Head(r)
    PROVE  ExportInv'
<1>a. Export!Idle \in CallRow /\ Export!Idle.step = "idle"
    BY DEF CallRow, Export!Idle
<1>1. PICK idle \in CallRow : idle = Export!Idle /\ idle.step = "idle"
    BY <1>a
<1>2. PICK old \in CallRow : old = request[r] /\ old.step = request[r].step
    BY DEF ExportInv, ExportTyped
<1>3. \A step \in {"head", "sign", "validate", "send", "books", "stream"} :
         /\ [old EXCEPT !.step = step] \in CallRow
         /\ [old EXCEPT !.step = step].step = step
         /\ [old EXCEPT !.step = step].call = old.call
         /\ [old EXCEPT !.step = step].created = old.created
    BY DEF CallRow
<1>4. \A step \in {"validate", "send", "books", "stream"} :
         [request EXCEPT ![r].step = step] = [request EXCEPT ![r] = [old EXCEPT !.step = step]]
    BY <1>2
<1>5. started \in Nat /\ (old.step # "idle" => old.call \in Calls)
      /\ (old.step \in {"head", "sign"} => old.call.file \in Jobs)
    BY <1>2 DEF ExportInv, ExportTyped
<1>6. ASSUME request' = [request EXCEPT ![r] = idle], started' = started,
             UNCHANGED <<job, attempt, object, links, sweep, linked, now, faults>>
      PROVE  ExportInv'
    BY <1>1, <1>5, <1>6, RequestMoves
<1>7. ASSUME NEW step \in {"validate", "send", "books", "stream"}, old.step # "idle",
             request' = [request EXCEPT ![r].step = step], started' = started,
             UNCHANGED <<job, attempt, object, links, sweep, linked, now, faults>>
      PROVE  ExportInv'
  <2>1. PICK x \in CallRow : x = [old EXCEPT !.step = step] /\ x.step = step /\ x.call = old.call
      BY <1>3
  <2>2. request' = [request EXCEPT ![r] = x]
      BY <1>4, <1>7, <2>1
  <2> QED BY <1>5, <1>7, <2>1, <2>2, RequestMoves
<1>8. CASE Export!Call(r)
  <2>1. PICK call \in Calls, step \in {"head", "validate"} :
           /\ step = IF call.kind = "download" THEN "head" ELSE "validate"
           /\ request' = [request EXCEPT ![r] = [idle EXCEPT !.call = call, !.step = step]]
      BY <1>1, <1>8 DEF Export!Call
  <2>a. /\ [idle EXCEPT !.call = call, !.step = step] \in CallRow
        /\ [idle EXCEPT !.call = call, !.step = step].call = call
        /\ [idle EXCEPT !.call = call, !.step = step].step = step
      BY DEF CallRow
  <2>2. PICK x \in CallRow : x = [idle EXCEPT !.call = call, !.step = step] /\ x.call = call /\ x.step = step
      BY <2>a
  <2>b. started' = started + 1 /\ UNCHANGED <<job, attempt, object, links, sweep, linked, now, faults>>
      BY <1>8, Zenon DEF Export!Call
  <2>3. started' \in Nat /\ UNCHANGED <<job, attempt, object, links, sweep, linked, now, faults>>
      BY <1>5, <2>b
  <2>4. step = "head" => call.file \in Jobs
      BY <2>1, RowShapes
  <2> QED BY <2>1, <2>2, <2>3, <2>4, RequestMoves
<1>9. CASE Export!Validate(r)
  <2>1. \/ request' = [request EXCEPT ![r] = idle]
        \/ request' = [request EXCEPT ![r].step = "send"]
        \/ request' = [request EXCEPT ![r].step = "books"]
      BY <1>1, <1>9 DEF Export!Validate, Export!Answered, Export!Moved
  <2> QED BY <1>2, <1>6, <1>7, <1>9, <2>1 DEF Export!Validate, Export!At
<1>10. CASE Export!ListBooks(r)
  <2>1. \/ request' = [request EXCEPT ![r] = idle]
        \/ request' = [request EXCEPT ![r].step = "stream"]
      BY <1>1, <1>10 DEF Export!ListBooks, Export!Answered, Export!Moved
  <2> QED BY <1>2, <1>6, <1>7, <1>10, <2>1 DEF Export!ListBooks, Export!At
<1>11. CASE Export!Stream(r)
    BY <1>1, <1>6, <1>11 DEF Export!Stream, Export!Answered
<1>12. CASE Export!Head(r)
  <2>1. PICK j \in Jobs : j = old.call.file
      BY <1>2, <1>5, <1>12 DEF Export!Head, Export!At
  <2>2. object[Export!CallOf(r).file] = object[j] /\ Export!CallOf(r) = old.call
      BY <1>2, <2>1 DEF Export!CallOf
  <2>3. started' = started /\ UNCHANGED <<job, attempt, object, links, sweep, linked, now, faults>>
      BY <1>12 DEF Export!Head
  <2>4. CASE request' = [request EXCEPT ![r] = idle]
      BY <1>6, <2>3, <2>4
  <2>5. CASE request' # [request EXCEPT ![r] = idle]
    <3>1. /\ object[j] # None /\ object[j].user = old.call.user
          /\ request' = [request EXCEPT ![r].step = "sign", ![r].created = object[j].created]
        BY <1>1, <1>12, <2>2, <2>5 DEF Export!Head, Export!Answered
    <3>2. PICK created \in Nat : created = object[j].created
        BY <3>1 DEF ExportInv, ExportTyped, ExportedRow
    <3>a. /\ [old EXCEPT !.step = "sign", !.created = created] \in CallRow
          /\ [old EXCEPT !.step = "sign", !.created = created].step = "sign"
          /\ [old EXCEPT !.step = "sign", !.created = created].call = old.call
          /\ [old EXCEPT !.step = "sign", !.created = created].created = created
        BY DEF CallRow
    <3>3. PICK x \in CallRow : /\ x = [old EXCEPT !.step = "sign", !.created = created]
                               /\ x.step = "sign" /\ x.call = old.call /\ x.created = created
        BY <3>a
    <3>4. request' = [request EXCEPT ![r] = x]
        BY <1>2, <3>1, <3>2, <3>3 DEF ExportInv, ExportTyped
    <3>5. old.step # "idle"
        BY <1>2, <1>12 DEF Export!Head, Export!At
    <3>6. started' \in Nat
        BY <1>5, <2>3
    <3>7. x.call \in Calls /\ x.call.file = j /\ object[x.call.file] # None
          /\ object[x.call.file].user = x.call.user /\ object[x.call.file].created = x.created
        BY <1>5, <2>1, <3>1, <3>2, <3>3, <3>5
    <3> QED BY <2>3, <3>3, <3>4, <3>6, <3>7, RequestMoves
  <2> QED BY <2>4, <2>5
<1> QED BY <1>8, <1>9, <1>10, <1>11, <1>12

(* A job is queued: nothing is known of its file yet.                       *)
LEMMA JobQueued ==
    ASSUME Export!CallsOK, ExportInv, NEW r \in Requests, Export!Send(r)
    PROVE  ExportInv'
<1>a. Export!Idle \in CallRow /\ Export!Idle.step = "idle"
    BY DEF CallRow, Export!Idle
<1>1. PICK idle \in CallRow : idle = Export!Idle /\ idle.step = "idle"
    BY <1>a
<1>2. UNCHANGED <<attempt, object, links, sweep, linked, now, started, faults>> /\ started \in Nat
    BY DEF Export!Send, ExportInv, ExportTyped
<1>3. request' = [request EXCEPT ![r] = idle]
    BY <1>1 DEF Export!Send, Export!Answered
<1>4. CASE job' = job
    BY <1>1, <1>2, <1>3, <1>4, RequestMoves
<1>5. CASE job' # job
  <2>1. PICK call \in Calls : call = Export!CallOf(r)
      BY DEF Export!Send, Export!At, Export!CallOf, ExportInv, ExportTyped
  <2>2. PICK i \in Jobs : /\ job[i] = None
                          /\ job' = [job EXCEPT ![i] = [user |-> call.user, books |-> call.books,
                                               state |-> "created", tries |-> 0, until |-> 0]]
      BY <1>5, <2>1 DEF Export!Send
  <2>3. call.user \in Exporters /\ call.books \in SUBSET Books
      BY RowShapes
  <2>a. [user |-> call.user, books |-> call.books, state |-> "created", tries |-> 0, until |-> 0] \in JobRow
      BY <2>3 DEF JobRow
  <2>4. PICK y \in JobRow : /\ y = [user |-> call.user, books |-> call.books,
                                    state |-> "created", tries |-> 0, until |-> 0]
                            /\ y.state = "created" /\ y.tries = 0
      BY <2>a
  <2>5. job' = [job EXCEPT ![i] = y] /\ y # None
      BY <2>2, <2>4, RowShapes
  <2>6. /\ request'[r] = idle /\ \A q \in Requests \ {r} : request'[q] = request[q]
        /\ job'[i] = y /\ \A j \in Jobs \ {i} : job'[j] = job[j]
      BY <1>3, <2>5 DEF ExportInv, ExportTyped
  <2>7. \A q \in Requests, j \in Jobs : Signing(q, j)' => Signing(q, j) /\ request'[q] = request[q]
      BY <1>1, <2>6 DEF Signing
  <2>8. Unmade(i) /\ (\A a \in Attempts : ~Waits(a, i)) /\ \A l \in links : l.job # i
      BY <2>2 DEF ExportInv, FirstTries, Unmade
  <2>9. ExportTyped'
    <3>1. \A a \in Attempts : attempt[a].step # "none" => job'[attempt[a].job] # None
        BY <2>5, <2>6 DEF ExportInv, ExportTyped
    <3>2. job' \in [Jobs -> JobRow \cup {None}] /\ request' \in [Requests -> CallRow]
        BY <1>3, <2>5 DEF ExportInv, ExportTyped
    <3> QED BY <1>1, <1>2, <2>6, <3>1, <3>2 DEF ExportInv, ExportTyped
  <2>10. Owned'
      BY <1>2, <2>2, <2>6, <2>7, <2>8 DEF ExportInv, ExportTyped, Owned, Unmade
  <2>11. Answering'
      BY <1>2, <2>4, <2>6, <2>8 DEF ExportInv, Answering, Waits
  <2>12. \A j \in Jobs : Unmade(j) => Unmade(j)'
      BY <1>2, <2>7 DEF Unmade
  <2>13. \A j \in Jobs : \A until \in Nat : MadeOnce(j, until) => MadeOnce(j, until)'
      BY <1>2, <2>7 DEF MadeOnce
  <2>14. FirstTries'
    <3>1. \A j \in Jobs : job[j] # None => job[j].until \in Nat
        BY DEF ExportInv, ExportTyped, JobRow
    <3>2. \A a \in Attempts : attempt[a].until \in Nat
        BY DEF ExportInv, ExportTyped, AttemptRow
    <3> QED BY <1>2, <2>4, <2>6, <2>8, <2>12, <2>13, <3>1, <3>2
            DEF ExportInv, FirstTries, Waits, Export!DoneAtOnce
  <2> QED BY <2>9, <2>10, <2>11, <2>14 DEF ExportInv
<1> QED BY <1>4, <1>5

(* A URL is signed: it is good for as long as the object that was seen.    *)
LEMMA LinkSigned ==
    ASSUME Export!CallsOK, ExportInv, NEW r \in Requests, Export!Sign(r)
    PROVE  ExportInv'
<1>a. Export!Idle \in CallRow /\ Export!Idle.step = "idle"
    BY DEF CallRow, Export!Idle
<1>1. PICK idle \in CallRow : idle = Export!Idle /\ idle.step = "idle"
    BY <1>a
<1>2. UNCHANGED <<job, attempt, object, sweep, linked, now, started, faults>> /\ started \in Nat
    BY DEF Export!Sign, ExportInv, ExportTyped
<1>3. request' = [request EXCEPT ![r] = idle]
    BY <1>1 DEF Export!Sign, Export!Answered
<1>4. CASE links' = links
    BY <1>1, <1>2, <1>3, <1>4, RequestMoves
<1>5. CASE links' # links
  <2>1. PICK i \in Jobs, user \in Exporters, created \in Nat :
           i = request[r].call.file /\ user = request[r].call.user /\ created = request[r].created
    <3>1. request[r].step = "sign"
        BY DEF Export!Sign, Export!At
    <3>2. request[r] \in CallRow /\ request[r].call \in Calls /\ request[r].call.file \in Jobs
        BY <3>1 DEF ExportInv, ExportTyped
    <3> QED BY <3>2, RowShapes DEF CallRow
  <2>2. PICK until \in Nat : until = Export!Expiry(created) /\ until <= created + Ttl
      BY RowShapes DEF Export!Expiry, ExportInv, ExportTyped
  <2>a. [job |-> i, user |-> user, created |-> created, until |-> until]
           \in [job : Jobs, user : Exporters, created : Nat, until : Nat]
      OBVIOUS
  <2>3. PICK l \in [job : Jobs, user : Exporters, created : Nat, until : Nat] :
           /\ l = [job |-> i, user |-> user, created |-> created, until |-> until]
           /\ l.job = i /\ l.user = user /\ l.created = created /\ l.until = until
      BY <2>a
  <2>4. links' = links \cup {l}
      BY <1>5, <2>1, <2>2, <2>3 DEF Export!Sign, Export!CallOf
  <2>5. Signing(r, i)
      BY <2>1 DEF Export!Sign, Export!At, Signing
  <2>6. request'[r] = idle /\ \A q \in Requests \ {r} : request'[q] = request[q]
      BY <1>3 DEF ExportInv, ExportTyped
  <2>7. \A q \in Requests, j \in Jobs : Signing(q, j)' => Signing(q, j) /\ request'[q] = request[q]
      BY <1>1, <2>6 DEF Signing
  <2>8. ExportTyped'
      BY <1>1, <1>2, <1>3, <2>4, <2>6 DEF ExportInv, ExportTyped
  <2>9. Owned'
      BY <1>2, <2>1, <2>2, <2>3, <2>4, <2>5, <2>7 DEF ExportInv, Owned
  <2>10. Answering'
      BY <1>2 DEF ExportInv, Answering, Waits
  <2>11. \A j \in Jobs : Unmade(j) => Unmade(j)'
      BY <1>2, <2>3, <2>4, <2>5, <2>7 DEF Unmade
  <2>12. \A j \in Jobs : \A t \in Nat : MadeOnce(j, t) => MadeOnce(j, t)'
      BY <1>2, <2>1, <2>3, <2>4, <2>5, <2>7 DEF MadeOnce
  <2>13. FirstTries'
    <3>1. \A j \in Jobs : job[j] # None => job[j].until \in Nat
        BY DEF ExportInv, ExportTyped, JobRow
    <3>2. \A a \in Attempts : attempt[a].until \in Nat
        BY DEF ExportInv, ExportTyped, AttemptRow
    <3> QED BY <1>2, <2>11, <2>12, <3>1, <3>2 DEF ExportInv, FirstTries, Waits, Export!DoneAtOnce
  <2> QED BY <2>8, <2>9, <2>10, <2>13 DEF ExportInv
<1> QED BY <1>4, <1>5

(* What pg-boss makes of a failure.                                        *)
LEMMA FailedIs ==
    ASSUME Export!CallsOK, ExportInv, NEW j \in Jobs, job[j] # None
    PROVE  \E y \in JobRow : /\ Export!Failed(j) = [job EXCEPT ![j] = y]
                             /\ y.user = job[j].user /\ y.until = job[j].until
                             /\ y.state \in {"retry", "failed"} /\ (y.state = "retry" => y.tries > 0)
<1>1. PICK old \in JobRow : old = job[j] /\ old.tries \in Nat
    BY DEF ExportInv, ExportTyped, JobRow
<1>2. PICK state \in {"retry", "failed"}, tries \in Nat :
         /\ state = IF old.tries < Retries THEN "retry" ELSE "failed"
         /\ tries = IF old.tries < Retries THEN old.tries + 1 ELSE old.tries
  <2>1. CASE old.tries < Retries
      BY <1>1, <2>1
  <2>2. CASE ~(old.tries < Retries)
      BY <1>1, <2>2
  <2> QED BY <2>1, <2>2
<1>3. /\ [old EXCEPT !.state = state, !.tries = tries] \in JobRow
      /\ [old EXCEPT !.state = state, !.tries = tries].user = old.user
      /\ [old EXCEPT !.state = state, !.tries = tries].until = old.until
      /\ [old EXCEPT !.state = state, !.tries = tries].state = state
      /\ [old EXCEPT !.state = state, !.tries = tries].tries = tries
    BY DEF JobRow
<1>4. state = "retry" => tries > 0
    BY <1>1, <1>2
<1>5. Export!Failed(j) = [job EXCEPT ![j].state = state, ![j].tries = tries]
    BY <1>1, <1>2 DEF Export!Failed, ExportInv, ExportTyped
<1>6. [job EXCEPT ![j].state = state, ![j].tries = tries]
         = [job EXCEPT ![j] = [old EXCEPT !.state = state, !.tries = tries]]
    BY <1>1 DEF ExportInv, ExportTyped
<1>7. PICK y \in JobRow : y = [old EXCEPT !.state = state, !.tries = tries] /\ y.user = old.user
                          /\ y.until = old.until /\ y.state = state /\ y.tries = tries
    BY <1>3
<1>8. Export!Failed(j) = [job EXCEPT ![j] = y]
    BY <1>5, <1>6, <1>7
<1> QED BY <1>1, <1>4, <1>7, <1>8

(* Handlers end that pg-boss does not wait for any more, or never answer:  *)
(* the sweep may end with them.                                            *)
LEMMA HandlersStop ==
    ASSUME ExportInv, UNCHANGED <<request, job, object, links, linked, now, started>>, faults' \in Nat,
           sweep' \subseteq sweep, attempt' \in [Attempts -> AttemptRow],
           \A a \in Attempts : attempt'[a] = attempt[a] \/ attempt'[a] = Export!NoAttempt
    PROVE  ExportInv'
<1>1. Export!NoAttempt.step = "none" /\ Export!NoAttempt.whole
    BY DEF Export!NoAttempt
<1>2. \A a \in Attempts : attempt'[a] = attempt[a] \/ (attempt'[a].step = "none" /\ attempt'[a].whole)
    BY <1>1
<1>3. ExportTyped'
    BY <1>2 DEF ExportInv, ExportTyped
<1>4. Owned'
    BY <1>2 DEF ExportInv, Owned, Signing
<1>5. \A a \in Attempts, j \in Jobs : Waits(a, j)' => Waits(a, j) /\ attempt'[a] = attempt[a]
    BY <1>2 DEF Waits
<1>6. Answering'
    BY <1>5 DEF ExportInv, Answering
<1>7. \A j \in Jobs : Unmade(j) => Unmade(j)'
    BY DEF Unmade, Signing
<1>8. \A j \in Jobs : \A until \in Nat : MadeOnce(j, until) => MadeOnce(j, until)'
    BY DEF MadeOnce, Signing
<1>9. FirstTries'
  <2>1. \A j \in Jobs : job[j] # None => job[j].until \in Nat
      BY DEF ExportInv, ExportTyped, JobRow
  <2>2. \A a \in Attempts : attempt[a].until \in Nat
      BY DEF ExportInv, ExportTyped, AttemptRow
  <2> QED BY <1>5, <1>7, <1>8, <2>1, <2>2 DEF ExportInv, FirstTries, Export!DoneAtOnce
<1> QED BY <1>3, <1>4, <1>6, <1>9 DEF ExportInv

(* A job fails, and with it all handlers it had are gone or too late.      *)
LEMMA JobFails ==
    ASSUME Export!CallsOK, ExportInv, NEW j \in Jobs, job[j] # None, job[j].state = "active",
           job' = Export!Failed(j), attempt' \in [Attempts -> AttemptRow],
           UNCHANGED <<request, object, links, sweep, linked, now, started>>, faults' \in Nat,
           \A a \in Attempts : attempt'[a].whole,
           \A a \in Attempts : Waits(a, j)' => attempt'[a].late,
           \A a \in Attempts : attempt'[a].step # "none" =>
               /\ attempt'[a].step = attempt[a].step /\ attempt'[a].job = attempt[a].job
               /\ attempt'[a].until = attempt[a].until
               /\ attempt[a].job # j => attempt'[a].late = attempt[a].late
    PROVE  ExportInv'
<1>1. PICK y \in JobRow : /\ job' = [job EXCEPT ![j] = y] /\ y.user = job[j].user
                          /\ y.state \in {"retry", "failed"} /\ (y.state = "retry" => y.tries > 0)
    BY FailedIs
<1>2. job'[j] = y /\ y # None /\ \A i \in Jobs \ {j} : job'[i] = job[i]
    BY <1>1, RowShapes DEF ExportInv, ExportTyped
<1>3. ExportTyped'
  <2>1. job' \in [Jobs -> JobRow \cup {None}]
      BY <1>1 DEF ExportInv, ExportTyped
  <2> QED BY <1>2, <2>1 DEF ExportInv, ExportTyped
<1>4. Owned'
    BY <1>1, <1>2 DEF ExportInv, ExportTyped, Owned, Signing
<1>5. \A a \in Attempts, i \in Jobs : Waits(a, i)' => Waits(a, i)
    BY DEF Waits
<1>6. \A a \in Attempts, i \in Jobs \ {j} : Waits(a, i)' => attempt'[a].late = attempt[a].late
                                            /\ attempt'[a].step = attempt[a].step
                                            /\ attempt'[a].until = attempt[a].until
    BY DEF Waits
<1>7. Answering'
    BY <1>1, <1>2, <1>5, <1>6 DEF ExportInv, Answering
<1>8. \A i \in Jobs : Unmade(i) => Unmade(i)'
    BY DEF Unmade, Signing
<1>9. \A i \in Jobs : \A until \in Nat : MadeOnce(i, until) => MadeOnce(i, until)'
    BY DEF MadeOnce, Signing
<1>10. FirstTries'
  <2>1. \A i \in Jobs : job[i] # None => job[i].until \in Nat
      BY DEF ExportInv, ExportTyped, JobRow
  <2>2. \A a \in Attempts : attempt[a].until \in Nat
      BY DEF ExportInv, ExportTyped, AttemptRow
  <2> QED BY <1>1, <1>2, <1>5, <1>6, <1>8, <1>9, <2>1, <2>2
          DEF ExportInv, FirstTries, Export!DoneAtOnce
<1> QED BY <1>3, <1>4, <1>7, <1>10 DEF ExportInv

(* A handler throws.                                                       *)
LEMMA HandlerThrows ==
    ASSUME Export!CallsOK, ExportInv, NEW a \in Attempts, attempt[a].step # "none", Export!Throw(a),
           UNCHANGED <<request, object, links, sweep, linked, now, started>>, faults' \in Nat
    PROVE  ExportInv'
<1>a. Export!NoAttempt \in AttemptRow /\ Export!NoAttempt.step = "none" /\ Export!NoAttempt.whole
    BY DEF AttemptRow, Export!NoAttempt
<1>1. PICK none \in AttemptRow : none = Export!NoAttempt /\ none.step = "none" /\ none.whole
    BY <1>a
<1>2. /\ attempt' = [attempt EXCEPT ![a] = none]
      /\ job' = IF attempt[a].late THEN job ELSE Export!Failed(attempt[a].job)
    BY <1>1 DEF Export!Throw, Export!JobOf
<1>3. /\ attempt' \in [Attempts -> AttemptRow] /\ attempt'[a] = none
      /\ \A b \in Attempts \ {a} : attempt'[b] = attempt[b]
    BY <1>2 DEF ExportInv, ExportTyped
<1>4. CASE attempt[a].late
    BY <1>1, <1>2, <1>3, <1>4, HandlersStop
<1>5. CASE ~attempt[a].late
  <2>1. PICK j \in Jobs : j = attempt[a].job /\ job[j] # None
      BY DEF ExportInv, ExportTyped
  <2>2. job[j].state = "active" /\ Waits(a, j)
      BY <1>5, <2>1 DEF ExportInv, Answering, Waits
  <2>3. \A b \in Attempts : Waits(b, j)' => attempt'[b].late
      BY <1>1, <1>3, <1>5, <2>2 DEF ExportInv, ExportTyped, AttemptRow, Answering, Waits
  <2>4. \A b \in Attempts : attempt'[b].whole
      BY <1>1, <1>3 DEF ExportInv, Owned
  <2>5. job' = Export!Failed(j)
      BY <1>2, <1>5, <2>1
  <2> QED BY <1>1, <1>3, <2>1, <2>2, <2>3, <2>4, <2>5, JobFails
<1> QED BY <1>4, <1>5

(* A handler goes on before it uploads.                                    *)
LEMMA HandlerMoves ==
    ASSUME ExportInv, NEW a \in Attempts, NEW step \in {"read", "upload", "stuck"},
           attempt[a].step \in {"books", "read"},
           attempt' = [attempt EXCEPT ![a].step = step], faults' \in Nat,
           UNCHANGED <<request, job, object, links, sweep, linked, now, started>>
    PROVE  ExportInv'
<1>1. PICK old \in AttemptRow : old = attempt[a]
    BY DEF ExportInv, ExportTyped
<1>a. /\ [old EXCEPT !.step = step] \in AttemptRow /\ [old EXCEPT !.step = step].step = step
      /\ [old EXCEPT !.step = step].job = old.job /\ [old EXCEPT !.step = step].late = old.late
      /\ [old EXCEPT !.step = step].whole = old.whole
    BY DEF AttemptRow
<1>2. PICK x \in AttemptRow : /\ x = [old EXCEPT !.step = step] /\ x.step = step /\ x.job = old.job
                              /\ x.late = old.late /\ x.whole = old.whole
    BY <1>a
<1>3. attempt' = [attempt EXCEPT ![a] = x]
    BY <1>1, <1>2
<1>4. attempt' \in [Attempts -> AttemptRow] /\ attempt'[a] = x /\ \A b \in Attempts \ {a} : attempt'[b] = attempt[b]
    BY <1>3 DEF ExportInv, ExportTyped
<1>5. ExportTyped'
    BY <1>1, <1>2, <1>4 DEF ExportInv, ExportTyped
<1>6. Owned'
    BY <1>1, <1>2, <1>4 DEF ExportInv, Owned, Signing
<1>7. \A b \in Attempts, j \in Jobs : Waits(b, j)' <=> Waits(b, j)
    BY <1>1, <1>2, <1>4 DEF Waits
<1>8. \A b \in Attempts : attempt'[b].late = attempt[b].late
    BY <1>1, <1>2, <1>4
<1>9. Answering'
    BY <1>7, <1>8 DEF ExportInv, Answering
<1>10. \A j \in Jobs : Unmade(j) => Unmade(j)'
    BY DEF Unmade, Signing
<1>11. \A j \in Jobs : \A until \in Nat : MadeOnce(j, until) => MadeOnce(j, until)'
    BY DEF MadeOnce, Signing
<1>12. FirstTries'
  <2>1. \A j \in Jobs : job[j] # None => job[j].until \in Nat
      BY DEF ExportInv, ExportTyped, JobRow
  <2>2. \A b \in Attempts : attempt[b].until \in Nat
      BY DEF ExportInv, ExportTyped, AttemptRow
  <2> QED BY <1>2, <1>4, <1>7, <1>8, <1>10, <1>11, <2>1, <2>2
          DEF ExportInv, FirstTries, Export!DoneAtOnce
<1> QED BY <1>5, <1>6, <1>9, <1>12 DEF ExportInv

(* A job is taken by a handler.                                            *)
LEMMA JobFetched ==
    ASSUME Export!CallsOK, ExportInv, NEW a \in Attempts, NEW j \in Jobs, Export!Fetch(a, j)
    PROVE  ExportInv'
<1>a. Export!NoAttempt \in AttemptRow /\ Export!NoAttempt.step = "none" /\ Export!NoAttempt.whole
      /\ Export!NoAttempt.late = FALSE
    BY DEF AttemptRow, Export!NoAttempt
<1>1. PICK none \in AttemptRow : none = attempt[a] /\ none.step = "none" /\ none.whole /\ none.late = FALSE
    BY <1>a DEF Export!Fetch
<1>b. /\ [none EXCEPT !.job = j, !.step = "books"] \in AttemptRow
      /\ [none EXCEPT !.job = j, !.step = "books"].job = j
      /\ [none EXCEPT !.job = j, !.step = "books"].step = "books"
      /\ [none EXCEPT !.job = j, !.step = "books"].late = FALSE
      /\ [none EXCEPT !.job = j, !.step = "books"].whole
    BY <1>1 DEF AttemptRow
<1>2. PICK x \in AttemptRow : /\ x = [none EXCEPT !.job = j, !.step = "books"]
                              /\ x.job = j /\ x.step = "books" /\ x.late = FALSE /\ x.whole
    BY <1>b
<1>3. attempt' = [attempt EXCEPT ![a] = x]
    BY <1>1, <1>2 DEF Export!Fetch, ExportInv, ExportTyped
<1>4. attempt' \in [Attempts -> AttemptRow] /\ attempt'[a] = x /\ \A b \in Attempts \ {a} : attempt'[b] = attempt[b]
    BY <1>3 DEF ExportInv, ExportTyped
<1>5. PICK old \in JobRow : old = job[j] /\ old # None /\ old.state \in {"created", "retry"}
    BY RowShapes DEF Export!Fetch, ExportInv, ExportTyped
<1>c. /\ [old EXCEPT !.state = "active"] \in JobRow /\ [old EXCEPT !.state = "active"].state = "active"
      /\ [old EXCEPT !.state = "active"].user = old.user /\ [old EXCEPT !.state = "active"].tries = old.tries
    BY DEF JobRow
<1>6. PICK y \in JobRow : /\ y = [old EXCEPT !.state = "active"] /\ y.state = "active"
                          /\ y.user = old.user /\ y.tries = old.tries
    BY <1>c
<1>7. job' = [job EXCEPT ![j] = y]
    BY <1>5, <1>6 DEF Export!Fetch, ExportInv, ExportTyped
<1>8. job'[j] = y /\ y # None /\ (\A i \in Jobs \ {j} : job'[i] = job[i]) /\ job' \in [Jobs -> JobRow \cup {None}]
    BY <1>6, <1>7, RowShapes DEF ExportInv, ExportTyped
<1>9. UNCHANGED <<request, object, links, sweep, linked, now, started, faults>>
    BY DEF Export!Fetch
<1>10. \A b \in Attempts : Waits(b, j)' => b = a \/ (Waits(b, j) /\ attempt[b].late)
    BY <1>4, <1>5 DEF ExportInv, Answering, Waits
<1>d. \A i \in Jobs : job[i] # None => job'[i] # None /\ job'[i].user = job[i].user
    BY <1>5, <1>6, <1>8
<1>e. \A b \in Attempts : /\ attempt'[b].whole
                          /\ attempt'[b].step # "none" => attempt'[b].job \in Jobs /\ job'[attempt'[b].job] # None
  <2>1. ASSUME NEW b \in Attempts \ {a}
        PROVE  /\ attempt'[b].whole
               /\ attempt'[b].step # "none" => attempt'[b].job \in Jobs /\ job'[attempt'[b].job] # None
      BY <1>4, <1>d DEF ExportInv, ExportTyped, Owned
  <2>2. attempt'[a].whole /\ attempt'[a].job \in Jobs /\ job'[attempt'[a].job] # None
      BY <1>2, <1>4, <1>8
  <2> QED BY <2>1, <2>2
<1>11. ExportTyped'
    BY <1>4, <1>8, <1>9, <1>e DEF ExportInv, ExportTyped
<1>12. Owned'
    BY <1>9, <1>d, <1>e DEF ExportInv, ExportTyped, Owned, Signing
<1>13. \A b \in Attempts, i \in Jobs \ {j} : Waits(b, i)' => Waits(b, i) /\ attempt'[b] = attempt[b]
    BY ZenonT(60), <1>2, <1>4 DEF Waits
<1>14. \A b \in Attempts \ {a} : attempt'[b].late = attempt[b].late
    BY <1>4
<1>15. Answering'
  <2>1. \A b \in Attempts : Waits(b, j)' /\ ~attempt'[b].late => b = a
      BY <1>10, <1>14
  <2>2. \A b \in Attempts, i \in Jobs : Waits(b, i)' /\ ~attempt'[b].late
                                       => job'[i].state = "active"
    <3>1. job'[j].state = "active"
        BY <1>6, <1>8
    <3>2. ASSUME NEW b \in Attempts, NEW i \in Jobs \ {j}, Waits(b, i)', ~attempt'[b].late
          PROVE  job'[i].state = "active"
        BY <1>8, <1>13, <3>2 DEF ExportInv, Answering
    <3> QED BY <3>1, <3>2
  <2>3. \A b, c \in Attempts, i \in Jobs :
           Waits(b, i)' /\ Waits(c, i)' /\ ~attempt'[b].late /\ ~attempt'[c].late => b = c
      BY <1>13, <2>1 DEF ExportInv, Answering
  <2>4. \A i \in Jobs : job'[i] # None => (job'[i].state = "created" => job'[i].tries = 0)
                                         /\ (job'[i].state = "retry" => job'[i].tries > 0)
      BY <1>6, <1>8 DEF ExportInv, Answering
  <2> QED BY <2>2, <2>3, <2>4 DEF Answering
<1>16. \A i \in Jobs : Unmade(i) => Unmade(i)'
    BY <1>9 DEF Unmade, Signing
<1>17. \A i \in Jobs : \A until \in Nat : MadeOnce(i, until) => MadeOnce(i, until)'
    BY <1>9 DEF MadeOnce, Signing
<1>18. y.tries = 0 => old.state = "created"
  <2>1. old.state = "retry" => old.tries > 0
      BY <1>5 DEF ExportInv, Answering
  <2> QED BY <1>5, <1>6, <2>1
<1>19. y.tries = 0 => Unmade(j) /\ \A b \in Attempts : Waits(b, j)' => b = a
    BY <1>5, <1>10, <1>18 DEF ExportInv, FirstTries
<1>20. FirstTries'
  <2>1. \A i \in Jobs : job[i] # None => job[i].until \in Nat
      BY DEF ExportInv, ExportTyped, JobRow
  <2>2. \A b \in Attempts : attempt[b].until \in Nat
      BY DEF ExportInv, ExportTyped, AttemptRow
  <2>3. ASSUME NEW i \in Jobs, job'[i] = None \/ job'[i].state = "created"
        PROVE  Unmade(i)' /\ \A b \in Attempts : ~Waits(b, i)'
    <3>1. i # j /\ (job[i] = None \/ job[i].state = "created")
        BY <1>6, <1>8, <2>3
    <3> QED BY <1>13, <1>16, <3>1 DEF ExportInv, FirstTries
  <2>4. ASSUME NEW i \in Jobs, Export!DoneAtOnce(i)'
        PROVE  MadeOnce(i, job[i].until)' /\ job'[i] = job[i] /\ \A b \in Attempts : ~Waits(b, i)'
    <3>1. i # j /\ job'[i] = job[i] /\ Export!DoneAtOnce(i)
        BY <1>6, <1>8, <2>4 DEF Export!DoneAtOnce
    <3>2. PICK t \in Nat : t = job[i].until
        BY <2>1, <3>1 DEF Export!DoneAtOnce
    <3>3. MadeOnce(i, t)'
        BY <1>17, <3>1, <3>2 DEF ExportInv, FirstTries
    <3>4. job'[i].until = t
        BY <3>1, <3>2
    <3> QED BY <1>13, <3>1, <3>2, <3>3, <3>4 DEF ExportInv, FirstTries
  <2>5. ASSUME NEW i \in Jobs, NEW b \in Attempts, job'[i] # None, job'[i].state = "active",
               job'[i].tries = 0, Waits(b, i)'
        PROVE  \E t \in Nat : /\ ~attempt'[b].late /\ t = attempt'[b].until
                              /\ IF attempt'[b].step = "uploaded" THEN MadeOnce(i, t)' ELSE Unmade(i)'
    <3>1. CASE i = j
      <4>1. b = a /\ Unmade(j)'
          BY <1>8, <1>16, <1>19, <2>5, <3>1
      <4>2. x.until \in Nat
          BY DEF AttemptRow
      <4> QED BY <1>2, <1>4, <3>1, <4>1, <4>2
    <3>2. CASE i # j
      <4>1. attempt'[b] = attempt[b] /\ Waits(b, i) /\ job'[i] = job[i]
          BY <1>8, <1>13, <2>5, <3>2
      <4> QED BY <1>16, <1>17, <2>2, <2>5, <4>1 DEF ExportInv, FirstTries
    <3> QED BY <3>1, <3>2
  <2> QED BY <2>3, <2>4, <2>5 DEF FirstTries
<1> QED BY <1>11, <1>12, <1>15, <1>20 DEF ExportInv

(* The upload of a handler is complete; if it is the first of its job, the *)
(* object is the only one the job ever has until it is done.               *)
LEMMA ArchiveUploaded ==
    ASSUME Export!CallsOK, ExportInv, NEW a \in Attempts, Export!UploadEnds(a)
    PROVE  ExportInv'
<1>1. PICK old \in AttemptRow : old = attempt[a] /\ old.step = "upload" /\ old.job \in Jobs /\ old.whole
    BY DEF Export!UploadEnds, ExportInv, ExportTyped, Owned
<1>2. PICK j \in Jobs : j = old.job /\ job[j] # None /\ Waits(a, j)
    BY <1>1 DEF ExportInv, ExportTyped, Waits
<1>3. PICK user \in Exporters : user = job[j].user
    BY <1>2 DEF ExportInv, ExportTyped, JobRow
<1>4. PICK until \in Nat, created \in Nat : created = now /\ until = now + Ttl
    BY RowShapes DEF ExportInv, ExportTyped
<1>a. /\ [old EXCEPT !.step = "uploaded", !.until = until] \in AttemptRow
      /\ [old EXCEPT !.step = "uploaded", !.until = until].step = "uploaded"
      /\ [old EXCEPT !.step = "uploaded", !.until = until].until = until
      /\ [old EXCEPT !.step = "uploaded", !.until = until].job = old.job
      /\ [old EXCEPT !.step = "uploaded", !.until = until].late = old.late
      /\ [old EXCEPT !.step = "uploaded", !.until = until].whole = old.whole
    BY DEF AttemptRow
<1>5. PICK x \in AttemptRow : /\ x = [old EXCEPT !.step = "uploaded", !.until = until]
                              /\ x.step = "uploaded" /\ x.until = until /\ x.job = old.job
                              /\ x.late = old.late /\ x.whole = old.whole
    BY <1>a
<1>6. attempt' = [attempt EXCEPT ![a] = x]
    BY <1>1, <1>4, <1>5 DEF Export!UploadEnds, ExportInv, ExportTyped
<1>7. attempt' \in [Attempts -> AttemptRow] /\ attempt'[a] = x /\ \A b \in Attempts \ {a} : attempt'[b] = attempt[b]
    BY <1>6 DEF ExportInv, ExportTyped
<1>b. [user |-> user, created |-> created, whole |-> TRUE] \in ExportedRow
    BY DEF ExportedRow
<1>8. PICK o \in ExportedRow : /\ o = [user |-> user, created |-> created, whole |-> TRUE]
                             /\ o.user = user /\ o.created = created /\ o.whole
    BY <1>b
<1>9. object' = [object EXCEPT ![j] = o]
  <2>1. attempt[a].whole = TRUE
      BY <1>1 DEF AttemptRow
  <2> QED BY <1>1, <1>2, <1>3, <1>4, <1>8, <2>1 DEF Export!UploadEnds, Export!JobOf
<1>10. object'[j] = o /\ o # None /\ (\A i \in Jobs \ {j} : object'[i] = object[i])
       /\ object' \in [Jobs -> ExportedRow \cup {None}]
    BY <1>9, RowShapes DEF ExportInv, ExportTyped
<1>11. UNCHANGED <<request, job, links, sweep, linked, now, started, faults>>
    BY DEF Export!UploadEnds
<1>c. \A b \in Attempts : /\ attempt'[b].job = attempt[b].job /\ attempt'[b].whole = attempt[b].whole
                          /\ attempt'[b].step = "none" <=> attempt[b].step = "none"
    BY ZenonT(60), <1>1, <1>5, <1>7
<1>12. ExportTyped'
    BY <1>7, <1>10, <1>11, <1>c DEF ExportInv, ExportTyped
<1>13. Owned'
  <2>1. \A i \in Jobs : object'[i] # None => job[i] # None /\ object'[i].whole /\ object'[i].user = job[i].user
      BY <1>2, <1>3, <1>8, <1>10 DEF ExportInv, Owned
  <2> QED BY <1>11, <1>c, <2>1 DEF ExportInv, Owned, Signing
<1>14. \A b \in Attempts, i \in Jobs : Waits(b, i)' <=> Waits(b, i)
    BY <1>c DEF Waits
<1>15. \A b \in Attempts : attempt'[b].late = attempt[b].late
    BY <1>1, <1>5, <1>7
<1>16. Answering'
    BY <1>11, <1>14, <1>15 DEF ExportInv, Answering
<1>17. \A i \in Jobs \ {j} : Unmade(i) => Unmade(i)'
    BY <1>10, <1>11 DEF Unmade, Signing
<1>18. \A i \in Jobs \ {j} : \A t \in Nat : MadeOnce(i, t) => MadeOnce(i, t)'
    BY <1>10, <1>11 DEF MadeOnce, Signing
<1>19. Unmade(j) => MadeOnce(j, until)'
    BY <1>4, <1>8, <1>10, <1>11 DEF Unmade, MadeOnce, Signing
<1>20. job[j].state # "created" /\ ~Export!DoneAtOnce(j)
    BY <1>2 DEF ExportInv, FirstTries
<1>21. job[j].state = "active" /\ job[j].tries = 0 =>
          ~old.late /\ Unmade(j) /\ \A b \in Attempts : Waits(b, j) => b = a
    BY <1>1, <1>2 DEF ExportInv, FirstTries, Answering
<1>22. FirstTries'
  <2>1. \A i \in Jobs : job[i] # None => job[i].until \in Nat
      BY DEF ExportInv, ExportTyped, JobRow
  <2>2. \A b \in Attempts : attempt[b].until \in Nat
      BY DEF ExportInv, ExportTyped, AttemptRow
  <2>3. \A b \in Attempts, i \in Jobs \ {j} : Waits(b, i) => attempt'[b] = attempt[b]
      BY <1>1, <1>2, <1>7 DEF Waits
  <2>4. \A i \in Jobs : job'[i] = job[i]
      BY <1>11
  <2>5. ASSUME NEW i \in Jobs, job[i] = None \/ job[i].state = "created"
        PROVE  Unmade(i)' /\ \A b \in Attempts : ~Waits(b, i)'
      BY <1>2, <1>14, <1>17, <1>20, <2>5 DEF ExportInv, FirstTries
  <2>6. ASSUME NEW i \in Jobs, Export!DoneAtOnce(i)
        PROVE  MadeOnce(i, job[i].until)' /\ \A b \in Attempts : ~Waits(b, i)'
    <3>1. PICK t \in Nat : t = job[i].until
        BY <2>1, <2>6 DEF Export!DoneAtOnce
    <3>2. MadeOnce(i, t)'
        BY <1>18, <1>20, <2>6, <3>1 DEF ExportInv, FirstTries
    <3> QED BY <1>11, <1>14, <2>6, <3>1, <3>2 DEF ExportInv, FirstTries
  <2>7. ASSUME NEW i \in Jobs, NEW b \in Attempts, job[i] # None, job[i].state = "active",
               job[i].tries = 0, Waits(b, i)
        PROVE  \E t \in Nat : /\ ~attempt'[b].late /\ t = attempt'[b].until
                              /\ IF attempt'[b].step = "uploaded" THEN MadeOnce(i, t)' ELSE Unmade(i)'
    <3>1. CASE i = j
        BY <1>5, <1>7, <1>19, <1>21, <2>7, <3>1
    <3>2. CASE i # j
      <4>1. attempt'[b] = attempt[b]
          BY <2>3, <2>7, <3>2
      <4> QED BY <1>17, <1>18, <2>2, <2>7, <3>2, <4>1 DEF ExportInv, FirstTries
    <3> QED BY <3>1, <3>2
  <2>8. \A i \in Jobs : Export!DoneAtOnce(i)' <=> Export!DoneAtOnce(i)
      BY <1>11 DEF Export!DoneAtOnce
  <2> QED BY <1>11, <1>14, <2>5, <2>6, <2>7, <2>8 DEF FirstTries
<1> QED BY <1>12, <1>13, <1>16, <1>22 DEF ExportInv

(* The job is answered, if pg-boss still waits for it.                      *)
LEMMA JobCompleted ==
    ASSUME Export!CallsOK, ExportInv, NEW a \in Attempts, Export!Complete(a)
    PROVE  ExportInv'
<1>a. Export!NoAttempt \in AttemptRow /\ Export!NoAttempt.step = "none" /\ Export!NoAttempt.whole
    BY DEF AttemptRow, Export!NoAttempt
<1>1. PICK none \in AttemptRow : none = Export!NoAttempt /\ none.step = "none" /\ none.whole
    BY <1>a
<1>2. attempt' = [attempt EXCEPT ![a] = none]
    BY <1>1 DEF Export!Complete
<1>3. /\ attempt' \in [Attempts -> AttemptRow] /\ attempt'[a] = none
      /\ \A b \in Attempts \ {a} : attempt'[b] = attempt[b]
    BY <1>2 DEF ExportInv, ExportTyped
<1>4. attempt[a].step = "uploaded" /\ UNCHANGED <<request, object, links, sweep, linked, now, started, faults>>
    BY DEF Export!Complete
<1>5. faults \in Nat /\ sweep \subseteq sweep
    BY DEF ExportInv, ExportTyped
<1>6. CASE attempt[a].late
  <2>1. job' = job
      BY <1>6 DEF Export!Complete
  <2>2. \A b \in Attempts : attempt'[b] = attempt[b] \/ attempt'[b] = Export!NoAttempt
      BY <1>1, <1>3
  <2> QED BY <1>3, <1>4, <1>5, <2>1, <2>2, HandlersStop
<1>7. CASE ~attempt[a].late
  <2>1. PICK j \in Jobs : j = attempt[a].job /\ job[j] # None /\ Waits(a, j) /\ job[j].state = "active"
      BY <1>4, <1>7 DEF ExportInv, ExportTyped, Answering, Waits
  <2>2. PICK old \in JobRow, until \in Nat : old = job[j] /\ until = attempt[a].until
      BY <2>1 DEF ExportInv, ExportTyped, AttemptRow
  <2>a. /\ [old EXCEPT !.state = "completed", !.until = until] \in JobRow
        /\ [old EXCEPT !.state = "completed", !.until = until].state = "completed"
        /\ [old EXCEPT !.state = "completed", !.until = until].until = until
        /\ [old EXCEPT !.state = "completed", !.until = until].user = old.user
        /\ [old EXCEPT !.state = "completed", !.until = until].tries = old.tries
      BY DEF JobRow
  <2>3. PICK y \in JobRow : /\ y = [old EXCEPT !.state = "completed", !.until = until]
                            /\ y.state = "completed" /\ y.until = until /\ y.user = old.user
                            /\ y.tries = old.tries
      BY <2>a
  <2>4. job' = [job EXCEPT ![j] = y]
      BY <1>7, <2>1, <2>2, <2>3 DEF Export!Complete, Export!JobOf, ExportInv, ExportTyped
  <2>5. /\ job'[j] = y /\ y # None /\ \A i \in Jobs \ {j} : job'[i] = job[i]
        /\ job' \in [Jobs -> JobRow \cup {None}]
      BY <2>4, RowShapes DEF ExportInv, ExportTyped
  <2>6. \A i \in Jobs : job[i] # None => job'[i] # None /\ job'[i].user = job[i].user
      BY <2>2, <2>3, <2>5
  <2>7. \A b \in Attempts : attempt'[b].whole /\ (attempt'[b].step # "none" => attempt'[b] = attempt[b])
      BY <1>1, <1>3 DEF ExportInv, Owned
  <2>8. ExportTyped'
      BY <1>3, <1>4, <2>5, <2>6, <2>7 DEF ExportInv, ExportTyped
  <2>9. Owned'
      BY <1>4, <2>6, <2>7 DEF ExportInv, ExportTyped, Owned, Signing
  <2>10. \A b \in Attempts, i \in Jobs : Waits(b, i)' => b # a /\ attempt'[b] = attempt[b] /\ Waits(b, i)
      BY <1>1, <1>3 DEF Waits
  <2>11. \A b \in Attempts : Waits(b, j)' => attempt[b].late
      BY <1>7, <2>1, <2>10 DEF ExportInv, Answering
  <2>12. Answering'
    <3>1. \A b \in Attempts, i \in Jobs : Waits(b, i)' /\ ~attempt'[b].late => job'[i].state = "active"
        BY <2>5, <2>10, <2>11 DEF ExportInv, Answering
    <3>2. \A b, c \in Attempts, i \in Jobs :
             Waits(b, i)' /\ Waits(c, i)' /\ ~attempt'[b].late /\ ~attempt'[c].late => b = c
        BY <2>10 DEF ExportInv, Answering
    <3>3. \A i \in Jobs : job'[i] # None => (job'[i].state = "created" => job'[i].tries = 0)
                                           /\ (job'[i].state = "retry" => job'[i].tries > 0)
        BY <2>3, <2>5, ZenonT(60) DEF ExportInv, Answering
    <3> QED BY <3>1, <3>2, <3>3 DEF Answering
  <2>13. \A i \in Jobs : Unmade(i) => Unmade(i)'
      BY <1>4 DEF Unmade, Signing
  <2>14. \A i \in Jobs : \A t \in Nat : MadeOnce(i, t) => MadeOnce(i, t)'
      BY <1>4 DEF MadeOnce, Signing
  <2>15. y.tries = 0 => MadeOnce(j, until) /\ \A b \in Attempts : ~Waits(b, j)'
    <3>1. ASSUME y.tries = 0
          PROVE  MadeOnce(j, until) /\ \A b \in Attempts : Waits(b, j) => ~attempt[b].late
        BY <1>4, <2>1, <2>2, <2>3, <3>1 DEF ExportInv, FirstTries
    <3> QED BY <2>10, <2>11, <3>1
  <2>16. FirstTries'
    <3>1. \A i \in Jobs : job[i] # None => job[i].until \in Nat
        BY DEF ExportInv, ExportTyped, JobRow
    <3>2. \A b \in Attempts : attempt[b].until \in Nat
        BY DEF ExportInv, ExportTyped, AttemptRow
    <3>3. ASSUME NEW i \in Jobs, job'[i] = None \/ job'[i].state = "created"
          PROVE  Unmade(i)' /\ \A b \in Attempts : ~Waits(b, i)'
      <4>1. i # j /\ (job[i] = None \/ job[i].state = "created")
          BY <2>3, <2>5, <3>3
      <4> QED BY <2>10, <2>13, <4>1 DEF ExportInv, FirstTries
    <3>4. ASSUME NEW i \in Jobs, Export!DoneAtOnce(i)'
          PROVE  \E t \in Nat : t = job'[i].until /\ MadeOnce(i, t)' /\ \A b \in Attempts : ~Waits(b, i)'
      <4>1. CASE i = j
          BY <2>3, <2>5, <2>14, <2>15, <3>4, <4>1 DEF Export!DoneAtOnce
      <4>2. CASE i # j
        <5>1. job'[i] = job[i] /\ Export!DoneAtOnce(i)
            BY <2>5, <3>4, <4>2 DEF Export!DoneAtOnce
        <5>2. PICK t \in Nat : t = job[i].until
            BY <3>1, <5>1 DEF Export!DoneAtOnce
        <5> QED BY <2>10, <2>14, <5>1, <5>2 DEF ExportInv, FirstTries
      <4> QED BY <4>1, <4>2
    <3>5. ASSUME NEW i \in Jobs, NEW b \in Attempts, job'[i] # None, job'[i].state = "active",
                 job'[i].tries = 0, Waits(b, i)'
          PROVE  \E t \in Nat : /\ ~attempt'[b].late /\ t = attempt'[b].until
                                /\ IF attempt'[b].step = "uploaded" THEN MadeOnce(i, t)' ELSE Unmade(i)'
      <4>1. i # j
          BY <2>3, <2>5, <3>5
      <4>2. attempt'[b] = attempt[b] /\ Waits(b, i) /\ job'[i] = job[i]
          BY <2>5, <2>10, <3>5, <4>1
      <4> QED BY <2>13, <2>14, <3>2, <3>5, <4>2 DEF ExportInv, FirstTries
    <3> QED BY <3>3, <3>4, <3>5 DEF FirstTries
  <2> QED BY <2>8, <2>9, <2>12, <2>16 DEF ExportInv
<1> QED BY <1>6, <1>7

(* pg-boss gives up on a job; its handlers go on.                          *)
LEMMA JobExpired ==
    ASSUME Export!CallsOK, ExportInv, NEW j \in Jobs, Export!Expire(j)
    PROVE  ExportInv'
<1>1. /\ job[j] # None /\ job[j].state = "active" /\ job' = Export!Failed(j)
      /\ UNCHANGED <<request, object, links, sweep, linked, now, started, faults>>
    BY DEF Export!Expire
<1>2. \A a \in Attempts : [attempt[a] EXCEPT !.late = TRUE] \in AttemptRow
    BY ZenonT(60) DEF ExportInv, ExportTyped, AttemptRow
<1>3. attempt' = [a \in Attempts |-> IF attempt[a].job = j THEN [attempt[a] EXCEPT !.late = TRUE] ELSE attempt[a]]
    BY DEF Export!Expire, Export!JobOf
<1>4. attempt' \in [Attempts -> AttemptRow]
    BY <1>2, <1>3 DEF ExportInv, ExportTyped
<1>5. ASSUME NEW a \in Attempts
      PROVE  /\ attempt'[a].step = attempt[a].step /\ attempt'[a].job = attempt[a].job
             /\ attempt'[a].until = attempt[a].until /\ attempt'[a].whole = attempt[a].whole
             /\ attempt'[a].late = IF attempt[a].job = j THEN TRUE ELSE attempt[a].late
  <2>1. PICK old \in AttemptRow : old = attempt[a]
      BY DEF ExportInv, ExportTyped
  <2>2. /\ [old EXCEPT !.late = TRUE].step = old.step /\ [old EXCEPT !.late = TRUE].job = old.job
        /\ [old EXCEPT !.late = TRUE].until = old.until /\ [old EXCEPT !.late = TRUE].whole = old.whole
        /\ [old EXCEPT !.late = TRUE].late = TRUE
      BY DEF AttemptRow
  <2>3. attempt'[a] = IF old.job = j THEN [old EXCEPT !.late = TRUE] ELSE old
      BY <1>3, <2>1
  <2>4. CASE old.job = j
      BY <2>1, <2>2, <2>3, <2>4
  <2>5. CASE old.job # j
      BY <2>1, <2>3, <2>5
  <2> QED BY <2>4, <2>5
<1>6. \A a \in Attempts : attempt'[a].whole
    BY <1>5 DEF ExportInv, Owned
<1>7. \A a \in Attempts : Waits(a, j)' => attempt'[a].late
    BY <1>5 DEF Waits
<1>8. faults' \in Nat
    BY <1>1 DEF ExportInv, ExportTyped
<1>9. \A a \in Attempts : attempt'[a].step # "none" =>
         /\ attempt'[a].step = attempt[a].step /\ attempt'[a].job = attempt[a].job
         /\ attempt'[a].until = attempt[a].until
         /\ attempt[a].job # j => attempt'[a].late = attempt[a].late
    BY <1>5
<1> QED BY <1>1, <1>4, <1>6, <1>7, <1>8, <1>9, JobFails

(* The steps of a handler.                                                 *)
LEMMA HandlerSteps ==
    ASSUME Export!CallsOK, ExportInv, NEW a \in Attempts,
           Export!Handle(a) \/ Export!ReadFails(a) \/ Export!UploadFails(a)
    PROVE  ExportInv'
<1>1. faults \in Nat
    BY DEF ExportInv, ExportTyped
<1>2. CASE Export!List(a)
  <2>1. attempt[a].step = "books" /\ UNCHANGED <<request, object, links, sweep, linked, now, started, faults>>
      BY <1>2 DEF Export!List
  <2>2. Export!Throw(a) \/ (attempt' = [attempt EXCEPT ![a].step = "read"] /\ job' = job)
      BY <1>2 DEF Export!List
  <2> QED BY <1>1, <2>1, <2>2, HandlerThrows, HandlerMoves
<1>3. CASE Export!Read(a)
    BY <1>1, <1>3, HandlerMoves DEF Export!Read
<1>4. CASE Export!ReadFails(a)
  <2>1. faults' \in Nat
      BY <1>1, <1>4 DEF Export!ReadFails
  <2> QED BY <1>4, <2>1, HandlerMoves DEF Export!ReadFails, Export!Broken
<1>5. CASE Export!UploadFails(a)
  <2>1. faults' \in Nat
      BY <1>1, <1>5 DEF Export!UploadFails
  <2> QED BY <1>5, <2>1, HandlerThrows DEF Export!UploadFails
<1> QED BY <1>2, <1>3, <1>4, <1>5, ArchiveUploaded, JobCompleted DEF Export!Handle

(* The worker process dies, and with it its handlers and its sweep.         *)
LEMMA WorkerCrashes ==
    ASSUME ExportInv, Export!Crash
    PROVE  ExportInv'
<1>1. Export!NoAttempt \in AttemptRow
    BY DEF AttemptRow, Export!NoAttempt
<1>2. faults' \in Nat
    BY DEF Export!Crash, ExportInv, ExportTyped
<1>3. attempt' \in [Attempts -> AttemptRow] /\ \A a \in Attempts : attempt'[a] = Export!NoAttempt
    BY <1>1 DEF Export!Crash
<1>4. sweep' \subseteq sweep
    BY DEF Export!Crash
<1> QED BY <1>2, <1>3, <1>4, HandlersStop DEF Export!Crash

(* The sweep, the clock and the books of the milestone: what has been made  *)
(* once stays until its time, whatever the listing was.                     *)
LEMMA ObjectsAge ==
    ASSUME Export!CallsOK, ExportInv,
           Export!SweepLists \/ Export!SweepLooks \/ Export!Relink \/ Export!Tick
    PROVE  ExportInv'
<1>1. /\ UNCHANGED <<request, job, attempt, links, faults>>
      /\ now' \in Nat /\ now <= now' /\ started' \in Nat /\ linked' \subseteq Books
      /\ (now' = now \/ object' = object)
    BY DEF Export!SweepLists, Export!SweepLooks, Export!Relink, Export!Tick, ExportInv, ExportTyped
<1>2. \A j \in Jobs : object[j] # None => object[j].created \in Nat
    BY DEF ExportInv, ExportTyped, ExportedRow
<1>3. \A e \in sweep' : /\ e \in [job : Jobs, created : Nat]
                        /\ e \in sweep \/ (object[e.job] # None /\ e.created = object[e.job].created)
  <2>1. CASE Export!SweepLists
    <3>1. sweep' = {[job |-> j, created |-> object[j].created] : j \in {i \in Jobs : object[i] # None}}
        BY <2>1 DEF Export!SweepLists
    <3>2. ASSUME NEW e \in sweep'
          PROVE  /\ e \in [job : Jobs, created : Nat]
                 /\ object[e.job] # None /\ e.created = object[e.job].created
      <4>1. PICK j \in Jobs : object[j] # None /\ e = [job |-> j, created |-> object[j].created]
          BY <3>1, <3>2
      <4>2. PICK created \in Nat : created = object[j].created
          BY <1>2, <4>1
      <4> QED BY <4>1, <4>2
    <3> QED BY <3>2
  <2>2. CASE ~Export!SweepLists
    <3>1. sweep' \subseteq sweep
        BY <2>2 DEF Export!SweepLooks, Export!Relink, Export!Tick
    <3> QED BY <3>1 DEF ExportInv, ExportTyped
  <2> QED BY <2>1, <2>2
<1>4. \A j \in Jobs : \/ object'[j] = object[j]
                      \/ /\ object'[j] = None /\ now' = now
                         /\ \E e \in sweep : e.job = j /\ now - e.created > Ttl
  <2>1. CASE Export!SweepLooks
    <3>1. PICK e \in sweep : object' = IF now - e.created > Ttl THEN [object EXCEPT ![e.job] = None] ELSE object
        BY <2>1 DEF Export!SweepLooks
    <3> QED BY <1>1, <2>1, <3>1 DEF Export!SweepLooks, ExportInv, ExportTyped
  <2>2. CASE ~Export!SweepLooks
      BY <2>2 DEF Export!SweepLists, Export!Relink, Export!Tick
  <2> QED BY <2>1, <2>2
<1>5. object' \in [Jobs -> ExportedRow \cup {None}]
  <2>1. CASE Export!SweepLooks
      BY <2>1 DEF Export!SweepLooks, ExportInv, ExportTyped
  <2>2. CASE ~Export!SweepLooks
      BY <2>2 DEF Export!SweepLists, Export!Relink, Export!Tick, ExportInv, ExportTyped
  <2> QED BY <2>1, <2>2
<1>6. ExportTyped'
    BY <1>1, <1>3, <1>5 DEF ExportInv, ExportTyped
<1>7. Owned'
    BY <1>1, <1>4 DEF ExportInv, Owned, Signing
<1>8. Answering'
    BY <1>1 DEF ExportInv, Answering, Waits
<1>9. \A j \in Jobs : Unmade(j) => Unmade(j)'
    BY <1>1, <1>3, <1>4 DEF Unmade, Signing
<1>10. ASSUME NEW j \in Jobs, NEW until \in Nat, MadeOnce(j, until)
       PROVE  MadeOnce(j, until)'
  <2>1. \A e \in sweep' : e.job = j => e.created + Ttl = until
      BY <1>3, <1>10 DEF MadeOnce
  <2>2. object'[j] # None => object'[j].created + Ttl = until
      BY <1>4, <1>10 DEF MadeOnce
  <2>3. now' < until => object'[j] # None
    <3>1. CASE object'[j] = object[j]
        BY <1>1, <1>10, <3>1 DEF MadeOnce, ExportInv, ExportTyped
    <3>2. CASE object'[j] # object[j]
      <4>1. PICK e \in sweep : e.job = j /\ now - e.created > Ttl /\ now' = now
          BY <1>4, <3>2
      <4>2. e.created + Ttl = until /\ e.created \in Nat /\ now \in Nat
          BY <1>10, <4>1 DEF MadeOnce, ExportInv, ExportTyped
      <4> QED BY <4>1, <4>2, RowShapes
    <3> QED BY <3>1, <3>2
  <2> QED BY <1>1, <1>10, <2>1, <2>2, <2>3 DEF MadeOnce, Signing
<1>11. FirstTries'
  <2>1. \A i \in Jobs : job[i] # None => job[i].until \in Nat
      BY DEF ExportInv, ExportTyped, JobRow
  <2>2. \A b \in Attempts : attempt[b].until \in Nat
      BY DEF ExportInv, ExportTyped, AttemptRow
  <2> QED BY <1>1, <1>9, <1>10, <2>1, <2>2 DEF ExportInv, FirstTries, Waits, Export!DoneAtOnce
<1> QED BY <1>6, <1>7, <1>8, <1>11 DEF ExportInv

(* Every step keeps the invariant.                                         *)
LEMMA ExportStep ==
    ASSUME Export!CallsOK, ExportInv, [Export!Next]_Export!vars
    PROVE  ExportInv'
<1>1. CASE UNCHANGED Export!vars
    BY <1>1 DEF Export!vars, ExportInv, ExportTyped, Owned, Answering, FirstTries, Unmade, MadeOnce,
                Signing, Waits, Export!DoneAtOnce
<1>2. ASSUME NEW r \in Requests, Export!Call(r) \/ Export!Proceed(r)
      PROVE  ExportInv'
    BY <1>2, RequestSteps, JobQueued, LinkSigned DEF Export!Proceed
<1>3. ASSUME NEW a \in Attempts, Export!Handle(a) \/ Export!ReadFails(a) \/ Export!UploadFails(a)
      PROVE  ExportInv'
    BY <1>3, HandlerSteps
<1>4. ASSUME NEW j \in Jobs, Export!Fetching(j) \/ Export!Expire(j)
      PROVE  ExportInv'
    BY <1>4, JobFetched, JobExpired DEF Export!Fetching
<1> QED BY <1>1, <1>2, <1>3, <1>4, WorkerCrashes, ObjectsAge DEF Export!Next

(* What the invariant says of the archives and the links.                  *)
LEMMA ExportSafe ==
    ASSUME ExportInv
    PROVE  Export!ExportsKept
<1>1. Export!OfferedWhole
    BY DEF ExportInv, Owned, Export!OfferedWhole
<1>2. Export!PromiseKept
    BY DEF ExportInv, FirstTries, MadeOnce, Export!PromiseKept
<1>3. ASSUME NEW l \in links
      PROVE  /\ l.user = job[l.job].user /\ l.until <= l.created + Ttl
             /\ Export!DoneAtOnce(l.job) /\ now < l.until => object[l.job] # None
  <2>1. PICK j \in Jobs : j = l.job
      BY DEF ExportInv, ExportTyped
  <2>2. l.until \in Nat /\ l.created \in Nat /\ now \in Nat /\ l.until <= l.created + Ttl
      BY DEF ExportInv, ExportTyped, Owned
  <2>3. ASSUME Export!DoneAtOnce(j), now < l.until
        PROVE  object[j] # None
    <3>a. job[j].until \in Nat
        BY <2>3 DEF ExportInv, ExportTyped, JobRow, Export!DoneAtOnce
    <3>1. MadeOnce(j, job[j].until) /\ l.created + Ttl = job[j].until
        BY <2>1, <2>3 DEF ExportInv, FirstTries, MadeOnce
    <3>2. now < job[j].until
        BY <2>2, <2>3, <3>a, <3>1
    <3> QED BY <3>1, <3>2 DEF MadeOnce
  <2> QED BY <2>1, <2>2, <2>3 DEF ExportInv, Owned
<1> QED BY <1>1, <1>2, <1>3 DEF Export!ExportsKept, Export!LinksEnd

(* What is offered for download is a whole archive; the file of a job that  *)
(* was done at once is there for as long as the job says, whatever the      *)
(* sweep has listed; and a URL is its requester's and does not outlive the  *)
(* file (export.service.ts, blob-storage.ts).                               *)
THEOREM ArchivesAreKept ==
    ASSUME Export!CallsOK
    PROVE  Export!Spec => []Export!ExportsKept
<1>1. Export!Init => ExportInv
    BY ExportStarts
<1>2. ExportInv /\ [Export!Next]_Export!vars => ExportInv'
    BY ExportStep
<1> QED BY <1>1, <1>2, ExportSafe, PTL DEF Export!Spec
=============================================================================
