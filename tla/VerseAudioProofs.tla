-------------------------- MODULE VerseAudioProofs --------------------------
(***************************************************************************)
(* Safety of VerseAudio for any units, clients, hashes and bounds: type    *)
(* correctness, ActiveTakeBelongs, SnapshotCoherent, SweepKeepsActive, the *)
(* refinement of AudioUnitContract and LosersSurfaced; and what the        *)
(* comparisons of VerseAudioCoverage decide, for any references.           *)
(*                                                                         *)
(* The inductive invariant IInv adds what the schema gives (fresh ids,     *)
(* foreign keys) and what a request may still rely on (RequestInv).  Every *)
(* action is shown to be a DatabaseStep, which is all the other requests   *)
(* have to know about it.                                                  *)
(***************************************************************************)
EXTENDS VerseAudio, TLAPS

-----------------------------------------------------------------------------
(* What the range comparisons of verse-audio.coverage.ts decide, for any   *)
(* references; MCVerseAudioCoverage checks the same on a small grid.       *)

(* compareVerseRef orders references totally. *)
LEMMA CompareOrders ==
    ASSUME NEW a \in VerseRef, NEW b \in VerseRef, NEW c \in VerseRef
    PROVE  /\ compareVerseRef(a, b) \in Int
           /\ compareVerseRef(a, b) <= 0 \/ compareVerseRef(b, a) <= 0
           /\ compareVerseRef(a, b) <= 0 /\ compareVerseRef(b, c) <= 0
              => compareVerseRef(a, c) <= 0
           /\ compareVerseRef(a, b) = 0 <=> a = b
           /\ compareVerseRef(a, b) <= 0 /\ compareVerseRef(b, a) <= 0 => a = b
           /\ compareVerseRef(a, a) = 0
BY DEF compareVerseRef, VerseRef

Ordered(range) == compareVerseRef(range.start, range.end) <= 0

(* Two recordings contend exactly when a verse is covered by both: the     *)
(* later of the two starts is such a verse.                                *)
THEOREM OverlapIffCommonVerse ==
    ASSUME NEW a \in Ranges, NEW b \in Ranges, Ordered(a), Ordered(b)
    PROVE  rangesOverlap(a, b) <=> \E ref \in VerseRef : Covers(a, ref) /\ Covers(b, ref)
<1>0. /\ a.start \in VerseRef /\ a.end \in VerseRef
      /\ b.start \in VerseRef /\ b.end \in VerseRef
    BY DEF Ranges
<1>1. ASSUME rangesOverlap(a, b)
      PROVE  \E ref \in VerseRef : Covers(a, ref) /\ Covers(b, ref)
  <2>1. CASE compareVerseRef(a.start, b.start) <= 0
    <3>1. Covers(a, b.start) /\ Covers(b, b.start)
      BY <1>0, <1>1, <2>1, CompareOrders DEF rangesOverlap, Covers, Ordered
    <3> QED BY <1>0, <3>1
  <2>2. CASE compareVerseRef(b.start, a.start) <= 0
    <3>1. Covers(a, a.start) /\ Covers(b, a.start)
      BY <1>0, <1>1, <2>2, CompareOrders DEF rangesOverlap, Covers, Ordered
    <3> QED BY <1>0, <3>1
  <2> QED BY <1>0, <2>1, <2>2, CompareOrders
<1>2. ASSUME NEW ref \in VerseRef, Covers(a, ref), Covers(b, ref)
      PROVE  rangesOverlap(a, b)
  <2>1. compareVerseRef(a.start, b.end) <= 0
    BY <1>0, <1>2, CompareOrders DEF Covers
  <2>2. compareVerseRef(b.start, a.end) <= 0
    BY <1>0, <1>2, CompareOrders DEF Covers
  <2> QED BY <2>1, <2>2 DEF rangesOverlap
<1> QED BY <1>1, <1>2

(* Equal ranges cover the same verses, so a re-recording whose geometry is *)
(* unchanged has nothing new to contend for.                               *)
THEOREM EqualIffSameVerses ==
    ASSUME NEW a \in Ranges, NEW b \in Ranges, Ordered(a), Ordered(b)
    PROVE  rangesEqual(a, b) <=> \A ref \in VerseRef : Covers(a, ref) <=> Covers(b, ref)
<1>0. /\ a.start \in VerseRef /\ a.end \in VerseRef
      /\ b.start \in VerseRef /\ b.end \in VerseRef
    BY DEF Ranges
<1>1. ASSUME rangesEqual(a, b)
      PROVE  \A ref \in VerseRef : Covers(a, ref) <=> Covers(b, ref)
  <2>1. a.start = b.start /\ a.end = b.end
    BY <1>0, <1>1, CompareOrders DEF rangesEqual
  <2> QED BY <2>1 DEF Covers
<1>2. ASSUME \A ref \in VerseRef : Covers(a, ref) <=> Covers(b, ref)
      PROVE  rangesEqual(a, b)
  <2>1. Covers(a, a.start) /\ Covers(a, a.end) /\ Covers(b, b.start) /\ Covers(b, b.end)
    BY <1>0, CompareOrders DEF Covers, Ordered
  <2>2. Covers(b, a.start) /\ Covers(b, a.end) /\ Covers(a, b.start) /\ Covers(a, b.end)
    BY <1>0, <1>2, <2>1
  <2>3. a.start = b.start
    BY <1>0, <2>2, CompareOrders DEF Covers
  <2>4. a.end = b.end
    BY <1>0, <2>2, CompareOrders DEF Covers
  <2> QED BY <1>0, <2>3, <2>4, CompareOrders DEF rangesEqual
<1> QED BY <1>1, <1>2

(* Whatever shape a route accepts for a unit, the recording covers the     *)
(* unit's own verse, so two recordings of one unit always contend.         *)
THEOREM AcceptedCoversAnchor ==
    ASSUME NEW anchor \in VerseRef, NEW ends \in SUBSET VerseRef,
           NEW shape \in AcceptedShapes(anchor, ends)
    PROVE  /\ Ordered(coverageFromActive(shape, anchor))
           /\ Covers(coverageFromActive(shape, anchor), anchor)
<1>1. CASE shape = VerseShape
  <2>1. coverageFromActive(shape, anchor) = [start |-> anchor, end |-> anchor]
    BY <1>1 DEF coverageFromActive, VerseShape
  <2> QED BY <2>1, CompareOrders DEF Ordered, Covers
<1>2. ASSUME NEW range \in [start : ends \cup {anchor}, end : ends],
             validPericopeRange(range), anchorMatchesStart(anchor, range),
             shape = PericopeShape(range)
      PROVE  /\ Ordered(coverageFromActive(shape, anchor))
             /\ Covers(coverageFromActive(shape, anchor), anchor)
  <2>1. /\ range.start = anchor /\ range.start \in VerseRef /\ range.end \in VerseRef
    BY <1>2 DEF anchorMatchesStart
  <2>2. /\ range.start # NoRef /\ range.end # NoRef
        /\ compareVerseRef(range.end, range.start) >= 0
    BY <1>2, <2>1 DEF validPericopeRange, NoRef
  <2>3. compareVerseRef(range.start, range.end) <= 0
    BY <2>1, <2>2 DEF compareVerseRef, VerseRef
  <2>4. coverageFromActive(shape, anchor) = [start |-> range.start, end |-> range.end]
    BY <1>2, <2>2 DEF coverageFromActive, PericopeShape
  <2> QED BY <2>1, <2>3, <2>4, CompareOrders DEF Ordered, Covers
<1> QED BY <1>1, <1>2 DEF AcceptedShapes

-----------------------------------------------------------------------------
(* The inductive invariant. *)

(* Recording ids are fresh and name one unit; an absent row is empty.      *)
RecordingIds ==
    /\ \A u \in Units : recording[u].id < nextRecording
    /\ \A u \in Units : recording[u].id = 0 => recording[u].active = 0
    /\ \A u, v \in Units : Present(u) /\ recording[u].id = recording[v].id => u = v

(* Take ids are fresh and every take has its recording (foreign key).      *)
TakeIds ==
    \A i \in DOMAIN take :
        /\ i < nextTake
        /\ \E u \in Units : recording[u].id = take[i].rec

Holding == {"replace", "flag", "mark", "promote", "rewrite", "readback", "scan", "resolve"}

(* What a request may rely on after it has read its unit.                  *)
RequestInv(r) ==
    r.pc \notin {"idle", "get", "first"} =>
        /\ r.snap.id # 0 /\ r.snap.id < nextRecording
        /\ \A v \in Units : recording[v].id = r.snap.id => v = r.unit
        /\ recording[r.unit].id = r.snap.id => r.snap.token <= recording[r.unit].token
        /\ Unchanged(r) =>
              /\ recording[r.unit].active = r.snap.active
              /\ recording[r.unit].shape = r.snap.shape
              /\ r.snap.status # "clean" => recording[r.unit].status = r.snap.status
        /\ r.pc \in Holding =>
              /\ r.take # 0 /\ r.take < nextTake
              /\ r.take \in DOMAIN take => take[r.take].rec = r.snap.id

IInv ==
    /\ TypeOK
    /\ RecordingIds
    /\ TakeIds
    /\ ActiveTakeBelongs
    /\ \A c \in Clients : RequestInv(request[c])

(* A row that keeps its version keeps its selection.                       *)
RowStep(old, new) ==
    /\ old.token <= new.token
    /\ new.token = old.token =>
          /\ new.active = old.active
          /\ new.shape = old.shape
          /\ old.status # "clean" => new.status = old.status

DatabaseStep ==
    /\ nextRecording <= nextRecording' /\ nextTake <= nextTake'
    /\ \A u \in Units :
          recording'[u].id # 0 /\ recording'[u].id < nextRecording =>
              /\ recording[u].id = recording'[u].id
              /\ RowStep(recording[u], recording'[u])
    /\ \A i \in DOMAIN take' :
          i < nextTake => i \in DOMAIN take /\ take'[i].rec = take[i].rec

-----------------------------------------------------------------------------
(* What an invariant request relies on survives any database step.         *)
LEMMA RequestInvKept ==
    ASSUME NEW r \in RequestState, TypeOK, TypeOK', DatabaseStep, RequestInv(r)
    PROVE  RequestInv(r)'
<1> SUFFICES ASSUME r.pc \notin {"idle", "get", "first"}
             PROVE  /\ r.snap.id # 0 /\ r.snap.id < nextRecording'
                    /\ \A v \in Units : recording'[v].id = r.snap.id => v = r.unit
                    /\ recording'[r.unit].id = r.snap.id =>
                          r.snap.token <= recording'[r.unit].token
                    /\ Unchanged(r)' =>
                          /\ recording'[r.unit].active = r.snap.active
                          /\ recording'[r.unit].shape = r.snap.shape
                          /\ r.snap.status # "clean" =>
                                recording'[r.unit].status = r.snap.status
                    /\ r.pc \in Holding =>
                          /\ r.take # 0 /\ r.take < nextTake'
                          /\ r.take \in DOMAIN take' => take'[r.take].rec = r.snap.id
    BY DEF RequestInv
<1> USE DEF RequestInv, DatabaseStep
<1>0. /\ r.unit \in Units /\ r.snap \in RecordingRow /\ r.take \in Nat
      /\ recording \in [Units -> RecordingRow] /\ recording' \in [Units -> RecordingRow]
      /\ nextRecording \in Nat /\ nextRecording' \in Nat
      /\ nextTake \in Nat /\ nextTake' \in Nat
    BY DEF TypeOK, RequestState
<1>a. /\ r.snap.token \in Nat /\ recording[r.unit].token \in Nat
      /\ recording'[r.unit].token \in Nat
    BY <1>0 DEF RecordingRow
<1>1. r.snap.id # 0 /\ r.snap.id < nextRecording /\ r.snap.id < nextRecording'
    BY <1>0 DEF RecordingRow
<1>2. \A v \in Units : recording'[v].id = r.snap.id =>
          recording[v].id = r.snap.id /\ RowStep(recording[v], recording'[v])
    BY <1>0, <1>1
<1>3. \A v \in Units : recording'[v].id = r.snap.id => v = r.unit
    BY <1>2
<1>4. ASSUME recording'[r.unit].id = r.snap.id
      PROVE  r.snap.token <= recording'[r.unit].token
    BY <1>0, <1>a, <1>2, <1>4 DEF RowStep
<1>5. ASSUME Unchanged(r)'
      PROVE  /\ recording'[r.unit].active = r.snap.active
             /\ recording'[r.unit].shape = r.snap.shape
             /\ r.snap.status # "clean" => recording'[r.unit].status = r.snap.status
  <2>1. /\ recording'[r.unit].id = r.snap.id
        /\ recording'[r.unit].token = r.snap.token
    BY <1>5 DEF Unchanged
  <2>2. /\ recording[r.unit].id = r.snap.id
        /\ RowStep(recording[r.unit], recording'[r.unit])
        /\ r.snap.token <= recording[r.unit].token
    BY <1>0, <1>2, <2>1
  <2>3. recording[r.unit].token = r.snap.token
    BY <1>a, <2>1, <2>2 DEF RowStep
  <2>4. Unchanged(r)
    BY <1>1, <2>2, <2>3 DEF Unchanged, Present
  <2> QED BY <2>1, <2>2, <2>3, <2>4 DEF RowStep
<1>6. ASSUME r.pc \in Holding
      PROVE  /\ r.take # 0 /\ r.take < nextTake'
             /\ r.take \in DOMAIN take' => take'[r.take].rec = r.snap.id
    BY <1>0, <1>6
<1> QED BY <1>1, <1>3, <1>4, <1>5, <1>6

-----------------------------------------------------------------------------
(* Typing *)

(* A client without a request is one.                                      *)
LEMMA IdleType == IdleRequest \in RequestState
<1>1. (CHOOSE u \in Units : TRUE) \in Units /\ (CHOOSE h \in Hashes : TRUE) \in Hashes
    BY UnitsAssumption
<1>2. VerseShape \in Shape
    BY DEF VerseShape, Shape, NoRef, VerseRef
<1>3. NoRecording \in RecordingRow
    BY <1>2 DEF NoRecording, RecordingRow, Status
<1> QED BY <1>1, <1>2, <1>3 DEF IdleRequest, RequestState, Steps

(* What the server accepts for a unit is a coverage.                       *)
LEMMA AcceptedType ==
    ASSUME NEW u \in Units
    PROVE  AcceptedShapes(Anchor[u].ref, RangeEnds) \subseteq Shape
<1>1. Anchor[u].ref \in VerseRef
    BY AnchorAssumption
<1>2. VerseShape \in Shape
    BY DEF VerseShape, Shape, NoRef, VerseRef
<1>3. ASSUME NEW range \in [start : RangeEnds \cup {Anchor[u].ref}, end : RangeEnds]
      PROVE  PericopeShape(range) \in Shape
    BY <1>1, <1>3, RangeEndsAssumption DEF PericopeShape, Shape
<1> QED BY <1>2, <1>3 DEF AcceptedShapes

(* A step of one request leaves the others alone.                          *)
LEMMA MoveType ==
    ASSUME TypeOK, NEW c \in Clients, NEW r \in RequestState, Move(c, r)
    PROVE  /\ request' \in [Clients -> RequestState]
           /\ request'[c] = r
           /\ \A d \in Clients \ {c} : request'[d] = request[d]
BY DEF TypeOK, Move

(* So does its end.                                                        *)
LEMMA FinishType ==
    ASSUME TypeOK, NEW c \in Clients, Finish(c)
    PROVE  /\ request' \in [Clients -> RequestState]
           /\ request'[c] = IdleRequest
           /\ \A d \in Clients \ {c} : request'[d] = request[d]
BY MoveType, IdleType DEF Finish

(* Only takes that are stored are shown.                                   *)
LEMMA ObserveType ==
    ASSUME DOMAIN take' \subseteq Nat, Observe
    PROVE  surfaced' \subseteq Nat
BY DEF Observe

-----------------------------------------------------------------------------
(* The invariants of the tables, one lemma for each kind of write.         *)

Tables == RecordingIds /\ TakeIds /\ ActiveTakeBelongs

(* A step that reads keeps the tables.                                     *)
LEMMA NoWrite ==
    ASSUME TypeOK, Tables, UNCHANGED <<recording, take, nextRecording, nextTake>>
    PROVE  DatabaseStep /\ Tables'
<1>1. DatabaseStep
    BY DEF TypeOK, DatabaseStep, RowStep, RecordingRow
<1>2. Tables'
    BY DEF Tables, RecordingIds, TakeIds, ActiveTakeBelongs, Present
<1> QED BY <1>1, <1>2

(* One row advances by a version; takes may go, but only takes of that row *)
(* and never the one it points at.                                         *)
LEMMA RowWrite ==
    ASSUME TypeOK, Tables,
           NEW u \in Units, Present(u), NEW row \in RecordingRow,
           recording' = [recording EXCEPT ![u] = row],
           row.id = recording[u].id, row.token = recording[u].token + 1,
           row.active # 0 => row.active \in DOMAIN take' /\ take'[row.active].rec = row.id,
           DOMAIN take' \subseteq DOMAIN take,
           \A i \in DOMAIN take' : take'[i].rec = take[i].rec,
           \A i \in DOMAIN take \ DOMAIN take' : take[i].rec = row.id,
           UNCHANGED <<nextRecording, nextTake>>
    PROVE  DatabaseStep /\ Tables'
<1>0. /\ recording' \in [Units -> RecordingRow]
      /\ recording'[u] = row
      /\ \A v \in Units \ {u} : recording'[v] = recording[v]
      /\ \A v \in Units : recording'[v].id = recording[v].id
    BY DEF TypeOK
<1>1. DatabaseStep
  <2>1. \A v \in Units : RowStep(recording[v], recording'[v])
    BY <1>0 DEF TypeOK, RowStep, RecordingRow
  <2> QED BY <1>0, <2>1 DEF DatabaseStep, TypeOK
<1>2. RecordingIds'
    BY <1>0 DEF Tables, RecordingIds, Present
<1>3. TakeIds'
    BY <1>0 DEF Tables, TakeIds
<1>4. ActiveTakeBelongs'
  <2> SUFFICES ASSUME NEW v \in Units, recording'[v].active # 0
               PROVE  /\ recording'[v].id # 0
                      /\ recording'[v].active \in DOMAIN take'
                      /\ take'[recording'[v].active].rec = recording'[v].id
      BY DEF ActiveTakeBelongs, Present
  <2>1. CASE v = u
    BY <1>0, <2>1 DEF Present
  <2>2. CASE v # u
    BY <1>0, <2>2 DEF Tables, ActiveTakeBelongs, RecordingIds, Present
  <2> QED BY <2>1, <2>2
<1> QED BY <1>1, <1>2, <1>3, <1>4 DEF Tables

(* Takes that no recording points at go. *)
LEMMA TakesDropped ==
    ASSUME TypeOK, Tables, UNCHANGED <<recording, nextRecording, nextTake>>,
           NEW gone, take' = [j \in DOMAIN take \ gone |-> take[j]],
           \A u \in Units : recording[u].active \notin gone \ {0}
    PROVE  DatabaseStep /\ Tables'
<1>1. DatabaseStep
    BY DEF TypeOK, DatabaseStep, RowStep, RecordingRow
<1>2. RecordingIds' /\ TakeIds'
    BY DEF Tables, RecordingIds, TakeIds, Present
<1>3. ActiveTakeBelongs'
    BY DEF Tables, ActiveTakeBelongs, Present
<1> QED BY <1>1, <1>2, <1>3 DEF Tables

TakeTable ==
    /\ DOMAIN take \subseteq Nat \ {0}
    /\ \A i \in DOMAIN take : take[i] \in TakeRow
    /\ nextTake \in Nat \ {0}

(* A take that is stored gets a new id and keeps the tables.               *)
LEMMA TakeStored ==
    ASSUME TypeOK, Tables, UNCHANGED <<recording, nextRecording>>,
           NEW u \in Units, Present(u), NEW hash \in Hashes, NEW shape \in Shape, NEW i,
           Store(recording[u].id, hash, shape, i)
    PROVE  /\ DatabaseStep /\ Tables' /\ TakeTable'
           /\ i \in Nat \ {0} /\ i < nextTake' /\ i \in DOMAIN take'
           /\ take'[i].rec = recording[u].id
<1>0. recording[u].id \in Nat \ {0}
    BY DEF TypeOK, RecordingRow, Present
<1>1. CASE i \in TakesWithHash(recording[u].id, hash) /\ UNCHANGED <<take, nextTake>>
  <2>1. i \in DOMAIN take /\ take[i].rec = recording[u].id /\ i < nextTake
    BY <1>1 DEF TakesWithHash, TakesOf, Tables, TakeIds
  <2>2. DatabaseStep /\ Tables'
    BY <1>1, NoWrite
  <2> QED BY <1>1, <2>1, <2>2 DEF TypeOK, TakeTable
<1>2. CASE /\ i = nextTake /\ nextTake' = nextTake + 1
           /\ take' = [j \in DOMAIN take \cup {i} |->
                         IF j = i THEN [rec |-> recording[u].id, hash |-> hash, shape |-> shape]
                         ELSE take[j]]
  <2>1. /\ DOMAIN take' = DOMAIN take \cup {i}
        /\ take'[i] = [rec |-> recording[u].id, hash |-> hash, shape |-> shape]
        /\ i \notin DOMAIN take
        /\ \A j \in DOMAIN take : take'[j] = take[j]
    BY <1>2 DEF Tables, TakeIds, TypeOK
  <2>2. DatabaseStep
    BY <1>2, <2>1 DEF TypeOK, DatabaseStep, RowStep, RecordingRow
  <2>3. RecordingIds'
    BY DEF Tables, RecordingIds, Present
  <2>4. TakeIds'
    BY <1>2, <2>1 DEF Tables, TakeIds, TypeOK
  <2>5. ActiveTakeBelongs'
    BY <2>1 DEF Tables, ActiveTakeBelongs, Present
  <2>6. TakeTable'
    BY <1>0, <1>2, <2>1 DEF TypeOK, TakeRow, TakeTable
  <2> QED BY <1>2, <2>1, <2>2, <2>3, <2>4, <2>5, <2>6 DEF Tables, TypeOK
<1> QED BY <1>1, <1>2 DEF Store

(* A recording and its first take appear together. *)
LEMMA RecordingCreated ==
    ASSUME TypeOK, Tables, NEW u \in Units, ~Present(u), NEW row \in RecordingRow,
           NEW hash \in Hashes, NEW shape \in Shape,
           row.id = nextRecording, row.active \in {0, nextTake},
           recording' = [recording EXCEPT ![u] = row],
           nextRecording' = nextRecording + 1,
           Store(nextRecording, hash, shape, nextTake)
    PROVE  /\ DatabaseStep /\ Tables' /\ TakeTable'
           /\ nextTake < nextTake' /\ take'[nextTake].rec = row.id
<1>0. /\ recording' \in [Units -> RecordingRow]
      /\ recording'[u] = row
      /\ \A v \in Units \ {u} : recording'[v] = recording[v]
    BY DEF TypeOK
<1>1. TakesWithHash(nextRecording, hash) = {}
    BY DEF Tables, TakeIds, RecordingIds, TakesWithHash, TakesOf, TypeOK, RecordingRow
<1>2. /\ nextTake' = nextTake + 1
      /\ DOMAIN take' = DOMAIN take \cup {nextTake}
      /\ take'[nextTake] = [rec |-> nextRecording, hash |-> hash, shape |-> shape]
      /\ nextTake \notin DOMAIN take
      /\ \A j \in DOMAIN take : take'[j] = take[j]
    BY <1>1 DEF Store, Tables, TakeIds, TypeOK
<1>3. DatabaseStep
    BY <1>0, <1>2 DEF TypeOK, DatabaseStep, RowStep, RecordingRow
<1>4. RecordingIds'
    BY <1>0 DEF Tables, RecordingIds, Present, TypeOK, RecordingRow
<1>5. TakeIds'
  <2> SUFFICES ASSUME NEW i \in DOMAIN take'
               PROVE  /\ i < nextTake'
                      /\ \E v \in Units : recording'[v].id = take'[i].rec
      BY DEF TakeIds
  <2>1. CASE i = nextTake
    BY <1>0, <1>2, <2>1 DEF TypeOK
  <2>2. CASE i \in DOMAIN take
    <3>1. PICK v \in Units : recording[v].id = take[i].rec
      BY <2>2 DEF Tables, TakeIds
    <3>2. v # u
      BY <2>2, <3>1 DEF TypeOK, TakeRow, Present
    <3> QED BY <1>0, <1>2, <2>2, <3>1, <3>2 DEF Tables, TakeIds, TypeOK
  <2> QED BY <1>2, <2>1, <2>2
<1>6. ActiveTakeBelongs'
  <2> SUFFICES ASSUME NEW v \in Units, recording'[v].active # 0
               PROVE  /\ recording'[v].id # 0
                      /\ recording'[v].active \in DOMAIN take'
                      /\ take'[recording'[v].active].rec = recording'[v].id
      BY DEF ActiveTakeBelongs, Present
  <2>1. CASE v = u
    BY <1>0, <1>2, <2>1 DEF TypeOK
  <2>2. CASE v # u
    BY <1>0, <1>2, <2>2 DEF Tables, ActiveTakeBelongs, Present
  <2> QED BY <2>1, <2>2
<1>7. TakeTable'
    BY <1>2 DEF TypeOK, TakeRow, TakeTable
<1> QED BY <1>2, <1>3, <1>4, <1>5, <1>6, <1>7 DEF Tables, TypeOK

(* A recording and all its takes go. *)
LEMMA RecordingRemoved ==
    ASSUME TypeOK, Tables, NEW u \in Units, Present(u),
           recording' = [recording EXCEPT ![u] = NoRecording],
           take' = [j \in DOMAIN take \ TakesOf(recording[u].id) |-> take[j]],
           UNCHANGED <<nextRecording, nextTake>>
    PROVE  DatabaseStep /\ Tables'
<1>0. /\ recording'[u] = NoRecording
      /\ \A v \in Units \ {u} : recording'[v] = recording[v]
    BY DEF TypeOK
<1>1. DatabaseStep
    BY <1>0 DEF TypeOK, DatabaseStep, RowStep, RecordingRow, NoRecording
<1>2. RecordingIds'
    BY <1>0 DEF Tables, RecordingIds, Present, NoRecording, TypeOK, RecordingRow
<1>3. TakeIds'
    BY <1>0 DEF Tables, TakeIds, TakesOf
<1>4. ActiveTakeBelongs'
    BY <1>0 DEF Tables, ActiveTakeBelongs, RecordingIds, Present, NoRecording, TakesOf
<1> QED BY <1>1, <1>2, <1>3, <1>4 DEF Tables

(* The overlap scan writes nothing but conflicts, and not on resolved rows. *)
LEMMA StatusesMarked ==
    ASSUME TypeOK, Tables, UNCHANGED <<take, nextRecording, nextTake>>,
           NEW marked, \A v \in marked : recording[v].status # "resolved",
           recording' = [v \in Units |->
                           IF v \in marked THEN [recording[v] EXCEPT !.status = "conflict"]
                           ELSE recording[v]]
    PROVE  /\ DatabaseStep /\ Tables'
           /\ recording' \in [Units -> RecordingRow]
<1>0. \A v \in Units : /\ recording'[v] \in RecordingRow
                       /\ recording'[v].id = recording[v].id
                       /\ recording'[v].token = recording[v].token
                       /\ recording'[v].active = recording[v].active
                       /\ recording'[v].shape = recording[v].shape
                       /\ recording[v].status # "clean" =>
                             recording'[v].status = recording[v].status
    BY DEF TypeOK, RecordingRow, Status
<1>1. DatabaseStep
    BY <1>0 DEF TypeOK, DatabaseStep, RowStep, RecordingRow
<1>2. Tables'
    BY <1>0 DEF Tables, RecordingIds, TakeIds, ActiveTakeBelongs, Present
<1> QED BY <1>0, <1>1, <1>2

-----------------------------------------------------------------------------
(* From the tables and the request that moved to the whole invariant.      *)

(* A step of a request keeps the invariant when it keeps the tables and    *)
(* what it holds stays true.                                               *)
LEMMA ServeStep ==
    ASSUME IInv, NEW c \in Clients, NEW r \in RequestState, Move(c, r), RequestInv(r)',
           DatabaseStep, Tables', TakeTable', Observe,
           recording' \in [Units -> RecordingRow], nextRecording' \in Nat \ {0},
           agedUnits' \subseteq Units, agedTakes' \subseteq Nat, UNCHANGED sweep,
           started' \in 0 .. MaxRequests
    PROVE  IInv'
<1>1. /\ request' \in [Clients -> RequestState]
      /\ request'[c] = r
      /\ \A d \in Clients \ {c} : request'[d] = request[d]
    BY MoveType DEF IInv
<1>2. TypeOK'
  <2>1. surfaced' \subseteq Nat
    BY ObserveType DEF TakeTable
  <2> QED BY <1>1, <2>1 DEF IInv, TypeOK, TakeTable
<1>3. ASSUME NEW d \in Clients
      PROVE  RequestInv(request[d])'
  <2>1. PICK s \in RequestState : s = request'[d] /\ RequestInv(s)'
    <3>1. CASE d = c
      BY <1>1, <3>1
    <3>2. CASE d # c
      <4>1. PICK s \in RequestState : s = request[d]
        BY DEF IInv, TypeOK
      <4>2. RequestInv(s)
        BY <4>1 DEF IInv
      <4>3. RequestInv(s)'
        BY <1>2, <4>2, RequestInvKept DEF IInv
      <4> QED BY <1>1, <3>2, <4>1, <4>3
    <3> QED BY <3>1, <3>2
  <2> QED BY <2>1 DEF RequestInv, Unchanged, Present
<1> QED BY <1>2, <1>3 DEF IInv, Tables

(* The same when no request moves. *)
LEMMA RestStep ==
    ASSUME IInv, UNCHANGED request, DatabaseStep, Tables', TakeTable', Observe,
           recording' \in [Units -> RecordingRow], nextRecording' \in Nat \ {0},
           agedUnits' \subseteq Units, agedTakes' \subseteq Nat, sweep' \subseteq Nat,
           started' \in 0 .. MaxRequests
    PROVE  IInv'
<1>1. TypeOK'
  <2>1. surfaced' \subseteq Nat
    BY ObserveType DEF TakeTable
  <2> QED BY <2>1 DEF IInv, TypeOK, TakeTable
<1>2. ASSUME NEW d \in Clients
      PROVE  RequestInv(request[d])'
  <2>1. PICK s \in RequestState : s = request[d]
    BY DEF IInv, TypeOK
  <2>2. RequestInv(s)
    BY <2>1 DEF IInv
  <2>3. RequestInv(s)'
    BY <1>1, <2>2, RequestInvKept DEF IInv
  <2> QED BY <2>1, <2>3 DEF RequestInv, Unchanged, Present
<1> QED BY <1>1, <1>2 DEF IInv, Tables

(* An idle client claims nothing.                                          *)
LEMMA IdleInv == RequestInv(IdleRequest)'
BY DEF RequestInv, IdleRequest

(* A request that keeps its unit and its snapshot keeps what it relies on. *)
LEMMA NextStepInv ==
    ASSUME NEW r \in RequestState, NEW s \in RequestState, RequestInv(r)',
           r.pc \notin {"idle", "get", "first"},
           s.unit = r.unit, s.snap = r.snap,
           s.pc \in Holding =>
              /\ s.take # 0 /\ s.take < nextTake'
              /\ s.take \in DOMAIN take' => take'[s.take].rec = s.snap.id
    PROVE  RequestInv(s)'
BY DEF RequestInv, Unchanged, Present

(* The request steps that write nothing. *)
LEMMA ReadStep ==
    ASSUME IInv, NEW c \in Clients, NEW r \in RequestState, Move(c, r), RequestInv(r)',
           UNCHANGED <<rows, sweep>>, started' \in 0 .. MaxRequests, Observe
    PROVE  IInv'
<1>1. UNCHANGED <<recording, take, nextRecording, nextTake, agedUnits, agedTakes, sweep>>
    BY DEF rows
<1>2. DatabaseStep /\ Tables'
    BY <1>1, NoWrite DEF IInv, Tables
<1>3. TakeTable'
    BY <1>1 DEF IInv, TypeOK, TakeTable
<1> QED BY <1>1, <1>2, <1>3, ServeStep DEF IInv, TypeOK

(* An answer that writes nothing keeps the invariant,                      *)
LEMMA ReadFinish ==
    ASSUME IInv, NEW c \in Clients, Finish(c),
           UNCHANGED <<rows, sweep>>, started' \in 0 .. MaxRequests, Observe
    PROVE  IInv'
BY IdleType, IdleInv, ReadStep DEF Finish

(* and so does the look at the row of the unit,                            *)
LEMMA LookUpKeeps ==
    ASSUME IInv, NEW c \in Clients, NEW r \in RequestState, LookUp(c, r),
           UNCHANGED <<rows, sweep>>, started' \in 0 .. MaxRequests, Observe
    PROVE  IInv'
<1>1. CASE ~Present(r.unit) /\ Move(c, [r EXCEPT !.pc = "first"])
  <2>1. [r EXCEPT !.pc = "first"] \in RequestState
    BY DEF RequestState, Steps
  <2>2. RequestInv([r EXCEPT !.pc = "first"])'
    BY <2>1 DEF RequestInv, RequestState
  <2> QED BY <1>1, <2>1, <2>2, ReadStep
<1>2. ASSUME Present(r.unit), NEW replacing \in BOOLEAN,
             Move(c, [r EXCEPT !.pc = "find", !.snap = recording[r.unit],
                               !.replacing = replacing])
      PROVE  IInv'
  <2>0. PICK row \in RecordingRow : row = recording[r.unit]
    BY DEF RequestState, IInv, TypeOK
  <2> DEFINE s == [r EXCEPT !.pc = "find", !.snap = row, !.replacing = replacing]
  <2>1. /\ s \in RequestState
        /\ s.pc = "find" /\ s.unit = r.unit /\ s.unit \in Units /\ s.snap = row
    BY <2>0 DEF RequestState, Steps
  <2>4. Move(c, s)
    BY <1>2, <2>0 DEF Move
  <2> HIDE DEF s
  <2>2. UNCHANGED <<recording, take, nextRecording, nextTake>>
    BY DEF rows
  <2>3. RequestInv(s)
    BY <1>2, <2>0, <2>1 DEF RequestInv, IInv, RecordingIds, Holding, Present, RecordingRow
  <2>5. RequestInv(s)'
    BY <2>2, <2>3 DEF RequestInv, Unchanged, Present
  <2> QED BY <2>1, <2>4, <2>5, ReadStep
<1>3. CASE /\ Present(r.unit)
           /\ \E replacing \in IF r.activate THEN BOOLEAN ELSE {TRUE} :
                 Move(c, [r EXCEPT !.pc = "find", !.snap = recording[r.unit],
                                   !.replacing = replacing])
  <2>1. PICK replacing \in BOOLEAN :
           Move(c, [r EXCEPT !.pc = "find", !.snap = recording[r.unit],
                             !.replacing = replacing])
    BY <1>3
  <2> QED BY <1>2, <1>3, <2>1
<1> QED BY <1>1, <1>3 DEF LookUp

(* and the start of an upload.                                             *)
LEMMA StartUploadKeeps ==
    ASSUME IInv, NEW c \in Clients, StartUpload(c)
    PROVE  IInv'
<1>1. PICK u \in Units, h \in Hashes, activate \in Activates :
         \E s \in AcceptedShapes(Anchor[u].ref, RangeEnds) :
            LookUp(c, [IdleRequest EXCEPT !.unit = u, !.hash = h, !.shape = s,
                                          !.activate = activate])
    BY DEF StartUpload
<1>2. PICK s \in AcceptedShapes(Anchor[u].ref, RangeEnds) :
         LookUp(c, [IdleRequest EXCEPT !.unit = u, !.hash = h, !.shape = s,
                                       !.activate = activate])
    BY <1>1
<1>3. s \in Shape /\ activate \in BOOLEAN
    BY AcceptedType, ActivatesAssumption
<1>4. [IdleRequest EXCEPT !.unit = u, !.hash = h, !.shape = s,
                          !.activate = activate] \in RequestState
    BY <1>3, IdleType DEF RequestState
<1>5. /\ UNCHANGED <<rows, sweep>> /\ Observe /\ started' \in 0 .. MaxRequests
    BY MaxRequestsAssumption DEF StartUpload, IInv, TypeOK
<1> QED BY <1>2, <1>4, <1>5, LookUpKeeps

(* What a request holds is true of the tables,                             *)
LEMMA Served ==
    ASSUME IInv, NEW c \in Clients
    PROVE  \E r \in RequestState : r = request[c] /\ RequestInv(r)
BY DEF IInv, TypeOK

(* and stays so while others write.                                        *)
LEMMA StepInv ==
    ASSUME IInv, NEW r \in RequestState, RequestInv(r), TypeOK', DatabaseStep
    PROVE  RequestInv(r)'
BY RequestInvKept DEF IInv

(* An upload that found a recording without an active take looks again.    *)
LEMMA UploadAgainKeeps ==
    ASSUME IInv, NEW c \in Clients, UploadAgain(c)
    PROVE  IInv'
<1>1. PICK r \in RequestState : r = request[c]
    BY Served
<1>2. started' \in 0 .. MaxRequests
    BY DEF UploadAgain, IInv, TypeOK
<1> QED BY <1>1, <1>2, LookUpKeeps DEF UploadAgain

(* A duplicate that needs no write is answered.                            *)
LEMMA AnswerDuplicateKeeps ==
    ASSUME IInv, NEW c \in Clients, AnswerDuplicate(c)
    PROVE  IInv'
BY ReadFinish DEF AnswerDuplicate, IInv, TypeOK

(* A read that leaves the request at another statement about the same row. *)
LEMMA ReadNext ==
    ASSUME IInv, NEW c \in Clients, NEW r \in RequestState, r = request[c],
           r.pc \notin {"idle", "get", "first"},
           NEW s \in RequestState, Move(c, s), s.unit = r.unit, s.snap = r.snap,
           s.pc \in Holding =>
              \/ r.pc \in Holding /\ s.take = r.take
              \/ s.take \in TakesOf(r.snap.id),
           UNCHANGED <<rows, sweep, started>>, Observe
    PROVE  IInv'
<1>1. UNCHANGED <<recording, take, nextRecording, nextTake>>
    BY DEF rows
<1>2. RequestInv(r)
    BY DEF IInv
<1>3. RequestInv(r)'
    BY <1>1, <1>2 DEF RequestInv, Unchanged, Present
<1>4. s.pc \in Holding =>
         /\ s.take # 0 /\ s.take < nextTake'
         /\ s.take \in DOMAIN take' => take'[s.take].rec = s.snap.id
    BY <1>1, <1>2 DEF RequestInv, TakesOf, IInv, TypeOK, TakeIds
<1>5. RequestInv(s)'
    BY <1>3, <1>4, NextStepInv
<1> QED BY <1>5, ReadStep DEF IInv, TypeOK

(* Any other duplicate is promoted, rewritten or flagged in its place.     *)
LEMMA UseDuplicateKeeps ==
    ASSUME IInv, NEW c \in Clients, UseDuplicate(c)
    PROVE  IInv'
<1>1. PICK r \in RequestState : r = request[c]
    BY Served
<1>2. PICK i \in TakesWithHash(r.snap.id, r.hash) :
         \/ Move(c, [r EXCEPT !.pc = "rewrite", !.take = i, !.scan = GeometryChanges(r)])
         \/ Move(c, [r EXCEPT !.pc = "promote", !.take = i, !.scan = GeometryChanges(r)])
         \/ Move(c, [r EXCEPT !.pc = "mark", !.take = i, !.scan = FALSE])
    BY <1>1 DEF UseDuplicate
<1>3. /\ r.pc = "find" /\ i \in TakesOf(r.snap.id) /\ i \in Nat
      /\ GeometryChanges(r) \in BOOLEAN
    BY <1>1, <1>2 DEF UseDuplicate, TakesWithHash, TakesOf, IInv, TypeOK, GeometryChanges,
                      rangesEqual
<1> DEFINE s(pc, scan) == [r EXCEPT !.pc = pc, !.take = i, !.scan = scan]
<1>a. ASSUME NEW pc \in {"rewrite", "promote", "mark"}, NEW scan \in BOOLEAN
      PROVE  /\ s(pc, scan) \in RequestState
             /\ s(pc, scan).unit = r.unit /\ s(pc, scan).snap = r.snap
             /\ s(pc, scan).take = i /\ s(pc, scan).pc = pc
    BY <1>3 DEF RequestState, Steps
<1>b. \E pc \in {"rewrite", "promote", "mark"}, scan \in BOOLEAN : Move(c, s(pc, scan))
    BY <1>2, <1>3
<1> HIDE DEF s
<1>4. PICK s0 \in RequestState :
         /\ Move(c, s0) /\ s0.unit = r.unit /\ s0.snap = r.snap /\ s0.take = i
         /\ s0.pc \in {"rewrite", "promote", "mark"}
    BY <1>a, <1>b
<1> QED BY <1>1, <1>3, <1>4, ReadNext DEF UseDuplicate

(* An upload without a duplicate goes on to insert its take.               *)
LEMMA FindNothingKeeps ==
    ASSUME IInv, NEW c \in Clients, FindNothing(c)
    PROVE  IInv'
<1>1. PICK r \in RequestState : r = request[c]
    BY Served
<1>2. PICK s \in RequestState :
         Move(c, s) /\ s.unit = r.unit /\ s.snap = r.snap /\ s.pc = "insert"
    BY <1>1 DEF FindNothing, RequestState, Steps
<1> QED BY <1>1, <1>2, ReadNext DEF FindNothing, Holding

(* The row read back is that of the unit, or of one that is gone.          *)
LEMMA ReadBackKeeps ==
    ASSUME IInv, NEW c \in Clients, ReadBack(c)
    PROVE  IInv'
<1>1. PICK r \in RequestState : r = request[c]
    BY Served
<1>2. CASE Present(r.unit)
  <2>1. PICK s \in RequestState :
           /\ Move(c, s) /\ s.unit = r.unit /\ s.snap = r.snap /\ s.take = r.take
           /\ s.pc = "scan"
    BY <1>1, <1>2 DEF ReadBack, RequestState, Steps
  <2> QED BY <1>1, <2>1, ReadNext DEF ReadBack, Holding
<1>3. CASE ~Present(r.unit)
    BY <1>1, <1>3, ReadFinish DEF ReadBack, IInv, TypeOK
<1> QED BY <1>2, <1>3

(* A resolve begins with the recording it names.                           *)
LEMMA StartResolveKeeps ==
    ASSUME IInv, NEW c \in Clients, StartResolve(c)
    PROVE  IInv'
<1>1. PICK u \in Units :
         /\ Present(u)
         /\ Move(c, [IdleRequest EXCEPT !.pc = "lookup", !.unit = u, !.snap = recording[u]])
    BY DEF StartResolve
<1>2. PICK row \in RecordingRow : row = recording[u]
    BY DEF IInv, TypeOK
<1>3. PICK s \in RequestState :
         Move(c, s) /\ s.unit = u /\ s.snap = row /\ s.pc = "lookup"
  <2> DEFINE s == [IdleRequest EXCEPT !.pc = "lookup", !.unit = u, !.snap = row]
  <2>1. s \in RequestState /\ s.unit = u /\ s.snap = row /\ s.pc = "lookup"
    BY IdleType DEF RequestState, Steps
  <2>2. Move(c, s)
    BY <1>1, <1>2 DEF Move
  <2> QED BY <2>1, <2>2
<1>4. RequestInv(s)
    BY <1>1, <1>2, <1>3
       DEF RequestInv, IInv, RecordingIds, Holding, Present, RecordingRow
<1>5. RequestInv(s)'
    BY <1>4 DEF StartResolve, rows, RequestInv, Unchanged, Present
<1>6. started' \in 0 .. MaxRequests
    BY MaxRequestsAssumption DEF StartResolve, IInv, TypeOK
<1> QED BY <1>3, <1>5, <1>6, ReadStep DEF StartResolve

(* It goes on with a take of that recording.                               *)
LEMMA LookUpTakeKeeps ==
    ASSUME IInv, NEW c \in Clients, LookUpTake(c)
    PROVE  IInv'
<1>1. PICK r \in RequestState : r = request[c]
    BY Served
<1>2. CASE Finish(c)
    BY <1>2, ReadFinish DEF LookUpTake, IInv, TypeOK
<1>3. ASSUME NEW i \in TakesOf(r.snap.id),
             Move(c, [r EXCEPT !.pc = "resolve", !.take = i, !.shape = take[i].shape])
      PROVE  IInv'
  <2>1. i \in Nat
    BY DEF TakesOf, IInv, TypeOK
  <2>2. PICK shape \in Shape : shape = take[i].shape
    BY DEF TakesOf, IInv, TypeOK, TakeRow
  <2> DEFINE s == [r EXCEPT !.pc = "resolve", !.take = i, !.shape = shape]
  <2>3. /\ s \in RequestState /\ s.unit = r.unit /\ s.snap = r.snap /\ s.take = i
        /\ s.pc = "resolve"
    BY <2>1 DEF RequestState, Steps
  <2>4. Move(c, s)
    BY <1>3, <2>2 DEF Move
  <2> HIDE DEF s
  <2> QED BY <1>1, <2>3, <2>4, ReadNext DEF LookUpTake
<1> QED BY <1>1, <1>2, <1>3 DEF LookUpTake

(* A unit without a recording gets one, with its take.                     *)
LEMMA CreateRecordingKeeps ==
    ASSUME IInv, NEW c \in Clients, CreateRecording(c)
    PROVE  IInv'
<1>1. PICK r \in RequestState : r = request[c]
    BY Served
<1>2. PICK id \in Nat \ {0}, i \in Nat \ {0} : id = nextRecording /\ i = nextTake
    BY DEF IInv, TypeOK
<1> DEFINE row == [id |-> id, token |-> IF r.activate THEN 2 ELSE 1, status |-> "clean",
                   active |-> IF r.activate THEN i ELSE 0, shape |-> r.shape]
           s == [r EXCEPT !.pc = "scan", !.snap = row, !.take = i, !.scan = TRUE]
<1>3. /\ row \in RecordingRow /\ row.id = id /\ row.active \in {0, i}
      /\ row.token \in Nat
      /\ r.unit \in Units /\ r.hash \in Hashes /\ r.shape \in Shape
    BY <1>2 DEF RequestState, RecordingRow, Status
<1>4. /\ s \in RequestState /\ s.pc = "scan" /\ s.unit = r.unit /\ s.snap = row
      /\ s.take = i
    BY <1>2, <1>3 DEF RequestState, Steps
<1>5. /\ r.pc = "first" /\ ~Present(r.unit)
      /\ Store(id, r.hash, r.shape, i)
      /\ Update(r.unit, row)
      /\ nextRecording' = nextRecording + 1
      /\ Move(c, s) \/ Finish(c)
      /\ UNCHANGED <<agedTakes, sweep, started>> /\ Observe
    BY <1>1, <1>2 DEF CreateRecording
<1> HIDE DEF row, s
<1>6. /\ DatabaseStep /\ Tables' /\ TakeTable'
      /\ nextTake < nextTake' /\ take'[nextTake].rec = row.id
    BY <1>2, <1>3, <1>5, RecordingCreated DEF Update, IInv, Tables
<1>7. /\ recording' \in [Units -> RecordingRow] /\ nextRecording' \in Nat \ {0}
      /\ agedUnits' \subseteq Units
      /\ recording'[r.unit] = row
    BY <1>3, <1>5 DEF Update, IInv, TypeOK
<1>8. CASE Move(c, s)
  <2>1. RequestInv(s)'
    BY <1>2, <1>3, <1>4, <1>5, <1>6, <1>7
       DEF RequestInv, Unchanged, Present, Tables, RecordingIds, RecordingRow, Holding
  <2> QED BY <1>4, <1>5, <1>6, <1>7, <1>8, <2>1, ServeStep DEF IInv, TypeOK
<1>9. CASE Finish(c)
    BY <1>5, <1>6, <1>7, <1>9, ServeStep, IdleType, IdleInv DEF IInv, TypeOK, Finish
<1> QED BY <1>5, <1>8, <1>9

(* A take goes into a row the request has read; the request moves on.      *)
LEMMA StoreStep ==
    ASSUME IInv, NEW c \in Clients, NEW u \in Units, Present(u),
           NEW hash \in Hashes, NEW shape \in Shape, NEW i,
           Store(recording[u].id, hash, shape, i),
           UNCHANGED <<recording, nextRecording, agedUnits, agedTakes, sweep, started>>,
           Observe,
           NEW s \in RequestState, Move(c, s),
           \/ s.pc \in {"idle", "get"}
           \/ s.unit = u /\ s.snap = recording[u] /\ s.take = i
           \/ /\ s.unit = u /\ s.snap.id = recording[u].id /\ s.take = i
              /\ s.snap = request[c].snap /\ request[c].unit = u
              /\ request[c].pc \notin {"idle", "get", "first"}
    PROVE  IInv'
<1>1. /\ DatabaseStep /\ Tables' /\ TakeTable'
      /\ i \in Nat \ {0} /\ i < nextTake' /\ i \in DOMAIN take'
      /\ take'[i].rec = recording[u].id
    BY TakeStored DEF IInv, Tables
<1>2. CASE s.pc \in {"idle", "get"}
  <2>1. RequestInv(s)'
    BY <1>2 DEF RequestInv
  <2> QED BY <1>1, <2>1, ServeStep DEF IInv, TypeOK
<1>3. CASE s.unit = u /\ s.snap = recording[u] /\ s.take = i
  <2>1. RequestInv(s)'
    BY <1>1, <1>3
       DEF RequestInv, Unchanged, Present, IInv, RecordingIds, TypeOK, RecordingRow
  <2> QED BY <1>1, <2>1, ServeStep DEF IInv, TypeOK
<1>4. CASE /\ s.unit = u /\ s.snap.id = recording[u].id /\ s.take = i
           /\ s.snap = request[c].snap /\ request[c].unit = u
           /\ request[c].pc \notin {"idle", "get", "first"}
  <2>1. PICK r \in RequestState : r = request[c] /\ RequestInv(r)
    BY Served
  <2>2. RequestInv(s)'
    BY <1>1, <1>4, <2>1 DEF RequestInv, Unchanged, Present
  <2> QED BY <1>1, <2>2, ServeStep DEF IInv, TypeOK
<1> QED BY <1>2, <1>3, <1>4

(* One who finds the recording made meanwhile joins it.                    *)
LEMMA JoinRecordingKeeps ==
    ASSUME IInv, NEW c \in Clients, JoinRecording(c)
    PROVE  IInv'
<1>1. PICK r \in RequestState : r = request[c]
    BY Served
<1>2. PICK row \in RecordingRow : row = recording[r.unit]
    BY DEF IInv, TypeOK, RequestState
<1>3. PICK i \in TakesWithHash(row.id, r.hash) \cup {nextTake} :
         /\ Store(row.id, r.hash, r.shape, i)
         /\ \/ Finish(c)
            \/ Move(c, [r EXCEPT !.pc = "get"])
            \/ Move(c, [r EXCEPT !.pc = IF row.active = i THEN "scan" ELSE "mark",
                                 !.snap = row, !.take = i, !.scan = TRUE])
    BY <1>1, <1>2 DEF JoinRecording
<1>4. i \in Nat
    BY DEF TakesWithHash, TakesOf, IInv, TypeOK
<1>5. /\ r.unit \in Units /\ r.hash \in Hashes /\ r.shape \in Shape /\ Present(r.unit)
      /\ UNCHANGED <<recording, nextRecording, agedUnits, agedTakes, sweep, started>>
      /\ Observe
    BY <1>1 DEF RequestState, JoinRecording
<1>6. CASE Finish(c)
  <2>1. IdleRequest.pc = "idle"
    BY DEF IdleRequest
  <2> QED BY <1>2, <1>3, <1>5, <1>6, <2>1, StoreStep, IdleType DEF Finish
<1>7. CASE Move(c, [r EXCEPT !.pc = "get"])
  <2>1. [r EXCEPT !.pc = "get"] \in RequestState /\ [r EXCEPT !.pc = "get"].pc = "get"
    BY DEF RequestState, Steps
  <2> QED BY <1>2, <1>3, <1>5, <1>7, <2>1, StoreStep
<1>8. ASSUME NEW pc \in {"scan", "mark"},
             Move(c, [r EXCEPT !.pc = pc, !.snap = row, !.take = i, !.scan = TRUE])
      PROVE  IInv'
  <2> DEFINE s == [r EXCEPT !.pc = pc, !.snap = row, !.take = i, !.scan = TRUE]
  <2>1. s \in RequestState /\ s.unit = r.unit /\ s.snap = row /\ s.take = i
    BY <1>4 DEF RequestState, Steps
  <2> HIDE DEF s
  <2>2. Move(c, s)
    BY <1>8 DEF s
  <2> QED BY <1>2, <1>3, <1>5, <2>1, <2>2, StoreStep
<1> QED BY <1>3, <1>6, <1>7, <1>8

(* A take is inserted for a recording that is there, or not at all.        *)
LEMMA InsertTakeKeeps ==
    ASSUME IInv, NEW c \in Clients, InsertTake(c)
    PROVE  IInv'
<1>1. PICK r \in RequestState : r = request[c] /\ RequestInv(r)
    BY Served
<1>2. /\ r.pc = "insert" /\ r.unit \in Units /\ r.hash \in Hashes /\ r.shape \in Shape
      /\ UNCHANGED <<recording, nextRecording, agedUnits, agedTakes, sweep, started>>
      /\ Observe
    BY <1>1 DEF InsertTake, RequestState
<1>3. CASE Finish(c) /\ UNCHANGED <<take, nextTake>>
  <2>1. UNCHANGED <<rows, sweep>> /\ started' \in 0 .. MaxRequests
    BY <1>2, <1>3 DEF rows, IInv, TypeOK
  <2> QED BY <1>2, <1>3, <2>1, ReadFinish
<1>4. ASSUME recording[r.unit].id = r.snap.id,
             NEW i \in TakesWithHash(r.snap.id, r.hash) \cup {nextTake},
             Store(r.snap.id, r.hash, r.shape, i),
             IF r.activate
             THEN Move(c, [r EXCEPT !.pc = IF r.replacing THEN "replace" ELSE "flag",
                                    !.take = i, !.scan = TRUE])
             ELSE Finish(c)
      PROVE  IInv'
  <2>1. Present(r.unit)
    BY <1>1, <1>2, <1>4 DEF RequestInv, Present
  <2>2. i \in Nat
    BY DEF TakesWithHash, TakesOf, IInv, TypeOK
  <2>3. CASE Finish(c)
    <3>1. IdleRequest.pc = "idle"
      BY DEF IdleRequest
    <3> QED BY <1>2, <1>4, <2>1, <2>3, <3>1, StoreStep, IdleType DEF Finish
  <2>4. ASSUME NEW pc \in {"replace", "flag"},
               Move(c, [r EXCEPT !.pc = pc, !.take = i, !.scan = TRUE])
        PROVE  IInv'
    <3> PICK j \in Nat : j = i
      BY <2>2
    <3> DEFINE s == [r EXCEPT !.pc = pc, !.take = j, !.scan = TRUE]
    <3>1. s \in RequestState /\ s.unit = r.unit /\ s.snap = r.snap /\ s.take = i
      BY DEF RequestState, Steps
    <3>2. Move(c, s)
      BY <2>4
    <3> HIDE DEF s
    <3> QED BY <1>1, <1>2, <1>4, <2>1, <3>1, <3>2, StoreStep
  <2> QED BY <1>4, <2>3, <2>4
<1> QED BY <1>1, <1>3, <1>4 DEF InsertTake

(* The steps that keep a request on its row, or end it. *)
Follows(r, s) ==
    \/ s = IdleRequest
    \/ s.unit = r.unit /\ s.snap = r.snap /\ s.take = r.take /\ s.pc \in Holding

(* A step that follows from what a request holds keeps the invariant.      *)
LEMMA FollowInv ==
    ASSUME IInv, NEW c \in Clients, NEW r \in RequestState, r = request[c], r.pc \in Holding,
           NEW s \in RequestState, Follows(r, s), Move(c, s), Observe,
           DatabaseStep, Tables', TakeTable',
           recording' \in [Units -> RecordingRow], nextRecording' \in Nat \ {0},
           agedUnits' \subseteq Units, agedTakes' \subseteq Nat,
           UNCHANGED <<sweep, started>>
    PROVE  IInv'
<1>1. RequestInv(s)'
  <2>1. CASE s = IdleRequest
    BY <2>1, IdleInv
  <2>2. CASE s.unit = r.unit /\ s.snap = r.snap /\ s.take = r.take /\ s.pc \in Holding
    <3>1. RequestInv(r)
      BY DEF IInv
    <3>2. TypeOK'
      <4>1. request' \in [Clients -> RequestState]
        BY MoveType DEF IInv
      <4>2. surfaced' \subseteq Nat
        BY ObserveType DEF TakeTable
      <4> QED BY <4>1, <4>2 DEF IInv, TypeOK, TakeTable
    <3>3. RequestInv(r)'
      BY <3>1, <3>2, StepInv
    <3>4. r.pc \notin {"idle", "get", "first"}
      BY DEF Holding
    <3>5. s.pc \in Holding =>
             /\ s.take # 0 /\ s.take < nextTake'
             /\ s.take \in DOMAIN take' => take'[s.take].rec = s.snap.id
      BY <2>2, <3>3, <3>4 DEF RequestInv
    <3> QED BY <2>2, <3>3, <3>4, <3>5, NextStepInv
  <2> QED BY <2>1, <2>2 DEF Follows
<1> QED BY <1>1, ServeStep DEF IInv, TypeOK

(* The request that moves without writing. *)
LEMMA FollowRead ==
    ASSUME IInv, NEW c \in Clients, NEW r \in RequestState, r = request[c], r.pc \in Holding,
           NEW s \in RequestState, Follows(r, s), Move(c, s), Observe,
           UNCHANGED <<recording, agedUnits, take, nextRecording, nextTake, agedTakes,
                       sweep, started>>
    PROVE  IInv'
<1>1. DatabaseStep /\ Tables'
    BY NoWrite DEF IInv, Tables
<1>2. TakeTable'
    BY DEF IInv, TypeOK, TakeTable
<1> QED BY <1>1, <1>2, FollowInv DEF IInv, TypeOK

(* A request writes a version of its row, with its take active or with the *)
(* active take left alone; a take may be rewritten in place.               *)
LEMMA VersionStep ==
    ASSUME IInv, NEW c \in Clients, NEW r \in RequestState, r = request[c], r.pc \in Holding,
           Present(r.unit), recording[r.unit].id = r.snap.id,
           NEW row \in RecordingRow, Update(r.unit, row), row.id = r.snap.id,
           row.token = recording[r.unit].token + 1,
           \/ row.active = recording[r.unit].active
           \/ row.active \in DOMAIN take \cup {0} /\ row.active = r.take,
           DOMAIN take' = DOMAIN take, \A i \in DOMAIN take : take'[i].rec = take[i].rec,
           TakeTable',
           NEW s \in RequestState, Follows(r, s), Move(c, s), Observe,
           UNCHANGED <<nextRecording, nextTake, agedTakes, sweep, started>>
    PROVE  IInv'
<1>1. /\ recording' = [recording EXCEPT ![r.unit] = row]
      /\ agedUnits' \subseteq Units /\ r.unit \in Units
    BY DEF Update, IInv, TypeOK, RequestState
<1>2. RequestInv(r)
    BY DEF IInv
<1>3. row.active # 0 => row.active \in DOMAIN take' /\ take'[row.active].rec = row.id
  <2>1. CASE row.active = recording[r.unit].active
    BY <1>1, <2>1 DEF IInv, ActiveTakeBelongs
  <2>2. CASE row.active \in DOMAIN take \cup {0} /\ row.active = r.take
    BY <1>2, <2>2 DEF RequestInv, Holding
  <2> QED BY <2>1, <2>2
<1>4. DatabaseStep /\ Tables'
    BY <1>1, <1>3, RowWrite DEF IInv, Tables
<1>5. recording' \in [Units -> RecordingRow]
    BY <1>1 DEF IInv, TypeOK
<1> QED BY <1>1, <1>4, <1>5, FollowInv DEF IInv, TypeOK

(* The compare and set of a recording row keeps the invariant, whether it  *)
(* applies or not.                                                         *)
LEMMA SwapKeeps ==
    ASSUME IInv, NEW c \in Clients, NEW r \in RequestState, r = request[c], r.pc \in Holding,
           NEW row, NEW applied \in RequestState, NEW missed \in RequestState,
           Unchanged(r) => /\ row \in RecordingRow
                           /\ row.id = r.snap.id /\ row.token = r.snap.token + 1
                           /\ \/ row.active = recording[r.unit].active
                              \/ row.active = r.take,
           Swap(c, row, applied, missed), Follows(r, applied), Follows(r, missed),
           UNCHANGED <<take, nextRecording, nextTake, agedTakes, sweep, started>>, Observe
    PROVE  IInv'
<1>1. CASE /\ Unchanged(r) /\ row.active \in DOMAIN take \cup {0}
           /\ Update(r.unit, row) /\ Move(c, applied)
  <2>1. /\ Present(r.unit) /\ recording[r.unit].id = r.snap.id
        /\ row \in RecordingRow
        /\ row.id = r.snap.id /\ row.token = recording[r.unit].token + 1
        /\ \/ row.active = recording[r.unit].active
           \/ row.active = r.take
    BY <1>1 DEF Unchanged
  <2>2. TakeTable'
    BY DEF IInv, TypeOK, TakeTable
  <2> QED BY <1>1, <2>1, <2>2, VersionStep
<1>2. CASE Finish(c) /\ UNCHANGED <<recording, agedUnits>>
    BY <1>2, FollowRead, IdleType DEF Finish, Follows
<1>3. CASE Move(c, missed) /\ UNCHANGED <<recording, agedUnits>>
    BY <1>3, FollowRead
<1> QED BY <1>1, <1>2, <1>3 DEF Swap

(* A request that moves on holds what it has held.                         *)
LEMMA MovePc ==
    ASSUME NEW r \in RequestState, NEW pc \in Steps
    PROVE  /\ [r EXCEPT !.pc = pc] \in RequestState
           /\ pc \in Holding => Follows(r, [r EXCEPT !.pc = pc])
BY DEF RequestState, Follows

(* One that ends holds nothing.                                            *)
LEMMA IdleFollows == ASSUME NEW r PROVE Follows(r, IdleRequest)
BY DEF Follows

(* The fields of what a request holds are of their types.                  *)
LEMMA RowsOfRequest ==
    ASSUME IInv, NEW c \in Clients, NEW r \in RequestState, r = request[c]
    PROVE  /\ r.unit \in Units /\ r.take \in Nat /\ r.shape \in Shape
           /\ r.snap.token + 1 \in Nat /\ recording[r.unit] \in RecordingRow
           /\ recording[r.unit].token + 1 \in Nat
           /\ recording[r.unit].active \in Nat
           /\ recording[r.unit].shape \in Shape
           /\ recording[r.unit].status \in Status
BY DEF IInv, TypeOK, RequestState, RecordingRow

(* The compare and set of the active take keeps the invariant.             *)
LEMMA ReplaceActiveKeeps ==
    ASSUME IInv, NEW c \in Clients, ReplaceActive(c)
    PROVE  IInv'
<1>1. PICK r \in RequestState : r = request[c]
    BY Served
<1>2. PICK row : row = [recording[r.unit] EXCEPT !.token = r.snap.token + 1, !.active = r.take,
                                                 !.shape = r.shape]
    OBVIOUS
<1>3. /\ row \in RecordingRow /\ row.token = r.snap.token + 1 /\ row.active = r.take
      /\ row.id = recording[r.unit].id
    BY <1>1, <1>2, RowsOfRequest DEF RecordingRow
<1>4. /\ [r EXCEPT !.pc = "readback"] \in RequestState
      /\ [r EXCEPT !.pc = "mark"] \in RequestState
      /\ Follows(r, [r EXCEPT !.pc = "readback"]) /\ Follows(r, [r EXCEPT !.pc = "mark"])
    BY MovePc DEF Steps, Holding
<1>5. r.pc \in Holding
    BY <1>1 DEF ReplaceActive, Holding
<1>6. Swap(c, row, [r EXCEPT !.pc = "readback"], [r EXCEPT !.pc = "mark"])
    BY <1>1, <1>2 DEF ReplaceActive
<1> QED BY <1>1, <1>3, <1>4, <1>5, <1>6, SwapKeeps DEF ReplaceActive, Unchanged

(* An upload on a stale base flags a conflict.                             *)
LEMMA FlagStaleBaseKeeps ==
    ASSUME IInv, NEW c \in Clients, FlagStaleBase(c)
    PROVE  IInv'
<1>1. PICK r \in RequestState : r = request[c]
    BY Served
<1>2. PICK row : row = [recording[r.unit] EXCEPT !.token = r.snap.token + 1,
                                                 !.status = "conflict"]
    OBVIOUS
<1>3. /\ row \in RecordingRow /\ row.token = r.snap.token + 1
      /\ row.active = recording[r.unit].active
      /\ row.id = recording[r.unit].id
    BY <1>1, <1>2, RowsOfRequest DEF RecordingRow, Status
<1>4. /\ [r EXCEPT !.pc = "readback"] \in RequestState
      /\ [r EXCEPT !.pc = "mark"] \in RequestState
      /\ Follows(r, [r EXCEPT !.pc = "readback"]) /\ Follows(r, [r EXCEPT !.pc = "mark"])
    BY MovePc DEF Steps, Holding
<1>5. r.pc \in Holding
    BY <1>1 DEF FlagStaleBase, Holding
<1>6. Swap(c, row, [r EXCEPT !.pc = "readback"], [r EXCEPT !.pc = "mark"])
    BY <1>1, <1>2 DEF FlagStaleBase
<1> QED BY <1>1, <1>3, <1>4, <1>5, <1>6, SwapKeeps DEF FlagStaleBase, Unchanged

(* So does the promotion of a duplicate,                                   *)
LEMMA PromoteDuplicateKeeps ==
    ASSUME IInv, NEW c \in Clients, PromoteDuplicate(c)
    PROVE  IInv'
<1>1. PICK r \in RequestState : r = request[c]
    BY Served
<1>2. PICK row : row = [recording[r.unit] EXCEPT !.token = r.snap.token + 1, !.active = r.take,
                                                 !.shape = r.shape]
    OBVIOUS
<1>3. /\ row \in RecordingRow /\ row.token = r.snap.token + 1 /\ row.active = r.take
      /\ row.id = recording[r.unit].id
    BY <1>1, <1>2, RowsOfRequest DEF RecordingRow
<1> DEFINE s == IF r.scan THEN [r EXCEPT !.pc = "readback"] ELSE IdleRequest
<1>4. /\ s \in RequestState /\ Follows(r, s)
      /\ IdleRequest \in RequestState /\ Follows(r, IdleRequest)
    BY MovePc, IdleType, IdleFollows DEF Steps, Holding
<1>5. r.pc \in Holding
    BY <1>1 DEF PromoteDuplicate, Holding
<1>6. Swap(c, row, s, IdleRequest)
    BY <1>1, <1>2 DEF PromoteDuplicate
<1> QED BY <1>1, <1>3, <1>4, <1>5, <1>6, SwapKeeps DEF PromoteDuplicate, Unchanged

(* the take that resolves a conflict,                                      *)
LEMMA ResolveConflictKeeps ==
    ASSUME IInv, NEW c \in Clients, ResolveConflict(c)
    PROVE  IInv'
<1>1. PICK r \in RequestState : r = request[c]
    BY Served
<1>2. PICK row : row = [recording[r.unit] EXCEPT !.token = r.snap.token + 1, !.active = r.take,
                                                 !.shape = r.shape, !.status = "resolved"]
    OBVIOUS
<1>3. /\ row \in RecordingRow /\ row.token = r.snap.token + 1 /\ row.active = r.take
      /\ row.id = recording[r.unit].id
    BY <1>1, <1>2, RowsOfRequest DEF RecordingRow, Status
<1>5. r.pc \in Holding
    BY <1>1 DEF ResolveConflict, Holding
<1>6. Swap(c, row, IdleRequest, IdleRequest)
    BY <1>1, <1>2 DEF ResolveConflict
<1> QED BY <1>1, <1>3, <1>5, <1>6, SwapKeeps, IdleType, IdleFollows
        DEF ResolveConflict, Unchanged

(* the coverage rewritten for the active take,                             *)
LEMMA RewriteCoverageKeeps ==
    ASSUME IInv, NEW c \in Clients, RewriteCoverage(c)
    PROVE  IInv'
<1>1. PICK r \in RequestState : r = request[c]
    BY Served
<1>2. r.pc \in Holding /\ r.unit \in Units /\ r.take \in Nat /\ r.shape \in Shape
    BY <1>1 DEF RewriteCoverage, Holding, RequestState
<1>3. CASE Finish(c) /\ UNCHANGED <<take, recording, agedUnits>>
    BY <1>1, <1>2, <1>3, FollowRead, IdleType, IdleFollows DEF Finish, RewriteCoverage
<1>4. CASE /\ r.take \in DOMAIN take /\ Unchanged(r)
           /\ take' = [take EXCEPT ![r.take].shape = r.shape]
           /\ Update(r.unit, [recording[r.unit] EXCEPT
                                !.token = r.snap.token + 1, !.shape = r.shape,
                                !.active = IF r.take = r.snap.active THEN @ ELSE r.take])
           /\ IF r.scan THEN Move(c, [r EXCEPT !.pc = "scan"]) ELSE Finish(c)
  <2>1. PICK row : row = [recording[r.unit] EXCEPT
                            !.token = r.snap.token + 1, !.shape = r.shape,
                            !.active = IF r.take = r.snap.active THEN @ ELSE r.take]
    OBVIOUS
  <2>2. /\ row \in RecordingRow /\ row.token = recording[r.unit].token + 1
        /\ row.id = r.snap.id /\ recording[r.unit].id = r.snap.id /\ Present(r.unit)
        /\ row.active = recording[r.unit].active \/ row.active = r.take
    <3>1. PICK old \in RecordingRow : old = recording[r.unit]
        BY <1>1, RowsOfRequest
    <3>2. row = [old EXCEPT !.token = old.token + 1, !.shape = r.shape,
                            !.active = IF r.take = r.snap.active THEN old.active ELSE r.take]
        BY <1>4, <2>1, <3>1 DEF Unchanged
    <3>3. r.take \in Nat /\ r.shape \in Shape /\ old.token + 1 \in Nat /\ old.active \in Nat
        BY <1>1, <3>1, RowsOfRequest
    <3>4. row \in RecordingRow
        BY <3>2, <3>3 DEF RecordingRow
    <3>5. row.token = old.token + 1 /\ row.id = old.id /\ row.active \in {old.active, r.take}
        BY <3>2, <3>3 DEF RecordingRow
    <3> QED BY <1>4, <3>1, <3>4, <3>5 DEF Unchanged
  <2>3. /\ DOMAIN take' = DOMAIN take
        /\ \A i \in DOMAIN take : take'[i] \in TakeRow /\ take'[i].rec = take[i].rec
    BY <1>2, <1>4 DEF IInv, TypeOK, TakeRow
  <2>4. TakeTable'
    BY <2>3 DEF TakeTable, RewriteCoverage, IInv, TypeOK
  <2>5. PICK s \in RequestState : Move(c, s) /\ Follows(r, s)
    BY <1>4, MovePc, IdleType, IdleFollows DEF Finish, Steps, Holding
  <2>6. Update(r.unit, row)
    BY <1>4, <2>1
  <2> QED BY <1>1, <1>2, <1>4, <2>2, <2>3, <2>4, <2>5, <2>6, VersionStep DEF RewriteCoverage
<1> QED BY <1>1, <1>3, <1>4 DEF RewriteCoverage

(* the conflict flagged for a take that lost,                              *)
LEMMA MarkConflictKeeps ==
    ASSUME IInv, NEW c \in Clients, MarkConflict(c)
    PROVE  IInv'
<1>1. PICK r \in RequestState : r = request[c]
    BY Served
<1>2. r.pc \in Holding /\ r.unit \in Units
    BY <1>1 DEF MarkConflict, Holding, RequestState
<1>3. PICK s \in RequestState : Move(c, s) /\ Follows(r, s)
    BY <1>1, MovePc, IdleType, IdleFollows DEF MarkConflict, Finish, Steps, Holding
<1>4. CASE UNCHANGED <<recording, agedUnits>>
    BY <1>1, <1>2, <1>3, <1>4, FollowRead DEF MarkConflict
<1>5. CASE /\ Present(r.unit) /\ recording[r.unit].id = r.snap.id
           /\ Update(r.unit, [recording[r.unit] EXCEPT !.status = "conflict", !.token = @ + 1])
  <2>1. PICK row : row = [recording[r.unit] EXCEPT !.status = "conflict", !.token = @ + 1]
    OBVIOUS
  <2>2. /\ row \in RecordingRow /\ row.token = recording[r.unit].token + 1
        /\ row.id = r.snap.id /\ row.active = recording[r.unit].active
    <3>1. PICK old \in RecordingRow : old = recording[r.unit]
        BY <1>1, RowsOfRequest
    <3>2. row = [old EXCEPT !.status = "conflict", !.token = old.token + 1] /\ old.token + 1 \in Nat
        BY <1>1, <2>1, <3>1, RowsOfRequest
    <3>3. row \in RecordingRow /\ row.token = old.token + 1 /\ row.id = old.id
          /\ row.active = old.active
        BY <3>2 DEF RecordingRow, Status
    <3> QED BY <1>5, <3>1, <3>3
  <2>3. TakeTable' /\ UNCHANGED take
    BY DEF MarkConflict, IInv, TypeOK, TakeTable
  <2> QED BY <1>1, <1>2, <1>3, <1>5, <2>1, <2>2, <2>3, VersionStep DEF MarkConflict
<1> QED BY <1>1, <1>4, <1>5 DEF MarkConflict

(* and the overlaps flagged on other units.                                *)
LEMMA ScanOverlapsKeeps ==
    ASSUME IInv, NEW c \in Clients, ScanOverlaps(c)
    PROVE  IInv'
<1>1. PICK r \in RequestState : r = request[c]
    BY Served
<1>2. PICK marked : marked = ToMark(r.unit, r.shape)
    OBVIOUS
<1>3. \A v \in marked : recording[v].status # "resolved"
    BY <1>2 DEF ToMark
<1>4. recording' = [v \in Units |->
                      IF v \in marked THEN [recording[v] EXCEPT !.status = "conflict"]
                      ELSE recording[v]]
    BY <1>1, <1>2 DEF ScanOverlaps
<1>5. /\ DatabaseStep /\ Tables' /\ recording' \in [Units -> RecordingRow]
    BY <1>3, <1>4, StatusesMarked DEF ScanOverlaps, IInv, Tables
<1>6. /\ TakeTable' /\ nextRecording' \in Nat \ {0} /\ agedUnits' \subseteq Units
      /\ agedTakes' \subseteq Nat /\ UNCHANGED sweep /\ started' \in 0 .. MaxRequests
      /\ Observe /\ Move(c, IdleRequest)
    BY DEF ScanOverlaps, IInv, TypeOK, TakeTable, Finish
<1> QED BY <1>5, <1>6, ServeStep, IdleType, IdleInv

-----------------------------------------------------------------------------
(* Deletions and the retention sweep *)

(* Deleting takes leaves the others as they are.                           *)
LEMMA DroppedType ==
    ASSUME TypeOK, NEW gone, Drop(gone), UNCHANGED nextTake
    PROVE  /\ TakeTable' /\ agedTakes' \subseteq Nat
           /\ DOMAIN take' = DOMAIN take \ gone
           /\ \A i \in DOMAIN take' : take'[i] = take[i]
BY DEF TypeOK, Drop, TakeTable

(* Deleting the active take promotes one that remains of the same          *)
(* recording.                                                              *)
LEMMA DeleteTakeKeeps ==
    ASSUME IInv, NEW c \in Clients, DeleteTake(c)
    PROVE  IInv'
<1>0. PICK u \in Units :
         /\ Present(u)
         /\ \E i \in TakesOf(recording[u].id) :
               /\ Drop({i})
               /\ \/ /\ recording[u].active # i
                     /\ UNCHANGED <<recording, agedUnits>>
                  \/ /\ recording[u].active = i
                     /\ \E promoted \in newestTake(TakesOf(recording[u].id) \ {i}) :
                           Update(u, [recording[u] EXCEPT
                               !.token = @ + 1, !.active = promoted,
                               !.shape = IF promoted \in DOMAIN take THEN take[promoted].shape ELSE @])
    BY DEF DeleteTake
<1>1. PICK i \in TakesOf(recording[u].id) :
         /\ Present(u) /\ Drop({i})
         /\ \/ /\ recording[u].active # i
               /\ UNCHANGED <<recording, agedUnits>>
            \/ /\ recording[u].active = i
               /\ \E promoted \in newestTake(TakesOf(recording[u].id) \ {i}) :
                     Update(u, [recording[u] EXCEPT
                         !.token = @ + 1, !.active = promoted,
                         !.shape = IF promoted \in DOMAIN take THEN take[promoted].shape ELSE @])
    BY <1>0
<1>2. /\ TakeTable' /\ agedTakes' \subseteq Nat
      /\ DOMAIN take' = DOMAIN take \ {i}
      /\ \A j \in DOMAIN take' : take'[j] = take[j]
    BY <1>1, DroppedType DEF IInv, DeleteTake
<1>3. /\ nextRecording' \in Nat \ {0} /\ sweep' \subseteq Nat
      /\ started' \in 0 .. MaxRequests /\ Observe /\ UNCHANGED request
  <2>1. /\ UNCHANGED <<nextRecording, request, sweep>> /\ Observe
        /\ started < MaxRequests /\ started' = started + 1
    BY DEF DeleteTake
  <2> QED BY <2>1, MaxRequestsAssumption DEF IInv, TypeOK
<1>4. i \in DOMAIN take /\ take[i].rec = recording[u].id
    BY DEF TakesOf
<1>5. CASE recording[u].active # i /\ UNCHANGED <<recording, agedUnits>>
  <2>1. \A v \in Units : recording[v].active \notin {i} \ {0}
    BY <1>1, <1>4, <1>5 DEF IInv, ActiveTakeBelongs, RecordingIds, Present
  <2>2. DatabaseStep /\ Tables'
    BY <1>1, <1>5, <2>1, TakesDropped DEF IInv, Tables, Drop, DeleteTake
  <2> QED BY <1>2, <1>3, <1>5, <2>2, RestStep DEF IInv, TypeOK
<1>6. ASSUME recording[u].active = i,
             NEW promoted \in newestTake(TakesOf(recording[u].id) \ {i}),
             Update(u, [recording[u] EXCEPT
                 !.token = @ + 1, !.active = promoted,
                 !.shape = IF promoted \in DOMAIN take THEN take[promoted].shape ELSE @])
      PROVE  IInv'
  <2>1. \/ promoted = 0
        \/ /\ promoted \in DOMAIN take /\ promoted # i
           /\ take[promoted].rec = recording[u].id
           /\ take[promoted].shape \in Shape /\ promoted \in Nat
    BY DEF newestTake, TakesOf, IInv, TypeOK, TakeRow
  <2>2. PICK row : row = [recording[u] EXCEPT
                             !.token = @ + 1, !.active = promoted,
                             !.shape = IF promoted \in DOMAIN take THEN take[promoted].shape ELSE @]
    OBVIOUS
  <2>3. /\ row \in RecordingRow /\ row.token = recording[u].token + 1
        /\ row.id = recording[u].id /\ row.active = promoted
    <3>1. PICK old \in RecordingRow : old = recording[u]
      BY DEF IInv, TypeOK
    <3>2. promoted \in Nat /\ old.token + 1 \in Nat
      BY <2>1 DEF RecordingRow
    <3>3. PICK shape \in Shape :
             shape = IF promoted \in DOMAIN take THEN take[promoted].shape ELSE old.shape
      BY DEF IInv, TypeOK, TakeRow, RecordingRow
    <3>4. row = [old EXCEPT !.token = old.token + 1, !.active = promoted, !.shape = shape]
      BY <2>2, <3>1, <3>3
    <3> QED BY <3>1, <3>2, <3>4 DEF RecordingRow
  <2>4. row.active # 0 => row.active \in DOMAIN take' /\ take'[row.active].rec = row.id
    BY <1>2, <2>1, <2>3
  <2>5. /\ recording' = [recording EXCEPT ![u] = row] /\ agedUnits' \subseteq Units
        /\ recording' \in [Units -> RecordingRow]
    BY <1>6, <2>2, <2>3 DEF Update, IInv, TypeOK
  <2>6. DatabaseStep /\ Tables'
    <3>1. \A j \in DOMAIN take \ DOMAIN take' : take[j].rec = row.id
      BY <1>2, <1>4, <2>3
    <3> QED BY <1>1, <1>2, <2>3, <2>4, <2>5, <3>1, RowWrite DEF IInv, Tables, DeleteTake
  <2> QED BY <1>2, <1>3, <2>5, <2>6, RestStep
<1> QED BY <1>1, <1>5, <1>6

(* A recording goes with all its takes.                                    *)
LEMMA DeleteRecordingKeeps ==
    ASSUME IInv, NEW c \in Clients, DeleteRecording(c)
    PROVE  IInv'
<1>1. PICK u \in Units :
         Present(u) /\ Drop(TakesOf(recording[u].id)) /\ Update(u, NoRecording)
    BY DEF DeleteRecording
<1>2. /\ TakeTable' /\ agedTakes' \subseteq Nat
    BY <1>1, DroppedType DEF IInv, DeleteRecording
<1>3. DatabaseStep /\ Tables'
    BY <1>1, RecordingRemoved DEF IInv, Tables, Drop, Update, DeleteRecording
<1>4. NoRecording \in RecordingRow
    BY IdleType DEF RequestState, IdleRequest
<1>5. /\ recording' \in [Units -> RecordingRow] /\ agedUnits' \subseteq Units
      /\ nextRecording' \in Nat \ {0} /\ sweep' \subseteq Nat
      /\ started' \in 0 .. MaxRequests /\ Observe /\ UNCHANGED request
    BY <1>1, <1>4, MaxRequestsAssumption DEF DeleteRecording, Update, IInv, TypeOK
<1> QED BY <1>2, <1>3, <1>5, RestStep

(* What the sweep finds superseded under the lock is no unit's active take. *)
LEMMA SupersededInactive ==
    ASSUME IInv, NEW i \in DOMAIN take, Superseded(i), NEW u \in Units
    PROVE  recording[u].active # i
<1>1. PICK v \in Units :
         /\ Present(v) /\ recording[v].id = take[i].rec /\ recording[v].active # i
    BY DEF Superseded, IInv, TypeOK
<1> QED BY <1>1 DEF IInv, ActiveTakeBelongs, RecordingIds, Present, TypeOK

(* The sweep writes no recording.                                          *)
LEMMA PruneLeavesRecordings ==
    ASSUME IInv, PruneTakes
    PROVE  UNCHANGED recording
<1> DEFINE gone == {i \in sweep \cap DOMAIN take : Superseded(i)}
<1>1. \A u \in Units : recording[u].active \notin gone
    BY SupersededInactive
<1>2. recording' = [u \in Units |-> WithoutActive(recording[u], gone)]
    BY DEF PruneTakes
<1> HIDE DEF gone
<1>3. recording' = [u \in Units |-> recording[u]]
    BY <1>1, <1>2 DEF WithoutActive
<1> QED BY <1>3 DEF IInv, TypeOK

(* The sweep deletes only takes that are still superseded.                 *)
LEMMA PruneTakesKeeps ==
    ASSUME IInv, PruneTakes
    PROVE  IInv'
<1>1. PICK gone : gone = {i \in sweep \cap DOMAIN take : Superseded(i)}
    OBVIOUS
<1>2. Drop(gone) /\ UNCHANGED <<recording, nextRecording, nextTake, agedUnits, request, started>>
    BY <1>1, PruneLeavesRecordings DEF PruneTakes
<1>3. \A u \in Units : recording[u].active \notin gone \ {0}
    BY <1>1, SupersededInactive
<1>4. DatabaseStep /\ Tables'
    BY <1>2, <1>3, TakesDropped DEF IInv, Tables, Drop
<1>5. TakeTable' /\ agedTakes' \subseteq Nat
    BY <1>2, DroppedType DEF IInv
<1> QED BY <1>2, <1>4, <1>5, RestStep DEF IInv, TypeOK, PruneTakes

(* The sweep lists takes that are stored.                                  *)
LEMMA ListSupersededKeeps ==
    ASSUME IInv, ListSuperseded
    PROVE  IInv'
<1>1. /\ UNCHANGED <<recording, take, nextRecording, nextTake, agedUnits, agedTakes>>
      /\ sweep' \subseteq Nat
    BY DEF ListSuperseded, rows, IInv, TypeOK
<1>2. DatabaseStep /\ Tables' /\ TakeTable'
    BY <1>1, NoWrite DEF IInv, Tables, TypeOK, TakeTable
<1> QED BY <1>1, <1>2, RestStep DEF ListSuperseded, IInv, TypeOK

(* What grows old is still what it was.                                    *)
LEMMA TimePassesKeeps ==
    ASSUME IInv, TimePasses
    PROVE  IInv'
<1>1. /\ UNCHANGED <<recording, take, nextRecording, nextTake, sweep, request, started>>
      /\ agedTakes' \subseteq Nat /\ agedUnits' \subseteq Units
    BY DEF TimePasses, IInv, TypeOK
<1>2. DatabaseStep /\ Tables' /\ TakeTable'
    BY <1>1, NoWrite DEF IInv, Tables, TypeOK, TakeTable
<1> QED BY <1>1, <1>2, RestStep DEF TimePasses, IInv, TypeOK

(* A request that fails writes nothing more.                               *)
LEMMA AbortKeeps ==
    ASSUME IInv, NEW c \in Clients, Abort(c)
    PROVE  IInv'
BY ReadFinish DEF Abort, IInv, TypeOK

-----------------------------------------------------------------------------
(* The theorems *)

(* The tables are empty at the start.                                      *)
LEMMA InitIInv == Init => IInv
<1> SUFFICES ASSUME Init PROVE IInv
    OBVIOUS
<1>1. NoRecording \in RecordingRow
    BY IdleType DEF RequestState, IdleRequest
<1>2. DOMAIN take = {}
    BY DEF Init
<1>3. TypeOK
    BY <1>1, <1>2, IdleType, MaxRequestsAssumption DEF Init, TypeOK
<1>4. RecordingIds /\ TakeIds /\ ActiveTakeBelongs
    BY <1>2 DEF Init, RecordingIds, TakeIds, ActiveTakeBelongs, Present, NoRecording
<1>5. \A c \in Clients : RequestInv(request[c])
    BY DEF Init, RequestInv, IdleRequest
<1> QED BY <1>3, <1>4, <1>5 DEF IInv

(* Every step of a request keeps the invariant.                            *)
LEMMA ProceedIInv ==
    ASSUME IInv, NEW c \in Clients, Proceed(c)
    PROVE  IInv'
BY UploadAgainKeeps, CreateRecordingKeeps, JoinRecordingKeeps, AnswerDuplicateKeeps,
   UseDuplicateKeeps, FindNothingKeeps, InsertTakeKeeps, ReplaceActiveKeeps,
   FlagStaleBaseKeeps, PromoteDuplicateKeeps, RewriteCoverageKeeps, MarkConflictKeeps,
   ReadBackKeeps, ScanOverlapsKeeps, LookUpTakeKeeps, ResolveConflictKeeps DEF Proceed

(* Every step does.                                                        *)
LEMMA NextIInv == IInv /\ [Next]_vars => IInv'
<1> SUFFICES ASSUME IInv, [Next]_vars PROVE IInv'
    OBVIOUS
<1>1. CASE UNCHANGED vars
  <2>1. /\ UNCHANGED <<recording, take, nextRecording, nextTake, request, started,
                       agedUnits, agedTakes, sweep, surfaced>>
    BY <1>1 DEF vars
  <2>2. TypeOK' /\ Tables'
    BY <2>1 DEF IInv, Tables, TypeOK, RecordingIds, TakeIds, ActiveTakeBelongs, Present
  <2>3. \A c \in Clients : RequestInv(request[c])'
    BY <2>1 DEF IInv, RequestInv, Unchanged, Present
  <2> QED BY <2>2, <2>3 DEF IInv, Tables
<1>2. ASSUME NEW c \in Clients,
             \/ StartUpload(c) \/ StartResolve(c) \/ DeleteTake(c) \/ DeleteRecording(c)
             \/ Proceed(c) \/ Abort(c)
      PROVE  IInv'
    BY <1>2, StartUploadKeeps, StartResolveKeeps, DeleteTakeKeeps, DeleteRecordingKeeps,
       ProceedIInv, AbortKeeps
<1>3. CASE ListSuperseded \/ PruneTakes \/ TimePasses
    BY <1>3, ListSupersededKeeps, PruneTakesKeeps, TimePassesKeeps
<1> QED BY <1>1, <1>2, <1>3 DEF Next

(* The invariant the theorems of this module rest on.                      *)
LEMMA SpecIInv == Spec => []IInv
BY InitIInv, NextIInv, PTL DEF Spec

(* Every variable keeps its type, whatever the interleaving. *)
THEOREM TypeCorrect == Spec => []TypeOK
<1>1. IInv => TypeOK
    BY DEF IInv
<1> QED BY <1>1, SpecIInv, PTL

(* A recording's active take exists and is a take of that very recording:  *)
(* the lookups of uploads and resolves stay valid until they are written.  *)
THEOREM ActiveTakesBelong == Spec => []ActiveTakeBelongs
<1>1. IInv => ActiveTakeBelongs
    BY DEF IInv
<1> QED BY <1>1, SpecIInv, PTL

(* The compare-and-swap on versionToken protects the whole selection: a    *)
(* request whose token still matches sees the row it read.                 *)
THEOREM SnapshotsCohere == Spec => []SnapshotCoherent
<1>1. IInv => SnapshotCoherent
    BY DEF IInv, SnapshotCoherent, RequestInv
<1> QED BY <1>1, SpecIInv, PTL

(* The retention sweep leaves every recording as it is, also when a take   *)
(* it has listed is promoted before it deletes.                            *)
THEOREM SweepSafe == Spec => SweepKeepsActive
<1>1. IInv /\ [Next]_vars => [PruneTakes => UNCHANGED recording]_vars
    BY PruneLeavesRecordings
<1> QED BY <1>1, SpecIInv, PTL DEF Spec, SweepKeepsActive

-----------------------------------------------------------------------------
(* Every step of VerseAudio is a step of the contract, or invisible to it. *)

(* The view of a unit changes with its row, and no other one does.         *)
LEMMA ViewUpdate ==
    ASSUME TypeOK, NEW u \in Units, NEW row \in RecordingRow,
           recording' = [recording EXCEPT ![u] = row]
    PROVE  UnitView' = [UnitView EXCEPT ![u] =
                          [id |-> row.id, token |-> row.token,
                           status |-> row.status, active |-> row.active]]
<1>1. \A v \in Units : recording'[v] = IF v = u THEN row ELSE recording[v]
    BY DEF TypeOK
<1> QED BY <1>1 DEF UnitView

(* The fields of the view are those of the row.                            *)
LEMMA ViewRow ==
    ASSUME NEW u \in Units
    PROVE  /\ UnitView[u].id = recording[u].id
           /\ UnitView[u].token = recording[u].token
           /\ UnitView[u].status = recording[u].status
           /\ UnitView[u].active = recording[u].active
BY DEF UnitView

(* A row written under its version token advances the unit of the          *)
(* contract.                                                               *)
LEMMA VersionView ==
    ASSUME TypeOK, NEW u \in Units, Present(u), NEW row \in RecordingRow,
           recording' = [recording EXCEPT ![u] = row], UNCHANGED nextRecording,
           row.id = recording[u].id, row.token = recording[u].token + 1
    PROVE  Contract!Advance(u, row.status, row.active) /\ UnitView'[u].active = row.active
<1>1. UnitView' = [UnitView EXCEPT ![u] =
                     [id |-> UnitView[u].id, token |-> UnitView[u].token + 1,
                      status |-> row.status, active |-> row.active]]
  <2>1. row.id = UnitView[u].id /\ row.token = UnitView[u].token + 1
    BY ViewRow
  <2> QED BY <2>1, ViewUpdate
<1>2. UnitView[u].id # 0
    BY ViewRow DEF Present
<1>3. UnitView'[u].active = row.active
    BY <1>1 DEF UnitView
<1> QED BY <1>1, <1>2, <1>3 DEF Contract!Advance, Contract!Present, Contract!Set

(* A version that leaves the status alone selects; one that opens a        *)
(* conflict contests; one that ends it resolves.                           *)
LEMMA VersionContract ==
    ASSUME TypeOK, NEW u \in Units, Present(u), NEW row \in RecordingRow,
           recording' = [recording EXCEPT ![u] = row], UNCHANGED nextRecording,
           row.id = recording[u].id, row.token = recording[u].token + 1,
           \/ row.status = recording[u].status
           \/ row.status = "conflict" /\ row.active = recording[u].active
           \/ /\ row.status = "resolved" /\ recording[u].status = "conflict"
              /\ row.active # 0
    PROVE  Contract!Next
<1>1. Contract!Advance(u, row.status, row.active) /\ UnitView'[u].active = row.active
    BY VersionView
<1>2. /\ UnitView[u].status = recording[u].status
      /\ UnitView[u].active = recording[u].active
    BY ViewRow
<1>3. CASE row.status = recording[u].status
    BY <1>1, <1>2, <1>3 DEF Contract!Next, Contract!Select
<1>4. CASE row.status = "conflict" /\ row.active = recording[u].active
    BY <1>1, <1>2, <1>4 DEF Contract!Next, Contract!Contest
<1>5. CASE /\ row.status = "resolved" /\ recording[u].status = "conflict"
           /\ row.active # 0
    BY <1>1, <1>2, <1>5 DEF Contract!Next, Contract!Resolve
<1> QED BY <1>3, <1>4, <1>5

ContractStep == Contract!Next \/ UNCHANGED <<UnitView, nextRecording>>

(* A step that writes no recording is a stutter of the contract.           *)
LEMMA RowsKept ==
    ASSUME UNCHANGED <<recording, nextRecording>>
    PROVE  ContractStep
BY DEF ContractStep, UnitView

(* A compare and set is a step of the contract, whether it applies or not. *)
LEMMA SwapContract ==
    ASSUME IInv, NEW c \in Clients, NEW r \in RequestState,
           NEW row, NEW applied, NEW missed, UNCHANGED nextRecording,
           Unchanged(r) =>
              /\ row \in RecordingRow
              /\ row.id = recording[r.unit].id /\ row.token = recording[r.unit].token + 1
              /\ \/ row.status = recording[r.unit].status
                 \/ row.status = "conflict" /\ row.active = recording[r.unit].active
                 \/ /\ row.status = "resolved" /\ recording[r.unit].status = "conflict"
                    /\ row.active # 0,
           r = request[c], Swap(c, row, applied, missed)
    PROVE  ContractStep
<1>1. CASE Unchanged(r) /\ Update(r.unit, row)
  <2>1. /\ r.unit \in Units /\ Present(r.unit)
        /\ recording' = [recording EXCEPT ![r.unit] = row]
    BY <1>1 DEF Update, Unchanged, RequestState
  <2> QED BY <1>1, <2>1, VersionContract DEF IInv, ContractStep
<1>2. CASE UNCHANGED recording
    BY <1>2, RowsKept
<1> QED BY <1>1, <1>2 DEF Swap

(* A resolve is only ever under way on a unit it has seen in conflict.     *)
ResolvesConflict ==
    \A c \in Clients :
        request[c].pc \in {"lookup", "resolve"} => request[c].snap.status = "conflict"

(* So is the creation of a recording,                                      *)
LEMMA CreateRecordingContract ==
    ASSUME IInv, NEW c \in Clients, CreateRecording(c)
    PROVE  ContractStep
<1>1. PICK r \in RequestState : r = request[c]
    BY Served
<1>2. PICK row : row = [id |-> nextRecording, token |-> IF r.activate THEN 2 ELSE 1,
                        status |-> "clean", active |-> IF r.activate THEN nextTake ELSE 0,
                        shape |-> r.shape]
    OBVIOUS
<1>3. /\ row \in RecordingRow /\ row.id = nextRecording /\ row.token \in {1, 2}
      /\ row.status = "clean"
    BY <1>1, <1>2, RowsOfRequest DEF RecordingRow, Status, IInv, TypeOK
<1>4. /\ r.unit \in Units /\ ~Present(r.unit)
      /\ recording' = [recording EXCEPT ![r.unit] = row]
      /\ nextRecording' = nextRecording + 1
    BY <1>1, <1>2 DEF CreateRecording, Update, RequestState
<1>5. UnitView' = [UnitView EXCEPT ![r.unit] =
                     [id |-> nextRecording, token |-> row.token,
                      status |-> "clean", active |-> row.active]]
    BY <1>3, <1>4, ViewUpdate DEF IInv
<1>6. UnitView'[r.unit].active = row.active
    BY <1>4, <1>5 DEF UnitView
<1>7. UnitView[r.unit].id = 0
    BY <1>4, ViewRow DEF Present
<1>8. Contract!Create(r.unit)
    BY <1>3, <1>4, <1>5, <1>6, <1>7 DEF Contract!Create, Contract!Present, Contract!Set
<1> QED BY <1>4, <1>8 DEF ContractStep, Contract!Next

(* its new active take,                                                    *)
LEMMA ReplaceActiveContract ==
    ASSUME IInv, NEW c \in Clients, ReplaceActive(c) \/ PromoteDuplicate(c)
    PROVE  ContractStep
<1>1. PICK r \in RequestState : r = request[c]
    BY Served
<1>2. PICK row : row = [recording[r.unit] EXCEPT !.token = r.snap.token + 1, !.active = r.take,
                                                 !.shape = r.shape]
    OBVIOUS
<1>3. /\ row \in RecordingRow /\ row.token = r.snap.token + 1
      /\ row.id = recording[r.unit].id /\ row.status = recording[r.unit].status
    BY <1>1, <1>2, RowsOfRequest DEF RecordingRow
<1>4. PICK applied, missed : Swap(c, row, applied, missed)
    BY <1>1, <1>2 DEF ReplaceActive, PromoteDuplicate
<1> QED BY <1>1, <1>3, <1>4, SwapContract DEF ReplaceActive, PromoteDuplicate, Unchanged

(* a conflict with a stale base,                                           *)
LEMMA FlagStaleBaseContract ==
    ASSUME IInv, NEW c \in Clients, FlagStaleBase(c)
    PROVE  ContractStep
<1>1. PICK r \in RequestState : r = request[c]
    BY Served
<1>2. PICK row : row = [recording[r.unit] EXCEPT !.token = r.snap.token + 1,
                                                 !.status = "conflict"]
    OBVIOUS
<1>3. /\ row \in RecordingRow /\ row.token = r.snap.token + 1
      /\ row.id = recording[r.unit].id /\ row.active = recording[r.unit].active
      /\ row.status = "conflict"
    BY <1>1, <1>2, RowsOfRequest DEF RecordingRow, Status
<1>4. PICK applied, missed : Swap(c, row, applied, missed)
    BY <1>1, <1>2 DEF FlagStaleBase
<1> QED BY <1>1, <1>3, <1>4, SwapContract DEF FlagStaleBase, Unchanged

(* The status the swap of a resolve overwrites is the one it has read.     *)
LEMMA ResolveConflictContract ==
    ASSUME IInv, ResolvesConflict, NEW c \in Clients, ResolveConflict(c)
    PROVE  ContractStep
<1>1. PICK r \in RequestState : r = request[c]
    BY Served
<1>2. PICK row : row = [recording[r.unit] EXCEPT !.token = r.snap.token + 1, !.active = r.take,
                                                 !.shape = r.shape, !.status = "resolved"]
    OBVIOUS
<1>3. /\ row \in RecordingRow /\ row.token = r.snap.token + 1 /\ row.active = r.take
      /\ row.id = recording[r.unit].id /\ row.status = "resolved"
    BY <1>1, <1>2, RowsOfRequest DEF RecordingRow, Status
<1>4. r.pc = "resolve" /\ r.snap.status = "conflict" /\ RequestInv(r)
    BY <1>1 DEF ResolveConflict, ResolvesConflict, IInv
<1>5. r.take # 0 /\ (Unchanged(r) => recording[r.unit].status = "conflict")
    BY <1>4 DEF RequestInv, Holding
<1>6. Swap(c, row, IdleRequest, IdleRequest)
    BY <1>1, <1>2 DEF ResolveConflict
<1> QED BY <1>1, <1>3, <1>5, <1>6, SwapContract DEF ResolveConflict, Unchanged

(* a coverage rewritten,                                                   *)
LEMMA RewriteCoverageContract ==
    ASSUME IInv, NEW c \in Clients, RewriteCoverage(c)
    PROVE  ContractStep
<1>1. PICK r \in RequestState : r = request[c]
    BY Served
<1>2. CASE UNCHANGED recording
    BY <1>2, RowsKept DEF RewriteCoverage
<1>3. CASE Unchanged(r) /\ Update(r.unit, [recording[r.unit] EXCEPT
                                !.token = r.snap.token + 1, !.shape = r.shape,
                                !.active = IF r.take = r.snap.active THEN @ ELSE r.take])
  <2>1. PICK row : row = [recording[r.unit] EXCEPT
                            !.token = r.snap.token + 1, !.shape = r.shape,
                            !.active = IF r.take = r.snap.active THEN @ ELSE r.take]
    OBVIOUS
  <2>2. /\ row \in RecordingRow /\ row.token = recording[r.unit].token + 1
        /\ row.id = recording[r.unit].id /\ row.status = recording[r.unit].status
        /\ Present(r.unit) /\ r.unit \in Units
    <3>1. PICK old \in RecordingRow : old = recording[r.unit]
        BY <1>1, RowsOfRequest
    <3>2. row = [old EXCEPT !.token = old.token + 1, !.shape = r.shape,
                            !.active = IF r.take = r.snap.active THEN old.active ELSE r.take]
        BY <1>3, <2>1, <3>1 DEF Unchanged
    <3>3. r.take \in Nat /\ r.shape \in Shape /\ old.token + 1 \in Nat /\ old.active \in Nat
        BY <1>1, <3>1, RowsOfRequest
    <3>4. row \in RecordingRow
        BY <3>2, <3>3 DEF RecordingRow
    <3>5. row.token = old.token + 1 /\ row.id = old.id /\ row.status = old.status
        BY <3>2, <3>3 DEF RecordingRow
    <3> QED BY <1>1, <1>3, <3>1, <3>4, <3>5, RowsOfRequest DEF Unchanged
  <2>3. recording' = [recording EXCEPT ![r.unit] = row]
    BY <1>3, <2>1 DEF Update
  <2> QED BY <2>2, <2>3, VersionContract DEF IInv, ContractStep, RewriteCoverage
<1> QED BY <1>1, <1>2, <1>3 DEF RewriteCoverage

(* a conflict with an overlap,                                             *)
LEMMA MarkConflictContract ==
    ASSUME IInv, NEW c \in Clients, MarkConflict(c)
    PROVE  ContractStep
<1>1. PICK r \in RequestState : r = request[c]
    BY Served
<1>2. CASE UNCHANGED recording
    BY <1>2, RowsKept DEF MarkConflict
<1>3. CASE /\ Present(r.unit)
           /\ Update(r.unit, [recording[r.unit] EXCEPT !.status = "conflict", !.token = @ + 1])
  <2>1. PICK row : row = [recording[r.unit] EXCEPT !.status = "conflict", !.token = @ + 1]
    OBVIOUS
  <2>2. /\ row \in RecordingRow /\ row.token = recording[r.unit].token + 1
        /\ row.id = recording[r.unit].id /\ row.active = recording[r.unit].active
        /\ row.status = "conflict" /\ r.unit \in Units
    <3>1. PICK old \in RecordingRow : old = recording[r.unit]
        BY <1>1, RowsOfRequest
    <3>2. row = [old EXCEPT !.status = "conflict", !.token = old.token + 1] /\ old.token + 1 \in Nat
        BY <1>1, <2>1, <3>1, RowsOfRequest
    <3>3. row \in RecordingRow /\ row.token = old.token + 1 /\ row.id = old.id
          /\ row.active = old.active /\ row.status = "conflict"
        BY <3>2 DEF RecordingRow, Status
    <3> QED BY <1>1, <3>1, <3>3, RowsOfRequest
  <2>3. recording' = [recording EXCEPT ![r.unit] = row]
    BY <1>3, <2>1 DEF Update
  <2> QED BY <1>3, <2>2, <2>3, VersionContract DEF IInv, ContractStep, MarkConflict
<1> QED BY <1>1, <1>2, <1>3 DEF MarkConflict

(* the flags on the units it overlaps,                                     *)
LEMMA ScanOverlapsContract ==
    ASSUME IInv, NEW c \in Clients, ScanOverlaps(c)
    PROVE  ContractStep
<1>1. PICK r \in RequestState : r = request[c]
    BY Served
<1>2. PICK marked : marked = ToMark(r.unit, r.shape)
    OBVIOUS
<1>3. /\ marked \subseteq Units
      /\ \A v \in marked : Present(v) /\ recording[v].status # "resolved"
    BY <1>1, <1>2 DEF ToMark, Intersecting, RequestState
<1>4. /\ recording' = [v \in Units |->
                        IF v \in marked THEN [recording[v] EXCEPT !.status = "conflict"]
                        ELSE recording[v]]
      /\ UNCHANGED nextRecording
    BY <1>1, <1>2 DEF ScanOverlaps
<1>5. marked \in SUBSET {v \in Units : /\ UnitView[v].id # 0
                                       /\ UnitView[v].status # "resolved"}
    BY <1>3, ViewRow DEF Present
<1>6. UnitView' = [v \in Units |->
                     IF v \in marked THEN [UnitView[v] EXCEPT !.status = "conflict"]
                     ELSE UnitView[v]]
  <2>1. \A v \in Units :
           /\ recording[v] \in RecordingRow
           /\ recording'[v] = IF v \in marked THEN [recording[v] EXCEPT !.status = "conflict"]
                              ELSE recording[v]
    BY <1>4 DEF IInv, TypeOK
  <2>2. \A v \in Units :
           /\ recording'[v].id = recording[v].id /\ recording'[v].token = recording[v].token
           /\ recording'[v].active = recording[v].active
           /\ recording'[v].status = IF v \in marked THEN "conflict" ELSE recording[v].status
    BY <2>1 DEF RecordingRow
  <2> QED BY <2>2 DEF UnitView
<1>7. Contract!FlagOverlaps
    BY <1>4, <1>5, <1>6 DEF Contract!FlagOverlaps, Contract!Present
<1> QED BY <1>7 DEF ContractStep, Contract!Next

(* a take deleted,                                                         *)
LEMMA DeleteTakeContract ==
    ASSUME IInv, NEW c \in Clients, DeleteTake(c)
    PROVE  ContractStep
<1>1. CASE UNCHANGED recording
    BY <1>1, RowsKept DEF DeleteTake
<1>2. ASSUME NEW u \in Units, Present(u), NEW i \in TakesOf(recording[u].id),
             NEW promoted \in newestTake(TakesOf(recording[u].id) \ {i}),
             Update(u, [recording[u] EXCEPT
                 !.token = @ + 1, !.active = promoted,
                 !.shape = IF promoted \in DOMAIN take THEN take[promoted].shape ELSE @])
      PROVE  ContractStep
  <2>1. PICK old \in RecordingRow : old = recording[u]
    BY DEF IInv, TypeOK
  <2>2. promoted \in Nat /\ old.token + 1 \in Nat
    BY DEF newestTake, TakesOf, IInv, TypeOK, RecordingRow
  <2>3. PICK shape \in Shape :
           shape = IF promoted \in DOMAIN take THEN take[promoted].shape ELSE old.shape
    BY DEF newestTake, TakesOf, IInv, TypeOK, TakeRow, RecordingRow
  <2>4. PICK row : row = [old EXCEPT !.token = old.token + 1, !.active = promoted, !.shape = shape]
    OBVIOUS
  <2>5. /\ row \in RecordingRow /\ row.token = recording[u].token + 1
        /\ row.id = recording[u].id /\ row.status = recording[u].status
    BY <2>1, <2>2, <2>4 DEF RecordingRow
  <2>6. recording' = [recording EXCEPT ![u] = row]
    BY <1>2, <2>1, <2>3, <2>4 DEF Update
  <2> QED BY <1>2, <2>5, <2>6, VersionContract DEF IInv, ContractStep, DeleteTake
<1> QED BY <1>1, <1>2 DEF DeleteTake

(* and a recording deleted.                                                *)
LEMMA DeleteRecordingContract ==
    ASSUME IInv, NEW c \in Clients, DeleteRecording(c)
    PROVE  ContractStep
<1>1. PICK u \in Units : Present(u) /\ Update(u, NoRecording)
    BY DEF DeleteRecording
<1>2. NoRecording \in RecordingRow
    BY IdleType DEF RequestState, IdleRequest
<1>3. UnitView' = [UnitView EXCEPT ![u] = Contract!Absent]
    BY <1>1, <1>2, ViewUpdate DEF Update, NoRecording, Contract!Absent, IInv
<1>4. UnitView[u].id # 0
    BY <1>1, ViewRow DEF Present
<1>5. Contract!Remove(u)
    BY <1>3, <1>4 DEF Contract!Remove, Contract!Present, Contract!Set, DeleteRecording
<1> QED BY <1>5 DEF ContractStep, Contract!Next

(* A resolve is under way only where it has read a conflict.               *)
LEMMA ResolvesConflictKept ==
    ASSUME IInv, ResolvesConflict, [Next]_vars
    PROVE  ResolvesConflict'
<1> SUFFICES ASSUME NEW d \in Clients, request'[d].pc \in {"lookup", "resolve"}
             PROVE  request'[d].snap.status = "conflict"
    BY DEF ResolvesConflict
<1>1. CASE request'[d] = request[d]
    BY <1>1 DEF ResolvesConflict
<1>2. ASSUME NEW c \in Clients, NEW r, Move(c, r),
             r.pc \in {"lookup", "resolve"} => r.snap.status = "conflict"
      PROVE  request'[d].snap.status = "conflict"
    BY <1>1, <1>2 DEF IInv, TypeOK, Move
<1>3. ASSUME NEW c \in Clients, Finish(c)
      PROVE  request'[d].snap.status = "conflict"
    BY <1>2, <1>3, IdleType DEF Finish, IdleRequest
<1>4. ASSUME NEW c \in Clients, NEW r \in RequestState, NEW pc \in Steps \ {"lookup", "resolve"},
             Move(c, [r EXCEPT !.pc = pc])
      PROVE  request'[d].snap.status = "conflict"
    BY <1>2, <1>4, MovePc DEF RequestState
<1>5. ASSUME NEW c \in Clients, NEW r \in RequestState, r.pc \notin {"lookup", "resolve"},
             LookUp(c, r)
      PROVE  request'[d].snap.status = "conflict"
  <2>1. CASE Move(c, [r EXCEPT !.pc = "first"])
    BY <1>4, <2>1 DEF Steps
  <2>2. ASSUME NEW replacing \in BOOLEAN,
               Move(c, [r EXCEPT !.pc = "find", !.snap = recording[r.unit],
                                 !.replacing = replacing])
        PROVE  request'[d].snap.status = "conflict"
    <3>1. [r EXCEPT !.snap = recording[r.unit], !.replacing = replacing] \in RequestState
      BY DEF RequestState, IInv, TypeOK
    <3> QED BY <1>4, <2>2, <3>1 DEF Steps
  <2> QED BY <1>5, <2>1, <2>2 DEF LookUp
<1>6. ASSUME NEW c \in Clients, StartUpload(c)
      PROVE  request'[d].snap.status = "conflict"
  <2>1. PICK u \in Units, h \in Hashes, activate \in Activates :
           \E s \in AcceptedShapes(Anchor[u].ref, RangeEnds) :
              LookUp(c, [IdleRequest EXCEPT !.unit = u, !.hash = h, !.shape = s,
                                            !.activate = activate])
    BY <1>6 DEF StartUpload
  <2>2. PICK s \in AcceptedShapes(Anchor[u].ref, RangeEnds) :
           LookUp(c, [IdleRequest EXCEPT !.unit = u, !.hash = h, !.shape = s,
                                         !.activate = activate])
    BY <2>1
  <2>3. PICK r \in RequestState : LookUp(c, r) /\ r.pc = "idle"
    <3>1. s \in Shape /\ activate \in BOOLEAN
      BY AcceptedType, ActivatesAssumption
    <3>2. PICK o \in RequestState : o = IdleRequest /\ o.pc = "idle"
      BY IdleType DEF IdleRequest
    <3>3. /\ [o EXCEPT !.unit = u, !.hash = h, !.shape = s, !.activate = activate]
                \in RequestState
          /\ [o EXCEPT !.unit = u, !.hash = h, !.shape = s, !.activate = activate].pc = "idle"
      BY <3>1, <3>2 DEF RequestState
    <3> QED BY <2>2, <3>2, <3>3
  <2> QED BY <1>5, <2>3
<1>7. ASSUME NEW c \in Clients, StartResolve(c)
      PROVE  request'[d].snap.status = "conflict"
  <2>1. PICK u \in Units :
           /\ recording[u].status = "conflict"
           /\ Move(c, [IdleRequest EXCEPT !.pc = "lookup", !.unit = u, !.snap = recording[u]])
    BY <1>7 DEF StartResolve
  <2>2. PICK s \in RequestState : Move(c, s) /\ s.snap.status = "conflict"
    <3>1. PICK row \in RecordingRow : row = recording[u]
      BY DEF IInv, TypeOK
    <3>2. PICK o \in RequestState : o = IdleRequest
      BY IdleType
    <3>3. /\ [o EXCEPT !.pc = "lookup", !.unit = u, !.snap = row] \in RequestState
          /\ [o EXCEPT !.pc = "lookup", !.unit = u, !.snap = row].snap = row
      BY DEF RequestState, Steps
    <3> QED BY <2>1, <3>1, <3>2, <3>3
  <2> QED BY <1>2, <2>2
<1>8. ASSUME NEW c \in Clients, LookUpTake(c)
      PROVE  request'[d].snap.status = "conflict"
  <2>1. PICK r \in RequestState : r = request[c]
    BY Served
  <2>2. r.pc = "lookup" /\ r.snap.status = "conflict"
    BY <1>8, <2>1 DEF LookUpTake, ResolvesConflict
  <2>3. ASSUME NEW i \in TakesOf(r.snap.id),
               Move(c, [r EXCEPT !.pc = "resolve", !.take = i, !.shape = take[i].shape])
        PROVE  request'[d].snap.status = "conflict"
    BY <1>1, <2>2, <2>3 DEF IInv, TypeOK, Move, RequestState
  <2> QED BY <1>3, <1>8, <2>1, <2>3 DEF LookUpTake
<1>9. ASSUME NEW c \in Clients, NEW r \in RequestState, r = request[c],
             r.pc \notin {"lookup", "resolve"}, Proceed(c)
      PROVE  request'[d].snap.status = "conflict"
  <2>1. CASE UploadAgain(c)
    BY <1>5, <1>9, <2>1 DEF UploadAgain
  <2>2. CASE LookUpTake(c)
    BY <1>8, <2>2
  <2>a. ASSUME NEW pc \in Steps \ {"lookup", "resolve"}, NEW i, NEW scan,
               Move(c, [r EXCEPT !.pc = pc, !.take = i, !.scan = scan])
        PROVE  request'[d].snap.status = "conflict"
    <3>1. [r EXCEPT !.pc = pc, !.take = i, !.scan = scan].pc = pc
      BY DEF RequestState
    <3> QED BY <1>2, <2>a, <3>1
  <2>b. ASSUME NEW pc \in Steps \ {"lookup", "resolve"}, NEW row, NEW i, NEW scan,
               Move(c, [r EXCEPT !.pc = pc, !.snap = row, !.take = i, !.scan = scan])
        PROVE  request'[d].snap.status = "conflict"
    <3>1. [r EXCEPT !.pc = pc, !.snap = row, !.take = i, !.scan = scan].pc = pc
      BY DEF RequestState
    <3> QED BY <1>2, <2>b, <3>1
  <2>3. CASE CreateRecording(c)
    BY <1>3, <1>9, <2>3, <2>b DEF CreateRecording, Steps
  <2>c. CASE JoinRecording(c)
    <3> DEFINE row == recording[r.unit]
    <3>1. PICK i :
             \/ Finish(c)
             \/ Move(c, [r EXCEPT !.pc = "get"])
             \/ Move(c, [r EXCEPT !.pc = IF row.active = i THEN "scan" ELSE "mark",
                                  !.snap = row, !.take = i, !.scan = TRUE])
      BY <1>9, <2>c DEF JoinRecording
    <3>2. CASE row.active = i
      BY <1>3, <1>4, <1>9, <2>b, <3>1, <3>2 DEF Steps
    <3>3. CASE row.active # i
      BY <1>3, <1>4, <1>9, <2>b, <3>1, <3>3 DEF Steps
    <3> QED BY <3>2, <3>3
  <2>d. CASE UseDuplicate(c)
    BY <1>9, <2>d, <2>a DEF UseDuplicate, Steps
  <2>e. CASE InsertTake(c)
    <3>1. PICK i :
             \/ Finish(c)
             \/ Move(c, [r EXCEPT !.pc = IF r.replacing THEN "replace" ELSE "flag",
                                  !.take = i, !.scan = TRUE])
      BY <1>9, <2>e DEF InsertTake
    <3>2. CASE r.replacing
      BY <1>3, <2>a, <3>1, <3>2 DEF Steps
    <3>3. CASE ~r.replacing
      BY <1>3, <2>a, <3>1, <3>3 DEF Steps
    <3> QED BY <3>2, <3>3
  <2>4. CASE \/ AnswerDuplicate(c) \/ FindNothing(c) \/ MarkConflict(c) \/ ReadBack(c)
             \/ ScanOverlaps(c) \/ RewriteCoverage(c)
    BY <1>3, <1>4, <1>9, <2>4 DEF AnswerDuplicate, FindNothing, MarkConflict, ReadBack,
                                  ScanOverlaps, RewriteCoverage, Steps
  <2>5. CASE ReplaceActive(c) \/ FlagStaleBase(c) \/ PromoteDuplicate(c) \/ ResolveConflict(c)
    BY <1>3, <1>4, <1>9, <2>5 DEF ReplaceActive, FlagStaleBase, PromoteDuplicate,
                                  ResolveConflict, Swap, Finish, Steps
  <2> QED BY <1>9, <2>1, <2>2, <2>3, <2>c, <2>d, <2>e, <2>4, <2>5 DEF Proceed
<1>10. ASSUME NEW c \in Clients, ResolveConflict(c)
       PROVE  request'[d].snap.status = "conflict"
    BY <1>3, <1>10 DEF ResolveConflict, Swap, Finish
<1>11. ASSUME NEW c \in Clients, Proceed(c)
       PROVE  request'[d].snap.status = "conflict"
  <2>1. PICK r \in RequestState : r = request[c]
    BY Served
  <2>2. CASE r.pc \notin {"lookup", "resolve"}
    BY <1>9, <1>11, <2>1, <2>2
  <2>3. CASE r.pc \in {"lookup", "resolve"}
    <3>1. LookUpTake(c) \/ ResolveConflict(c)
      BY <1>11, <2>1, <2>3 DEF Proceed, UploadAgain, CreateRecording, JoinRecording,
            AnswerDuplicate, UseDuplicate, FindNothing, InsertTake, ReplaceActive,
            FlagStaleBase, PromoteDuplicate, RewriteCoverage, MarkConflict, ReadBack,
            ScanOverlaps
    <3> QED BY <1>8, <1>10, <3>1
  <2> QED BY <2>2, <2>3
<1>12. CASE UNCHANGED request
    BY <1>1, <1>12
<1> QED BY <1>3, <1>6, <1>7, <1>11, <1>12
        DEF Next, vars, DeleteTake, DeleteRecording, Abort, ListSuperseded, PruneTakes,
            TimePasses

(* Every step of the server is a step of the contract or a stutter.        *)
LEMMA NextContract ==
    ASSUME IInv, ResolvesConflict, [Next]_vars
    PROVE  ContractStep
<1>1. ASSUME NEW c \in Clients, Proceed(c)
      PROVE  ContractStep
  <2>1. CASE \/ UploadAgain(c) \/ JoinRecording(c) \/ AnswerDuplicate(c) \/ UseDuplicate(c)
             \/ FindNothing(c) \/ InsertTake(c) \/ ReadBack(c) \/ LookUpTake(c)
    BY <2>1, RowsKept DEF UploadAgain, JoinRecording, AnswerDuplicate, UseDuplicate,
                          FindNothing, InsertTake, ReadBack, LookUpTake, rows
  <2> QED BY <1>1, <2>1, CreateRecordingContract, ReplaceActiveContract,
             FlagStaleBaseContract, ResolveConflictContract, RewriteCoverageContract,
             MarkConflictContract, ScanOverlapsContract DEF Proceed
<1>2. ASSUME NEW c \in Clients, StartUpload(c) \/ StartResolve(c) \/ Abort(c)
      PROVE  ContractStep
    BY <1>2, RowsKept DEF StartUpload, StartResolve, Abort, rows
<1>3. CASE ListSuperseded \/ PruneTakes \/ TimePasses
    BY <1>3, RowsKept, PruneLeavesRecordings DEF ListSuperseded, PruneTakes, TimePasses, rows
<1>4. CASE UNCHANGED vars
    BY <1>4, RowsKept DEF vars
<1> QED BY <1>1, <1>2, <1>3, <1>4, DeleteTakeContract, DeleteRecordingContract DEF Next

(* Whatever requests race, die or are retried, the recordings do only what *)
(* AudioUnitContract allows: a selection never changes without its token,  *)
(* and an open conflict is ended by a resolve or with its recording only.  *)
THEOREM RefinesContract == Spec => KeepsContract
<1>1. Init => Contract!Init
    BY DEF Init, Contract!Init, Contract!Absent, UnitView, NoRecording
<1>2. Init => ResolvesConflict
    BY DEF Init, ResolvesConflict, IdleRequest
<1>3. IInv /\ ResolvesConflict /\ [Next]_vars => ResolvesConflict'
    BY ResolvesConflictKept
<1>4. IInv /\ ResolvesConflict /\ [Next]_vars
      => [Contract!Next]_<<UnitView, nextRecording>>
    BY NextContract DEF ContractStep
<1> QED BY <1>1, <1>2, <1>3, <1>4, SpecIInv, PTL DEF Spec, KeepsContract, Contract!Spec

-----------------------------------------------------------------------------
(* Losing takes are accounted for.                                         *)

(* A take that was active or in an open conflict, or whose unit is settled. *)
Accounted(i) ==
    \/ i \in surfaced
    \/ \E u \in Units : /\ Present(u) /\ recording[u].status = "resolved"
                        /\ recording[u].id = take[i].rec

(* Takes are written when they are inserted only.                          *)
TakesKept ==
    \A i \in DOMAIN take' : i # nextTake => i \in DOMAIN take /\ take'[i].rec = take[i].rec

(* Storing a take leaves the others with their recordings.                 *)
LEMMA StoreKeepsTakes ==
    ASSUME NEW id, NEW hash, NEW shape, NEW i, Store(id, hash, shape, i)
    PROVE  TakesKept
BY DEF Store, TakesKept

(* No step gives a take to another recording.                              *)
LEMMA NextKeepsTakes ==
    ASSUME IInv, [Next]_vars
    PROVE  TakesKept
<1>1. CASE UNCHANGED take
    BY <1>1 DEF TakesKept
<1>2. ASSUME NEW gone, Drop(gone) PROVE TakesKept
    BY <1>2 DEF Drop, TakesKept
<1>3. ASSUME NEW c \in Clients, CreateRecording(c) \/ JoinRecording(c) \/ InsertTake(c)
      PROVE  TakesKept
    BY <1>1, <1>3, StoreKeepsTakes DEF CreateRecording, JoinRecording, InsertTake
<1>4. ASSUME NEW c \in Clients, RewriteCoverage(c) PROVE TakesKept
  <2>1. \A i \in DOMAIN take : take[i] \in TakeRow
      BY DEF IInv, TypeOK
  <2>2. UNCHANGED take \/ take' = [take EXCEPT ![request[c].take].shape = request[c].shape]
      BY <1>4 DEF RewriteCoverage
  <2> QED BY <1>1, <2>1, <2>2 DEF TakesKept, TakeRow
<1>5. ASSUME NEW c \in Clients, Proceed(c) PROVE TakesKept
    BY <1>1, <1>3, <1>4, <1>5
       DEF Proceed, rows, UploadAgain, AnswerDuplicate, UseDuplicate, FindNothing, ReplaceActive,
           FlagStaleBase, PromoteDuplicate, MarkConflict, ReadBack, ScanOverlaps, LookUpTake,
           ResolveConflict
<1>6. ASSUME NEW c \in Clients,
             \/ StartUpload(c) \/ StartResolve(c) \/ DeleteTake(c) \/ DeleteRecording(c)
             \/ Abort(c)
      PROVE  TakesKept
    BY <1>1, <1>2, <1>6 DEF StartUpload, StartResolve, DeleteTake, DeleteRecording, Abort, rows
<1>7. CASE ListSuperseded \/ PruneTakes \/ TimePasses \/ UNCHANGED vars
    BY <1>1, <1>2, <1>7 DEF ListSuperseded, PruneTakes, TimePasses, rows, vars
<1> QED BY <1>5, <1>6, <1>7 DEF Next

(* A settled unit stays so until its row goes or a conflict is opened on   *)
(* it, and then all its takes are before the manager's eyes.               *)
LEMMA ResolvedKept ==
    ASSUME IInv, ContractStep, NEW u \in Units, Present(u), recording[u].status = "resolved"
    PROVE  \/ recording'[u].id # recording[u].id
           \/ recording'[u].id = recording[u].id /\ recording'[u].status \in {"resolved", "conflict"}
<1>1. /\ UnitView[u].id = recording[u].id /\ UnitView[u].id # 0
      /\ UnitView[u].status = "resolved"
      /\ UnitView'[u].id = recording'[u].id /\ UnitView'[u].status = recording'[u].status
    BY ViewRow DEF UnitView, Present
<1>2. UnitView[u].id < nextRecording /\ nextRecording # 0
    BY <1>1 DEF IInv, RecordingIds, TypeOK
<1>3. DOMAIN UnitView = Units
    BY DEF UnitView
<1>4. CASE UNCHANGED <<UnitView, nextRecording>>
    BY <1>1, <1>4
<1>5. ASSUME NEW v \in Units, Contract!Create(v) PROVE UnitView'[u] = UnitView[u]
    BY <1>1, <1>3, <1>5 DEF Contract!Create, Contract!Present, Contract!Set
<1>6. ASSUME NEW v \in Units, NEW status, NEW i, Contract!Advance(v, status, i)
      PROVE  \/ v # u /\ UnitView'[u] = UnitView[u]
             \/ v = u /\ UnitView'[u].id = UnitView[u].id /\ UnitView'[u].status = status
    BY <1>3, <1>6 DEF Contract!Advance, Contract!Set
<1>7. ASSUME NEW v \in Units, Contract!Select(v) \/ Contract!Contest(v) \/ Contract!Resolve(v)
      PROVE  UnitView'[u].id = UnitView[u].id /\ UnitView'[u].status \in {"resolved", "conflict"}
    BY <1>1, <1>6, <1>7 DEF Contract!Select, Contract!Contest, Contract!Resolve
<1>8. ASSUME NEW v \in Units, Contract!Remove(v)
      PROVE  UnitView'[u] = UnitView[u] \/ UnitView'[u].id = 0
    BY <1>3, <1>8 DEF Contract!Remove, Contract!Set, Contract!Absent
<1>9. CASE Contract!FlagOverlaps
    BY <1>1, <1>9 DEF Contract!FlagOverlaps
<1> QED BY <1>1, <1>2, <1>4, <1>5, <1>7, <1>8, <1>9 DEF ContractStep, Contract!Next

(* A unit keeps its recording, loses it, or is given a new id.             *)
LEMMA IdsKept ==
    ASSUME ContractStep, NEW u \in Units
    PROVE  recording'[u].id \in {0, nextRecording, recording[u].id}
<1>1. UnitView[u].id = recording[u].id /\ UnitView'[u].id = recording'[u].id
    BY DEF UnitView
<1>2. DOMAIN UnitView = Units
    BY DEF UnitView
<1>3. ASSUME NEW v \in Units, NEW row, Contract!Set(v, row)
      PROVE  UnitView'[u] = UnitView[u] \/ UnitView'[u].id = row.id
    BY <1>2, <1>3 DEF Contract!Set
<1>4. ASSUME NEW v \in Units, Contract!Create(v) PROVE UnitView'[u].id \in {nextRecording, UnitView[u].id}
    BY <1>2, <1>4 DEF Contract!Create, Contract!Set
<1>5. ASSUME NEW v \in Units, NEW status, NEW i, Contract!Advance(v, status, i)
      PROVE  UnitView'[u].id = UnitView[u].id
    BY <1>2, <1>5 DEF Contract!Advance, Contract!Set
<1>6. ASSUME NEW v \in Units, Contract!Select(v) \/ Contract!Contest(v) \/ Contract!Resolve(v)
      PROVE  UnitView'[u].id = UnitView[u].id
    BY <1>5, <1>6 DEF Contract!Select, Contract!Contest, Contract!Resolve
<1>7. ASSUME NEW v \in Units, Contract!Remove(v) PROVE UnitView'[u].id \in {0, UnitView[u].id}
    BY <1>2, <1>7 DEF Contract!Remove, Contract!Set, Contract!Absent
<1>8. CASE Contract!FlagOverlaps
    BY <1>8 DEF Contract!FlagOverlaps, UnitView
<1> QED BY <1>1, <1>4, <1>6, <1>7, <1>8 DEF ContractStep, Contract!Next

(* A take that is accounted for stays so while it is stored.               *)
LEMMA AccountedKept ==
    ASSUME IInv, IInv', ContractStep, TakesKept, Observe,
           NEW i \in DOMAIN take, i \in DOMAIN take', Accounted(i)
    PROVE  Accounted(i)'
<1>1. CASE i \in surfaced
    BY <1>1 DEF Observe, Accounted
<1>2. ASSUME NEW u \in Units, Present(u), recording[u].status = "resolved",
             recording[u].id = take[i].rec
      PROVE  Accounted(i)'
  <2>1. take'[i].rec = take[i].rec
      BY DEF TakesKept, IInv, TakeIds, TypeOK
  <2>2. recording'[u].id = recording[u].id
    <3>1. PICK v \in Units : recording'[v].id = recording[u].id
        BY <1>2, <2>1 DEF IInv, TakeIds
    <3>2. recording[v].id = recording[u].id
        BY <1>2, <3>1, IdsKept DEF IInv, RecordingIds, TypeOK, Present
    <3>3. v = u
        BY <1>2, <3>2 DEF IInv, RecordingIds
    <3> QED BY <3>1, <3>3
  <2>3. recording'[u].status \in {"resolved", "conflict"}
      BY <1>2, <2>2, ResolvedKept
  <2>4. Present(u)'
      BY <1>2, <2>2 DEF Present
  <2>5. CASE recording'[u].status = "resolved"
      BY <1>2, <2>1, <2>2, <2>4, <2>5 DEF Accounted
  <2>6. CASE recording'[u].status = "conflict"
    <3>1. Visible(i)'
        BY <1>2, <2>1, <2>2, <2>4, <2>6 DEF Visible
    <3> QED BY <3>1 DEF Observe, Accounted
  <2> QED BY <2>3, <2>5, <2>6
<1> QED BY <1>1, <1>2 DEF Accounted

(* A request on the way to its answer has its take accounted for.          *)
Surfaces(r) == r.pc \in {"readback", "scan"} /\ r.take \in DOMAIN take => Accounted(r.take)

(* Whoever writes its take as the active one, or opens a conflict on its   *)
(* row, or finds it resolved.                                              *)
LEMMA WriterSurfaces ==
    ASSUME NEW c \in Clients, NEW s \in RequestState, IInv', request'[c] = s, Observe,
           s.pc \in {"readback", "scan"},
           recording'[s.unit].id = s.snap.id,
           \/ recording'[s.unit].active = s.take
           \/ recording'[s.unit].status \in {"conflict", "resolved"}
    PROVE  Surfaces(s)'
<1> SUFFICES ASSUME s.take \in DOMAIN take' PROVE Accounted(s.take)'
    BY DEF Surfaces
<1>1. RequestInv(request[c])'
    BY DEF IInv
<1>2. s.snap.id # 0 /\ take'[s.take].rec = s.snap.id /\ s.unit \in Units
    BY <1>1 DEF RequestInv, Holding, RequestState
<1>3. Present(s.unit)'
    BY <1>2 DEF Present
<1>4. CASE recording'[s.unit].status = "resolved"
    BY <1>2, <1>3, <1>4 DEF Accounted
<1>5. CASE recording'[s.unit].active = s.take \/ recording'[s.unit].status = "conflict"
  <2>1. Visible(s.take)'
      BY <1>2, <1>3, <1>5 DEF Visible
  <2> QED BY <2>1 DEF Observe, Accounted
<1> QED BY <1>4, <1>5

(* A request that ends has nothing left to account for.                    *)
LEMMA FinishSurfaces ==
    ASSUME IInv, NEW c \in Clients, Finish(c)
    PROVE  Surfaces(request[c])'
<1>1. request'[c] = IdleRequest
    BY FinishType DEF IInv
<1>2. IdleRequest.pc = "idle"
    BY DEF IdleRequest
<1> QED BY <1>1, <1>2 DEF Surfaces

(* The steps after which a request is about to answer.                     *)
LEMMA CreateRecordingSurfaces ==
    ASSUME IInv, IInv', NEW c \in Clients, CreateRecording(c)
    PROVE  Surfaces(request[c])'
<1>1. PICK r \in RequestState : r = request[c]
    BY Served
<1>2. PICK id \in Nat \ {0}, i \in Nat \ {0} : id = nextRecording /\ i = nextTake
    BY DEF IInv, TypeOK
<1> DEFINE row == [id |-> id, token |-> IF r.activate THEN 2 ELSE 1, status |-> "clean",
                   active |-> IF r.activate THEN i ELSE 0, shape |-> r.shape]
           s == [r EXCEPT !.pc = "scan", !.snap = row, !.take = i, !.scan = TRUE]
<1>3. /\ Update(r.unit, row) /\ Observe
      /\ (r.activate /\ Move(c, s)) \/ Finish(c)
    BY <1>1, <1>2 DEF CreateRecording
<1>4. CASE r.activate /\ Move(c, s)
  <2>1. row.id = id /\ row.active = i /\ row \in RecordingRow /\ r.unit \in Units
      BY <1>2, <1>4 DEF RecordingRow, RequestState, Status
  <2> HIDE DEF row
  <2>2. /\ s \in RequestState /\ s.pc = "scan" /\ s.unit = r.unit /\ s.snap = row
        /\ s.take = i
      BY <1>2, <2>1 DEF RequestState, Steps
  <2> HIDE DEF s
  <2>3. request'[c] = s
      BY <1>4, <2>2, MoveType DEF IInv
  <2>4. recording'[r.unit] = row
      BY <1>3, <2>1 DEF Update, IInv, TypeOK
  <2>5. Surfaces(s)'
      BY <1>3, <2>1, <2>2, <2>3, <2>4, WriterSurfaces
  <2> QED BY <2>3, <2>5 DEF Surfaces, Accounted
<1> QED BY <1>3, <1>4, FinishSurfaces

(* An upload that finds its take active already goes on to the scan.       *)
LEMMA JoinRecordingSurfaces ==
    ASSUME IInv, IInv', NEW c \in Clients, JoinRecording(c)
    PROVE  Surfaces(request[c])'
<1>1. PICK r \in RequestState : r = request[c]
    BY Served
<1>2. PICK row \in RecordingRow : row = recording[r.unit]
    BY DEF IInv, TypeOK, RequestState
<1>3. PICK i \in Nat :
         \/ Finish(c)
         \/ Move(c, [r EXCEPT !.pc = "get"])
         \/ row.active = i /\ Move(c, [r EXCEPT !.pc = "scan", !.snap = row, !.take = i, !.scan = TRUE])
         \/ Move(c, [r EXCEPT !.pc = "mark", !.snap = row, !.take = i, !.scan = TRUE])
    BY <1>1, <1>2 DEF JoinRecording, TakesWithHash, TakesOf, IInv, TypeOK
<1> DEFINE s(pc) == [r EXCEPT !.pc = pc, !.snap = row, !.take = i, !.scan = TRUE]
<1>5. CASE Move(c, [r EXCEPT !.pc = "get"])
  <2>1. [r EXCEPT !.pc = "get"] \in RequestState /\ [r EXCEPT !.pc = "get"].pc = "get"
      BY DEF RequestState, Steps
  <2> QED BY <1>5, <2>1, MoveType DEF IInv, Surfaces
<1>6. \A pc \in {"scan", "mark"} :
         s(pc) \in RequestState /\ s(pc).pc = pc /\ s(pc).unit = r.unit /\ s(pc).snap = row /\ s(pc).take = i
    BY DEF RequestState, Steps
<1>7. CASE Move(c, s("mark"))
  <2> HIDE DEF s
  <2> QED BY <1>6, <1>7, MoveType DEF IInv, Surfaces
<1>8. CASE row.active = i /\ Move(c, s("scan"))
  <2> HIDE DEF s
  <2>1. request'[c] = s("scan")
      BY <1>6, <1>8, MoveType DEF IInv
  <2>2. recording'[r.unit] = row /\ Observe
      BY <1>2 DEF JoinRecording
  <2>3. Surfaces(s("scan"))'
      BY <1>6, <1>8, <2>1, <2>2, WriterSurfaces
  <2> QED BY <2>1, <2>3 DEF Surfaces, Accounted
<1> QED BY <1>3, <1>5, <1>7, <1>8, FinishSurfaces

(* A swap that applies writes the take as the active one or the conflict.  *)
LEMMA SwapSurfaces ==
    ASSUME IInv, IInv', NEW c \in Clients, NEW r \in RequestState, r = request[c],
           NEW row \in RecordingRow, NEW applied \in RequestState, NEW missed \in RequestState,
           Swap(c, row, applied, missed), Observe,
           row.id = recording[r.unit].id, row.active = r.take \/ row.status = "conflict",
           applied.pc \in {"readback", "scan"} => Follows(r, applied),
           missed.pc \notin {"readback", "scan"}
    PROVE  Surfaces(request[c])'
<1>1. CASE Unchanged(r) /\ Update(r.unit, row) /\ Move(c, applied)
  <2>1. request'[c] = applied
      BY <1>1, MoveType DEF IInv
  <2>2. recording'[r.unit] = row /\ row.id = r.snap.id
      BY <1>1 DEF Update, IInv, TypeOK, RequestState, Unchanged
  <2>3. CASE applied.pc \in {"readback", "scan"}
    <3>1. applied.unit = r.unit /\ applied.snap = r.snap /\ applied.take = r.take
        BY <2>3 DEF Follows, IdleRequest
    <3>2. Surfaces(applied)'
        BY <2>1, <2>2, <2>3, <3>1, WriterSurfaces
    <3> QED BY <2>1, <3>2 DEF Surfaces, Accounted
  <2>4. CASE applied.pc \notin {"readback", "scan"}
      BY <2>1, <2>4 DEF Surfaces
  <2> QED BY <2>3, <2>4
<1>3. CASE Move(c, missed)
    BY <1>3, MoveType DEF IInv, Surfaces
<1> QED BY <1>1, <1>3, FinishSurfaces DEF Swap

(* A take that has become the active one is accounted for; one that missed *)
(* its turn goes on to be flagged.                                         *)
LEMMA ReplaceActiveSurfaces ==
    ASSUME IInv, IInv', NEW c \in Clients, ReplaceActive(c)
    PROVE  Surfaces(request[c])'
<1>1. PICK r \in RequestState : r = request[c]
    BY Served
<1>2. PICK row : row = [recording[r.unit] EXCEPT !.token = r.snap.token + 1, !.active = r.take,
                                                 !.shape = r.shape]
    OBVIOUS
<1>3. row \in RecordingRow /\ row.active = r.take /\ row.id = recording[r.unit].id
    BY <1>1, <1>2, RowsOfRequest DEF RecordingRow
<1> DEFINE s(pc) == [r EXCEPT !.pc = pc]
<1>4. /\ s("readback") \in RequestState /\ s("mark") \in RequestState
      /\ Follows(r, s("readback")) /\ s("mark").pc = "mark"
  <2>1. s("mark").pc = "mark"
      BY DEF RequestState
  <2> QED BY <2>1, MovePc DEF Steps, Holding
<1>5. Swap(c, row, s("readback"), s("mark")) /\ Observe
    BY <1>1, <1>2 DEF ReplaceActive
<1> HIDE DEF s
<1> QED BY <1>1, <1>3, <1>4, <1>5, SwapSurfaces

(* So is one whose stale base has flagged its recording.                   *)
LEMMA FlagStaleBaseSurfaces ==
    ASSUME IInv, IInv', NEW c \in Clients, FlagStaleBase(c)
    PROVE  Surfaces(request[c])'
<1>1. PICK r \in RequestState : r = request[c]
    BY Served
<1>2. PICK row : row = [recording[r.unit] EXCEPT !.token = r.snap.token + 1,
                                                 !.status = "conflict"]
    OBVIOUS
<1>3. row \in RecordingRow /\ row.status = "conflict" /\ row.id = recording[r.unit].id
    BY <1>1, <1>2, RowsOfRequest DEF RecordingRow, Status
<1> DEFINE s(pc) == [r EXCEPT !.pc = pc]
<1>4. /\ s("readback") \in RequestState /\ s("mark") \in RequestState
      /\ Follows(r, s("readback")) /\ s("mark").pc = "mark"
  <2>1. s("mark").pc = "mark"
      BY DEF RequestState
  <2> QED BY <2>1, MovePc DEF Steps, Holding
<1>5. Swap(c, row, s("readback"), s("mark")) /\ Observe
    BY <1>1, <1>2 DEF FlagStaleBase
<1> HIDE DEF s
<1> QED BY <1>1, <1>3, <1>4, <1>5, SwapSurfaces

(* So is a duplicate that has been promoted,                               *)
LEMMA PromoteDuplicateSurfaces ==
    ASSUME IInv, IInv', NEW c \in Clients, PromoteDuplicate(c)
    PROVE  Surfaces(request[c])'
<1>1. PICK r \in RequestState : r = request[c]
    BY Served
<1>2. PICK row : row = [recording[r.unit] EXCEPT !.token = r.snap.token + 1, !.active = r.take,
                                                 !.shape = r.shape]
    OBVIOUS
<1>3. row \in RecordingRow /\ row.active = r.take /\ row.id = recording[r.unit].id
    BY <1>1, <1>2, RowsOfRequest DEF RecordingRow
<1> DEFINE s == IF r.scan THEN [r EXCEPT !.pc = "readback"] ELSE IdleRequest
<1>4. s \in RequestState /\ Follows(r, s) /\ IdleRequest \in RequestState /\ IdleRequest.pc = "idle"
    BY MovePc, IdleType, IdleFollows DEF Steps, Holding, IdleRequest
<1>5. Swap(c, row, s, IdleRequest) /\ Observe
    BY <1>1, <1>2 DEF PromoteDuplicate
<1> HIDE DEF s
<1> QED BY <1>1, <1>3, <1>4, <1>5, SwapSurfaces

(* and one whose coverage has been rewritten.                              *)
LEMMA RewriteCoverageSurfaces ==
    ASSUME IInv, IInv', NEW c \in Clients, RewriteCoverage(c)
    PROVE  Surfaces(request[c])'
<1>1. PICK r \in RequestState : r = request[c]
    BY Served
<1> DEFINE s == [r EXCEPT !.pc = "scan"]
<1>2. CASE Unchanged(r) /\ Move(c, s)
           /\ Update(r.unit, [recording[r.unit] EXCEPT
                                !.token = r.snap.token + 1, !.shape = r.shape,
                                !.active = IF r.take = r.snap.active THEN @ ELSE r.take])
  <2>1. s \in RequestState /\ s.pc = "scan" /\ s.unit = r.unit /\ s.snap = r.snap /\ s.take = r.take
      BY DEF RequestState, Steps
  <2> HIDE DEF s
  <2>2. request'[c] = s
      BY <1>2, <2>1, MoveType DEF IInv
  <2>3. recording[r.unit].active = r.snap.active
    <3>1. RequestInv(r)
        BY <1>1 DEF IInv
    <3> QED BY <1>1, <1>2, <3>1 DEF RequestInv, RewriteCoverage
  <2>4. recording'[r.unit].id = r.snap.id /\ recording'[r.unit].active = r.take
    <3>1. r.unit \in Units /\ recording[r.unit] \in RecordingRow
        BY <1>1, RowsOfRequest
    <3> QED BY <1>2, <2>3, <3>1 DEF Update, Unchanged, RecordingRow, IInv, TypeOK
  <2>5. Surfaces(s)'
      BY <2>1, <2>2, <2>4, WriterSurfaces DEF RewriteCoverage
  <2> QED BY <2>2, <2>5 DEF Surfaces, Accounted
<1> QED BY <1>1, <1>2, FinishSurfaces DEF RewriteCoverage

(* A take that has lost leaves its recording in conflict or finds it       *)
(* resolved.                                                               *)
LEMMA MarkConflictSurfaces ==
    ASSUME IInv, IInv', NEW c \in Clients, MarkConflict(c)
    PROVE  Surfaces(request[c])'
<1>1. PICK r \in RequestState : r = request[c]
    BY Served
<1> DEFINE s == [r EXCEPT !.pc = "readback"]
<1>2. CASE Present(r.unit) /\ recording[r.unit].id = r.snap.id /\ Move(c, s)
  <2>1. s \in RequestState /\ s.pc = "readback" /\ s.unit = r.unit /\ s.snap = r.snap
      BY DEF RequestState, Steps
  <2> HIDE DEF s
  <2>2. request'[c] = s
      BY <1>2, <2>1, MoveType DEF IInv
  <2>3. /\ recording'[r.unit].id = r.snap.id
        /\ recording'[r.unit].status \in {"conflict", "resolved"}
    <3>1. r.unit \in Units /\ recording[r.unit] \in RecordingRow
        BY <1>1, RowsOfRequest
    <3>2. CASE recording[r.unit].status = "resolved"
        BY <1>1, <1>2, <3>2 DEF MarkConflict
    <3>3. CASE recording[r.unit].status # "resolved"
      <4> DEFINE row == [recording[r.unit] EXCEPT !.status = "conflict", !.token = @ + 1]
      <4>1. row.id = r.snap.id /\ row.status = "conflict"
          BY <1>2, <3>1 DEF RecordingRow
      <4> HIDE DEF row
      <4>2. recording' = [recording EXCEPT ![r.unit] = row]
          BY <1>1, <1>2, <3>3 DEF MarkConflict, Update, row
      <4>3. recording'[r.unit] = row
          BY <3>1, <4>2 DEF IInv, TypeOK
      <4> QED BY <4>1, <4>3
    <3> QED BY <3>2, <3>3
  <2>4. Surfaces(s)'
      BY <2>1, <2>2, <2>3, WriterSurfaces DEF MarkConflict
  <2> QED BY <2>2, <2>4 DEF Surfaces, Accounted
<1> QED BY <1>1, <1>2, FinishSurfaces DEF MarkConflict

(* Reading the row back leaves the take accounted for.                     *)
LEMMA ReadBackSurfaces ==
    ASSUME IInv, IInv', ContractStep, TakesKept, NEW c \in Clients, ReadBack(c), Surfaces(request[c])
    PROVE  Surfaces(request[c])'
<1>1. PICK r \in RequestState : r = request[c]
    BY Served
<1>2. CASE Move(c, [r EXCEPT !.pc = "scan"])
  <2>1. request'[c] = [r EXCEPT !.pc = "scan"] /\ request'[c].take = r.take /\ r.take = request[c].take
      BY <1>1, <1>2, MoveType, MovePc DEF IInv, Steps, RequestState
  <2>2. UNCHANGED take /\ Observe /\ r.pc = "readback"
      BY <1>1 DEF ReadBack, rows
  <2>3. r.take \in DOMAIN take => Accounted(r.take)'
      BY <1>1, <2>2, AccountedKept DEF Surfaces
  <2> QED BY <2>1, <2>2, <2>3 DEF Surfaces, Accounted
<1> QED BY <1>1, <1>2, FinishSurfaces DEF ReadBack

(* The other steps of a request lead elsewhere.                            *)
LEMMA MovedElsewhere ==
    ASSUME IInv, NEW c \in Clients, NEW q, Move(c, q), q.pc \notin {"readback", "scan"}
    PROVE  Surfaces(request[c])'
<1>1. request'[c] = q
    BY DEF IInv, TypeOK, Move
<1> QED BY <1>1 DEF Surfaces

(* A look at the row is not yet on the way to an answer.                   *)
LEMMA LookUpSurfaces ==
    ASSUME IInv, NEW c \in Clients, NEW r \in RequestState, LookUp(c, r)
    PROVE  Surfaces(request[c])'
<1>1. CASE Move(c, [r EXCEPT !.pc = "first"])
  <2>1. [r EXCEPT !.pc = "first"].pc = "first"
      BY DEF RequestState
  <2> QED BY <1>1, <2>1, MovedElsewhere
<1>2. ASSUME NEW replacing,
             Move(c, [r EXCEPT !.pc = "find", !.snap = recording[r.unit], !.replacing = replacing])
      PROVE  Surfaces(request[c])'
  <2>1. [r EXCEPT !.pc = "find", !.snap = recording[r.unit], !.replacing = replacing].pc = "find"
      BY DEF RequestState
  <2> QED BY <1>2, <2>1, MovedElsewhere
<1> QED BY <1>1, <1>2 DEF LookUp

(* None of the other steps leads on to the read back or the scan.          *)
LEMMA OthersSurface ==
    ASSUME IInv, NEW c \in Clients,
           \/ UploadAgain(c) \/ AnswerDuplicate(c) \/ UseDuplicate(c) \/ FindNothing(c)
           \/ InsertTake(c) \/ ScanOverlaps(c) \/ LookUpTake(c) \/ ResolveConflict(c)
           \/ StartUpload(c) \/ StartResolve(c) \/ Abort(c)
    PROVE  Surfaces(request[c])'
<1>1. PICK r \in RequestState : r = request[c]
    BY Served
<1>2. CASE UploadAgain(c)
    BY <1>1, <1>2, LookUpSurfaces DEF UploadAgain
<1>3. CASE UseDuplicate(c)
  <2>1. PICK pc \in {"rewrite", "promote", "mark"} :
           \E i, scan : Move(c, [r EXCEPT !.pc = pc, !.take = i, !.scan = scan])
      BY <1>1, <1>3 DEF UseDuplicate
  <2>2. \A i, scan : [r EXCEPT !.pc = pc, !.take = i, !.scan = scan].pc = pc
      BY DEF RequestState
  <2> QED BY <2>1, <2>2, MovedElsewhere
<1>4. CASE FindNothing(c)
  <2>1. [r EXCEPT !.pc = "insert"].pc = "insert"
      BY DEF RequestState
  <2> QED BY <1>1, <1>4, <2>1, MovedElsewhere DEF FindNothing
<1>5. CASE InsertTake(c)
  <2>1. Finish(c) \/ \E i : \E pc \in {"replace", "flag"} :
                        Move(c, [r EXCEPT !.pc = pc, !.take = i, !.scan = TRUE])
      BY <1>1, <1>5 DEF InsertTake
  <2>2. ASSUME NEW i, NEW pc \in {"replace", "flag"},
               Move(c, [r EXCEPT !.pc = pc, !.take = i, !.scan = TRUE])
        PROVE  Surfaces(request[c])'
    <3>1. [r EXCEPT !.pc = pc, !.take = i, !.scan = TRUE].pc = pc
        BY DEF RequestState
    <3> QED BY <2>2, <3>1, MovedElsewhere
  <2> QED BY <2>1, <2>2, FinishSurfaces
<1>6. CASE LookUpTake(c)
  <2>1. ASSUME NEW i, NEW shape, Move(c, [r EXCEPT !.pc = "resolve", !.take = i, !.shape = shape])
        PROVE  Surfaces(request[c])'
    <3>1. [r EXCEPT !.pc = "resolve", !.take = i, !.shape = shape].pc = "resolve"
        BY DEF RequestState
    <3> QED BY <2>1, <3>1, MovedElsewhere
  <2> QED BY <1>1, <1>6, <2>1, FinishSurfaces DEF LookUpTake
<1>7. CASE ResolveConflict(c)
  <2>1. IdleRequest.pc = "idle"
      BY DEF IdleRequest
  <2>2. Move(c, IdleRequest)
      BY <1>7 DEF ResolveConflict, Swap, Finish
  <2> QED BY <2>1, <2>2, MovedElsewhere
<1>8. CASE StartUpload(c)
  <2>1. PICK u \in Units, h \in Hashes, activate \in Activates :
           \E s \in AcceptedShapes(Anchor[u].ref, RangeEnds) :
              LookUp(c, [IdleRequest EXCEPT !.unit = u, !.hash = h, !.shape = s,
                                            !.activate = activate])
      BY <1>8 DEF StartUpload
  <2>2. PICK s \in AcceptedShapes(Anchor[u].ref, RangeEnds) :
           LookUp(c, [IdleRequest EXCEPT !.unit = u, !.hash = h, !.shape = s,
                                         !.activate = activate])
      BY <2>1
  <2>3. s \in Shape /\ activate \in BOOLEAN
      BY AcceptedType, ActivatesAssumption
  <2>4. [IdleRequest EXCEPT !.unit = u, !.hash = h, !.shape = s,
                            !.activate = activate] \in RequestState
      BY <2>3, IdleType DEF RequestState
  <2> QED BY <2>2, <2>4, LookUpSurfaces
<1>9. CASE StartResolve(c)
  <2>1. PICK u \in Units :
           Move(c, [IdleRequest EXCEPT !.pc = "lookup", !.unit = u, !.snap = recording[u]])
      BY <1>9 DEF StartResolve
  <2>2. [IdleRequest EXCEPT !.pc = "lookup", !.unit = u, !.snap = recording[u]].pc = "lookup"
      BY DEF IdleRequest
  <2> QED BY <2>1, <2>2, MovedElsewhere
<1>10. CASE AnswerDuplicate(c) \/ ScanOverlaps(c) \/ Abort(c)
    BY <1>10, FinishSurfaces DEF AnswerDuplicate, ScanOverlaps, Abort
<1> QED BY <1>2, <1>3, <1>4, <1>5, <1>6, <1>7, <1>8, <1>9, <1>10

(* Only the request that a step serves moves.                              *)
LEMMA OthersStay ==
    ASSUME IInv, [Next]_vars
    PROVE  \/ UNCHANGED request
           \/ \E c \in Clients :
                 /\ \A d \in Clients \ {c} : request'[d] = request[d]
                 /\ \/ StartUpload(c) \/ StartResolve(c) \/ Proceed(c) \/ Abort(c)
<1>1. ASSUME NEW c \in Clients, NEW q, Move(c, q)
      PROVE  \A d \in Clients \ {c} : request'[d] = request[d]
    BY <1>1 DEF IInv, TypeOK, Move
<1>2. ASSUME NEW c \in Clients, StartUpload(c) \/ StartResolve(c) \/ Proceed(c) \/ Abort(c)
      PROVE  \E q : Move(c, q)
  <2>1. \A r : LookUp(c, r) => \E q : Move(c, q)
      BY DEF LookUp
  <2>2. \A row, p, q : Swap(c, row, p, q) => \E s : Move(c, s)
      BY DEF Swap, Finish
  <2>3. CASE StartUpload(c) \/ StartResolve(c) \/ Abort(c)
      BY <2>1, <2>3 DEF StartUpload, StartResolve, Abort, Finish
  <2>4. CASE UploadAgain(c) \/ CreateRecording(c) \/ JoinRecording(c) \/ InsertTake(c)
      BY <2>1, <2>4 DEF UploadAgain, CreateRecording, JoinRecording, InsertTake, Finish
  <2>5. CASE AnswerDuplicate(c) \/ UseDuplicate(c) \/ FindNothing(c) \/ ReadBack(c) \/ ScanOverlaps(c)
             \/ LookUpTake(c)
      BY <2>5 DEF AnswerDuplicate, UseDuplicate, FindNothing, ReadBack, ScanOverlaps, LookUpTake, Finish
  <2>6. CASE ReplaceActive(c) \/ FlagStaleBase(c) \/ PromoteDuplicate(c) \/ ResolveConflict(c)
      BY <2>2, <2>6 DEF ReplaceActive, FlagStaleBase, PromoteDuplicate, ResolveConflict
  <2>7. CASE RewriteCoverage(c) \/ MarkConflict(c)
      BY <2>7 DEF RewriteCoverage, MarkConflict, Finish
  <2> QED BY <1>2, <2>3, <2>4, <2>5, <2>6, <2>7 DEF Proceed
<1>3. CASE \E c \in Clients : StartUpload(c) \/ StartResolve(c) \/ Proceed(c) \/ Abort(c)
    BY <1>1, <1>2, <1>3
<1>4. CASE \/ \E c \in Clients : DeleteTake(c) \/ DeleteRecording(c)
           \/ ListSuperseded \/ PruneTakes \/ TimePasses \/ UNCHANGED vars
    BY <1>4 DEF DeleteTake, DeleteRecording, ListSuperseded, PruneTakes, TimePasses, vars
<1> QED BY <1>3, <1>4 DEF Next

(* What is shown is read from the tables after every step.                 *)
LEMMA NextObserves ==
    ASSUME [Next]_vars
    PROVE  Observe \/ UNCHANGED vars
<1>1. ASSUME NEW c \in Clients, Proceed(c) PROVE Observe
    BY <1>1 DEF Proceed, UploadAgain, CreateRecording, JoinRecording, AnswerDuplicate, UseDuplicate,
                FindNothing, InsertTake, ReplaceActive, FlagStaleBase, PromoteDuplicate,
                RewriteCoverage, MarkConflict, ReadBack, ScanOverlaps, LookUpTake, ResolveConflict
<1> QED BY <1>1 DEF Next, StartUpload, StartResolve, DeleteTake, DeleteRecording, Abort,
                    ListSuperseded, PruneTakes, TimePasses

(* Every step keeps the losers accounted for.                              *)
LEMMA LosersKept ==
    ASSUME IInv, IInv', ResolvesConflict, [Next]_vars, LosersSurfaced
    PROVE  LosersSurfaced'
<1>1. ContractStep /\ TakesKept
    BY NextContract, NextKeepsTakes
<1>2. \A c \in Clients : Surfaces(request[c])
    BY DEF LosersSurfaced, Surfaces, Accounted
<1>3. SUFFICES ASSUME NEW c \in Clients PROVE Surfaces(request[c])'
    BY DEF LosersSurfaced, Surfaces, Accounted
<1>4. CASE UNCHANGED vars
    BY <1>2, <1>4 DEF vars, Surfaces, Accounted, Present
<1>5. CASE Observe /\ request'[c] = request[c]
  <2> SUFFICES ASSUME request[c].pc \in {"readback", "scan"}, request[c].take \in DOMAIN take'
               PROVE  Accounted(request[c].take)'
      BY <1>5 DEF Surfaces, Accounted
  <2>1. PICK i : i = request[c].take
      OBVIOUS
  <2>2. i \in DOMAIN take
    <3>1. request[c].take < nextTake /\ request[c].take \in Nat /\ nextTake \in Nat
        BY DEF IInv, TypeOK, RequestInv, Holding, RequestState
    <3> QED BY <1>1, <2>1, <3>1 DEF TakesKept
  <2>3. Accounted(i)
      BY <1>2, <2>1, <2>2 DEF Surfaces
  <2>4. Accounted(i)'
      BY <1>1, <1>5, <2>1, <2>2, <2>3, AccountedKept
  <2> QED BY <1>5, <2>1, <2>4 DEF Accounted
<1>6. CASE StartUpload(c) \/ StartResolve(c) \/ Proceed(c) \/ Abort(c)
    BY <1>1, <1>2, <1>6, OthersSurface, CreateRecordingSurfaces, JoinRecordingSurfaces,
       ReplaceActiveSurfaces, FlagStaleBaseSurfaces, PromoteDuplicateSurfaces,
       RewriteCoverageSurfaces, MarkConflictSurfaces, ReadBackSurfaces DEF Proceed
<1>7. \/ request'[c] = request[c]
      \/ StartUpload(c) \/ StartResolve(c) \/ Proceed(c) \/ Abort(c)
    BY OthersStay
<1> QED BY <1>4, <1>5, <1>6, <1>7, NextObserves

(* No upload that goes to its read-back or its scan has a take that is     *)
(* unaccounted for: it was active or in an open conflict, or its unit       *)
(* stands resolved, whatever swaps the upload missed on the way and whoever *)
(* deleted or resolved meanwhile.  Nothing is said of uploads that find     *)
(* their bytes among the takes and answer from there.                       *)
THEOREM LosersAreSurfaced == Spec => []LosersSurfaced
<1>1. Init => ResolvesConflict /\ LosersSurfaced
    BY DEF Init, ResolvesConflict, LosersSurfaced, IdleRequest
<1>2. IInv /\ IInv' /\ ResolvesConflict /\ LosersSurfaced /\ [Next]_vars
      => ResolvesConflict' /\ LosersSurfaced'
    BY ResolvesConflictKept, LosersKept
<1> QED BY <1>1, <1>2, SpecIInv, PTL DEF Spec
=============================================================================
