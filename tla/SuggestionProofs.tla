-------------------------- MODULE SuggestionProofs --------------------------
(***************************************************************************)
(* Safety of AiActivation for any requests, units, verses and pericopes,   *)
(* and whatever is asked of the family: AskedOK.                           *)
(*                                                                         *)
(* The lock of the family makes the crossing one save's own: a save that   *)
(* is past the lock has measured the family under it, or has found it past *)
(* the threshold already (Saving).  Nobody asks for suggestions before     *)
(* somebody knows of the crossing (Asking).  What the backfill of a save   *)
(* has covered stays covered (Covers), so that what it has read may be     *)
(* sent later (Backfilled).                                                *)
(*                                                                         *)
(* After it the suggested titles of PericopeHeadings.                      *)
(***************************************************************************)
EXTENDS AiActivation, TLAPS, FiniteSets, FiniteSetTheorems

(* Somebody has claimed the crossing, or an import has brought drafts.     *)
Informed == history.claimed \/ history.imported

(* What a save knows of the family between its lock and its commit.        *)
Saving(r, q) ==
    /\ q.pc \in {"lock", "write", "measure", "commit"} => q.kind = "save" /\ q.content # "imported"
    /\ q.pc = "lock" => ~q.before /\ ~q.crossed
    /\ q.pc \in {"write", "measure", "commit"} =>
          /\ q.before => Informed
          /\ ~q.before => lock = r /\ ~history.claims
          /\ q.crossed => ~q.before /\ q.pc = "commit"
    /\ q.pc = "measure" => ~q.before
    /\ q.pc = "commit" /\ ~q.before /\ ~q.crossed /\ ~Informed =>
          ~ReachedWith([draft EXCEPT ![Pair(q)] = q.content])

(* The chapters of a backfill, and who may ask for suggestions.            *)
Asking(q) ==
    /\ q.kind = "save" /\ q.pc \in {"gate", "read", "send"} =>
          /\ Informed /\ q.crossed
          /\ q.todo = <<q.verse[1], q.verse[1] + 1>> \/ q.todo = <<q.verse[1] + 1>>
    /\ q.kind = "save" => q.pc # "met"
    /\ q.pc = "read" /\ q.kind # "pericopes" => Informed
    /\ q.pc = "send" => Informed

(* The verses of the pericope of a saved verse, and of the next one.       *)
Target(q) ==
    LET c == q.verse[1] IN
    UNION {In(c, Groups[c][j]) : j \in DOMAIN Groups[c] \cap
              UNION {{i, i + 1} : i \in {k \in DOMAIN Groups[c] : q.verse[2] \in Groups[c][k]}}}
TargetCovered(q) == \A v \in Target(q) : Covered(<<q.unit, v>>)

(* A save whose backfill is to be complete.                                *)
Concerned(q) ==
    /\ q.kind = "save" /\ q.crossed
    /\ EnabledIn(q.unit, q.verse[1]) /\ Steady(q.unit, q.verse[1]) /\ ~history.cleared
Backfilled(q) ==
    Concerned(q) =>
        /\ q.pc = "send" /\ q.todo # <<q.verse[1] + 1>> =>
              \A v \in Target(q) : <<q.unit, v>> \in q.wanted \/ Covered(<<q.unit, v>>)
        /\ \/ q.pc = "done"
           \/ q.pc \in {"gate", "read", "send"} /\ q.todo = <<q.verse[1] + 1>>
           => q.result # "ok" \/ TargetCovered(q)

Demand == DOMAIN job # {} \/ generating # {} => Informed

IInv ==
    /\ TypeOK
    /\ history.claims => Reached
    /\ Reached => Informed
    /\ Demand
    /\ \A r \in Requests : Saving(r, request[r]) /\ Asking(request[r]) /\ Backfilled(request[r])

-----------------------------------------------------------------------------
(* Records of requests.                                                    *)

(* The record of a request that has not begun.                             *)
LEMMA IdleIs ==
    ASSUME AskedOK
    PROVE  /\ Idle \in Request
           /\ Idle.pc = "idle" /\ Idle.kind = "none" /\ Idle.content = "absent"
           /\ ~Idle.before /\ ~Idle.crossed /\ Idle.todo = <<>> /\ Idle.wanted = {}
           /\ Idle.result = "none"
<1> DEFINE u == CHOOSE w \in Units : TRUE
           v == CHOOSE w \in Verses : TRUE
<1>1. u \in Units /\ v \in Verses
    BY DEF AskedOK
<1>2. Idle = [pc |-> "idle", kind |-> "none", unit |-> u, verse |-> v, content |-> "absent",
              before |-> FALSE, crossed |-> FALSE, todo |-> <<>>, wanted |-> {}, result |-> "none"]
    BY DEF Idle
<1> HIDE DEF u, v
<1> QED BY <1>1, <1>2 DEF Request, Steps, Contents, Kinds

(* One that has just begun.                                                *)
LEMMA BeginIs ==
    ASSUME AskedOK, NEW k \in Kinds, NEW u \in Units, NEW v \in Verses, NEW c \in Contents,
           NEW b \in Request, b = Begin(k, u, v, c)
    PROVE  b.kind = k /\ b.unit = u /\ b.verse = v /\ b.content = c /\ ~b.crossed
<1>1. PICK i \in Request : i = Idle
    BY IdleIs
<1>2. b = [i EXCEPT !.kind = k, !.unit = u, !.verse = v, !.content = c]
    BY <1>1 DEF Begin
<1>3. b.kind = k /\ b.unit = u /\ b.verse = v /\ b.content = c /\ b.crossed = i.crossed
    BY <1>2 DEF Request
<1> QED BY <1>1, <1>3, IdleIs

(* It is one, too.                                                         *)
LEMMA BeginTyped ==
    ASSUME AskedOK, NEW k \in Kinds, NEW u \in Units, NEW v \in Verses, NEW c \in Contents
    PROVE  Begin(k, u, v, c) \in Request
<1>1. PICK i \in Request : i = Idle
    BY IdleIs
<1>2. Begin(k, u, v, c) = [i EXCEPT !.kind = k, !.unit = u, !.verse = v, !.content = c]
    BY <1>1 DEF Begin
<1> QED BY <1>2 DEF Request

(* One that is over.                                                       *)
LEMMA DoneIs ==
    ASSUME AskedOK, NEW q \in Request, NEW result \in {"none", "ok", "failed"},
           NEW d, d = Done(q, result)
    PROVE  /\ d \in Request
           /\ d.pc = "done" /\ d.kind = q.kind /\ d.unit = q.unit /\ d.verse = q.verse
           /\ d.crossed = q.crossed /\ d.result = result
<1>1. PICK i \in Request : i = Idle
    BY IdleIs
<1>2. d = [i EXCEPT !.pc = "done", !.kind = q.kind, !.unit = q.unit, !.verse = q.verse,
                    !.crossed = q.crossed, !.result = result]
    BY <1>1 DEF Done
<1>3. d \in Request
    BY <1>2 DEF Request, Steps
<1>4. /\ d.pc = "done" /\ d.kind = q.kind /\ d.unit = q.unit /\ d.verse = q.verse
      /\ d.crossed = q.crossed /\ d.result = result
    BY <1>2 DEF Request
<1> QED BY <1>3, <1>4

(* What a request is, read once.                                           *)
LEMMA Itself ==
    ASSUME IInv, NEW r \in Requests
    PROVE  \E q \in Request :
              q = request[r] /\ Saving(r, q) /\ Asking(q) /\ Backfilled(q)
BY DEF IInv, TypeOK

(* The pair of a request, and the chapters it may go to.                   *)
LEMMA PairTyped ==
    ASSUME AskedOK, NEW q \in Request
    PROVE  /\ Pair(q) \in Pairs /\ q.verse[1] \in Chapters /\ q.verse[1] \in Nat
           /\ q.verse[1] + 1 \in Nat
<1>1. q.unit \in Units /\ q.verse \in Verses
    BY DEF Request
<1>2. q.verse \in Nat \X Nat
    BY <1>1 DEF AskedOK
<1> QED BY <1>1, <1>2 DEF Pair, Pairs, Chapters

-----------------------------------------------------------------------------
(* What is known and covered stays so.                                     *)
Steadily == \A u \in Units, c \in Chapters : Steady(u, c) => (EnabledIn(u, c)' <=> EnabledIn(u, c))
Covers == ~history.cleared' => ~history.cleared /\ \A p \in Pairs : Covered(p) => Covered(p)'
Stable == Steadily /\ Covers /\ (Informed => Informed')

(* Nobody forgets the crossing.                                            *)
LEMMA AskingKept ==
    ASSUME NEW q, Asking(q), Informed => Informed'
    PROVE  Asking(q)'
BY DEF Asking

(* Nor is a backfill undone by a step of somebody else.                    *)
LEMMA BackfilledKept ==
    ASSUME AskedOK, NEW q \in Request, Backfilled(q), Stable
    PROVE  Backfilled(q)'
<1>1. q.verse[1] \in Chapters /\ q.unit \in Units
    BY PairTyped DEF Request
<1>2. SUFFICES ASSUME Concerned(q)'
               PROVE  Backfilled(q)'
    BY DEF Backfilled
<1>3. Concerned(q) /\ ~history.cleared'
    BY <1>1, <1>2 DEF Concerned, Stable, Steadily, Covers, Steady
<1>4. \A v \in Target(q) : <<q.unit, v>> \in Pairs
    BY <1>1 DEF Target, In, Pairs
<1>5. \A v \in Target(q) : Covered(<<q.unit, v>>) => Covered(<<q.unit, v>>)'
    BY <1>3, <1>4 DEF Stable, Covers
<1>6. Target(q)' = Target(q)
    BY DEF Target, In
<1> QED BY <1>3, <1>5, <1>6 DEF Backfilled, TargetCovered

-----------------------------------------------------------------------------
(* The steps of requests that write no draft.                              *)

(* A request moves, may change the switches of chapters, and sends jobs.   *)
LEMMA RequestStep ==
    ASSUME AskedOK, IInv, NEW r \in Requests, NEW new \in Request,
           request' = [request EXCEPT ![r] = new],
           UNCHANGED <<draft, history, suggested, batch, generating>>,
           toggle' \in [Units \X Chapters -> {"none", "off", "on"}], Steadily,
           lock' \in Requests \cup {Nobody}, \A o \in Requests \ {r} : lock = o => lock' = o,
           DOMAIN job \subseteq DOMAIN job', DOMAIN job' \subseteq Pairs,
           \A p \in DOMAIN job' : job'[p] \in 0 .. Retries, DOMAIN job' # {} => Informed,
           Saving(r, new)', Asking(new), Backfilled(new)'
    PROVE  IInv'
<1>1. TypeOK'
    BY DEF IInv, TypeOK
<1>2. Stable /\ (Informed <=> Informed') /\ (Reached <=> Reached')
    BY DEF Stable, Covers, Covered, Informed, Reached
<1>3. Demand'
    BY <1>2 DEF IInv, Demand
<1>4. ASSUME NEW o \in Requests
      PROVE  Saving(o, request[o])' /\ Asking(request[o])' /\ Backfilled(request[o])'
  <2>1. CASE o = r
    <3>1. request'[o] = new
        BY <2>1 DEF IInv, TypeOK
    <3>2. Asking(new)'
        BY <1>2, AskingKept
    <3> QED BY <2>1, <3>1, <3>2
  <2>2. CASE o # r
    <3>1. PICK q \in Request : q = request[o] /\ Saving(o, q) /\ Asking(q) /\ Backfilled(q)
        BY Itself
    <3>2. request'[o] = q
        BY <2>2, <3>1 DEF IInv, TypeOK
    <3>3. Saving(o, q)'
        BY <2>2, <3>1 DEF Saving, Informed
    <3>4. Asking(q)'
        BY <1>2, <3>1, AskingKept
    <3>5. Backfilled(q)'
        BY <1>2, <3>1, BackfilledKept
    <3> QED BY <3>2, <3>3, <3>4, <3>5
  <2> QED BY <2>1, <2>2
<1> QED BY <1>1, <1>2, <1>3, <1>4 DEF IInv

(* A request moves and takes or leaves the lock.                           *)
LEMMA QuietStep ==
    ASSUME AskedOK, IInv, NEW r \in Requests, NEW new \in Request,
           request' = [request EXCEPT ![r] = new],
           UNCHANGED <<draft, history, suggested, batch, generating, toggle, job>>,
           lock' \in Requests \cup {Nobody}, \A o \in Requests \ {r} : lock = o => lock' = o,
           Saving(r, new)', Asking(new), Backfilled(new)
    PROVE  IInv'
<1>1. Stable
    BY DEF Stable, Steadily, Covers, Covered, EnabledIn, Informed
<1>2. Backfilled(new)'
    BY <1>1, BackfilledKept
<1> QED BY <1>1, <1>2, RequestStep DEF IInv, TypeOK, Stable, Demand

(* What the invariant says of the lock, and of the threshold.              *)
LEMMA Known ==
    ASSUME IInv
    PROVE  /\ lock \in Requests \cup {Nobody} /\ Reached \in BOOLEAN
           /\ (history.claims => Reached) /\ (Reached => Informed)
BY DEF IInv, TypeOK, Reached, ReachedWith

(* A save finds the family past the threshold, or goes for its lock.       *)
LEMMA SaveKeeps ==
    ASSUME AskedOK, IInv, NEW r \in Requests, NEW s \in Saves, Save(r, s)
    PROVE  IInv'
<1>1. s.unit \in Units /\ s.verse \in Verses /\ s.content \in {"empty", "blank", "words"}
    BY DEF AskedOK
<1>2. PICK b \in Request :
         /\ b = Begin("save", s.unit, s.verse, s.content)
         /\ b.kind = "save" /\ b.content = s.content /\ ~b.crossed
  <2>1. s.content \in Contents
      BY <1>1 DEF Contents
  <2>2. PICK b \in Request : b = Begin("save", s.unit, s.verse, s.content)
      BY <1>1, <2>1, BeginTyped DEF Kinds
  <2>3. b.kind = "save" /\ b.content = s.content /\ ~b.crossed
      BY <1>1, <2>1, <2>2, BeginIs DEF Kinds
  <2> QED BY <2>2, <2>3
<1>3. PICK past \in BOOLEAN : past = Reached
    BY Known
<1> DEFINE new == [b EXCEPT !.pc = IF past THEN "write" ELSE "lock", !.before = past]
<1>4. request' = [request EXCEPT ![r] = new]
    BY <1>2, <1>3 DEF Save, Move
<1>5. new \in Request
    BY DEF Request, Steps
<1>6. /\ new.pc = (IF past THEN "write" ELSE "lock") /\ new.before = past
      /\ new.kind = "save" /\ new.content = s.content /\ ~new.crossed
    BY <1>2 DEF Request
<1> HIDE DEF new
<1>7. UNCHANGED <<draft, history, suggested, batch, generating, toggle, job, lock>>
    BY DEF Save, UnchangedByRequests
<1>8. Saving(r, new)'
  <2>1. past => Informed'
      BY <1>3, <1>7, Known DEF Informed
  <2> QED BY <1>1, <1>6, <2>1 DEF Saving
<1>9. Asking(new) /\ Backfilled(new)
    BY <1>6 DEF Asking, Backfilled, Concerned
<1> QED BY <1>4, <1>5, <1>7, <1>8, <1>9, QuietStep, Known

(* Under the lock a save measures the family.                              *)
LEMMA LockKeeps ==
    ASSUME AskedOK, IInv, NEW r \in Requests, Lock(r)
    PROVE  IInv'
<1>1. PICK q \in Request : q = request[r] /\ Saving(r, q) /\ Asking(q) /\ Backfilled(q)
    BY Itself
<1>2. PICK past \in BOOLEAN : past = Reached
    BY Known
<1> DEFINE new == [q EXCEPT !.pc = "write", !.before = past]
<1>3. new \in Request
    BY DEF Request, Steps
<1>4. /\ new.pc = "write" /\ new.before = past /\ new.kind = q.kind /\ new.content = q.content
      /\ new.crossed = q.crossed
    BY DEF Request
<1>5. request' = [request EXCEPT ![r] = new]
    BY <1>1, <1>2 DEF Lock, Move
<1> HIDE DEF new
<1>6. UNCHANGED <<draft, history, suggested, batch, generating, toggle, job>>
      /\ q.pc = "lock" /\ lock = Nobody /\ lock' = r
    BY <1>1 DEF Lock, UnchangedByRequests
<1>7. Saving(r, new)'
  <2>1. (past => Informed') /\ (~past => ~history'.claims)
      BY <1>2, <1>6, Known DEF Informed
  <2> QED BY <1>1, <1>4, <1>6, <2>1 DEF Saving
<1>8. Asking(new) /\ Backfilled(new)
    BY <1>1, <1>4, <1>6 DEF Saving, Asking, Backfilled, Concerned
<1>9. \A o \in Requests \ {r} : lock = o => lock' = o
    BY <1>6 DEF AskedOK
<1>10. lock' \in Requests \cup {Nobody}
    BY <1>6
<1> QED BY <1>3, <1>5, <1>6, <1>7, <1>8, <1>9, <1>10, QuietStep

(* The write waits for the rows other saves hold.                          *)
LEMMA WriteKeeps ==
    ASSUME AskedOK, IInv, NEW r \in Requests, Write(r)
    PROVE  IInv'
<1>1. PICK q \in Request : q = request[r] /\ Saving(r, q) /\ Asking(q) /\ Backfilled(q)
    BY Itself
<1> DEFINE new == [q EXCEPT !.pc = IF q.before THEN "commit" ELSE "measure"]
<1>2. new \in Request
    BY DEF Request, Steps
<1>3. /\ new.pc = (IF q.before THEN "commit" ELSE "measure") /\ new.before = q.before
      /\ new.kind = q.kind /\ new.content = q.content /\ new.crossed = q.crossed
    BY DEF Request
<1>4. request' = [request EXCEPT ![r] = new]
    BY <1>1 DEF Write, Move
<1> HIDE DEF new
<1>5. UNCHANGED <<draft, history, suggested, batch, generating, toggle, job, lock>> /\ q.pc = "write"
    BY <1>1 DEF Write, UnchangedByRequests
<1>6. Saving(r, new)'
    BY <1>1, <1>3, <1>5 DEF Saving, Informed
<1>7. Asking(new) /\ Backfilled(new)
    BY <1>1, <1>3, <1>5 DEF Saving, Asking, Backfilled, Concerned
<1> QED BY <1>2, <1>4, <1>5, <1>6, <1>7, QuietStep, Known

(* The measurement after the write, of what the commit will make visible.  *)
LEMMA MeasureKeeps ==
    ASSUME AskedOK, IInv, NEW r \in Requests, Measure(r)
    PROVE  IInv'
<1>1. PICK q \in Request : q = request[r] /\ Saving(r, q) /\ Asking(q) /\ Backfilled(q)
    BY Itself
<1>2. PICK past \in BOOLEAN : past = ReachedWith([draft EXCEPT ![Pair(q)] = q.content])
  <2>1. ReachedWith([draft EXCEPT ![Pair(q)] = q.content]) \in BOOLEAN
      BY DEF ReachedWith
  <2> QED BY <2>1
<1> DEFINE new == [q EXCEPT !.pc = "commit", !.crossed = past]
<1>3. request' = [request EXCEPT ![r] = new]
    BY <1>1, <1>2 DEF Measure, Move
<1>4. UNCHANGED <<draft, history, suggested, batch, generating, toggle, job, lock>> /\ q.pc = "measure"
    BY <1>1 DEF Measure, UnchangedByRequests
<1>5. new.crossed = past /\ Pair(new) = Pair(q) /\ new.content = q.content
    BY DEF Request, Pair
<1>6. past <=> ReachedWith([draft EXCEPT ![Pair(new)] = new.content])'
    BY <1>2, <1>4, <1>5
<1>7. new \in Request
    BY DEF Request, Steps
<1>8. /\ new.pc = "commit" /\ new.before = q.before /\ new.kind = q.kind
      /\ new.content = q.content /\ new.crossed = past
    BY DEF Request
<1> HIDE DEF new
<1>9. Saving(r, new)'
  <2>1. lock' = lock /\ history' = history
      BY <1>4
  <2> QED BY <1>1, <1>4, <1>6, <1>8, <2>1 DEF Saving
<1>10. Asking(new) /\ Backfilled(new)
    BY <1>1, <1>4, <1>8 DEF Saving, Asking, Backfilled, Concerned
<1> QED BY <1>3, <1>4, <1>7, <1>9, <1>10, QuietStep, Known

(* Whatever fails is over, and its lock with it.                           *)
LEMMA FailKeeps ==
    ASSUME AskedOK, IInv, NEW r \in Requests, Fail(r)
    PROVE  IInv'
<1>1. PICK q \in Request : q = request[r] /\ Saving(r, q) /\ Asking(q) /\ Backfilled(q)
    BY Itself
<1>2. PICK new \in Request :
         /\ new = Done(q, "failed") /\ new.pc = "done" /\ new.kind = q.kind /\ new.result = "failed"
    BY DoneIs
<1>3. request' = [request EXCEPT ![r] = new]
    BY <1>1, <1>2 DEF Fail, Move
<1>4. UNCHANGED <<draft, history, suggested, batch, generating, toggle, job>>
      /\ lock' = IF lock = r THEN Nobody ELSE lock
    BY DEF Fail, UnchangedByRequests
<1>5. Saving(r, new)' /\ Asking(new) /\ Backfilled(new)
    BY <1>2 DEF Saving, Asking, Backfilled
<1>6. lock' \in Requests \cup {Nobody}
    BY <1>4 DEF IInv, TypeOK
<1> QED BY <1>3, <1>4, <1>5, <1>6, QuietStep

-----------------------------------------------------------------------------
(* Which verses are queued, and when.                                      *)

(* The chapters a save goes through.                                       *)
LEMMA TwoChapters ==
    ASSUME NEW c \in Nat
    PROVE  /\ Len(<<c, c + 1>>) = 2 /\ Head(<<c, c + 1>>) = c /\ Tail(<<c, c + 1>>) = <<c + 1>>
           /\ Len(<<c + 1>>) = 1 /\ Head(<<c + 1>>) = c + 1 /\ <<c, c + 1>> # <<c + 1>>
OBVIOUS

(* It goes on after the first of them only.                                *)
LEMMA NotTheLast ==
    ASSUME NEW c \in Nat, NEW todo, todo = <<c, c + 1>> \/ todo = <<c + 1>>,
           NEW k \in Nat, k = Len(todo), k > 1
    PROVE  todo = <<c, c + 1>> /\ Tail(todo) = <<c + 1>>
<1>1. todo = <<c, c + 1>>
    OBVIOUS
<1> QED BY <1>1, TwoChapters

(* After a chapter a request goes on to the next one, or is over.          *)
LEMMA Next1Is ==
    ASSUME AskedOK, NEW q \in Request, NEW n, n = Next1(q)
    PROVE  /\ n \in Request
           /\ n.kind = q.kind /\ n.unit = q.unit /\ n.verse = q.verse /\ n.result = q.result
           /\ n.crossed = q.crossed
           /\ \/ n.pc = "gate" /\ Len(q.todo) > 1 /\ n.todo = Tail(q.todo)
              \/ n.pc = "done" /\ ~(Len(q.todo) > 1)
<1>1. CASE Len(q.todo) > 1
  <2>1. n = [q EXCEPT !.pc = "gate", !.todo = Tail(q.todo), !.wanted = {}]
      BY <1>1 DEF Next1
  <2>2. q.todo \in Seq(Nat) /\ q.todo # <<>>
      BY <1>1 DEF Request
  <2>3. Tail(q.todo) \in Seq(Nat)
      BY <2>2
  <2>4. n \in Request
      BY <2>1, <2>3 DEF Request, Steps
  <2> QED BY <1>1, <2>1, <2>4 DEF Request
<1>2. CASE ~(Len(q.todo) > 1)
  <2>1. n = Done(q, q.result) /\ q.result \in {"none", "ok", "failed"}
      BY <1>2 DEF Next1, Request
  <2> QED BY <1>2, <2>1, DoneIs
<1> QED BY <1>1, <1>2

(* A save that goes on goes on to the chapter after its own.               *)
LEMMA Next1Asking ==
    ASSUME AskedOK, NEW q \in Request, NEW n \in Request, n = Next1(q), Asking(q),
           q.pc \in {"gate", "read", "met", "send"}
    PROVE  Asking(n) /\ (n.kind = "save" /\ n.pc = "gate" => n.todo = <<n.verse[1] + 1>>)
<1>1. /\ n.kind = q.kind /\ n.verse = q.verse /\ n.crossed = q.crossed
      /\ \/ n.pc = "gate" /\ Len(q.todo) > 1 /\ n.todo = Tail(q.todo)
         \/ n.pc = "done" /\ ~(Len(q.todo) > 1)
    BY Next1Is
<1>2. ASSUME q.kind = "save", n.pc = "gate"
      PROVE  Informed /\ q.crossed /\ n.todo = <<q.verse[1] + 1>>
  <2>1. Informed /\ q.crossed /\ (q.todo = <<q.verse[1], q.verse[1] + 1>> \/ q.todo = <<q.verse[1] + 1>>)
      BY <1>2 DEF Asking
  <2>2. PICK c \in Nat : c = q.verse[1]
      BY PairTyped
  <2>3. q.todo = <<c, c + 1>> \/ q.todo = <<c + 1>>
      BY <2>1, <2>2
  <2>4. n.todo = Tail(q.todo)
      BY <1>1, <1>2
  <2>5. PICK k \in Nat : k = Len(q.todo)
      BY DEF Request
  <2>6. k > 1
      BY <1>1, <1>2, <2>5
  <2> QED BY <2>1, <2>2, <2>3, <2>4, <2>5, <2>6, NotTheLast
<1> QED BY <1>1, <1>2 DEF Asking

(* What a call begins with.                                                *)
LEMMA CallKeeps ==
    ASSUME AskedOK, IInv, NEW r \in Requests, NEW call \in Calls, Call(r, call)
    PROVE  IInv'
<1>1. call.unit \in Units /\ call.verse \in Verses /\ call.kind \in {"assign", "navigate", "pericopes"}
    BY DEF AskedOK, Call
<1>2. PICK b \in Request :
         b = Begin(call.kind, call.unit, call.verse, "absent") /\ b.kind = call.kind
  <2>1. "absent" \in Contents /\ call.kind \in Kinds
      BY <1>1 DEF Contents, Kinds
  <2>2. PICK b \in Request : b = Begin(call.kind, call.unit, call.verse, "absent")
      BY <1>1, <2>1, BeginTyped
  <2>3. b.kind = call.kind
      BY <1>1, <2>1, <2>2, BeginIs
  <2> QED BY <2>2, <2>3
<1> DEFINE new == [b EXCEPT !.pc = IF call.kind = "pericopes" THEN "read" ELSE "gate",
                            !.todo = <<call.verse[1]>>, !.result = "ok"]
<1>3. request' = [request EXCEPT ![r] = new]
    BY <1>2 DEF Call, Move
<1>4. new \in Request
  <2>1. call.verse[1] \in Nat
      BY <1>1 DEF AskedOK
  <2>2. <<call.verse[1]>> \in Seq(Nat)
      BY <2>1
  <2> QED BY <2>2 DEF Request, Steps
<1>5. /\ new.pc = (IF call.kind = "pericopes" THEN "read" ELSE "gate") /\ new.kind = call.kind
    BY <1>2 DEF Request
<1> HIDE DEF new
<1>6. UNCHANGED <<draft, history, suggested, batch, generating, toggle, job, lock>>
    BY DEF Call, UnchangedByRequests
<1>7. Saving(r, new)' /\ Asking(new) /\ Backfilled(new)
    BY <1>1, <1>5 DEF Saving, Asking, Backfilled, Concerned
<1> QED BY <1>3, <1>4, <1>6, <1>7, QuietStep, Known

(* The gates: a save that has crossed passes those of a chapter that is    *)
(* switched on.                                                            *)
LEMMA GateKeeps ==
    ASSUME AskedOK, IInv, NEW r \in Requests, Gate(r)
    PROVE  IInv'
<1>1. PICK q \in Request : q = request[r] /\ Saving(r, q) /\ Asking(q) /\ Backfilled(q)
    BY Itself
<1>2. UNCHANGED <<draft, history, suggested, batch, generating, toggle, job, lock>> /\ q.pc = "gate"
    BY <1>1 DEF Gate, UnchangedByRequests
<1>3. CASE Open(q)
  <2> DEFINE new == [q EXCEPT !.pc = "read"]
  <2>1. request' = [request EXCEPT ![r] = new]
      BY <1>1, <1>3 DEF Gate, Move
  <2>2. new \in Request
      BY DEF Request, Steps
  <2>3. /\ new.pc = "read" /\ new.kind = q.kind /\ new.unit = q.unit /\ new.verse = q.verse
        /\ new.crossed = q.crossed /\ new.todo = q.todo /\ new.result = q.result
      BY DEF Request
  <2> HIDE DEF new
  <2>4. q.kind # "save" => Informed
      BY <1>3, Known DEF Open
  <2>5. Saving(r, new)' /\ Asking(new) /\ Backfilled(new)
      BY <1>1, <1>2, <2>3, <2>4 DEF Saving, Asking, Backfilled, Concerned, TargetCovered, Target
  <2> QED BY <1>2, <2>1, <2>2, <2>5, QuietStep, Known
<1>4. CASE ~Open(q)
  <2>1. PICK new \in Request : new = Next1(q)
      BY Next1Is
  <2>2. request' = [request EXCEPT ![r] = new]
      BY <1>1, <1>4, <2>1 DEF Gate, Move
  <2>3. /\ new.kind = q.kind /\ new.unit = q.unit /\ new.verse = q.verse
        /\ new.crossed = q.crossed /\ new.result = q.result /\ new.pc \in {"gate", "done"}
      BY <2>1, Next1Is
  <2>4. Asking(new)
      BY <1>1, <1>2, <2>1, Next1Asking
  <2>5. Backfilled(new)
    <3> SUFFICES ASSUME Concerned(new) PROVE q.result # "ok" \/ TargetCovered(q)
        BY <2>3 DEF Backfilled, TargetCovered, Target
    <3>1. Concerned(q)
        BY <2>3 DEF Concerned
    <3>2. PICK c \in Nat : c = q.verse[1]
        BY PairTyped
    <3>3. q.todo = <<c, c + 1>> \/ q.todo = <<c + 1>>
        BY <1>1, <1>2, <3>1, <3>2 DEF Asking, Concerned
    <3>4. q.todo # <<c, c + 1>>
        BY <1>4, <3>1, <3>2, TwoChapters DEF Open, Concerned
    <3> QED BY <1>1, <1>2, <3>1, <3>2, <3>3, <3>4 DEF Backfilled
  <2>6. Saving(r, new)'
      BY <2>3 DEF Saving
  <2> QED BY <1>2, <2>2, <2>4, <2>5, <2>6, QuietStep, Known
<1> QED BY <1>3, <1>4

(* What is wanted are verses.                                              *)
LEMMA WantedVerses ==
    ASSUME NEW q \in Request
    PROVE  Wanted(q) \subseteq Verses
<1>1. \A c, group : In(c, group) \subseteq Verses
    BY DEF In
<1>2. \A u, c, n, k : NextNeedy(u, c, n, k) \subseteq Verses
    BY DEF NextNeedy, Needy
<1>3. FromVerse(q.unit, q.verse) \subseteq Verses
    BY <1>1, <1>2 DEF FromVerse, Needy
<1>4. FirstPericope(q.unit, Head(q.todo)) \subseteq Verses
    BY <1>1, <1>2 DEF FirstPericope, Needy
<1> QED BY <1>1, <1>3, <1>4 DEF Wanted

(* The verses of a pericope are wanted unless they are covered.            *)
LEMMA TargetWanted ==
    ASSUME AskedOK, NEW q \in Request, NEW v \in Target(q)
    PROVE  v \in FromVerse(q.unit, q.verse) \/ Covered(<<q.unit, v>>)
<1> DEFINE c == q.verse[1]
           at == {i \in DOMAIN Groups[c] : q.verse[2] \in Groups[c][i]}
<1>1. PICK j \in DOMAIN Groups[c] \cap UNION {{i, i + 1} : i \in at} : v \in In(c, Groups[c][j])
    BY DEF Target
<1>2. Groups[c] # <<>>
    BY <1>1
<1>3. v \in Needy(q.unit, UNION {In(c, Groups[c][i]) : i \in DOMAIN Groups[c] \cap UNION {{k, k + 1} : k \in at}})
         \/ Covered(<<q.unit, v>>)
    BY <1>1 DEF Needy, Covered
<1> QED BY <1>2, <1>3 DEF FromVerse

(* A request that has no more to ask of its chapter goes on.               *)
LEMMA GoesOn ==
    ASSUME AskedOK, IInv, NEW r \in Requests, NEW q \in Request, Asking(q),
           q.pc \in {"gate", "read", "met", "send"}, q.kind # "save",
           request' = [request EXCEPT ![r] = Next1(q)],
           UNCHANGED <<draft, history, suggested, batch, generating, toggle, job, lock>>
    PROVE  IInv'
<1>1. PICK new \in Request : new = Next1(q)
    BY Next1Is
<1>2. new.kind = q.kind /\ new.pc \in {"gate", "done"}
    BY <1>1, Next1Is
<1>3. Asking(new)
    BY <1>1, Next1Asking
<1>4. Saving(r, new)' /\ Backfilled(new)
    BY <1>2 DEF Saving, Backfilled, Concerned
<1> QED BY <1>1, <1>3, <1>4, QuietStep, Known

(* The verses are read: what a backfill has not found is covered.          *)
LEMMA ReadKeeps ==
    ASSUME AskedOK, IInv, NEW r \in Requests, Read(r)
    PROVE  IInv'
<1>1. PICK q \in Request : q = request[r] /\ Saving(r, q) /\ Asking(q) /\ Backfilled(q)
    BY Itself
<1>2. UNCHANGED <<draft, history, suggested, batch, generating, toggle, job, lock>> /\ q.pc = "read"
    BY <1>1 DEF Read, UnchangedByRequests
<1>3. PICK pairs \in SUBSET Pairs : pairs = {<<q.unit, v>> : v \in Wanted(q)}
  <2>1. q.unit \in Units
      BY DEF Request
  <2>2. {<<q.unit, v>> : v \in Wanted(q)} \in SUBSET Pairs
      BY <2>1, WantedVerses DEF Pairs
  <2> QED BY <2>2
<1>4. CASE q.kind = "pericopes" /\ ~EnabledIn(q.unit, q.verse[1])
  <2>1. request' = [request EXCEPT ![r] = Next1(q)]
      BY <1>1, <1>4 DEF Read, Move
  <2> QED BY <1>1, <1>2, <1>4, <2>1, GoesOn
<1>5. CASE q.kind = "pericopes" /\ EnabledIn(q.unit, q.verse[1])
  <2> DEFINE new == [q EXCEPT !.pc = "met", !.wanted = pairs]
  <2>1. request' = [request EXCEPT ![r] = new]
      BY <1>1, <1>3, <1>5 DEF Read, Move
  <2>2. new \in Request
      BY DEF Request, Steps
  <2>3. new.pc = "met" /\ new.kind = "pericopes"
      BY <1>5 DEF Request
  <2> HIDE DEF new
  <2>4. Saving(r, new)' /\ Asking(new) /\ Backfilled(new)
      BY <2>3 DEF Saving, Asking, Backfilled, Concerned
  <2> QED BY <1>2, <2>1, <2>2, <2>4, QuietStep, Known
<1>6. CASE q.kind # "pericopes"
  <2> DEFINE new == [q EXCEPT !.pc = "send", !.wanted = pairs]
  <2>1. request' = [request EXCEPT ![r] = new]
      BY <1>1, <1>3, <1>6 DEF Read, Move
  <2>2. new \in Request
      BY DEF Request, Steps
  <2>3. /\ new.pc = "send" /\ new.kind = q.kind /\ new.unit = q.unit /\ new.verse = q.verse
        /\ new.crossed = q.crossed /\ new.todo = q.todo /\ new.result = q.result
        /\ new.wanted = pairs
      BY DEF Request
  <2> HIDE DEF new
  <2>4. Saving(r, new)' /\ Asking(new)
      BY <1>1, <1>2, <1>6, <2>3 DEF Saving, Asking
  <2>5. Backfilled(new)
    <3>1. Concerned(new) => Concerned(q)
        BY <2>3 DEF Concerned
    <3>2. Target(new) = Target(q) /\ (TargetCovered(q) => TargetCovered(new))
        BY <2>3 DEF Target, TargetCovered
    <3>3. Concerned(q) /\ q.todo = <<q.verse[1] + 1>> => q.result # "ok" \/ TargetCovered(q)
        BY <1>1, <1>2 DEF Backfilled
    <3>4. ASSUME Concerned(q), q.todo # <<q.verse[1] + 1>>, NEW v \in Target(q)
          PROVE  <<q.unit, v>> \in pairs \/ Covered(<<q.unit, v>>)
      <4>1. PICK c \in Nat : c = q.verse[1]
          BY PairTyped
      <4>2. q.todo = <<c, c + 1>>
          BY <1>1, <1>2, <3>4, <4>1 DEF Asking, Concerned
      <4>3. Head(q.todo) = q.verse[1]
          BY <4>1, <4>2, TwoChapters
      <4>4. Wanted(q) = FromVerse(q.unit, q.verse)
          BY <3>4, <4>3 DEF Wanted, Concerned
      <4> QED BY <1>3, <3>4, <4>4, TargetWanted
    <3> QED BY <2>3, <3>1, <3>2, <3>3, <3>4 DEF Backfilled
  <2> QED BY <1>2, <2>1, <2>2, <2>4, <2>5, QuietStep, Known
<1> QED BY <1>4, <1>5, <1>6

(* A pericope is asked for once the family is found past the threshold.    *)
LEMMA MetKeeps ==
    ASSUME AskedOK, IInv, NEW r \in Requests, Met(r)
    PROVE  IInv'
<1>1. PICK q \in Request : q = request[r] /\ Saving(r, q) /\ Asking(q) /\ Backfilled(q)
    BY Itself
<1>2. UNCHANGED <<draft, history, suggested, batch, generating, toggle, job, lock>> /\ q.pc = "met"
      /\ q.kind # "save"
    BY <1>1 DEF Met, UnchangedByRequests, Asking
<1>3. CASE Reached
  <2> DEFINE new == [q EXCEPT !.pc = "send"]
  <2>1. request' = [request EXCEPT ![r] = new]
      BY <1>1, <1>3 DEF Met, Move
  <2>2. new \in Request
      BY DEF Request, Steps
  <2>3. new.pc = "send" /\ new.kind = q.kind
      BY DEF Request
  <2> HIDE DEF new
  <2>4. Saving(r, new)' /\ Asking(new) /\ Backfilled(new)
      BY <1>2, <1>3, <2>3, Known DEF Saving, Asking, Backfilled, Concerned
  <2> QED BY <1>2, <2>1, <2>2, <2>4, QuietStep, Known
<1>4. CASE ~Reached
  <2>1. request' = [request EXCEPT ![r] = Next1(q)]
      BY <1>1, <1>4 DEF Met, Move
  <2> QED BY <1>1, <1>2, <2>1, GoesOn
<1> QED BY <1>3, <1>4

(* A chapter is switched on or off: what is steady is not.                 *)
LEMMA ToggleKeeps ==
    ASSUME AskedOK, IInv, NEW r \in Requests, NEW call \in Calls, Toggle(r, call)
    PROVE  IInv'
<1>1. call.unit \in Units /\ call.verse \in Verses /\ call.kind = "toggle"
    BY DEF AskedOK, Toggle
<1>2. PICK b \in Request :
         b = Begin("toggle", call.unit, call.verse, "absent") /\ b.kind = "toggle"
  <2>1. "absent" \in Contents /\ "toggle" \in Kinds
      BY DEF Contents, Kinds
  <2>2. PICK b \in Request : b = Begin("toggle", call.unit, call.verse, "absent")
      BY <1>1, <2>1, BeginTyped
  <2>3. b.kind = "toggle"
      BY <1>1, <2>1, <2>2, BeginIs
  <2> QED BY <2>2, <2>3
<1>3. PICK new \in Request :
         /\ request' = [request EXCEPT ![r] = new]
         /\ new.kind = "toggle" /\ new.pc \in {"gate", "done"}
  <2>1. CASE call.on
    <3> DEFINE on == [b EXCEPT !.pc = "gate", !.todo = <<call.verse[1]>>, !.result = "ok"]
    <3>1. call.verse[1] \in Nat
        BY <1>1 DEF AskedOK
    <3>2. <<call.verse[1]>> \in Seq(Nat)
        BY <3>1
    <3>3. on \in Request
        BY <3>2 DEF Request, Steps
    <3>4. on.kind = "toggle" /\ on.pc = "gate"
        BY <1>2 DEF Request
    <3>5. request' = [request EXCEPT ![r] = on]
        BY <1>2, <2>1 DEF Toggle, Move
    <3> HIDE DEF on
    <3> QED BY <3>3, <3>4, <3>5
  <2>2. CASE ~call.on
    <3>1. PICK d \in Request : d = Done(b, "ok")
        BY DoneIs
    <3>2. d.kind = "toggle" /\ d.pc = "done"
        BY <1>2, <3>1, DoneIs
    <3>3. request' = [request EXCEPT ![r] = d]
        BY <1>2, <2>2, <3>1 DEF Toggle, Move
    <3> QED BY <3>2, <3>3
  <2> QED BY <2>1, <2>2
<1>4. UNCHANGED <<draft, history, suggested, batch, generating, job, lock>>
    BY DEF Toggle, UnchangedByRequests
<1>5. PICK place \in Units \X Chapters : place = <<call.unit, call.verse[1]>>
    BY <1>1 DEF Chapters
<1>6. PICK state \in {"off", "on"} : toggle' = [toggle EXCEPT ![place] = state]
    BY <1>5 DEF Toggle
<1>7. toggle' \in [Units \X Chapters -> {"none", "off", "on"}]
    BY <1>5, <1>6 DEF IInv, TypeOK
<1>8. Steadily
  <2> SUFFICES ASSUME NEW u \in Units, NEW c \in Chapters, Steady(u, c)
               PROVE  EnabledIn(u, c)' <=> EnabledIn(u, c)
      BY DEF Steadily
  <2>1. <<u, c>> # place
      BY <1>1, <1>5 DEF Steady
  <2>2. toggle'[<<u, c>>] = toggle[<<u, c>>]
      BY <1>6, <2>1 DEF IInv, TypeOK
  <2> QED BY <2>2 DEF EnabledIn
<1>9. Saving(r, new)' /\ Asking(new) /\ Backfilled(new)'
    BY <1>3 DEF Saving, Asking, Backfilled, Concerned
<1> QED BY <1>3, <1>4, <1>7, <1>8, <1>9, RequestStep, Known DEF IInv, TypeOK, Demand

(* All the jobs are sent, or the backfill has failed.                      *)
LEMMA SendKeeps ==
    ASSUME AskedOK, IInv, NEW r \in Requests, Send(r)
    PROVE  IInv'
<1>1. PICK q \in Request : q = request[r] /\ Saving(r, q) /\ Asking(q) /\ Backfilled(q)
    BY Itself
<1>2. UNCHANGED <<draft, history, suggested, batch, generating, toggle, lock>> /\ q.pc = "send"
    BY <1>1 DEF Send, UnchangedByRequests
<1>3. PICK sent \in SUBSET q.wanted :
         /\ job' = [p \in DOMAIN job \cup sent |-> IF p \in DOMAIN job THEN job[p] ELSE 0]
         /\ request' = [request EXCEPT ![r] =
                           Next1([q EXCEPT !.result = IF sent = q.wanted THEN q.result ELSE "failed"])]
    BY <1>1 DEF Send, Move
<1> DEFINE told == [q EXCEPT !.result = IF sent = q.wanted THEN q.result ELSE "failed"]
<1>4. told \in Request
    BY DEF Request
<1>5. /\ told.pc = "send" /\ told.kind = q.kind /\ told.unit = q.unit /\ told.verse = q.verse
      /\ told.crossed = q.crossed /\ told.todo = q.todo
      /\ (told.result = "ok" => sent = q.wanted /\ q.result = "ok")
    BY <1>2 DEF Request
<1>6. request' = [request EXCEPT ![r] = Next1(told)]
    BY <1>3
<1> HIDE DEF told
<1>7. PICK new \in Request : new = Next1(told)
    BY <1>4, Next1Is
<1>8. /\ new.kind = q.kind /\ new.unit = q.unit /\ new.verse = q.verse
      /\ new.crossed = q.crossed /\ new.result = told.result /\ new.pc \in {"gate", "done"}
    BY <1>4, <1>5, <1>7, Next1Is
<1>9. Asking(told)
    BY <1>1, <1>2, <1>5 DEF Asking
<1>10. Asking(new)
    BY <1>4, <1>5, <1>7, <1>9, Next1Asking
<1>11. Saving(r, new)'
    BY <1>8 DEF Saving
<1>12. q.wanted \subseteq Pairs /\ DOMAIN job \subseteq Pairs
       /\ \A p \in DOMAIN job : job[p] \in 0 .. Retries
    BY DEF Request, IInv, TypeOK
<1>13. /\ DOMAIN job' = DOMAIN job \cup sent
       /\ \A p \in DOMAIN job' : job'[p] \in 0 .. Retries
    BY <1>3, <1>12 DEF AskedOK
<1>14. Informed
    BY <1>1, <1>2 DEF Asking
<1>15. Backfilled(new)'
  <2> SUFFICES ASSUME Concerned(new)', told.result = "ok", NEW v \in Target(q)
               PROVE  Covered(<<q.unit, v>>)'
      BY <1>8 DEF Backfilled, TargetCovered, Target, In
  <2>1. Concerned(q)
      BY <1>2, <1>8 DEF Concerned, EnabledIn, Steady
  <2>2. sent = q.wanted /\ q.result = "ok"
      BY <1>5
  <2>3. Covered(<<q.unit, v>>) => Covered(<<q.unit, v>>)'
      BY <1>2, <1>13 DEF Covered
  <2>4. <<q.unit, v>> \in q.wanted => Covered(<<q.unit, v>>)'
      BY <1>13, <2>2 DEF Covered
  <2>5. CASE q.todo = <<q.verse[1] + 1>>
      BY <1>1, <1>2, <2>1, <2>2, <2>3, <2>5 DEF Backfilled, TargetCovered
  <2>6. CASE q.todo # <<q.verse[1] + 1>>
      BY <1>1, <1>2, <2>1, <2>3, <2>4, <2>6 DEF Backfilled
  <2> QED BY <2>5, <2>6
<1>16. Steadily
    BY <1>2 DEF Steadily, EnabledIn
<1>17. request' = [request EXCEPT ![r] = new]
    BY <1>6, <1>7
<1>18. toggle' \in [Units \X Chapters -> {"none", "off", "on"}]
    BY <1>2 DEF IInv, TypeOK
<1> QED BY <1>2, <1>10, <1>11, <1>12, <1>13, <1>14, <1>15, <1>16, <1>17, <1>18, RequestStep, Known

-----------------------------------------------------------------------------
(* The steps that write drafts.                                            *)

(* What a commit of drafts is remembered as.                               *)
LEMMA RememberIs ==
    ASSUME IInv, NEW crossed \in BOOLEAN, NEW imported \in BOOLEAN,
           NEW drafts \in [Pairs -> Contents], Remember(crossed, drafts, imported)
    PROVE  /\ history' \in [claims : BOOLEAN, claimed : BOOLEAN, imported : BOOLEAN,
                            cleared : BOOLEAN, lost : SUBSET Pairs]
           /\ history'.claimed <=> history.claimed \/ crossed
           /\ history'.imported <=> history.imported \/ imported
           /\ history'.claims <=> (history.claims \/ crossed) /\ ReachedWith(drafts)
           /\ history'.cleared <=>
                 history.cleared \/ \E p \in Pairs : ~NoDraft(draft[p]) /\ NoDraft(drafts[p])
           /\ history'.lost = history.lost
<1>1. PICK h \in [claims : BOOLEAN, claimed : BOOLEAN, imported : BOOLEAN,
                  cleared : BOOLEAN, lost : SUBSET Pairs] : h = history
    BY DEF IInv, TypeOK
<1>2. PICK past \in BOOLEAN : past = ReachedWith(drafts)
  <2>1. ReachedWith(drafts) \in BOOLEAN
      BY DEF ReachedWith
  <2> QED BY <2>1
<1>3. PICK gone \in BOOLEAN :
         gone = \E p \in Pairs : ~NoDraft(draft[p]) /\ NoDraft(drafts[p])
    OBVIOUS
<1>4. PICK claimed \in BOOLEAN : claimed = (h.claimed \/ crossed)
    OBVIOUS
<1>5. PICK claims \in BOOLEAN : claims = ((h.claims \/ crossed) /\ past)
    OBVIOUS
<1>6. PICK brought \in BOOLEAN : brought = (h.imported \/ imported)
    OBVIOUS
<1>7. PICK cleared \in BOOLEAN : cleared = (h.cleared \/ gone)
    OBVIOUS
<1>8. history' = [h EXCEPT !.claimed = claimed, !.claims = claims, !.imported = brought,
                           !.cleared = cleared]
    BY <1>1, <1>2, <1>3, <1>4, <1>5, <1>6, <1>7 DEF Remember
<1>9. history' \in [claims : BOOLEAN, claimed : BOOLEAN, imported : BOOLEAN,
                    cleared : BOOLEAN, lost : SUBSET Pairs]
    BY <1>8
<1>10. /\ history'.claimed = claimed /\ history'.claims = claims
       /\ history'.imported = brought /\ history'.cleared = cleared
       /\ history'.lost = h.lost
    BY <1>8
<1> QED BY <1>1, <1>2, <1>3, <1>4, <1>5, <1>6, <1>7, <1>9, <1>10

(* What is covered stays so, unless a draft is cleared.                    *)
LEMMA RememberStable ==
    ASSUME IInv, NEW crossed \in BOOLEAN, NEW imported \in BOOLEAN,
           NEW drafts \in [Pairs -> Contents], draft' = drafts,
           Remember(crossed, drafts, imported), UNCHANGED <<suggested, toggle, job, generating>>
    PROVE  Stable
<1>1. Steadily
    BY DEF Steadily, EnabledIn
<1>2. Covers
  <2>1. SUFFICES ASSUME ~history.cleared'
                 PROVE  ~history.cleared /\ \A p \in Pairs : Covered(p) => Covered(p)'
      BY DEF Covers
  <2>2. ~history.cleared /\ \A p \in Pairs : ~NoDraft(draft[p]) => ~NoDraft(draft'[p])
      BY <2>1, RememberIs
  <2>3. history'.lost = history.lost
      BY RememberIs
  <2> QED BY <2>2, <2>3 DEF Covered
<1>3. Informed => Informed'
    BY RememberIs DEF Informed
<1> QED BY <1>1, <1>2, <1>3 DEF Stable

(* The other requests, when drafts are written: a commit that claims to    *)
(* have crossed the threshold is the one that holds the lock.              *)
LEMMA OthersKeep ==
    ASSUME AskedOK, IInv, NEW crossed \in BOOLEAN, NEW imported \in BOOLEAN,
           NEW drafts \in [Pairs -> Contents], draft' = drafts,
           Remember(crossed, drafts, imported), UNCHANGED <<suggested, toggle, job, generating>>,
           NEW o \in Requests, request'[o] = request[o], lock = o => lock' = o,
           lock = o => ~crossed, lock = o => Informed'
    PROVE  Saving(o, request[o])' /\ Asking(request[o])' /\ Backfilled(request[o])'
<1>1. PICK q \in Request : q = request[o] /\ Saving(o, q) /\ Asking(q) /\ Backfilled(q)
    BY Itself
<1>2. Stable
    BY RememberStable
<1>3. Informed => Informed'
    BY <1>2 DEF Stable
<1>4. lock = o /\ ~history.claims => ~history'.claims
    BY RememberIs
<1>5. Saving(o, q)'
    BY <1>1, <1>3, <1>4 DEF Saving
<1>6. Asking(q)'
    BY <1>1, <1>3, AskingKept
<1>7. Backfilled(q)'
    BY <1>1, <1>2, BackfilledKept
<1>8. request'[o] = q
    BY <1>1
<1> QED BY <1>5, <1>6, <1>7, <1>8

(* A save commits: it has crossed the threshold, has left the family below *)
(* it, or somebody knew before.                                            *)
LEMMA CommitKeeps ==
    ASSUME AskedOK, IInv, NEW r \in Requests, Commit(r)
    PROVE  IInv'
<1>1. PICK q \in Request : q = request[r] /\ Saving(r, q) /\ Asking(q) /\ Backfilled(q)
    BY Itself
<1>2. PICK drafts \in [Pairs -> Contents] : drafts = [draft EXCEPT ![Pair(q)] = q.content]
  <2>1. q.content \in Contents /\ draft \in [Pairs -> Contents]
      BY DEF Request, IInv, TypeOK
  <2> QED BY <2>1
<1>3. PICK crossed \in BOOLEAN : crossed = q.crossed
    BY DEF Request
<1>4. /\ q.pc = "commit" /\ draft' = drafts /\ Remember(crossed, drafts, FALSE)
      /\ UNCHANGED <<suggested, batch, generating, toggle, job>>
    BY <1>1, <1>2, <1>3 DEF Commit, UnchangedByRequests
<1>5. lock' = IF lock = r THEN Nobody ELSE lock
    BY <1>1 DEF Commit
<1>6. PICK new \in Request :
         /\ request' = [request EXCEPT ![r] = new]
         /\ new.kind = q.kind /\ new.verse = q.verse /\ new.crossed = crossed
         /\ \/ crossed /\ new.pc = "gate" /\ new.todo = <<q.verse[1], q.verse[1] + 1>>
            \/ ~crossed /\ new.pc = "done"
  <2>1. PICK d \in Request :
           /\ d = Done(q, "ok") /\ d.pc = "done" /\ d.kind = q.kind /\ d.verse = q.verse
           /\ d.crossed = crossed
      BY <1>3, DoneIs
  <2>2. CASE crossed
    <3>1. PICK both \in Seq(Nat) : both = <<q.verse[1], q.verse[1] + 1>>
      <4>1. PICK c \in Nat : c = q.verse[1]
          BY PairTyped
      <4>2. <<c, c + 1>> \in Seq(Nat)
          OBVIOUS
      <4> QED BY <4>1, <4>2
    <3> DEFINE on == [d EXCEPT !.pc = "gate", !.todo = both]
    <3>2. request' = [request EXCEPT ![r] = on]
        BY <1>1, <1>3, <2>1, <2>2, <3>1 DEF Commit, Move
    <3>3. on \in Request
        BY DEF Request, Steps
    <3>4. /\ on.pc = "gate" /\ on.kind = d.kind /\ on.verse = d.verse /\ on.crossed = d.crossed
          /\ on.todo = both
        BY DEF Request
    <3> HIDE DEF on
    <3> QED BY <2>1, <2>2, <3>1, <3>2, <3>3, <3>4
  <2>3. CASE ~crossed
    <3>1. request' = [request EXCEPT ![r] = d]
        BY <1>1, <1>3, <2>1, <2>3 DEF Commit, Move
    <3> QED BY <2>1, <2>3, <3>1
  <2> QED BY <2>2, <2>3
<1>7. Stable
    BY <1>4, RememberStable
<1>8. history'.claimed <=> history.claimed \/ crossed
    BY <1>4, RememberIs
<1>9. history'.claims <=> (history.claims \/ crossed) /\ ReachedWith(drafts)
    BY <1>4, RememberIs
<1>10. Informed => Informed'
    BY <1>7 DEF Stable
<1>11. crossed => lock = r
    BY <1>1, <1>3, <1>4 DEF Saving
<1>12. Reached' <=> ReachedWith(drafts)
    BY <1>4 DEF Reached, ReachedWith
<1>13. Reached' => Informed'
  <2>1. crossed => Informed'
      BY <1>8 DEF Informed
  <2>2. q.before => Informed
      BY <1>1, <1>4 DEF Saving
  <2>3. ~q.before /\ ~crossed /\ ~Informed => ~ReachedWith(drafts)
      BY <1>1, <1>2, <1>3, <1>4 DEF Saving
  <2> QED BY <1>10, <1>12, <2>1, <2>2, <2>3
<1>14. ASSUME NEW o \in Requests
       PROVE  Saving(o, request[o])' /\ Asking(request[o])' /\ Backfilled(request[o])'
  <2>1. CASE o = r
    <3>1. request'[r] = new
        BY <1>6 DEF IInv, TypeOK
    <3>2. Saving(r, new)'
        BY <1>6 DEF Saving
    <3>3. crossed => Informed'
        BY <1>8 DEF Informed
    <3>4. q.kind = "save"
        BY <1>1, <1>4 DEF Saving
    <3>5. Asking(new)'
        BY <1>3, <1>6, <3>3, <3>4 DEF Asking
    <3>6. Backfilled(new)'
      <4>1. PICK c \in Nat : c = q.verse[1]
          BY PairTyped
      <4>2. crossed => new.pc = "gate" /\ new.todo # <<c + 1>>
          BY <1>6, <4>1, TwoChapters
      <4> QED BY <1>6, <4>1, <4>2 DEF Backfilled, Concerned
    <3> QED BY <2>1, <3>1, <3>2, <3>5, <3>6
  <2>2. CASE o # r
    <3>1. request'[o] = request[o]
        BY <1>6, <2>2 DEF IInv, TypeOK
    <3>2. lock = o => Informed'
        BY <1>1, <1>4, <1>10, <2>2 DEF Saving
    <3> QED BY <1>4, <1>5, <1>11, <2>2, <3>1, <3>2, OthersKeep
  <2> QED BY <2>1, <2>2
<1>15. TypeOK'
  <2>1. lock' \in Requests \cup {Nobody}
      BY <1>5, Known
  <2>2. request' \in [Requests -> Request]
      BY <1>6 DEF IInv, TypeOK
  <2>3. history' \in [claims : BOOLEAN, claimed : BOOLEAN, imported : BOOLEAN,
                      cleared : BOOLEAN, lost : SUBSET Pairs]
      BY <1>4, RememberIs
  <2> QED BY <1>4, <2>1, <2>2, <2>3 DEF IInv, TypeOK
<1>16. Demand'
    BY <1>4, <1>10 DEF IInv, Demand
<1>17. history'.claims => Reached'
    BY <1>9, <1>12
<1> QED BY <1>13, <1>14, <1>15, <1>16, <1>17 DEF IInv

(* An import fills in what is absent, and everybody is told.               *)
LEMMA ImportKeeps ==
    ASSUME AskedOK, IInv, NEW rows \in Imports, Import(rows)
    PROVE  IInv'
<1>1. PICK drafts \in [Pairs -> Contents] : drafts = draft'
  <2>1. \A s \in rows : s.content \in Contents
      BY DEF AskedOK
  <2>2. draft \in [Pairs -> Contents]
      BY DEF IInv, TypeOK
  <2>3. draft' = [p \in Pairs |-> IF draft[p] = "absent" /\ \E s \in rows : <<s.unit, s.verse>> = p
                                  THEN (CHOOSE s \in rows : <<s.unit, s.verse>> = p).content
                                  ELSE draft[p]]
      BY DEF Import
  <2>4. \A p \in Pairs : (\E s \in rows : <<s.unit, s.verse>> = p) =>
                            (CHOOSE s \in rows : <<s.unit, s.verse>> = p).content \in Contents
      BY <2>1
  <2>5. draft' \in [Pairs -> Contents]
      BY <2>2, <2>3, <2>4
  <2> QED BY <2>5
<1>2. /\ Remember(FALSE, drafts, TRUE)
      /\ UNCHANGED <<suggested, batch, generating, toggle, lock, request, job>>
    BY <1>1 DEF Import, UnchangedByRequests
<1>3. Informed'
    BY <1>1, <1>2, RememberIs DEF Informed
<1>4. ASSUME NEW o \in Requests
      PROVE  Saving(o, request[o])' /\ Asking(request[o])' /\ Backfilled(request[o])'
  <2>1. request'[o] = request[o] /\ lock' = lock
      BY <1>2
  <2> QED BY <1>1, <1>2, <1>3, <2>1, OthersKeep
<1>5. TypeOK'
  <2>1. history' \in [claims : BOOLEAN, claimed : BOOLEAN, imported : BOOLEAN,
                      cleared : BOOLEAN, lost : SUBSET Pairs]
      BY <1>1, <1>2, RememberIs
  <2> QED BY <1>1, <1>2, <2>1 DEF IInv, TypeOK
<1>6. history'.claims => Reached'
    BY <1>1, <1>2, RememberIs DEF Reached, ReachedWith
<1> QED BY <1>3, <1>4, <1>5, <1>6 DEF IInv, Demand

-----------------------------------------------------------------------------
(* The worker and the external service.                                    *)

(* Nobody asks for more than there are jobs for, and nothing is dropped.   *)
LEMMA WorkerStep ==
    ASSUME AskedOK, IInv, UnchangedByWorker, TypeOK',
           \A p \in Pairs : Covered(p) => Covered(p)',
           history' \in {[history EXCEPT !.lost = l] : l \in SUBSET Pairs},
           DOMAIN job' # {} \/ generating' # {} => DOMAIN job # {} \/ generating # {}
    PROVE  IInv'
<1>1. /\ history'.claims = history.claims /\ history'.claimed = history.claimed
      /\ history'.imported = history.imported /\ history'.cleared = history.cleared
    BY DEF IInv, TypeOK
<1>2. UNCHANGED <<draft, toggle, lock, request>>
    BY DEF UnchangedByWorker
<1>3. Stable /\ (Informed <=> Informed')
    BY <1>1, <1>2 DEF Stable, Steadily, Covers, EnabledIn, Informed
<1>4. ASSUME NEW o \in Requests
      PROVE  Saving(o, request[o])' /\ Asking(request[o])' /\ Backfilled(request[o])'
  <2>1. PICK q \in Request : q = request[o] /\ Saving(o, q) /\ Asking(q) /\ Backfilled(q)
      BY Itself
  <2>2. request'[o] = q
      BY <1>2, <2>1
  <2>3. Saving(o, q)'
      BY <1>1, <1>2, <1>3, <2>1 DEF Saving
  <2>4. Asking(q)'
      BY <1>3, <2>1, AskingKept
  <2>5. Backfilled(q)'
      BY <1>3, <2>1, BackfilledKept
  <2> QED BY <2>2, <2>3, <2>4, <2>5
<1>5. (Reached <=> Reached')
    BY <1>2 DEF Reached
<1>6. Demand'
    BY <1>3 DEF IInv, Demand
<1> QED BY <1>1, <1>3, <1>4, <1>5, <1>6 DEF IInv

(* The history, when nothing is given up.                                  *)
LEMMA SameHistory ==
    ASSUME IInv, UNCHANGED history
    PROVE  history' \in {[history EXCEPT !.lost = l] : l \in SUBSET Pairs}
<1>1. history.lost \in SUBSET Pairs /\ history = [history EXCEPT !.lost = history.lost]
    BY DEF IInv, TypeOK
<1> QED BY <1>1

(* A batch is of jobs.                                                     *)
LEMMA TakeKeeps ==
    ASSUME AskedOK, IInv, Take
    PROVE  IInv'
<1>1. UNCHANGED <<suggested, job, generating, history, draft, toggle, lock, request>>
      /\ batch' \subseteq DOMAIN job
    BY DEF Take, UnchangedByWorker
<1>2. TypeOK'
    BY <1>1 DEF IInv, TypeOK
<1>3. \A p \in Pairs : Covered(p) => Covered(p)'
    BY <1>1 DEF Covered
<1> QED BY <1>1, <1>2, <1>3, SameHistory, WorkerStep DEF UnchangedByWorker

(* The jobs of a batch are the service's from now on.                      *)
LEMMA TriggerKeeps ==
    ASSUME AskedOK, IInv, Trigger
    PROVE  IInv'
<1>1. UNCHANGED <<suggested, history, draft, toggle, lock, request>> /\ UnchangedByWorker
      /\ batch # {} /\ batch' = {} /\ generating' = generating \cup batch
      /\ job' = [p \in DOMAIN job \ batch |-> job[p]]
    BY DEF Trigger, UnchangedByWorker, Without
<1>2. batch \subseteq DOMAIN job /\ DOMAIN job \subseteq Pairs /\ generating \subseteq Pairs
      /\ \A p \in DOMAIN job : job[p] \in 0 .. Retries
    BY DEF IInv, TypeOK
<1>3. DOMAIN job' = DOMAIN job \ batch /\ \A p \in DOMAIN job' : job'[p] = job[p]
    BY <1>1
<1>4. TypeOK'
    BY <1>1, <1>2, <1>3 DEF IInv, TypeOK
<1>5. \A p \in Pairs : Covered(p) => Covered(p)'
    BY <1>1, <1>3 DEF Covered
<1>6. DOMAIN job # {}
    BY <1>1, <1>2
<1> QED BY <1>1, <1>4, <1>5, <1>6, SameHistory, WorkerStep

(* A batch that fails is retried, and what has failed too often is lost.   *)
LEMMA FailBatchKeeps ==
    ASSUME AskedOK, IInv, FailBatch
    PROVE  IInv'
<1> DEFINE dead == {p \in batch : job[p] = Retries}
<1>1. UNCHANGED <<suggested, draft, toggle, lock, request>> /\ UnchangedByWorker
      /\ batch # {} /\ batch' = {}
      /\ (generating' = generating \/ generating' = generating \cup batch)
    BY DEF FailBatch, UnchangedByWorker
<1>2. job' = [p \in DOMAIN job \ dead |-> IF p \in batch THEN job[p] + 1 ELSE job[p]]
    BY DEF FailBatch
<1>3. history' = [history EXCEPT !.lost = history.lost \cup dead]
    BY DEF FailBatch
<1>4. batch \subseteq DOMAIN job /\ DOMAIN job \subseteq Pairs /\ generating \subseteq Pairs
      /\ \A p \in DOMAIN job : job[p] \in 0 .. Retries
    BY DEF IInv, TypeOK
<1>5. dead \subseteq batch /\ \A p \in batch \ dead : job[p] # Retries
    OBVIOUS
<1> HIDE DEF dead
<1>6. DOMAIN job' = DOMAIN job \ dead /\ \A p \in DOMAIN job' : job'[p] \in 0 .. Retries
    BY <1>2, <1>4, <1>5 DEF AskedOK
<1>7. PICK l \in SUBSET Pairs : l = history.lost \cup dead
  <2>1. history.lost \cup dead \subseteq Pairs
      BY <1>4, <1>5 DEF IInv, TypeOK
  <2> QED BY <2>1
<1>8. history' = [history EXCEPT !.lost = l]
    BY <1>3, <1>7
<1>9. history' \in [claims : BOOLEAN, claimed : BOOLEAN, imported : BOOLEAN,
                    cleared : BOOLEAN, lost : SUBSET Pairs] /\ history'.lost = l
    BY <1>8 DEF IInv, TypeOK
<1>10. TypeOK'
    BY <1>1, <1>4, <1>6, <1>9 DEF IInv, TypeOK
<1>11. \A p \in Pairs : Covered(p) => Covered(p)'
    BY <1>1, <1>6, <1>7, <1>9 DEF Covered
<1>12. DOMAIN job # {}
    BY <1>1, <1>4
<1> QED BY <1>1, <1>8, <1>10, <1>11, <1>12, WorkerStep

(* The service stores a suggestion, or gives up.                           *)
LEMMA GenerateKeeps ==
    ASSUME AskedOK, IInv, NEW p \in Pairs, Generate(p)
    PROVE  IInv'
<1>1. UNCHANGED <<draft, toggle, lock, request, job, batch>> /\ UnchangedByWorker
      /\ p \in generating /\ generating' = generating \ {p}
    BY DEF Generate, UnchangedByWorker
<1>2. CASE suggested' = suggested \cup {p} /\ UNCHANGED history
  <2>1. TypeOK'
      BY <1>1, <1>2 DEF IInv, TypeOK
  <2>2. \A w \in Pairs : Covered(w) => Covered(w)'
      BY <1>1, <1>2 DEF Covered
  <2> QED BY <1>1, <1>2, <2>1, <2>2, SameHistory, WorkerStep
<1>3. CASE history' = [history EXCEPT !.lost = @ \cup {p}] /\ UNCHANGED suggested
  <2>1. PICK l \in SUBSET Pairs : l = history.lost \cup {p}
    <3>1. history.lost \cup {p} \subseteq Pairs
        BY DEF IInv, TypeOK
    <3> QED BY <3>1
  <2>2. history' = [history EXCEPT !.lost = l]
      BY <1>3, <2>1
  <2>3. history' \in [claims : BOOLEAN, claimed : BOOLEAN, imported : BOOLEAN,
                      cleared : BOOLEAN, lost : SUBSET Pairs] /\ history'.lost = l
      BY <2>2 DEF IInv, TypeOK
  <2>4. TypeOK'
      BY <1>1, <1>3, <2>3 DEF IInv, TypeOK
  <2>5. \A w \in Pairs : Covered(w) => Covered(w)'
      BY <1>1, <1>3, <2>1, <2>3 DEF Covered
  <2> QED BY <1>1, <2>2, <2>4, <2>5, WorkerStep
<1> QED BY <1>2, <1>3 DEF Generate

-----------------------------------------------------------------------------
(* The invariant.                                                          *)

(* A family that is past the threshold to begin with has claimed it.       *)
LEMMA InitIInv ==
    ASSUME AskedOK, Init
    PROVE  IInv
<1>1. PICK past \in BOOLEAN : past = Reached
  <2>1. Reached \in BOOLEAN
      BY DEF Reached, ReachedWith
  <2> QED BY <2>1
<1>2. history = [claims |-> FALSE, claimed |-> past, imported |-> FALSE,
                 cleared |-> FALSE, lost |-> {}]
    BY <1>1 DEF Init
<1>3. PICK i \in Request : i = Idle /\ i.pc = "idle" /\ i.kind = "none"
    BY IdleIs
<1>4. request = [r \in Requests |-> i]
    BY <1>3 DEF Init
<1>5. job = [p \in {} |-> 0] /\ DOMAIN job = {} /\ generating = {} /\ batch = {}
      /\ suggested = {} /\ lock = Nobody
    BY DEF Init
<1>6. draft \in [Pairs -> Contents]
  <2>1. PICK some \in SUBSET Drafted :
           draft = [p \in Pairs |-> IF p \in some THEN "words" ELSE "absent"]
      BY DEF Init
  <2> QED BY <2>1 DEF Contents
<1>7. toggle \in [Units \X Chapters -> {"none", "off", "on"}]
    BY DEF Init, AskedOK
<1>8. TypeOK
    BY <1>2, <1>4, <1>5, <1>6, <1>7 DEF TypeOK
<1>9. ~history.claims /\ (history.claimed <=> Reached)
    BY <1>1, <1>2
<1>10. Demand
    BY <1>5 DEF Demand
<1>11. \A r \in Requests : Saving(r, i) /\ Asking(i) /\ Backfilled(i)
    BY <1>3 DEF Saving, Asking, Backfilled, Concerned
<1> QED BY <1>4, <1>8, <1>9, <1>10, <1>11 DEF IInv, Informed

(* Every step keeps it.                                                    *)
LEMMA NextIInv ==
    ASSUME AskedOK, IInv, [Next]_vars
    PROVE  IInv'
<1>1. CASE \E r \in Requests : Handle(r) \/ Fail(r)
    BY <1>1, LockKeeps, WriteKeeps, MeasureKeeps, CommitKeeps, GateKeeps, ReadKeeps,
       MetKeeps, SendKeeps, FailKeeps DEF Handle
<1>2. CASE \E r \in Requests, s \in Saves : Save(r, s)
    BY <1>2, SaveKeeps
<1>3. CASE \E r \in Requests, call \in Calls : Toggle(r, call) \/ Call(r, call)
    BY <1>3, ToggleKeeps, CallKeeps
<1>4. CASE \E rows \in Imports : Import(rows)
    BY <1>4, ImportKeeps
<1>5. CASE Take \/ Trigger \/ FailBatch \/ \E p \in Pairs : Generate(p)
    BY <1>5, TakeKeeps, TriggerKeeps, FailBatchKeeps, GenerateKeeps
<1>6. CASE UNCHANGED vars
  <2>1. TypeOK'
      BY <1>6 DEF IInv, TypeOK, vars
  <2>2. \A p \in Pairs : Covered(p) => Covered(p)'
      BY <1>6 DEF Covered, vars
  <2>3. UnchangedByWorker /\ UNCHANGED history /\ UNCHANGED <<job, generating>>
      BY <1>6 DEF vars, UnchangedByWorker
  <2> QED BY <2>1, <2>2, <2>3, SameHistory, WorkerStep
<1> QED BY <1>1, <1>2, <1>3, <1>4, <1>5, <1>6 DEF Next

-----------------------------------------------------------------------------
(* Who changes what.                                                       *)

(* A move is one request's.                                                *)
LEMMA MovesOne ==
    ASSUME NEW o, NEW q, Move(o, q), NEW r \in DOMAIN request, r # o
    PROVE  request'[r] = request[r]
BY DEF Move

(* A request goes from its commit to the gate by its own commit.           *)
LEMMA CrossedByCommit ==
    ASSUME AskedOK, IInv, Next, NEW r \in Requests,
           request[r].pc = "commit", request'[r].pc = "gate"
    PROVE  Commit(r)
<1>1. r \in DOMAIN request /\ request[r] \in Request /\ request'[r] # request[r]
    BY DEF IInv, TypeOK
<1>2. ASSUME NEW o, NEW q, Move(o, q)
      PROVE  o = r
    BY <1>1, <1>2, MovesOne
<1>3. ASSUME NEW o \in Requests, Handle(o) \/ Fail(o)
      PROVE  Commit(r)
  <2>1. o = r
    <3>1. CASE Lock(o)
        BY <1>2, <3>1 DEF Lock
    <3>2. CASE Write(o)
        BY <1>2, <3>2 DEF Write
    <3>3. CASE Measure(o)
        BY <1>2, <3>3 DEF Measure
    <3>4. CASE Commit(o)
        BY <1>2, <3>4 DEF Commit
    <3>5. CASE Gate(o)
        BY <1>2, <3>5 DEF Gate
    <3>6. CASE Read(o)
        BY <1>2, <3>6 DEF Read
    <3>7. CASE Met(o)
        BY <1>2, <3>7 DEF Met
    <3>8. CASE Send(o)
        BY <1>2, <3>8 DEF Send
    <3>9. CASE Fail(o)
        BY <1>2, <3>9 DEF Fail
    <3> QED BY <1>3, <3>1, <3>2, <3>3, <3>4, <3>5, <3>6, <3>7, <3>8, <3>9 DEF Handle
  <2>2. ~Fail(r)
    <3> SUFFICES ASSUME Fail(r) PROVE FALSE
        OBVIOUS
    <3>1. PICK d \in Request : d = Done(request[r], "failed") /\ d.pc = "done"
        BY <1>1, DoneIs
    <3>2. request'[r] = d
        BY <1>1, <3>1 DEF Fail, Move
    <3> QED BY <3>1, <3>2
  <2>3. /\ ~Lock(r) /\ ~Write(r) /\ ~Measure(r)
        /\ ~Gate(r) /\ ~Read(r) /\ ~Met(r) /\ ~Send(r)
      BY DEF Lock, Write, Measure, Gate, Read, Met, Send
  <2> QED BY <1>3, <2>1, <2>2, <2>3 DEF Handle
<1>4. ASSUME NEW o \in Requests, request[o].pc = "idle", NEW q, Move(o, q)
      PROVE  FALSE
    BY <1>2, <1>4
<1>5. \A o \in Requests, s \in Saves : ~Save(o, s)
    BY <1>4 DEF Save
<1>6. \A o \in Requests, call \in Calls : ~Toggle(o, call) /\ ~Call(o, call)
    BY <1>4 DEF Toggle, Call
<1>7. request' # request
    BY <1>1
<1>8. ~Take /\ ~Trigger /\ ~FailBatch /\ \A p \in Pairs : ~Generate(p)
    BY <1>7 DEF Take, Trigger, FailBatch, Generate, UnchangedByWorker
<1>9. \A rows \in Imports : ~Import(rows)
    BY <1>7 DEF Import
<1> QED BY <1>3, <1>5, <1>6, <1>8, <1>9 DEF Next

(* Drafts are written by commits and by imports.                           *)
LEMMA DraftsWritten ==
    ASSUME Next, draft' # draft
    PROVE  (\E r \in Requests : Commit(r)) \/ (\E rows \in Imports : Import(rows))
<1>1. \A r \in Requests :
         /\ ~Lock(r) /\ ~Write(r) /\ ~Measure(r) /\ ~Gate(r) /\ ~Read(r)
         /\ ~Met(r) /\ ~Send(r) /\ ~Fail(r)
    BY DEF Lock, Write, Measure, Gate, Read, Met, Send, Fail
<1>2. \A r \in Requests, s \in Saves : ~Save(r, s)
    BY DEF Save
<1>3. \A r \in Requests, call \in Calls : ~Toggle(r, call) /\ ~Call(r, call)
    BY DEF Toggle, Call
<1>4. ~Take /\ ~Trigger /\ ~FailBatch /\ \A p \in Pairs : ~Generate(p)
    BY DEF Take, Trigger, FailBatch, Generate, UnchangedByWorker
<1> QED BY <1>1, <1>2, <1>3, <1>4 DEF Next, Handle
-----------------------------------------------------------------------------

(* The invariant the theorems of this module rest on.                      *)
THEOREM Invariance ==
    ASSUME AskedOK
    PROVE  Spec => []IInv
<1>1. Init => IInv
    BY InitIInv
<1>2. IInv /\ [Next]_vars => IInv'
    BY NextIInv
<1> QED BY <1>1, <1>2, PTL DEF Spec

(* A request is always of its record, a job of a pair with few failures.   *)
THEOREM TypeCorrect ==
    ASSUME AskedOK
    PROVE  Spec => []TypeOK
<1>1. IInv => TypeOK
    BY DEF IInv
<1> QED BY <1>1, Invariance, PTL

(* However many saves are concurrent, two of them claim to have crossed    *)
(* the threshold only if the family has been below it in between.          *)
THEOREM Claimed ==
    ASSUME AskedOK
    PROVE  Spec => [][ClaimedOnce]_vars
<1>1. IInv /\ [Next]_vars => [ClaimedOnce]_vars
  <2> SUFFICES ASSUME IInv, Next, NEW r \in Requests,
                      request[r].pc = "commit", request'[r].pc = "gate"
               PROVE  ~history.claims
      BY DEF ClaimedOnce
  <2>1. Commit(r)
      BY CrossedByCommit
  <2>2. PICK q \in Request : q = request[r] /\ Saving(r, q)
      BY Itself
  <2>3. q.crossed
    <3> SUFFICES ASSUME ~q.crossed PROVE FALSE
        OBVIOUS
    <3>1. PICK d \in Request : d = Done(q, "ok") /\ d.pc = "done"
        BY DoneIs
    <3>2. request'[r] = d
        BY <2>1, <2>2, <3>1 DEF Commit, Move, IInv, TypeOK
    <3> QED BY <3>1, <3>2
  <2> QED BY <2>2, <2>3 DEF Saving
<1> QED BY <1>1, Invariance, PTL DEF Spec

(* As long as only saves write drafts, the family is past the threshold    *)
(* only if a save has claimed the crossing, and nothing is asked of the    *)
(* service before.                                                         *)
THEOREM Observed ==
    ASSUME AskedOK
    PROVE  Spec => []NoneUnobserved
<1>1. IInv => NoneUnobserved
    BY DEF IInv, Demand, Informed, NoneUnobserved
<1> QED BY <1>1, Invariance, PTL

(* A backfill that reported success leaves no verse of the two pericopes   *)
(* to nobody, whatever is sent twice, dropped, or fails in the worker.     *)
THEOREM Backfill ==
    ASSUME AskedOK
    PROVE  Spec => []BackfillComplete
<1>1. ASSUME IInv PROVE BackfillComplete
  <2> SUFFICES ASSUME NEW r \in Requests, NEW q \in Request, q = request[r], Backfilled(q),
                      q.pc = "done", q.result = "ok", Concerned(q),
                      NEW i \in DOMAIN Groups[q.verse[1]], q.verse[2] \in Groups[q.verse[1]][i],
                      NEW j \in {i, i + 1} \cap DOMAIN Groups[q.verse[1]],
                      NEW v \in In(q.verse[1], Groups[q.verse[1]][j])
               PROVE  Covered(<<q.unit, v>>)
      BY <1>1, Itself DEF BackfillComplete, Concerned
  <2>1. TargetCovered(q)
      BY DEF Backfilled
  <2>2. v \in Target(q)
      BY DEF Target
  <2> QED BY <2>1, <2>2 DEF TargetCovered
<1> QED BY <1>1, Invariance, PTL

(* An import never replaces what a translator has saved, wherever the save *)
(* is between its statements.                                              *)
THEOREM EditsKept ==
    ASSUME AskedOK
    PROVE  Spec => [][ImportKeepsEdits]_vars
<1>1. IInv /\ [Next]_vars => [ImportKeepsEdits]_vars
  <2> SUFFICES ASSUME IInv, Next, NEW p \in Pairs, draft[p] # draft'[p], draft'[p] = "imported"
               PROVE  draft[p] = "absent"
      BY DEF ImportKeepsEdits
  <2>1. \A r \in Requests : ~Commit(r)
    <3> SUFFICES ASSUME NEW r \in Requests, Commit(r) PROVE FALSE
        OBVIOUS
    <3>1. PICK q \in Request : q = request[r] /\ Saving(r, q)
        BY Itself
    <3>2. q.pc = "commit" /\ draft' = [draft EXCEPT ![Pair(q)] = q.content]
        BY <3>1 DEF Commit
    <3>3. draft'[p] = q.content
        BY <3>2 DEF IInv, TypeOK
    <3> QED BY <3>1, <3>2, <3>3 DEF Saving
  <2>2. PICK rows \in Imports : Import(rows)
      BY <2>1, DraftsWritten
  <2> QED BY <2>2 DEF Import
<1> QED BY <1>1, Invariance, PTL DEF Spec

-----------------------------------------------------------------------------
(* PericopeHeadings is another component: what has a name of AiActivation   *)
(* too, the requests, the job and how it begins, is declared once.          *)
CONSTANTS Sets, Chosen, Layout, Starting, MaxRequests, MaxChanges, None
VARIABLES choice, headed, prompt, saved, usage, shown, accepted, started, edits
Headings == INSTANCE PericopeHeadings

-----------------------------------------------------------------------------
(* The suggested titles of a pericope.                                     *)

Some == Sets \cup {None}
Firsts == {0} \cup {Headings!First(s) : s \in Sets}
CallKinds == {"queue", "show", "prompt", "save", "use"}
HeadingRow ==
    [pc : {"idle", "select", "context", "verses", "insert", "log"} \cup CallKinds, kind : CallKinds \cup {None},
     for : Some, verse : Firsts, accepts : BOOLEAN, set : Some, enabled : BOOLEAN, bare : BOOLEAN,
     sets : SUBSET Some, off : BOOLEAN, always : SUBSET Firsts]
Choice == [set : Some, enabled : BOOLEAN]

(* Of a request: that it is where its kind comes to; that a title to be     *)
(* logged is saved, and stands before the verse that was accepted; and, if  *)
(* it is for what to show, that what it has read held since it began.       *)
KindKept(e) ==
    e.pc # "idle" =>
        /\ e.kind \in CallKinds
        /\ e.pc \in CallKinds => e.kind = e.pc
        /\ e.pc = "insert" => e.kind = "save"
        /\ e.pc = "select" => e.kind = "use"
        /\ e.kind = "save" => e.for \in Starting
Loggable(e, titles) ==
    e.pc = "log" => e.set \in Starting /\ Headings!First(e.set) = e.verse /\ e.set \in titles
ReadSince(e, ch, hd) ==
    e.pc # "idle" /\ e.kind = "show" =>
        /\ ch.set \in e.sets /\ (ch.enabled => ~e.off) /\ e.always \subseteq hd
        /\ e.pc = "context" => e.set = None
        /\ e.pc \in {"verses", "show"} => e.set \in e.sets /\ (e.enabled => ~e.off)
        /\ e.pc = "show" /\ e.bare => Headings!First(e.set) \notin e.always
Fits(e, ch, hd, titles) == KindKept(e) /\ Loggable(e, titles) /\ ReadSince(e, ch, hd)
AllFit(rows, ch, hd, titles) ==
    rows \in [Requests -> HeadingRow] /\ \A r \in Requests : Fits(rows[r], ch, hd, titles)

TitlesFit(titles, made, uses, verses) ==
    /\ titles \subseteq Starting
    /\ made \subseteq {Headings!Whole(s) : s \in Starting}
    /\ uses \in [Sets -> Headings!Usage]
    /\ \A s \in Sets : uses[s] # None => s \in titles
    /\ \A v \in verses : \E s \in Starting : uses[s] = "used" /\ Headings!First(s) = v

HeadingsInv ==
    /\ choice \in Choice /\ headed \subseteq Firsts /\ shown \in Some /\ saved \in Seq(Starting)
    /\ AllFit(request, choice, headed, Headings!Range(saved))
    /\ TitlesFit(Headings!Range(saved), prompt, usage, accepted)

(* A request that is not under way fits whatever is stored.                *)
LEMMA IdleFits ==
    ASSUME NEW ch, NEW hd, NEW titles
    PROVE  Headings!Idle \in HeadingRow /\ Fits(Headings!Idle, ch, hd, titles)
<1>1. Headings!Idle \in HeadingRow
    BY DEF Headings!Idle, HeadingRow, Some, Firsts
<1>2. Headings!Idle.pc = "idle"
    BY DEF Headings!Idle
<1> QED BY <1>1, <1>2 DEF Fits, KindKept, Loggable, ReadSince

(* One request comes to something else; more titles may be saved.          *)
LEMMA OneFits ==
    ASSUME NEW rows, NEW ch, NEW hd, NEW titles, NEW more, titles \subseteq more,
           AllFit(rows, ch, hd, titles), NEW r \in Requests, NEW e \in HeadingRow, Fits(e, ch, hd, more)
    PROVE  AllFit([rows EXCEPT ![r] = e], ch, hd, more)
<1>1. [rows EXCEPT ![r] = e] \in [Requests -> HeadingRow]
    BY DEF AllFit
<1>2. \A q \in Requests : Fits(rows[q], ch, hd, more)
    BY DEF AllFit, Fits, Loggable
<1> QED BY <1>1, <1>2 DEF AllFit

(* A request is begun: of what a title is shown, queued or accepted for.   *)
LEMMA RequestBegun ==
    ASSUME Headings!HeadingsOK, HeadingsInv, NEW r \in Requests, NEW kind \in CallKinds, NEW for \in Some,
           NEW accepts \in BOOLEAN, kind = "save" => for \in Starting, kind = "use" => for # None,
           Headings!Begin(r, kind, for, accepts)
    PROVE  HeadingsInv'
<1>1. PICK pc \in {"select", "context"} : pc = IF kind = "use" THEN "select" ELSE "context"
    OBVIOUS
<1>2. PICK verse \in Firsts : verse = IF kind = "use" THEN Headings!First(for) ELSE 0
    BY DEF Firsts, Some
<1>3. PICK sets \in SUBSET Some : sets = IF kind = "show" THEN {choice.set} ELSE {}
    BY DEF HeadingsInv, Choice
<1>4. PICK off \in BOOLEAN : off = (kind = "show" /\ ~choice.enabled)
    BY DEF HeadingsInv, Choice
<1>5. PICK always \in SUBSET Firsts : always = IF kind = "show" THEN headed ELSE {}
    BY DEF HeadingsInv
<1>6. PICK e \in HeadingRow :
          /\ e = [Headings!Idle EXCEPT !.kind = kind, !.for = for, !.accepts = accepts, !.pc = pc,
                                       !.verse = verse, !.sets = sets, !.off = off, !.always = always]
          /\ e.pc = pc /\ e.kind = kind /\ e.for = for /\ e.verse = verse /\ e.set = None
          /\ e.sets = sets /\ e.off = off /\ e.always = always
  <2>1. PICK b \in HeadingRow : b = Headings!Idle /\ b.set = None
    <3>1. Headings!Idle \in HeadingRow /\ Headings!Idle.set = None
        BY IdleFits DEF Headings!Idle
    <3> QED BY <3>1
  <2>2. LET g == [b EXCEPT !.kind = kind, !.for = for, !.accepts = accepts, !.pc = pc,
                           !.verse = verse, !.sets = sets, !.off = off, !.always = always]
        IN  /\ g \in HeadingRow
            /\ g.pc = pc /\ g.kind = kind /\ g.for = for /\ g.verse = verse /\ g.set = None
            /\ g.sets = sets /\ g.off = off /\ g.always = always
      BY ZenonT(60), <2>1 DEF HeadingRow
  <2> QED BY <2>1, <2>2
<1>7. request' = [request EXCEPT ![r] = e]
    BY Zenon, <1>1, <1>2, <1>3, <1>4, <1>5, <1>6 DEF Headings!Begin
<1>8. Fits(e, choice, headed, Headings!Range(saved))
  <2>1. KindKept(e) /\ Loggable(e, Headings!Range(saved))
      BY <1>1, <1>6 DEF KindKept, Loggable, CallKinds
  <2>2. ReadSince(e, choice, headed)
    <3>1. kind = "show" /\ choice.enabled => ~e.off
        BY Zenon, <1>4, <1>6
    <3>2. kind = "show" => choice.set \in e.sets /\ e.always \subseteq headed
        BY <1>3, <1>5, <1>6
    <3> QED BY <1>1, <1>6, <3>1, <3>2 DEF ReadSince
  <2> QED BY <2>1, <2>2 DEF Fits
<1>9. AllFit(request', choice, headed, Headings!Range(saved))
    BY <1>7, <1>8, OneFits DEF HeadingsInv
<1> QED BY <1>9 DEF HeadingsInv, Headings!Begin

(* A request goes on and writes nothing else, but for a job.               *)
LEMMA RequestGoesOn ==
    ASSUME HeadingsInv, NEW r \in Requests, NEW e \in HeadingRow, request' = [request EXCEPT ![r] = e],
           Fits(e, choice, headed, Headings!Range(saved)),
           UNCHANGED <<choice, headed, prompt, saved, usage, shown, accepted>>
    PROVE  HeadingsInv'
<1>1. AllFit(request', choice, headed, Headings!Range(saved))
    BY OneFits DEF HeadingsInv
<1> QED BY <1>1 DEF HeadingsInv

(* A request ends and reads anew when it begins.                            *)
LEMMA RequestCloses ==
    ASSUME HeadingsInv, NEW r \in Requests, Headings!Close(r),
           UNCHANGED <<choice, headed, prompt, saved, usage, shown, accepted>>
    PROVE  HeadingsInv'
<1>1. PICK e \in HeadingRow : e = Headings!Idle /\ Fits(e, choice, headed, Headings!Range(saved))
    BY IdleFits
<1> QED BY <1>1, RequestGoesOn DEF Headings!Close

(* The project or its headings change under the requests.                  *)
LEMMA ProjectChanges ==
    ASSUME Headings!HeadingsOK, HeadingsInv, NEW set \in Chosen, NEW enabled \in BOOLEAN,
           Headings!Change(set, enabled)
    PROVE  HeadingsInv'
<1>0. set \in Some
    BY DEF Some, Headings!HeadingsOK
<1>1. PICK new \in Choice : new = [set |-> set, enabled |-> enabled] /\ new.set = set /\ new.enabled = enabled
  <2>1. LET c == [set |-> set, enabled |-> enabled]
        IN  c \in Choice /\ c.set = set /\ c.enabled = enabled
      BY <1>0 DEF Choice
  <2> QED BY <2>1
<1>2. ASSUME NEW q \in Requests
      PROVE  request'[q] \in HeadingRow /\ Fits(request'[q], new, headed, Headings!Range(saved))
  <2>1. PICK e \in HeadingRow : e = request[q] /\ Fits(e, choice, headed, Headings!Range(saved))
      BY DEF HeadingsInv, AllFit
  <2>2. PICK sets \in SUBSET Some : sets = IF e.sets = {} THEN e.sets ELSE e.sets \cup {set}
      BY <1>0 DEF HeadingRow
  <2>3. PICK off \in BOOLEAN : off = (e.off /\ ~enabled)
      BY DEF HeadingRow
  <2>4. PICK f \in HeadingRow :
            /\ f = [e EXCEPT !.sets = sets, !.off = off] /\ f.sets = sets /\ f.off = off
            /\ f.pc = e.pc /\ f.kind = e.kind /\ f.for = e.for /\ f.verse = e.verse /\ f.set = e.set
            /\ f.enabled = e.enabled /\ f.bare = e.bare /\ f.always = e.always
    <3>1. LET g == [e EXCEPT !.sets = sets, !.off = off]
          IN  /\ g \in HeadingRow /\ g.sets = sets /\ g.off = off
              /\ g.pc = e.pc /\ g.kind = e.kind /\ g.for = e.for /\ g.verse = e.verse /\ g.set = e.set
              /\ g.enabled = e.enabled /\ g.bare = e.bare /\ g.always = e.always
        BY DEF HeadingRow
    <3> QED BY <3>1
  <2>5. request'[q] = f
      BY <2>1, <2>2, <2>3, <2>4 DEF Headings!Change
  <2>6. KindKept(f) /\ Loggable(f, Headings!Range(saved))
      BY <2>1, <2>4 DEF Fits, KindKept, Loggable
  <2>7. ReadSince(f, new, headed)
    <3>1. (new.enabled => ~f.off) /\ (~e.off => ~f.off)
        BY Zenon, <1>1, <2>3, <2>4
    <3> QED BY <1>1, <2>1, <2>2, <2>4, <3>1 DEF Fits, ReadSince
  <2> QED BY <2>5, <2>6, <2>7 DEF Fits
<1>3. request' = [q \in Requests |-> request'[q]]
    BY DEF Headings!Change
<1>4. AllFit(request', new, headed, Headings!Range(saved))
    BY <1>2, <1>3 DEF AllFit
<1>5. choice' = new /\ UNCHANGED <<headed, saved, prompt, usage, accepted, shown>>
    BY <1>1 DEF Headings!Change
<1> QED BY <1>4, <1>5 DEF HeadingsInv

(* A verse gets a heading, or loses it.                                    *)
LEMMA HeadingChanges ==
    ASSUME Headings!HeadingsOK, HeadingsInv, NEW v \in Firsts, Headings!Heading(v)
    PROVE  HeadingsInv'
<1>1. PICK new \in SUBSET Firsts : new = IF v \in headed THEN headed \ {v} ELSE headed \cup {v}
    BY DEF HeadingsInv
<1>2. ASSUME NEW q \in Requests
      PROVE  request'[q] \in HeadingRow /\ Fits(request'[q], choice, new, Headings!Range(saved))
  <2>1. PICK e \in HeadingRow : e = request[q] /\ Fits(e, choice, headed, Headings!Range(saved))
      BY DEF HeadingsInv, AllFit
  <2>2. PICK always \in SUBSET Firsts : always = e.always \ {v}
      BY DEF HeadingRow
  <2>3. PICK f \in HeadingRow :
            /\ f = [e EXCEPT !.always = always] /\ f.always = always
            /\ f.pc = e.pc /\ f.kind = e.kind /\ f.for = e.for /\ f.verse = e.verse /\ f.set = e.set
            /\ f.enabled = e.enabled /\ f.bare = e.bare /\ f.sets = e.sets /\ f.off = e.off
    <3>1. LET g == [e EXCEPT !.always = always]
          IN  /\ g \in HeadingRow /\ g.always = always
              /\ g.pc = e.pc /\ g.kind = e.kind /\ g.for = e.for /\ g.verse = e.verse /\ g.set = e.set
              /\ g.enabled = e.enabled /\ g.bare = e.bare /\ g.sets = e.sets /\ g.off = e.off
        BY DEF HeadingRow
    <3> QED BY <3>1
  <2>4. request'[q] = f
      BY <2>1, <2>2, <2>3 DEF Headings!Heading
  <2>5. KindKept(f) /\ Loggable(f, Headings!Range(saved))
      BY <2>1, <2>3 DEF Fits, KindKept, Loggable
  <2>6. ReadSince(f, choice, new)
      BY <1>1, <2>1, <2>2, <2>3 DEF Fits, ReadSince
  <2> QED BY <2>4, <2>5, <2>6 DEF Fits
<1>3. request' = [q \in Requests |-> request'[q]]
    BY DEF Headings!Heading
<1>4. AllFit(request', choice, new, Headings!Range(saved))
    BY <1>2, <1>3 DEF AllFit
<1>5. headed' = new /\ UNCHANGED <<choice, saved, prompt, usage, accepted, shown>>
    BY <1>1 DEF Headings!Heading
<1> QED BY <1>4, <1>5 DEF HeadingsInv

(* The usage that is told of a title is logged of the project's set, or of  *)
(* the newest title there is.                                              *)
LEMMA TitleSelected ==
    ASSUME Headings!HeadingsOK, HeadingsInv, NEW r \in Requests, Headings!Select(r)
    PROVE  HeadingsInv'
<1>1. PICK x \in HeadingRow : x = request[r] /\ Fits(x, choice, headed, Headings!Range(saved)) /\ x.pc = "select"
    BY DEF HeadingsInv, AllFit, Headings!Select
<1>2. PICK set \in Some : set = Headings!Selected
  <2>1. Headings!Selected \in Some
    <3>1. saved # <<>> => Headings!Last(saved) \in Sets
        BY DEF HeadingsInv, Headings!HeadingsOK, Headings!Last
    <3>2. choice.set \in Some /\ None \in Some
        BY DEF HeadingsInv, Choice, Some
    <3> QED BY <3>1, <3>2 DEF Headings!Selected, Some
  <2> QED BY <2>1
<1>3. PICK e \in HeadingRow : /\ e = [x EXCEPT !.pc = "context", !.set = set]
                              /\ e.pc = "context" /\ e.kind = x.kind /\ e.for = x.for
  <2>1. LET g == [x EXCEPT !.pc = "context", !.set = set]
        IN  g \in HeadingRow /\ g.pc = "context" /\ g.kind = x.kind /\ g.for = x.for
      BY DEF HeadingRow
  <2> QED BY <2>1
<1>4. request' = [request EXCEPT ![r] = e]
  <2>1. request' = [request EXCEPT ![r].pc = "context", ![r].set = set]
      BY <1>2 DEF Headings!Select
  <2> QED BY <1>1, <1>3, <2>1 DEF HeadingsInv, AllFit
<1>5. Fits(e, choice, headed, Headings!Range(saved))
    BY <1>1, <1>3 DEF Fits, KindKept, Loggable, ReadSince, CallKinds
<1> QED BY <1>4, <1>5, RequestGoesOn DEF Headings!Select

(* The project's set and switch are read, or the set is given.             *)
LEMMA ContextRead ==
    ASSUME Headings!HeadingsOK, HeadingsInv, NEW r \in Requests, Headings!Context(r)
    PROVE  HeadingsInv'
<1>1. PICK x \in HeadingRow : /\ x = request[r] /\ Fits(x, choice, headed, Headings!Range(saved))
                              /\ x.pc = "context"
    BY DEF HeadingsInv, AllFit, Headings!Context
<1>2. PICK set \in Some :
          /\ set = IF Headings!Given(r) # None THEN Headings!Given(r) ELSE choice.set
          /\ x.kind = "show" => set = choice.set
  <2>1. Headings!Given(r) \in Some /\ (x.kind = "show" => Headings!Given(r) = None)
      BY <1>1 DEF Headings!Given, HeadingRow, Fits, ReadSince
  <2>2. choice.set \in Some
      BY DEF HeadingsInv, Choice
  <2> QED BY <2>1, <2>2
<1>3. CASE set = None
  <2>1. Headings!Close(r)
      BY <1>2, <1>3 DEF Headings!Context, Headings!Close
  <2> QED BY <2>1, RequestCloses DEF Headings!Context
<1>4. CASE set # None
  <2>1. PICK enabled \in BOOLEAN : enabled = choice.enabled
      BY DEF HeadingsInv, Choice
  <2>2. PICK e \in HeadingRow :
            /\ e = [x EXCEPT !.pc = "verses", !.set = set, !.enabled = enabled]
            /\ e.pc = "verses" /\ e.set = set /\ e.enabled = enabled
            /\ e.kind = x.kind /\ e.for = x.for /\ e.sets = x.sets /\ e.off = x.off /\ e.always = x.always
    <3>1. LET g == [x EXCEPT !.pc = "verses", !.set = set, !.enabled = enabled]
          IN  /\ g \in HeadingRow /\ g.pc = "verses" /\ g.set = set /\ g.enabled = enabled
              /\ g.kind = x.kind /\ g.for = x.for /\ g.sets = x.sets /\ g.off = x.off /\ g.always = x.always
        BY DEF HeadingRow
    <3> QED BY <3>1
  <2>3. request' = [request EXCEPT ![r] = e]
    <3>1. request' = [request EXCEPT ![r] = [@ EXCEPT !.pc = "verses", !.set = set, !.enabled = enabled]]
        BY <1>2, <1>4, <2>1 DEF Headings!Context
    <3> QED BY <1>1, <2>2, <3>1 DEF HeadingsInv, AllFit
  <2>4. KindKept(e) /\ Loggable(e, Headings!Range(saved))
      BY <1>1, <2>2 DEF Fits, KindKept, Loggable, CallKinds
  <2>5. ReadSince(e, choice, headed)
      BY <1>1, <1>2, <2>1, <2>2 DEF Fits, ReadSince
  <2>6. Fits(e, choice, headed, Headings!Range(saved))
      BY <2>4, <2>5 DEF Fits
  <2> QED BY <2>3, <2>6, RequestGoesOn DEF Headings!Context
<1> QED BY <1>3, <1>4

(* What is drafted and headed of the pericope's verses is read.            *)
LEMMA VersesRead ==
    ASSUME HeadingsInv, NEW r \in Requests, Headings!Verses(r)
    PROVE  HeadingsInv'
<1>1. PICK x \in HeadingRow : /\ x = request[r] /\ Fits(x, choice, headed, Headings!Range(saved))
                              /\ x.pc = "verses"
    BY DEF HeadingsInv, AllFit, Headings!Verses
<1>2. PICK pc \in CallKinds : pc = x.kind
    BY <1>1 DEF Fits, KindKept
<1>3. PICK bare \in BOOLEAN : bare = (Headings!First(x.set) \notin headed)
    OBVIOUS
<1>4. PICK e \in HeadingRow :
          /\ e = [x EXCEPT !.pc = pc, !.bare = bare] /\ e.pc = pc /\ e.bare = bare
          /\ e.kind = x.kind /\ e.for = x.for /\ e.set = x.set /\ e.enabled = x.enabled
          /\ e.sets = x.sets /\ e.off = x.off /\ e.always = x.always
  <2>1. LET g == [x EXCEPT !.pc = pc, !.bare = bare]
        IN  /\ g \in HeadingRow /\ g.pc = pc /\ g.bare = bare
            /\ g.kind = x.kind /\ g.for = x.for /\ g.set = x.set /\ g.enabled = x.enabled
            /\ g.sets = x.sets /\ g.off = x.off /\ g.always = x.always
      BY DEF HeadingRow
  <2> QED BY <2>1
<1>5. request' = [request EXCEPT ![r] = e]
  <2>1. request' = [request EXCEPT ![r].pc = pc, ![r].bare = bare]
      BY Zenon, <1>1, <1>2, <1>3 DEF Headings!Verses
  <2> QED BY <1>1, <1>4, <2>1 DEF HeadingsInv, AllFit
<1>6. KindKept(e) /\ Loggable(e, Headings!Range(saved))
    BY <1>1, <1>2, <1>4 DEF Fits, KindKept, Loggable, CallKinds
<1>7. e.bare => Headings!First(e.set) \notin headed
    BY Zenon, <1>3, <1>4
<1>8. ReadSince(e, choice, headed)
    BY <1>1, <1>2, <1>4, <1>7 DEF Fits, ReadSince, CallKinds
<1> QED BY <1>5, <1>6, <1>8, RequestGoesOn DEF Fits, Headings!Verses

(* What a request is answered to show is a title that was right while it    *)
(* was under way.                                                          *)
LEMMA TitleShown ==
    ASSUME Headings!HeadingsOK, HeadingsInv, NEW r \in Requests, Headings!Show(r)
    PROVE  HeadingsInv' /\ Headings!ShownWasRight
<1>1. PICK x \in HeadingRow : /\ x = request[r] /\ Fits(x, choice, headed, Headings!Range(saved))
                              /\ x.pc = "show"
    BY DEF HeadingsInv, AllFit, Headings!Show
<1>2. x.kind = "show" /\ x.set \in x.sets /\ (x.enabled => ~x.off)
      /\ (x.bare => Headings!First(x.set) \notin x.always)
    BY <1>1 DEF Fits, KindKept, ReadSince, CallKinds
<1>3. PICK e \in HeadingRow : /\ e = Headings!Idle /\ e.pc = "idle"
                              /\ Fits(e, choice, headed, Headings!Range(saved))
  <2>1. Headings!Idle.pc = "idle"
      BY DEF Headings!Idle
  <2> QED BY <2>1, IdleFits
<1>4. request' = [request EXCEPT ![r] = e]
    BY <1>3 DEF Headings!Show, Headings!Close
<1>5. AllFit(request', choice, headed, Headings!Range(saved))
    BY <1>3, <1>4, OneFits DEF HeadingsInv
<1>6. shown' \in Some
    BY DEF Headings!Show, Headings!CanSuggest, Headings!HeadingsOK, Some
<1>7. HeadingsInv'
    BY <1>5, <1>6 DEF HeadingsInv, Headings!Show
<1>8. ASSUME shown' # None
      PROVE  shown' = x.set /\ x.enabled /\ x.bare
    BY <1>1, <1>8 DEF Headings!Show, Headings!CanSuggest
<1>9. request[r].pc = "show" /\ request'[r].pc = "idle"
    BY <1>1, <1>3, <1>4 DEF HeadingsInv, AllFit
<1>10. Headings!ShownWasRight
    BY <1>1, <1>2, <1>8, <1>9 DEF Headings!ShownWasRight
<1> QED BY <1>7, <1>10

(* A request that closes in the step in which what is stored of the titles  *)
(* changes, to what fits again.                                            *)
LEMMA TitlesWritten ==
    ASSUME HeadingsInv, NEW r \in Requests, Headings!Close(r), UNCHANGED <<choice, headed, shown>>,
           saved' \in Seq(Starting), Headings!Range(saved) \subseteq Headings!Range(saved'),
           TitlesFit(Headings!Range(saved'), prompt', usage', accepted')
    PROVE  HeadingsInv'
<1>1. PICK e \in HeadingRow : e = Headings!Idle /\ Fits(e, choice, headed, Headings!Range(saved'))
    BY IdleFits
<1>2. request' = [request EXCEPT ![r] = e]
    BY <1>1 DEF Headings!Close
<1>3. AllFit(request', choice, headed, Headings!Range(saved'))
    BY <1>1, <1>2, OneFits DEF HeadingsInv
<1>4. Headings!Range(saved)' = Headings!Range(saved')
    BY DEF Headings!Range
<1> QED BY <1>3, <1>4 DEF HeadingsInv

(* The worker is told what to make a title from: all the verses of the      *)
(* pericope the job is of.                                                 *)
LEMMA TitlePrompted ==
    ASSUME Headings!HeadingsOK, HeadingsInv, NEW r \in Requests, Headings!Prompt(r)
    PROVE  HeadingsInv'
<1>1. CASE ~(Headings!CanSuggest(r) /\ Headings!StillCurrent(r))
  <2>1. UNCHANGED <<choice, headed, prompt, saved, usage, shown, accepted>> /\ Headings!Close(r)
      BY <1>1 DEF Headings!Prompt
  <2> QED BY <2>1, RequestCloses
<1>2. CASE Headings!CanSuggest(r) /\ Headings!StillCurrent(r)
  <2>1. PICK set \in Starting : set = request[r].set /\ set = request[r].for
      BY <1>2 DEF Headings!CanSuggest, Headings!StillCurrent
  <2>2. prompt' = prompt \cup {[set |-> set, verses |-> Layout[set] \cap Layout[set]]}
      BY <1>2, <2>1 DEF Headings!Prompt
  <2>3. Layout[set] \cap Layout[set] = Layout[set]
      OBVIOUS
  <2>4. prompt' = prompt \cup {Headings!Whole(set)}
      BY <2>2, <2>3 DEF Headings!Whole
  <2>5. TitlesFit(Headings!Range(saved), prompt', usage, accepted)
      BY <2>4 DEF HeadingsInv, TitlesFit
  <2>6. UNCHANGED <<choice, headed, saved, usage, shown, accepted>> /\ Headings!Close(r)
      BY DEF Headings!Prompt
  <2>7. saved' \in Seq(Starting) /\ Headings!Range(saved) \subseteq Headings!Range(saved')
      BY <2>6 DEF HeadingsInv
  <2> QED BY <2>5, <2>6, <2>7, TitlesWritten
<1> QED BY <1>1, <1>2

(* A title that came is saved, of the set it was made for.                 *)
LEMMA TitleSaved ==
    ASSUME Headings!HeadingsOK, HeadingsInv, NEW r \in Requests, Headings!Insert(r)
    PROVE  HeadingsInv'
<1>1. PICK set \in Starting : set = request[r].for
    BY DEF HeadingsInv, AllFit, Fits, KindKept, Headings!Insert
<1>2. UNCHANGED <<choice, headed, prompt, usage, shown, accepted>> /\ Headings!Close(r)
    BY DEF Headings!Insert
<1>3. saved' = saved \/ saved' = Append(saved, set)
    BY <1>1 DEF Headings!Insert
<1>4. saved' \in Seq(Starting) /\ Headings!Range(saved) \subseteq Headings!Range(saved')
      /\ Headings!Range(saved') \subseteq Starting
  <2>1. saved \in Seq(Starting)
      BY DEF HeadingsInv
  <2>2. \A t \in Seq(Starting) : Headings!Range(t) \subseteq Starting
      BY DEF Headings!Range
  <2>3. Append(saved, set) \in Seq(Starting)
        /\ Headings!Range(saved) \subseteq Headings!Range(Append(saved, set))
      BY <2>1 DEF Headings!Range
  <2> QED BY <1>3, <2>1, <2>2, <2>3
<1>5. TitlesFit(Headings!Range(saved'), prompt, usage, accepted)
    BY <1>4 DEF HeadingsInv, TitlesFit
<1> QED BY <1>2, <1>4, <1>5, TitlesWritten

(* The job of a title, and what becomes of a title that comes, are written  *)
(* by a request that then closes, or that goes on.                         *)
LEMMA TitleChecked ==
    ASSUME HeadingsInv, NEW r \in Requests,
           Headings!Queue(r) \/ Headings!Check(r) \/ Headings!Find(r) \/ Headings!Fail(r)
    PROVE  HeadingsInv'
<1>1. UNCHANGED <<choice, headed, prompt, saved, usage, shown, accepted>>
    BY DEF Headings!Queue, Headings!Check, Headings!Find, Headings!Fail
<1>2. CASE Headings!Close(r)
    BY <1>1, <1>2, RequestCloses
<1>3. ASSUME NEW pc \in {"insert", "log"}, request' = [request EXCEPT ![r] = [@ EXCEPT !.pc = pc]],
             pc = "insert" => request[r].pc = "save",
             pc = "log" => /\ request[r].pc = "use" /\ request[r].set \in Starting
                           /\ Headings!First(request[r].set) = request[r].verse
                           /\ request[r].set \in Headings!Range(saved)
      PROVE  HeadingsInv'
  <2>1. PICK x \in HeadingRow : x = request[r] /\ Fits(x, choice, headed, Headings!Range(saved))
      BY DEF HeadingsInv, AllFit
  <2>2. PICK e \in HeadingRow : /\ e = [x EXCEPT !.pc = pc] /\ e.pc = pc /\ e.kind = x.kind
                                /\ e.for = x.for /\ e.set = x.set /\ e.verse = x.verse
    <3>1. LET g == [x EXCEPT !.pc = pc]
          IN  /\ g \in HeadingRow /\ g.pc = pc /\ g.kind = x.kind
              /\ g.for = x.for /\ g.set = x.set /\ g.verse = x.verse
        BY DEF HeadingRow
    <3> QED BY <3>1
  <2>3. request' = [request EXCEPT ![r] = e]
      BY <1>3, <2>1, <2>2 DEF HeadingsInv, AllFit
  <2>4. Fits(e, choice, headed, Headings!Range(saved))
      BY <1>3, <2>1, <2>2 DEF Fits, KindKept, Loggable, ReadSince, CallKinds
  <2> QED BY <1>1, <2>3, <2>4, RequestGoesOn
<1>4. CASE Headings!Check(r)
  <2>1. CASE Headings!CanSuggest(r)
    <3>1. request' = [request EXCEPT ![r] = [@ EXCEPT !.pc = "insert"]] /\ request[r].pc = "save"
        BY <1>4, <2>1 DEF Headings!Check
    <3> QED BY <1>3, <3>1
  <2>2. CASE ~Headings!CanSuggest(r)
    <3>1. Headings!Close(r)
        BY <1>4, <2>2 DEF Headings!Check, Headings!Close
    <3> QED BY <1>2, <3>1
  <2> QED BY <2>1, <2>2
<1>5. CASE Headings!Find(r)
  <2>1. CASE Headings!Names(r) /\ Headings!Saved(request[r].set)
    <3>1. request' = [request EXCEPT ![r] = [@ EXCEPT !.pc = "log"]] /\ request[r].pc = "use"
        BY <1>5, <2>1 DEF Headings!Find
    <3> QED BY <1>3, <2>1, <3>1 DEF Headings!Names, Headings!Saved
  <2>2. CASE ~(Headings!Names(r) /\ Headings!Saved(request[r].set))
    <3>1. Headings!Close(r)
        BY <1>5, <2>2 DEF Headings!Find, Headings!Close
    <3> QED BY <1>2, <3>1
  <2> QED BY <2>1, <2>2
<1> QED BY <1>2, <1>4, <1>5 DEF Headings!Queue, Headings!Fail

(* What is told of a title is logged: nothing that was used is ever less.  *)
LEMMA UsageLogged ==
    ASSUME Headings!HeadingsOK, HeadingsInv, NEW r \in Requests, Headings!Log(r)
    PROVE  HeadingsInv'
<1>1. PICK x \in HeadingRow : /\ x = request[r] /\ x.set \in Starting
                              /\ Headings!First(x.set) = x.verse /\ x.set \in Headings!Range(saved)
    BY DEF HeadingsInv, AllFit, Fits, Loggable, Headings!Log
<1>2. PICK set \in Sets : set = x.set
    BY <1>1 DEF Headings!HeadingsOK
<1>3. PICK use \in {"seen", "used"} : use = Headings!Logged(usage[set], x.accepts)
    BY DEF Headings!Logged
<1>4. usage' = [usage EXCEPT ![set] = use]
    BY <1>1, <1>2, <1>3 DEF Headings!Log
<1>5. (x.accepts => use = "used") /\ (usage[set] = "used" => use = "used")
    BY <1>3 DEF Headings!Logged
<1>6. accepted' = accepted \/ (x.accepts /\ accepted' = accepted \cup {Headings!First(set)})
    BY <1>1, <1>2 DEF Headings!Log
<1>7. usage' \in [Sets -> Headings!Usage]
    BY <1>4 DEF HeadingsInv, TitlesFit, Headings!Usage
<1>8. \A s \in Sets : usage'[s] # None => s \in Headings!Range(saved)
    BY <1>1, <1>2, <1>4 DEF HeadingsInv, TitlesFit
<1>9. \A s \in Starting : usage[s] = "used" => usage'[s] = "used"
    BY <1>2, <1>4, <1>5 DEF HeadingsInv, TitlesFit, Headings!HeadingsOK
<1>10. x.accepts => usage'[set] = "used"
    BY <1>2, <1>4, <1>5 DEF HeadingsInv, TitlesFit
<1>11. \A v \in accepted' : \E s \in Starting : usage'[s] = "used" /\ Headings!First(s) = v
    BY <1>1, <1>2, <1>6, <1>9, <1>10 DEF HeadingsInv, TitlesFit
<1>12. UNCHANGED <<choice, headed, prompt, saved, shown>> /\ Headings!Close(r)
    BY DEF Headings!Log
<1>13. TitlesFit(Headings!Range(saved), prompt, usage', accepted')
    BY <1>7, <1>8, <1>11 DEF HeadingsInv, TitlesFit
<1>14. saved' \in Seq(Starting) /\ Headings!Range(saved) \subseteq Headings!Range(saved')
    BY <1>12 DEF HeadingsInv
<1> QED BY <1>12, <1>13, <1>14, TitlesWritten

(* What is saved and shown before the first request.                       *)
LEMMA HeadingsStart ==
    ASSUME Headings!HeadingsOK, Headings!Init
    PROVE  HeadingsInv
<1>1. PICK d \in Initially :
          /\ choice = [set |-> d.set, enabled |-> TRUE] /\ prompt = {Headings!Whole(s) : s \in d.job}
          /\ saved = d.saved /\ shown \in Headings!Range(d.saved) \cup {None}
    BY DEF Headings!Init
<1>2. d.set \in Some /\ d.job \subseteq Starting /\ d.saved \in Seq(Starting) /\ Starting \subseteq Sets
    BY DEF Headings!HeadingsOK, Some
<1>3. Headings!Range(saved) \subseteq Starting /\ saved \in Seq(Starting)
    BY <1>1, <1>2 DEF Headings!Range
<1>4. choice \in Choice /\ headed \subseteq Firsts /\ shown \in Some
    BY <1>1, <1>2, <1>3 DEF Headings!Init, Choice, Some
<1>5. request = [r \in Requests |-> Headings!Idle]
    BY DEF Headings!Init
<1>6. AllFit(request, choice, headed, Headings!Range(saved))
    BY <1>5, IdleFits DEF AllFit
<1>7. TitlesFit(Headings!Range(saved), prompt, usage, accepted)
  <2>1. usage = [s \in Sets |-> None] /\ accepted = {}
      BY DEF Headings!Init
  <2> QED BY <1>1, <1>2, <1>3, <2>1 DEF TitlesFit, Headings!Usage
<1> QED BY <1>3, <1>4, <1>6, <1>7 DEF HeadingsInv

(* Titles are queued for pericopes that start in the chapter.              *)
LEMMA JobsKept ==
    ASSUME job \subseteq Starting, [Headings!Next]_Headings!vars
    PROVE  job' \subseteq Starting
<1>1. CASE \E r \in Requests : Headings!Queue(r)
    BY <1>1 DEF Headings!Queue, Headings!CanSuggest
<1>2. CASE ~\E r \in Requests : Headings!Queue(r)
  <2>1. job' \subseteq job
      BY <1>2 DEF Headings!Next, Headings!vars, Headings!Change, Headings!Heading, Headings!Ask, Headings!Work,
                  Headings!Begin, Headings!Select, Headings!Context, Headings!Verses, Headings!Show,
                  Headings!Prompt, Headings!Check, Headings!Insert, Headings!Find, Headings!Log, Headings!Fail
  <2> QED BY <2>1
<1> QED BY <1>1, <1>2

(* Every step of a request or of the project keeps the invariant.          *)
LEMMA HeadingsStep ==
    ASSUME Headings!HeadingsOK, HeadingsInv, job \subseteq Starting, Headings!Next
    PROVE  HeadingsInv' /\ Headings!ShownWasRight
<1>1. CASE \E set \in Chosen, enabled \in BOOLEAN : Headings!Change(set, enabled)
  <2>1. shown' = shown
      BY <1>1 DEF Headings!Change
  <2> QED BY <1>1, <2>1, ProjectChanges DEF Headings!ShownWasRight
<1>2. CASE \E v \in {Headings!First(s) : s \in Chosen \ {None}} : Headings!Heading(v)
  <2>1. PICK v \in {Headings!First(s) : s \in Chosen \ {None}} : Headings!Heading(v)
      BY <1>2
  <2>2. v \in Firsts
      BY <2>1 DEF Firsts, Headings!HeadingsOK
  <2>3. shown' = shown
      BY <2>1 DEF Headings!Heading
  <2> QED BY <2>1, <2>2, <2>3, HeadingChanges DEF Headings!ShownWasRight
<1>3. ASSUME NEW r \in Requests, Headings!Ask(r) \/ Headings!Work(r)
      PROVE  HeadingsInv' /\ Headings!ShownWasRight
  <2>1. ASSUME NEW kind \in CallKinds, NEW for \in Some, NEW accepts \in BOOLEAN,
               kind = "save" => for \in Starting, kind = "use" => for # None,
               Headings!Begin(r, kind, for, accepts)
        PROVE  HeadingsInv' /\ Headings!ShownWasRight
    <3>1. shown' = shown
        BY <2>1 DEF Headings!Begin
    <3> QED BY <2>1, <3>1, RequestBegun DEF Headings!ShownWasRight
  <2>2. CASE Headings!Begin(r, "queue", None, FALSE) \/ Headings!Begin(r, "show", None, FALSE)
      BY <2>1, <2>2 DEF CallKinds, Some
  <2>3. ASSUME NEW accepts \in BOOLEAN, shown # None, Headings!Begin(r, "use", shown, accepts)
        PROVE  HeadingsInv' /\ Headings!ShownWasRight
      BY <2>1, <2>3 DEF CallKinds, HeadingsInv
  <2>4. ASSUME NEW s \in job, Headings!Begin(r, "prompt", s, FALSE)
        PROVE  HeadingsInv' /\ Headings!ShownWasRight
      BY <2>1, <2>4 DEF CallKinds, Some, Headings!HeadingsOK
  <2>5. ASSUME NEW p \in prompt, Headings!Begin(r, "save", p.set, FALSE)
        PROVE  HeadingsInv' /\ Headings!ShownWasRight
    <3>1. p.set \in Starting
        BY DEF HeadingsInv, TitlesFit, Headings!Whole
    <3> QED BY <2>1, <2>5, <3>1 DEF CallKinds, Some, Headings!HeadingsOK
  <2> QED BY <1>3, <2>2, <2>3, <2>4, <2>5 DEF Headings!Ask, Headings!Work
<1>4. ASSUME NEW r \in Requests, Headings!Show(r)
      PROVE  HeadingsInv' /\ Headings!ShownWasRight
    BY <1>4, TitleShown
<1>5. ASSUME NEW r \in Requests,
             \/ Headings!Select(r) \/ Headings!Context(r) \/ Headings!Verses(r) \/ Headings!Queue(r)
             \/ Headings!Prompt(r) \/ Headings!Check(r) \/ Headings!Insert(r) \/ Headings!Find(r)
             \/ Headings!Log(r) \/ Headings!Fail(r)
      PROVE  HeadingsInv' /\ Headings!ShownWasRight
  <2>1. shown' = shown
      BY <1>5 DEF Headings!Select, Headings!Context, Headings!Verses, Headings!Queue, Headings!Prompt,
                  Headings!Check, Headings!Insert, Headings!Find, Headings!Log, Headings!Fail
  <2>2. HeadingsInv'
      BY <1>5, TitleSelected, ContextRead, VersesRead, TitlePrompted, TitleSaved, TitleChecked, UsageLogged
  <2> QED BY <2>1, <2>2 DEF Headings!ShownWasRight
<1> QED BY <1>1, <1>2, <1>3, <1>4, <1>5 DEF Headings!Next

(* A title is made from all the verses of its pericope, saved of one that   *)
(* starts in the chapter and counted as accepted for good; and the one that *)
(* is shown was right while the request was under way: of a set the project *)
(* had, with the switch on and no heading of the translator                 *)
(* (ai-pericope-suggestions.service.ts).                                   *)
THEOREM TitlesAreRight ==
    ASSUME Headings!HeadingsOK
    PROVE  Headings!Spec => []Headings!HeadingsKept /\ [][Headings!ShownWasRight]_Headings!vars
<1>1. Headings!Init => HeadingsInv /\ job \subseteq Starting
    BY HeadingsStart DEF Headings!Init, Headings!HeadingsOK
<1>2. HeadingsInv /\ job \subseteq Starting /\ [Headings!Next]_Headings!vars
      => HeadingsInv' /\ job' \subseteq Starting
  <2>1. ASSUME HeadingsInv, UNCHANGED Headings!vars PROVE HeadingsInv'
    <3>1. UNCHANGED <<choice, headed, prompt, saved, usage, shown, accepted, request>>
        BY <2>1 DEF Headings!vars
    <3>2. Headings!Range(saved)' = Headings!Range(saved)
        BY <3>1 DEF Headings!Range
    <3> QED BY <2>1, <3>1, <3>2 DEF HeadingsInv
  <2> QED BY <2>1, HeadingsStep, JobsKept
<1>3. HeadingsInv /\ job \subseteq Starting /\ [Headings!Next]_Headings!vars => [Headings!ShownWasRight]_Headings!vars
    BY HeadingsStep
<1>4. HeadingsInv => Headings!HeadingsKept
  <2>1. HeadingsInv => TitlesFit(Headings!Range(saved), prompt, usage, accepted)
      BY DEF HeadingsInv
  <2> QED BY <2>1 DEF TitlesFit, Headings!HeadingsKept, Headings!AcceptanceCounts,
                      Headings!TitlesMeanTheirPericope, Headings!Saved
<1>5. (job \subseteq Starting)' <=> job' \subseteq Starting
    OBVIOUS
<1> QED BY <1>1, <1>2, <1>3, <1>4, <1>5, PTL DEF Headings!Spec
=============================================================================
