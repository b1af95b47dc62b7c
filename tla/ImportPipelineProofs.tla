------------------------ MODULE ImportPipelineProofs ------------------------
(***************************************************************************)
(* Safety of ImportPipeline for any requests, projects, milestones and     *)
(* books, and any database the first request may find: AskedOK.            *)
(*                                                                         *)
(* A transaction writes at its commit what it has chosen before.  It is    *)
(* still right because it holds the lock of the project (Locked), or       *)
(* because nobody else knows of its project and its milestone yet          *)
(* (Creating, Reserved); so what it has staged is what the project is like *)
(* at the commit (Staged).  A book an import waits for is in the hands of  *)
(* somebody (Cared), who lets go of it when it is complete (Working).      *)
(***************************************************************************)
EXTENDS ImportPipeline, TLAPS, FiniteSetTheorems, WellFoundedInduction

Critical == {"write", "decide", "commit"}
HasLink(u, b) == held[u][b].link # "none"
Making == {"createProject", "createMilestone", "import"}

(* A book is in one milestone of a project.                                *)
Once ==
    \A u, v \in Units, b \in Books :
        unit[u] = unit[v] /\ unit[u] \in Projects /\ HasLink(u, b) /\ HasLink(v, b) => u = v
Unborn == \A u \in Units, b \in Books : unit[u] = "unborn" => ~HasLink(u, b)
Living == \A u \in Units : unit[u] \in Projects => unit[u] \in project

(* Who holds the project of a request, and who has its milestone.          *)
Locked(r, q) ==
    q.pc \in Critical /\ q.call.kind # "createProject" =>
        holder[q.call.project] = r /\ q.call.project \in project
Creating(r, q) ==
    q.pc \in Critical /\ q.call.kind = "createProject" =>
        /\ q.call.project \notin project
        /\ \A o \in Requests \ {r} :
              request[o].pc \in Critical /\ request[o].call.kind = "createProject" =>
                  request[o].call.project # q.call.project
Reserved(r, q) ==
    q.pc \in {"decide", "commit"} /\ q.call.kind \in Making =>
        \/ q.new = 0 /\ q.call.kind = "createProject" /\ q.call.books = {}
        \/ /\ q.new \in Units /\ unit[q.new] = "unborn"
           /\ \A o \in Requests \ {r} : request[o].new # q.new
Held ==
    \A p \in Projects : holder[p] # None =>
        /\ request[holder[p]].pc \in Critical /\ request[holder[p]].call.project = p
        /\ request[holder[p]].call.kind # "createProject"

(* What has been asked for, and what has been staged for the commit.       *)
Called(q) ==
    q.pc # "idle" =>
        /\ q.call.kind \notin {"none", "cascade"} /\ q.call.project \in Projects
        /\ q.call.files => q.call.kind \in {"createProject", "import"}
        /\ q.call.kind \in {"update", "deleteMilestone"} =>
              q.call.unit \in Units /\ unit[q.call.unit] \in {q.call.project, "deleted"}
        /\ q.pc = "lock" => q.call.kind # "createProject"
        /\ q.pc = "decide" => q.call.kind \in {"createProject", "import"}
        /\ q.pc = "enqueue" => q.new \in Units /\ unit[q.new] # "unborn"
Staged(q) ==
    LET c == q.call IN
    /\ q.pc \in {"decide", "commit"} /\ c.kind = "createProject" => q.places = {}
    /\ q.pc \in {"decide", "commit"} /\ c.kind \in {"import", "createMilestone"} =>
          q.places = Placements(c.project, c.books)
    /\ q.pc \in {"decide", "commit"} /\ c.kind = "import" => q.places = {}
    /\ q.pc = "commit" /\ c.kind = "update" =>
          /\ unit[c.unit] = c.project /\ q.new = c.unit
          /\ c.move # {} => c.target \in Units /\ unit[c.target] = c.project
          /\ \A b \in c.move : HasLink(c.unit, b) /\ b \notin c.books
          /\ q.places = Placements(c.project, c.books)
    /\ q.pc = "commit" /\ c.kind = "deleteProject" => UnitsOf(c.project) = {}

(* The text of a book is there, or somebody fetches it.                    *)
Cared(b) == b \in complete \/ Fetching(b)
Booked(q) ==
    q.pc = "commit" /\ q.call.files =>
        \A b \in q.call.books :
            Cared(b) \/ (q.call.kind = "import" /\ b \in q.send)
Waiting == \A i \in Ids : import[i].state = "pending" => Cared(i[2])

(* The job that is being done.                                             *)
OfMilestone(j) == j.unit # 0 => unit[j.unit] # "unborn"
Working ==
    worker.pc # "idle" =>
        /\ worker.job \in Job /\ OfMilestone(worker.job)
        /\ \A b \in worker.job.books :
              \/ b \in complete \/ b \in worker.bad
              \/ worker.pc \in {"fetch", "book"} /\ \E x \in worker.todo : x[1] = b
              \/ worker.pc = "book" /\ b \in worker.done
        /\ worker.pc = "assign" => worker.bad = {}

Stands(r, q) ==
    Locked(r, q) /\ Creating(r, q) /\ Reserved(r, q) /\ Called(q) /\ Staged(q) /\ Booked(q)

IInv ==
    /\ TypeOK
    /\ Once /\ Unborn /\ Living /\ Held
    /\ \A r \in Requests : Stands(r, request[r])
    /\ Waiting /\ Working /\ \A j \in job : OfMilestone(j)

-----------------------------------------------------------------------------
(* The smallest of a set of numbers.                                       *)
LEMMA SmallestIs ==
    ASSUME NEW T, T \subseteq Nat, T # {}
    PROVE  \E x \in T : \A y \in T : x <= y
<1>1. PICK x \in T : \A y \in T : <<y, x>> \notin OpToRel(<, Nat)
    BY NatLessThanWellFounded, WFMin
<1>2. \A y \in T : ~(y < x)
    BY <1>1 DEF OpToRel
<1> QED BY <1>2

(* The id of a new milestone: nobody has it.                               *)
LEMMA NewIs ==
    ASSUME AskedOK, Numbered
    PROVE  NewUnit \in Units /\ Fresh(NewUnit)
<1>1. PICK T : T = {u \in Units : Fresh(u)}
    OBVIOUS
<1>2. \E x \in T : \A y \in T : x <= y
    BY <1>1, SmallestIs DEF AskedOK, Numbered
<1>3. Min(T) \in T
    BY <1>2, Zenon DEF Min
<1>4. NewUnit = Min(T)
    BY <1>1 DEF NewUnit
<1> QED BY <1>1, <1>3, <1>4

(* The chapter the worker goes for next is one it has left.                *)
LEMMA NextIs ==
    ASSUME AskedOK, NEW T, T \subseteq Books \X Chapters, T # {}
    PROVE  \E x \in T : \A y \in T : x[1] < y[1] \/ (x[1] = y[1] /\ x[2] <= y[2])
<1> DEFINE B == {x[1] : x \in T}
<1>1. \A x \in T : x[1] \in Nat /\ x[2] \in Nat
    BY DEF AskedOK
<1>2. PICK b \in B : \A c \in B : b <= c
  <2>1. B \subseteq Nat
      BY <1>1
  <2>2. B # {}
      OBVIOUS
  <2> HIDE DEF B
  <2> QED BY <2>1, <2>2, SmallestIs
<1> DEFINE C == {x[2] : x \in {y \in T : y[1] = b}}
<1>3. PICK c \in C : \A d \in C : c <= d
  <2>1. C \subseteq Nat
      BY <1>1
  <2>2. C # {}
      BY <1>2
  <2> HIDE DEF C
  <2> QED BY <2>1, <2>2, SmallestIs
<1>4. PICK x \in T : x[1] = b /\ x[2] = c
    BY <1>3
<1>5. ASSUME NEW y \in T
      PROVE  x[1] < y[1] \/ (x[1] = y[1] /\ x[2] <= y[2])
  <2>1. y[1] \in Nat /\ y[2] \in Nat /\ b \in Nat /\ c \in Nat
      BY <1>1, <1>4
  <2>2. b <= y[1]
      BY <1>2
  <2>3. CASE y[1] = b
      BY <1>3, <1>4, <2>1, <2>3
  <2> QED BY <1>4, <2>1, <2>2, <2>3
<1> QED BY <1>5

(* A request that has not begun.                                           *)
LEMMA IdleIs ==
    ASSUME AskedOK
    PROVE  /\ Idle \in Request /\ Idle.pc = "idle" /\ Idle.new = 0
           /\ Idle.call.project = None /\ Idle.call.kind = "none"
<1>1. NoCall \in Asked
    BY DEF NoCall, Asked, Kinds
<1>2. Idle = [pc |-> "idle", call |-> NoCall, new |-> 0, places |-> {},
              staged |-> [b \in Books |-> {}], send |-> {}]
    BY DEF Idle
<1>3. [b \in Books |-> {}] \in [Books -> SUBSET Chapters]
    OBVIOUS
<1> QED BY <1>1, <1>2, <1>3 DEF Request, Steps, NoCall

(* What a request is, read once.                                           *)
LEMMA Itself ==
    ASSUME IInv, NEW r \in Requests
    PROVE  \E q \in Request : q = request[r] /\ Stands(r, q) /\ (q.pc = "idle" => q = Idle)
BY DEF IInv, TypeOK

(* The same of its fields.                                                 *)
LEMMA FieldsTyped ==
    ASSUME NEW q \in Request
    PROVE  /\ q.pc \in Steps /\ q.call \in Asked /\ q.new \in Units \cup {0} /\ q.places \subseteq Ids
           /\ q.staged \in [Books -> SUBSET Chapters] /\ q.send \subseteq Books
           /\ q.call.kind \in Kinds /\ q.call.project \in Projects \cup {None}
           /\ q.call.unit \in Units \cup {0} /\ q.call.books \subseteq Books /\ q.call.move \subseteq Books
           /\ q.call.target \in Units \cup {0} /\ q.call.remove \subseteq Books /\ q.call.files \in BOOLEAN
BY DEF Request, Asked

-----------------------------------------------------------------------------
(* What a step leaves to a request that holds a project.                   *)
KeptOf(p) ==
    \A u \in Units :
        /\ unit'[u] = p <=> unit[u] = p
        /\ unit[u] = p => \A b \in Books : HasLink(u, b)' <=> HasLink(u, b)
UnitsKept == \A u \in Units : unit[u] # "unborn" => unit'[u] \in {unit[u], "deleted"}
CareKept == \A b \in Books : Cared(b) => Cared(b)'
Creator(q) == q.pc \in Critical /\ q.call.kind = "createProject"
Leaves(o, q) ==
    /\ \A p \in Projects : holder[p] = o =>
          holder'[p] = o /\ (p \in project => p \in project') /\ KeptOf(p)
    /\ Creator(q) => q.call.project \notin project'
    /\ UnitsKept /\ CareKept
    /\ q.new \in Units /\ unit[q.new] = "unborn" => unit'[q.new] = "unborn"
    /\ \A x \in Requests \ {o} :
          /\ Creator(q) /\ Creator(request'[x]) => request'[x].call.project # q.call.project
          /\ Reserved(o, q) /\ q.new \in Units /\ q.pc \in {"decide", "commit"}
                /\ q.call.kind \in Making => request'[x].new # q.new

(* The placements in a project whose milestones and links stay.            *)
LEMMA PlacementsKept ==
    ASSUME NEW p, NEW books, books \subseteq Books, KeptOf(p)
    PROVE  Placements(p, books)' = Placements(p, books) /\ UnitsOf(p)' = UnitsOf(p)
<1>1. UnitsOf(p)' = UnitsOf(p)
    BY DEF KeptOf, UnitsOf
<1>2. \A i \in UnitsOf(p) \X books : HasLink(i[1], i[2])' <=> HasLink(i[1], i[2])
    BY DEF KeptOf, UnitsOf
<1> QED BY <1>1, <1>2 DEF Placements, HasLink

(* What has been staged stays right.                                       *)
LEMMA StagedKept ==
    ASSUME NEW q \in Request, Called(q), q.pc # "idle", Staged(q), KeptOf(q.call.project)
    PROVE  Staged(q)'
<1>1. q.call.books \subseteq Books /\ q.call.move \subseteq Books
    BY FieldsTyped
<1>2. /\ Placements(q.call.project, q.call.books)' = Placements(q.call.project, q.call.books)
      /\ UnitsOf(q.call.project)' = UnitsOf(q.call.project)
    BY <1>1, PlacementsKept
<1>3. ASSUME q.pc = "commit", q.call.kind = "update"
      PROVE  /\ unit'[q.call.unit] = q.call.project
             /\ q.call.move # {} => q.call.target \in Units /\ unit'[q.call.target] = q.call.project
             /\ \A b \in q.call.move : HasLink(q.call.unit, b)' /\ b \notin q.call.books
    BY <1>1, <1>3 DEF Staged, Called, KeptOf
<1> QED BY <1>2, <1>3 DEF Staged

(* A request stands where it stood after a step that leaves it alone.      *)
LEMMA StandKept ==
    ASSUME AskedOK, IInv, NEW o \in Requests, NEW q \in Request, q = request[o], Leaves(o, q)
    PROVE  Stands(o, q)'
<1>1. Stands(o, q) /\ (q.pc = "idle" => q = Idle)
    BY Itself
<1>2. Locked(o, q)'
    BY <1>1 DEF Stands, Locked, Called, Leaves, Critical
<1>3. Creating(o, q)'
    BY <1>1 DEF Stands, Creating, Leaves, Creator
<1>4. Reserved(o, q)'
    BY <1>1 DEF Stands, Reserved, Leaves
<1>5. Called(q)'
    BY <1>1, FieldsTyped DEF Stands, Called, Leaves, UnitsKept, AskedOK
<1>6. Staged(q)'
  <2>1. CASE q.pc \notin {"decide", "commit"}
      BY <2>1 DEF Staged
  <2>2. CASE q.pc \in {"decide", "commit"} /\ q.call.kind = "createProject"
      BY <1>1, <2>2 DEF Stands, Staged
  <2>3. CASE q.pc \in {"decide", "commit"} /\ q.call.kind # "createProject"
    <3>1. holder[q.call.project] = o /\ q.call.project \in Projects
        BY <1>1, <2>3 DEF Stands, Locked, Called, Critical
    <3>2. KeptOf(q.call.project)
        BY <3>1 DEF Leaves
    <3> QED BY <1>1, <2>3, <3>2, StagedKept DEF Stands
  <2> QED BY <2>1, <2>2, <2>3
<1>7. Booked(q)'
    BY <1>1, FieldsTyped DEF Stands, Booked, Leaves, CareKept
<1> QED BY <1>2, <1>3, <1>4, <1>5, <1>6, <1>7 DEF Stands

(* One whose transaction is over, or has not begun.                        *)
LEMMA OverStands ==
    ASSUME AskedOK, NEW r \in Requests, NEW new \in Request, new.pc \notin Critical, Called(new)'
    PROVE  Stands(r, new)'
BY DEF Stands, Locked, Creating, Reserved, Staged, Booked, Critical

-----------------------------------------------------------------------------
(* What the invariant is about, and what may change beside it.             *)
Contents == [link : {"none", "active", "removed"}, chapters : SUBSET Chapters, verses : BOOLEAN]
Contained == [Units -> [Books -> Contents]]
Imported == [Ids -> [at : Units \cup {0}, state : {"none", "pending", "done"}]]
Retried == [Books -> [state : {"none", "queued", "active"}, left : 0 .. Retries]]
SameLinks == \A u \in Units, b \in Books : HasLink(u, b)' <=> HasLink(u, b)
NoneMore == \A i \in Ids : import'[i].state = "pending" => import[i].state = "pending"

(* The steps of the worker, of the materializations and of the sweep,      *)
(* which leave the milestones and the requests alone.                      *)
LEMMA RestStep ==
    ASSUME AskedOK, IInv, UNCHANGED <<project, unit, holder, request>>,
           held' \in Contained, SameLinks, import' \in Imported, NoneMore,
           text' \in [Books -> SUBSET Chapters], complete' \subseteq Books,
           job' \subseteq Job, \A j \in job' : OfMilestone(j),
           worker' \in Work, Working', retry' \in Retried, CareKept
    PROVE  IInv'
<1>1. TypeOK'
    BY DEF IInv, TypeOK, Contained, Contents, Imported, Retried
<1>2. Once' /\ Unborn' /\ Living' /\ Held'
    BY DEF IInv, Once, Unborn, Living, Held, SameLinks
<1>3. \A p \in Projects : KeptOf(p)
    BY DEF KeptOf, SameLinks
<1>4. ASSUME NEW o \in Requests
      PROVE  Stands(o, request[o])'
  <2>1. PICK q \in Request : q = request[o] /\ Stands(o, q)
      BY Itself
  <2>2. \A x \in Requests : request'[x] = request[x]
      OBVIOUS
  <2>3. /\ Creator(q) => q.call.project \notin project'
        /\ \A x \in Requests \ {o} : Creator(q) /\ Creator(request'[x]) =>
              request'[x].call.project # q.call.project
      BY <2>1, <2>2 DEF Stands, Creating, Creator
  <2>4. \A x \in Requests \ {o} : Reserved(o, q) /\ q.new \in Units /\ q.pc \in {"decide", "commit"}
                /\ q.call.kind \in Making => request'[x].new # q.new
      BY <2>2 DEF Reserved, AskedOK
  <2>5. Leaves(o, q)
      BY <1>3, <2>3, <2>4 DEF Leaves, UnitsKept
  <2>6. Stands(o, q)'
      BY <2>1, <2>5, StandKept
  <2> QED BY <2>1, <2>6
<1>5. Waiting'
    BY DEF IInv, Waiting, NoneMore, CareKept, Ids
<1>6. (\A j \in job : OfMilestone(j))'
    BY DEF OfMilestone
<1> QED BY <1>1, <1>2, <1>4, <1>5, <1>6 DEF IInv

(* The steps of a request that leave the projects and milestones alone.    *)
LEMMA RequestStep ==
    ASSUME AskedOK, IInv, NEW r \in Requests, NEW new \in Request,
           request' = [request EXCEPT ![r] = new], new.pc = "idle" => new = Idle,
           UNCHANGED <<unchangedDb, worker, dead>>, retry' \in Retried,
           job \subseteq job', job' \subseteq Job, \A j \in job' : OfMilestone(j),
           holder' \in [Projects -> Requests \cup {None}],
           \A p \in Projects : /\ holder'[p] # holder[p] => holder[p] \in {None, r} /\ holder'[p] \in {None, r}
                               /\ holder'[p] = r => /\ new.pc \in Critical /\ new.call.project = p
                                                    /\ new.call.kind # "createProject",
           Creator(new) => \/ \A o \in Requests \ {r} : request[o].call.project # new.call.project
                           \/ Creator(request[r]) /\ request[r].call.project = new.call.project,
           new.new \in {0, request[r].new} \/ (new.new \in Units /\ (Fresh(new.new) \/ unit[new.new] # "unborn")),
           Stands(r, new)'
    PROVE  IInv'
<1>1. \A x \in Requests : request'[x] = IF x = r THEN new ELSE request[x]
    BY DEF IInv, TypeOK
<1>2. ASSUME NEW p \in Projects, holder'[p] # None
      PROVE  /\ request'[holder'[p]].pc \in Critical /\ request'[holder'[p]].call.project = p
             /\ request'[holder'[p]].call.kind # "createProject"
  <2>1. holder'[p] \in Requests
      BY <1>2
  <2>2. CASE holder'[p] = r
      BY <1>1, <2>2
  <2>3. CASE holder'[p] # r
    <3>1. holder'[p] = holder[p]
        BY <1>2, <2>3
    <3> QED BY <1>1, <1>2, <2>1, <2>3, <3>1 DEF IInv, Held
  <2> QED BY <2>2, <2>3
<1>3. Held'
    BY <1>2 DEF Held
<1>4. TypeOK'
  <2>1. request' \in [Requests -> Request] /\ \A x \in Requests : request'[x].pc = "idle" => request'[x] = Idle
      BY <1>1 DEF IInv, TypeOK
  <2> QED BY <1>2, <2>1 DEF IInv, TypeOK, Retried, unchangedDb
<1>5. Once' /\ Unborn' /\ Living'
    BY DEF IInv, Once, Unborn, Living, HasLink, unchangedDb
<1>6. CareKept
    BY DEF CareKept, Cared, Fetching, unchangedDb
<1>7. Waiting' /\ Working' /\ (\A j \in job : OfMilestone(j))'
  <2>1. Waiting'
      BY <1>6 DEF IInv, Waiting, CareKept, unchangedDb, Ids
  <2>2. Working'
      BY DEF IInv, Working, OfMilestone, unchangedDb
  <2>3. (\A j \in job : OfMilestone(j))'
      BY DEF OfMilestone, unchangedDb
  <2> QED BY <2>1, <2>2, <2>3
<1>8. ASSUME NEW o \in Requests
      PROVE  Stands(o, request[o])'
  <2>1. CASE o = r
      BY <1>1, <2>1
  <2>2. CASE o # r
    <3>1. PICK q \in Request : q = request[o] /\ Stands(o, q)
        BY Itself
    <3>2. PICK old \in Request : old = request[r] /\ Stands(r, old)
        BY Itself
    <3>3. /\ Creator(q) => q.call.project \notin project'
          /\ \A x \in Requests \ {o} : Creator(q) /\ Creator(request'[x]) =>
                request'[x].call.project # q.call.project
      <4>1. Creator(q) => q.call.project \notin project'
          BY <3>1 DEF Stands, Creating, Creator, unchangedDb
      <4>2. ASSUME NEW x \in Requests \ {o}, Creator(q), Creator(request'[x])
            PROVE  request'[x].call.project # q.call.project
        <5>1. CASE x = r
          <6>1. request'[x] = new
              BY <1>1, <5>1
          <6>2. Creator(old) => old.call.project # q.call.project
              BY <2>2, <3>1, <3>2, <4>2 DEF Stands, Creating, Creator
          <6> QED BY <2>2, <3>1, <3>2, <4>2, <6>1, <6>2
        <5>2. CASE x # r
          <6>1. request'[x] = request[x]
              BY <1>1, <5>2
          <6> QED BY <3>1, <4>2, <6>1 DEF Stands, Creating, Creator
        <5> QED BY <5>1, <5>2
      <4> QED BY <4>1, <4>2
    <3>4. ASSUME NEW x \in Requests \ {o}, Reserved(o, q), q.new \in Units, q.pc \in {"decide", "commit"},
                 q.call.kind \in Making
          PROVE  request'[x].new # q.new
      <4>1. q.new # 0 /\ unit[q.new] = "unborn" /\ \A y \in Requests \ {o} : request[y].new # q.new
          BY <3>4 DEF Reserved, AskedOK
      <4>2. CASE x # r
          BY <1>1, <4>1, <4>2
      <4>3. CASE x = r
        <5>1. request'[x].new = new.new /\ request[r].new # q.new
            BY <1>1, <2>2, <4>1, <4>3
        <5>2. Fresh(new.new) => new.new # q.new
            BY <3>1 DEF Fresh
        <5> QED BY <4>1, <5>1, <5>2
      <4> QED BY <4>2, <4>3
    <3>5. \A p \in Projects : holder[p] = o =>
              holder'[p] = o /\ (p \in project => p \in project') /\ KeptOf(p)
        BY <2>2 DEF KeptOf, HasLink, unchangedDb, AskedOK
    <3>6. Leaves(o, q)
        BY <1>6, <3>3, <3>4, <3>5 DEF Leaves, UnitsKept, unchangedDb
    <3>7. Stands(o, q)'
        BY <3>1, <3>6, StandKept
    <3>8. request'[o] = q
        BY <1>1, <2>2, <3>1
    <3> QED BY <3>7, <3>8
  <2> QED BY <2>1, <2>2
<1> QED BY <1>3, <1>4, <1>5, <1>7, <1>8 DEF IInv

-----------------------------------------------------------------------------
(* The steps of requests, one by one.                                      *)

(* A step that leaves the database, the queues and the locks alone.        *)
LEMMA QuietStep ==
    ASSUME AskedOK, IInv, NEW r \in Requests, NEW new \in Request,
           request' = [request EXCEPT ![r] = new], new.pc = "idle" => new = Idle,
           UNCHANGED <<unchangedDb, unchangedQueues, holder>>,
           new.pc \in Critical <=> request[r].pc \in Critical,
           new.pc \in Critical => new.call = request[r].call,
           new.new \in {0, request[r].new} \/ (new.new \in Units /\ (Fresh(new.new) \/ unit[new.new] # "unborn")),
           Reserved(r, new)', Called(new), Staged(new), Booked(new)
    PROVE  IInv'
<1>1. PICK q \in Request : q = request[r] /\ Stands(r, q)
    BY Itself
<1>2. \A x \in Requests : x # r => request'[x] = request[x]
    BY DEF IInv, TypeOK
<1>3. Locked(r, new)' /\ Creating(r, new)'
    BY <1>1, <1>2 DEF Stands, Locked, Creating, unchangedDb
<1>4. Called(new)' /\ Booked(new)'
    BY DEF Called, Booked, Cared, Fetching, unchangedDb, unchangedQueues
<1>5. \A p \in Projects : KeptOf(p)
    BY DEF KeptOf, HasLink, unchangedDb
<1>6. Staged(new)'
  <2>1. CASE new.pc = "idle"
      BY <2>1 DEF Staged
  <2>2. CASE new.pc # "idle"
      BY <1>5, <2>2, StagedKept DEF Called
  <2> QED BY <2>1, <2>2
<1>7. Stands(r, new)'
    BY <1>3, <1>4, <1>6 DEF Stands
<1>8. \A p \in Projects : holder'[p] = r => /\ new.pc \in Critical /\ new.call.project = p
                                            /\ new.call.kind # "createProject"
    BY DEF IInv, Held, AskedOK
<1>9. Creator(new) => Creator(request[r]) /\ request[r].call.project = new.call.project
    BY DEF Creator
<1>10. job' \subseteq Job /\ retry' \in Retried /\ holder' \in [Projects -> Requests \cup {None}]
    BY DEF IInv, TypeOK, unchangedQueues, Retried
<1> QED BY <1>7, <1>8, <1>9, <1>10, RequestStep DEF IInv, unchangedQueues

(* What holds of every request that is over.                               *)
LEMMA IdleStands ==
    ASSUME AskedOK, NEW r \in Requests
    PROVE  Called(Idle) /\ Called(Idle)' /\ Stands(r, Idle)'
<1>1. Called(Idle) /\ Called(Idle)'
    BY IdleIs DEF Called
<1> QED BY <1>1, IdleIs, OverStands DEF Critical

(* A request gives up, or ends: it lets go of its project.                 *)
LEMMA EndKeeps ==
    ASSUME AskedOK, IInv, NEW r \in Requests, Answer(r),
           Release(r) \/ (UNCHANGED holder /\ request[r].pc \notin Critical),
           UNCHANGED <<unchangedDb, worker, dead, job>>, retry' \in Retried
    PROVE  IInv'
<1>1. PICK new \in Request : new = Idle
    BY IdleIs
<1>2. new.pc = "idle" /\ new.new = 0 /\ new.pc \notin Critical
    BY <1>1, IdleIs DEF Critical
<1>3. request' = [request EXCEPT ![r] = new]
    BY <1>1 DEF Answer
<1>4. \A p \in Projects : /\ holder'[p] # holder[p] => holder[p] \in {None, r} /\ holder'[p] \in {None, r}
                          /\ holder'[p] # r
    BY DEF Release, IInv, Held, TypeOK, AskedOK
<1>5. holder' \in [Projects -> Requests \cup {None}]
    BY DEF Release, IInv, TypeOK
<1>6. Stands(r, new)'
    BY <1>1, IdleStands
<1>7. job' \subseteq Job /\ job \subseteq job' /\ \A j \in job' : OfMilestone(j)
    BY DEF IInv, TypeOK
<1>8. ~Creator(new) /\ UNCHANGED <<unchangedDb, worker, dead>>
    BY <1>2 DEF Creator
<1>9. \A p \in Projects : /\ holder'[p] # holder[p] => holder[p] \in {None, r} /\ holder'[p] \in {None, r}
                          /\ holder'[p] = r => /\ new.pc \in Critical /\ new.call.project = p
                                               /\ new.call.kind # "createProject"
    BY <1>4
<1> QED BY <1>1, <1>2, <1>3, <1>5, <1>6, <1>7, <1>8, <1>9, RequestStep

(* A request begins.                                                       *)
LEMMA BeginKeeps ==
    ASSUME AskedOK, IInv, NEW r \in Requests, NEW c \in Calls, c.kind # "cascade", Begin(r, c)
    PROVE  IInv'
<1>1. PICK i \in Request : i = Idle /\ i.pc = "idle" /\ i.new = 0
    BY IdleIs
<1>2. c \in Asked /\ c.kind # "none" /\ c.project \in Projects
      /\ (c.files => c.kind \in {"createProject", "import"})
    BY DEF AskedOK
<1> DEFINE step == IF c.kind = "createProject" THEN "write" ELSE "lock"
           new == [i EXCEPT !.pc = step, !.call = c]
<1>3. new \in Request
    BY <1>2 DEF Request, Steps
<1>4. new.pc = step /\ new.call = c /\ new.new = 0
    BY <1>1 DEF Request
<1>5. request' = [request EXCEPT ![r] = new]
    BY <1>1 DEF Begin
<1> HIDE DEF new
<1>6. request[r].pc = "idle"
    BY DEF Begin
<1>7. Called(new)
  <2>1. c.kind \in {"update", "deleteMilestone"} => c.unit \in Units /\ unit[c.unit] = c.project
      BY DEF Begin, Exists
  <2> QED BY <1>2, <1>4, <2>1 DEF Called
<1>8. Called(new)'
    BY <1>7 DEF Called, Begin, unchangedDb
<1>9. c.kind = "createProject" => c.project \notin project /\ \A o \in Requests : request[o].call.project # c.project
    BY DEF Begin
<1>10. Stands(r, new)'
  <2>1. CASE c.kind # "createProject"
      BY <1>3, <1>4, <1>8, <2>1, OverStands DEF Critical
  <2>2. CASE c.kind = "createProject"
    <3>1. \A o \in Requests \ {r} : request'[o] = request[o]
        BY <1>5 DEF IInv, TypeOK
    <3>2. Locked(r, new)' /\ Reserved(r, new)' /\ Staged(new)' /\ Booked(new)'
        BY <1>4, <2>2 DEF Locked, Reserved, Staged, Booked
    <3>3. Creating(r, new)'
        BY <1>4, <1>9, <2>2, <3>1 DEF Creating, Begin, unchangedDb
    <3> QED BY <1>8, <3>2, <3>3 DEF Stands
  <2> QED BY <2>1, <2>2
<1>11. \A p \in Projects : holder'[p] = holder[p] /\ holder'[p] # r
    BY <1>6 DEF Begin, IInv, Held, Critical, AskedOK
<1>12. Creator(new) => \A o \in Requests \ {r} : request[o].call.project # new.call.project
    BY <1>4, <1>9 DEF Creator
<1>13. /\ UNCHANGED <<unchangedDb, worker, dead>> /\ retry' \in Retried
       /\ job' \subseteq Job /\ job \subseteq job' /\ \A j \in job' : OfMilestone(j)
       /\ holder' \in [Projects -> Requests \cup {None}]
    BY DEF Begin, unchangedQueues, IInv, TypeOK, Retried
<1>14. new.pc # "idle" /\ new.new = 0
    BY <1>4
<1>15. \A p \in Projects : /\ holder'[p] # holder[p] => holder[p] \in {None, r} /\ holder'[p] \in {None, r}
                           /\ holder'[p] = r => /\ new.pc \in Critical /\ new.call.project = p
                                                /\ new.call.kind # "createProject"
    BY <1>11
<1> QED BY <1>3, <1>5, <1>10, <1>12, <1>13, <1>14, <1>15, RequestStep

(* What follows the commit of a request.                                   *)
LEMMA AfterKeeps ==
    ASSUME AskedOK, IInv, NEW r \in Requests, NEW new \in Request,
           request' = [request EXCEPT ![r] = new],
           request[r].pc \notin Critical \cup {"idle"}, new.pc \notin Critical \cup {"lock"},
           new.pc = "enqueue" => request[r].pc = "enqueue",
           new = Idle \/ (new.pc # "idle" /\ new.call = request[r].call /\ new.new = request[r].new),
           UNCHANGED <<unchangedDb, worker, dead, holder>>, retry' \in Retried,
           job \subseteq job', job' \subseteq Job, \A j \in job' : OfMilestone(j)
    PROVE  IInv'
<1>1. PICK q \in Request : q = request[r] /\ Stands(r, q)
    BY Itself
<1>2. Called(new)'
  <2>1. CASE new = Idle
      BY <2>1, IdleStands
  <2>2. CASE new # Idle
      BY <1>1, <2>2 DEF Stands, Called, Critical, unchangedDb
  <2> QED BY <2>1, <2>2
<1>3. Stands(r, new)'
    BY <1>2, OverStands
<1>4. \A p \in Projects : holder'[p] = holder[p] /\ holder'[p] # r
    BY DEF IInv, Held, AskedOK
<1>5. \A p \in Projects : /\ holder'[p] # holder[p] => holder[p] \in {None, r} /\ holder'[p] \in {None, r}
                          /\ holder'[p] = r => /\ new.pc \in Critical /\ new.call.project = p
                                               /\ new.call.kind # "createProject"
    BY <1>4
<1>6. new.pc = "idle" => new = Idle
    OBVIOUS
<1>7. new.new \in {0, request[r].new}
    BY IdleIs
<1>8. ~Creator(new)
    BY DEF Creator
<1>9. holder' \in [Projects -> Requests \cup {None}] /\ UNCHANGED <<unchangedDb, worker, dead>>
    BY DEF IInv, TypeOK
<1> QED BY <1>3, <1>5, <1>6, <1>7, <1>8, <1>9, RequestStep

(* Its jobs are of the milestone it has made or changed.                   *)
LEMMA EnqueueKeeps ==
    ASSUME AskedOK, IInv, NEW r \in Requests, NEW b \in Books, Enqueue(r, b)
    PROVE  IInv'
<1>1. PICK q \in Request : q = request[r] /\ Stands(r, q)
    BY Itself
<1>2. q.pc = "enqueue" /\ q.new \in Units /\ unit[q.new] # "unborn"
    BY <1>1 DEF Enqueue, Stands, Called
<1>3. PICK i \in Request : i = Idle /\ i.pc = "idle"
    BY IdleIs
<1> DEFINE new == IF q.send = {b} THEN i ELSE [q EXCEPT !.send = q.send \ {b}]
<1>4. request' = [request EXCEPT ![r] = new]
    BY <1>1, <1>3 DEF Enqueue
<1>5. [q EXCEPT !.send = q.send \ {b}] \in Request
    BY DEF Request
<1>6. new \in Request
    BY <1>5
<1>7. new = Idle \/ (new.pc = "enqueue" /\ new.call = q.call /\ new.new = q.new)
    BY <1>2, <1>3 DEF Request
<1> HIDE DEF new
<1>8. PICK j : j = Ingest({b}, None, q.new, Retries)
    OBVIOUS
<1>9. j \in Job
  <2>1. {b} \in SUBSET Books /\ Retries \in 0 .. Retries
      BY DEF AskedOK
  <2> QED BY <1>2, <1>8, <2>1 DEF Ingest, Job
<1>10. OfMilestone(j)
    BY <1>2, <1>8 DEF Ingest, OfMilestone
<1>11. job' = job \/ job' = job \cup {j}
    BY <1>1, <1>8 DEF Enqueue
<1>12. job \subseteq job' /\ job' \subseteq Job /\ \A k \in job' : OfMilestone(k)
    BY <1>9, <1>10, <1>11 DEF IInv, TypeOK
<1>13. UNCHANGED <<unchangedDb, worker, dead, holder>> /\ retry' \in Retried
    BY DEF Enqueue, IInv, TypeOK, Retried
<1>14. /\ request[r].pc \notin Critical \cup {"idle"} /\ new.pc \notin Critical \cup {"lock"}
       /\ new.pc = "enqueue" => request[r].pc = "enqueue"
       /\ new = Idle \/ (new.pc # "idle" /\ new.call = request[r].call /\ new.new = request[r].new)
    BY <1>1, <1>2, <1>3, <1>7 DEF Critical
<1> QED BY <1>4, <1>6, <1>12, <1>13, <1>14, AfterKeeps

(* A queue of retries takes what it is sent.                               *)
LEMMA SentTyped ==
    ASSUME AskedOK, IInv, NEW books, SendRetry(books)
    PROVE  retry' \in Retried
<1>1. Retries \in 0 .. Retries
    BY DEF AskedOK
<1>2. \A b \in Books : retry'[b] = [state |-> "queued", left |-> Retries] \/ retry'[b] = retry[b]
    BY DEF SendRetry
<1>3. retry \in Retried /\ DOMAIN retry' = Books /\ retry' = [b \in Books |-> retry'[b]]
    BY DEF IInv, TypeOK, Retried, SendRetry
<1> QED BY <1>1, <1>2, <1>3 DEF Retried

(* What could not be materialized is asked for again.                      *)
LEMMA RequeueKeeps ==
    ASSUME AskedOK, IInv, NEW r \in Requests, NEW b \in Books, Requeue(r, b)
    PROVE  IInv'
<1>1. PICK q \in Request : q = request[r]
    BY Itself
<1>2. q.pc = "requeue"
    BY <1>1 DEF Requeue
<1>3. PICK i \in Request : i = Idle /\ i.pc = "idle"
    BY IdleIs
<1> DEFINE new == IF q.send = {b} THEN i ELSE [q EXCEPT !.send = q.send \ {b}]
<1>4. request' = [request EXCEPT ![r] = new]
    BY <1>1, <1>3 DEF Requeue
<1>5. [q EXCEPT !.send = q.send \ {b}] \in Request
    BY DEF Request
<1>6. new \in Request
    BY <1>5
<1>7. new = Idle \/ (new.pc = "requeue" /\ new.call = q.call /\ new.new = q.new)
    BY <1>2, <1>3 DEF Request
<1> HIDE DEF new
<1>8. retry' \in Retried
  <2>1. CASE SendRetry({b})
      BY <2>1, SentTyped
  <2>2. CASE UNCHANGED retry
      BY <2>2 DEF IInv, TypeOK, Retried
  <2> QED BY <2>1, <2>2 DEF Requeue
<1>9. UNCHANGED <<unchangedDb, worker, dead, holder>> /\ job' = job
    BY DEF Requeue
<1>10. job \subseteq job' /\ job' \subseteq Job /\ \A k \in job' : OfMilestone(k)
    BY <1>9 DEF IInv, TypeOK
<1>11. /\ request[r].pc \notin Critical \cup {"idle"} /\ new.pc \notin Critical \cup {"lock"}
       /\ new.pc = "enqueue" => request[r].pc = "enqueue"
       /\ new = Idle \/ (new.pc # "idle" /\ new.call = request[r].call /\ new.new = request[r].new)
    BY <1>1, <1>2, <1>3, <1>7 DEF Critical
<1> QED BY <1>4, <1>6, <1>8, <1>9, <1>10, <1>11, AfterKeeps

(* The request reads its imports, and is done with them.                   *)
LEMMA RequestReadsKeeps ==
    ASSUME AskedOK, IInv, NEW r \in Requests, RequestReads(r)
    PROVE  IInv'
<1>1. PICK q \in Request : q = request[r]
    BY Itself
<1> DEFINE new == [q EXCEPT !.pc = "materialize"]
<1>2. request' = [request EXCEPT ![r] = new]
    BY <1>1 DEF RequestReads
<1>3. new \in Request
    BY DEF Request, Steps
<1>4. new.pc = "materialize" /\ new.call = q.call /\ new.new = q.new
    BY DEF Request
<1> HIDE DEF new
<1>5. /\ request[r].pc \notin Critical \cup {"idle"} /\ new.pc \notin Critical \cup {"lock"}
      /\ new.pc # "enqueue"
      /\ new.pc # "idle" /\ new.call = request[r].call /\ new.new = request[r].new
    BY <1>1, <1>4 DEF Critical, RequestReads
<1>6. UNCHANGED <<unchangedDb, worker, dead, holder>> /\ retry' \in Retried
      /\ job \subseteq job' /\ job' \subseteq Job /\ \A k \in job' : OfMilestone(k)
    BY DEF RequestReads, unchangedQueues, IInv, TypeOK, Retried
<1> QED BY <1>2, <1>3, <1>5, <1>6, AfterKeeps

(* It asks for a retry of what has failed.                                 *)
LEMMA RequestDoneKeeps ==
    ASSUME AskedOK, IInv, NEW r \in Requests, RequestDone(r)
    PROVE  IInv'
<1>1. PICK q \in Request : q = request[r]
    BY Itself
<1>2. q.pc = "materialize" /\ q.call.books \subseteq Books
    BY <1>1, FieldsTyped DEF RequestDone
<1>3. PICK i \in Request : i = Idle /\ i.pc = "idle"
    BY IdleIs
<1>4. PICK failed : failed = rows[r].failed
    OBVIOUS
<1> DEFINE new == IF failed THEN [q EXCEPT !.pc = "requeue", !.send = q.call.books] ELSE i
<1>5. request' = [request EXCEPT ![r] = new]
    BY <1>1, <1>3, <1>4 DEF RequestDone, Answer
<1>6. [q EXCEPT !.pc = "requeue", !.send = q.call.books] \in Request
    BY <1>2 DEF Request, Steps
<1>7. new \in Request
    BY <1>6
<1>8. new = Idle \/ (new.pc = "requeue" /\ new.call = q.call /\ new.new = q.new)
    BY <1>2, <1>3 DEF Request
<1> HIDE DEF new
<1>9. /\ request[r].pc \notin Critical \cup {"idle"} /\ new.pc \notin Critical \cup {"lock"}
      /\ new.pc # "enqueue"
      /\ new = Idle \/ (new.pc # "idle" /\ new.call = request[r].call /\ new.new = request[r].new)
    BY <1>1, <1>2, <1>3, <1>8 DEF Critical
<1>10. UNCHANGED <<unchangedDb, worker, dead, holder>> /\ retry' \in Retried
       /\ job \subseteq job' /\ job' \subseteq Job /\ \A k \in job' : OfMilestone(k)
    BY DEF RequestDone, unchangedQueues, IInv, TypeOK, Retried
<1> QED BY <1>5, <1>7, <1>9, <1>10, AfterKeeps

(* The lock of the project, or nothing to lock.                            *)
LEMMA LockKeeps ==
    ASSUME AskedOK, IInv, NEW r \in Requests, Lock(r)
    PROVE  IInv'
<1>1. PICK q \in Request : q = request[r] /\ Stands(r, q)
    BY Itself
<1>2. q.pc = "lock" /\ q.call.project \in Projects /\ q.call.kind # "createProject"
      /\ holder[q.call.project] = None
    BY <1>1 DEF Lock, Stands, Called
<1>3. UNCHANGED <<unchangedDb, worker, dead, job>> /\ retry' \in Retried
    BY DEF Lock, unchangedQueues, IInv, TypeOK, Retried
<1>4. CASE q.call.project \notin project
  <2>1. Answer(r) /\ UNCHANGED holder
      BY <1>1, <1>4 DEF Lock
  <2> QED BY <1>1, <1>2, <1>3, <2>1, EndKeeps DEF Critical
<1>5. CASE q.call.project \in project
  <2> DEFINE new == [q EXCEPT !.pc = "write"]
  <2>1. request' = [request EXCEPT ![r] = new] /\ holder' = [holder EXCEPT ![q.call.project] = r]
      BY <1>1, <1>5 DEF Lock
  <2>2. new \in Request
      BY DEF Request, Steps
  <2>3. new.pc = "write" /\ new.call = q.call /\ new.new = q.new
      BY DEF Request
  <2> HIDE DEF new
  <2>4. holder' \in [Projects -> Requests \cup {None}] /\ holder'[q.call.project] = r
      BY <1>2, <2>1 DEF IInv, TypeOK
  <2>5. \A p \in Projects : p # q.call.project => holder'[p] = holder[p] /\ holder'[p] # r
      BY <1>1, <1>2, <2>1 DEF IInv, TypeOK, Held, Critical, AskedOK
  <2>6. \A p \in Projects : /\ holder'[p] # holder[p] => holder[p] \in {None, r} /\ holder'[p] \in {None, r}
                            /\ holder'[p] = r => /\ new.pc \in Critical /\ new.call.project = p
                                                 /\ new.call.kind # "createProject"
      BY <1>2, <2>3, <2>4, <2>5 DEF Critical
  <2>7. Called(new)'
      BY <1>1, <1>2, <1>3, <2>3 DEF Stands, Called, unchangedDb
  <2>8. Stands(r, new)'
      BY <1>2, <1>3, <1>5, <2>3, <2>4, <2>7
      DEF Stands, Locked, Creating, Reserved, Staged, Booked, unchangedDb
  <2>9. ~Creator(new) /\ new.pc # "idle" /\ new.new = request[r].new
      BY <1>1, <1>2, <2>3 DEF Creator
  <2>10. UNCHANGED <<unchangedDb, worker, dead>> /\ job \subseteq job' /\ job' \subseteq Job
         /\ \A j \in job' : OfMilestone(j)
      BY <1>3 DEF IInv, TypeOK
  <2> QED BY <1>3, <2>1, <2>2, <2>4, <2>6, <2>8, <2>9, <2>10, RequestStep
<1> QED BY <1>4, <1>5

(* What a request becomes that has staged its rows.                        *)
StagedAs(r, new, u, places, pc) ==
    new.pc = pc /\ new.call = request[r].call /\ new.new = u /\ new.places = places

Becomes(r, new) == request' = [request EXCEPT ![r] = new]

(* There is such a request.                                                *)
LEMMA StageIs ==
    ASSUME AskedOK, IInv, NEW r \in Requests, NEW u \in Units \cup {0}, NEW books \in SUBSET Books,
           NEW places \in SUBSET Ids, NEW pc \in {"decide", "commit"}, Stage(r, u, books, places, pc)
    PROVE  \E new \in Request : Becomes(r, new) /\ StagedAs(r, new, u, places, pc)
<1>1. PICK q \in Request : q = request[r]
    BY Itself
<1>2. PICK staged \in [Books -> SUBSET Chapters] : staged = [b \in Books |-> IF b \in books THEN text[b] ELSE {}]
    BY DEF IInv, TypeOK
<1>3. PICK send : send = {b \in books : text[b] = {}}
    OBVIOUS
<1> DEFINE new == [q EXCEPT !.pc = pc, !.new = u, !.places = places, !.staged = staged, !.send = send]
<1>4. request' = [request EXCEPT ![r] = [request[r] EXCEPT !.pc = pc, !.new = u, !.places = places,
                                                        !.staged = staged, !.send = send]]
    BY <1>2, <1>3 DEF Stage, IInv, TypeOK, Request
<1>5. request' = [request EXCEPT ![r] = new]
    BY <1>1, <1>4
<1>6. send \subseteq Books
    BY <1>3
<1>7. [q EXCEPT !.pc = pc, !.new = u, !.places = places] \in Request
    BY DEF Request, Steps
<1>8. new \in Request
    BY <1>2, <1>6, <1>7 DEF Request
<1>9. new.pc = pc /\ new.call = q.call /\ new.new = u /\ new.places = places
    BY DEF Request
<1> HIDE DEF new
<1> QED BY <1>1, <1>5, <1>8, <1>9 DEF Becomes, StagedAs

(* What a request may have staged.                                         *)
StagedWell(r, u, places, pc) ==
    \A new \in Request :
        StagedAs(r, new, u, places, pc) => Reserved(r, new) /\ Staged(new) /\ Booked(new)

(* A request that has staged its rows under its lock, or as a creator.     *)
LEMMA StagedStep ==
    ASSUME AskedOK, IInv, NEW r \in Requests, request[r].pc = "write",
           NEW u \in Units \cup {0}, u = 0 \/ Fresh(u) \/ unit[u] # "unborn",
           NEW books \in SUBSET Books, NEW places \in SUBSET Ids,
           NEW pc \in {"decide", "commit"}, Stage(r, u, books, places, pc),
           pc = "decide" => request[r].call.kind \in {"createProject", "import"},
           StagedWell(r, u, places, pc)
    PROVE  IInv'
<1>1. PICK new \in Request : Becomes(r, new) /\ StagedAs(r, new, u, places, pc)
    BY StageIs
<1>2. /\ request' = [request EXCEPT ![r] = new]
      /\ new.pc = pc /\ new.call = request[r].call /\ new.new = u /\ new.places = places
    BY <1>1 DEF Becomes, StagedAs
<1>3. PICK q \in Request : q = request[r] /\ Stands(r, q)
    BY Itself
<1>4. UNCHANGED <<unchangedDb, unchangedQueues, holder>>
    BY DEF Stage
<1>5. Reserved(r, new) /\ Staged(new) /\ Booked(new)
    BY <1>1 DEF StagedWell
<1>6. \A x \in Requests \ {r} : request'[x] = request[x]
    BY <1>2 DEF IInv, TypeOK
<1>7. Reserved(r, new)'
    BY <1>4, <1>5, <1>6 DEF Reserved, unchangedDb
<1>8. Called(new)
    BY <1>2, <1>3 DEF Stands, Called
<1>9. new.pc \in Critical /\ request[r].pc \in Critical /\ new.pc # "idle"
    BY <1>2 DEF Critical
<1>10. new.new \in {0, request[r].new} \/ (new.new \in Units /\ (Fresh(new.new) \/ unit[new.new] # "unborn"))
    BY <1>2
<1> QED BY <1>2, <1>4, <1>5, <1>7, <1>8, <1>9, <1>10, QuietStep

(* Nobody else has a fresh id.                                             *)
LEMMA FreshIs ==
    ASSUME NEW u \in Units, Fresh(u), NEW r \in Requests
    PROVE  unit[u] = "unborn" /\ \A o \in Requests \ {r} : request[o].new # u
BY DEF Fresh

(* A new project, and its first milestone.                                 *)
LEMMA WriteProjectKeeps ==
    ASSUME AskedOK, IInv, NEW r \in Requests, WriteProject(r)
    PROVE  IInv'
<1>1. PICK q \in Request : q = request[r] /\ Stands(r, q)
    BY Itself
<1>2. PICK c \in Asked : c = q.call
    BY FieldsTyped
<1>3. q.pc = "write" /\ c.kind = "createProject" /\ c.books \subseteq Books
    BY <1>1, <1>2, FieldsTyped DEF WriteProject
<1>4. PICK u \in Units \cup {0} : /\ u = IF c.books = {} THEN 0 ELSE NewUnit
                                  /\ u # 0 => u \in Units /\ Fresh(u)
                                  /\ c.books # {} => u # 0
  <2>1. CASE c.books = {}
      BY <2>1
  <2>2. CASE c.books # {}
    <3>1. NewUnit \in Units /\ Fresh(NewUnit)
        BY <1>1, <1>2, <2>2, NewIs DEF WriteProject
    <3> QED BY <2>2, <3>1 DEF AskedOK
  <2> QED BY <2>1, <2>2
<1>5. PICK pc \in {"decide", "commit"} : pc = IF c.books = {} THEN "commit" ELSE "decide"
    OBVIOUS
<1>6. Stage(r, u, c.books, {}, pc)
    BY <1>1, <1>2, <1>4, <1>5 DEF WriteProject
<1>7. ASSUME NEW new \in Request, new.pc = pc, new.call = q.call, new.new = u, new.places = {}
      PROVE  Reserved(r, new) /\ Staged(new) /\ Booked(new)
  <2>1. Reserved(r, new)
      BY <1>2, <1>3, <1>4, <1>7, FreshIs DEF Reserved
  <2>2. Staged(new) /\ Booked(new)
      BY <1>2, <1>3, <1>5, <1>7 DEF Staged, Booked
  <2> QED BY <2>1, <2>2
<1>8. u = 0 \/ Fresh(u) \/ unit[u] # "unborn"
    BY <1>4
<1> QED BY <1>1, <1>2, <1>3, <1>6, <1>7, <1>8, StagedStep DEF StagedWell, StagedAs

(* A request whose checks fail.                                            *)
LEMMA RefuseKeeps ==
    ASSUME AskedOK, IInv, NEW r \in Requests, Refuse(r)
    PROVE  IInv'
<1>1. Answer(r) /\ Release(r) /\ UNCHANGED <<unchangedDb, worker, dead, job>> /\ retry' \in Retried
    BY DEF Refuse, unchangedQueues, IInv, TypeOK, Retried
<1> QED BY <1>1, EndKeeps

(* A new milestone, unless a book of it is active elsewhere.               *)
LEMMA WriteMilestoneKeeps ==
    ASSUME AskedOK, IInv, NEW r \in Requests, WriteMilestone(r)
    PROVE  IInv'
<1>1. PICK q \in Request : q = request[r] /\ Stands(r, q)
    BY Itself
<1>2. PICK c \in Asked : c = q.call
    BY FieldsTyped
<1>3. q.pc = "write" /\ c.kind = "createMilestone" /\ c.books \subseteq Books /\ ~c.files
    BY <1>1, <1>2, FieldsTyped DEF WriteMilestone, Stands, Called
<1>4. PICK u \in Units : u = NewUnit /\ Fresh(u)
    BY NewIs DEF WriteMilestone
<1>5. PICK places : places = Placements(c.project, c.books)
    OBVIOUS
<1>6. CASE Active(Placements(c.project, c.books)) # {}
    BY <1>1, <1>2, <1>6, RefuseKeeps DEF WriteMilestone
<1>7. CASE Active(Placements(c.project, c.books)) = {}
  <2>1. PICK books \in SUBSET Books : books = c.books \ BooksOf(places)
      BY <1>3
  <2>2. Stage(r, u, books, places, "commit")
      BY <1>1, <1>2, <1>4, <1>5, <1>7, <2>1 DEF WriteMilestone
  <2>3. places \subseteq Ids
      BY <1>3, <1>5 DEF Placements, UnitsOf, Ids
  <2>4. ASSUME NEW new \in Request, new.pc = "commit", new.call = q.call, new.new = u, new.places = places
        PROVE  Reserved(r, new) /\ Staged(new) /\ Booked(new)
    <3>1. Reserved(r, new)
        BY <1>4, <2>4, FreshIs DEF Reserved
    <3>2. Staged(new) /\ Booked(new)
        BY <1>2, <1>3, <1>5, <2>4 DEF Staged, Booked
    <3> QED BY <3>1, <3>2
  <2> QED BY <1>1, <1>3, <1>4, <2>2, <2>3, <2>4, StagedStep DEF StagedWell, StagedAs
<1> QED BY <1>6, <1>7

(* An import, unless the project has or had a book of it.                  *)
LEMMA WriteImportKeeps ==
    ASSUME AskedOK, IInv, NEW r \in Requests, WriteImport(r)
    PROVE  IInv'
<1>1. PICK q \in Request : q = request[r] /\ Stands(r, q)
    BY Itself
<1>2. PICK c \in Asked : c = q.call
    BY FieldsTyped
<1>3. q.pc = "write" /\ c.kind = "import" /\ c.books \subseteq Books
    BY <1>1, <1>2, FieldsTyped DEF WriteImport
<1>4. PICK u \in Units : u = NewUnit /\ Fresh(u)
    BY NewIs DEF WriteImport
<1>5. CASE Placements(c.project, c.books) # {}
    BY <1>1, <1>2, <1>5, RefuseKeeps DEF WriteImport
<1>6. CASE Placements(c.project, c.books) = {}
  <2>1. Stage(r, u, c.books, {}, "decide")
      BY <1>1, <1>2, <1>4, <1>6 DEF WriteImport
  <2>2. ASSUME NEW new \in Request, new.pc = "decide", new.call = q.call, new.new = u, new.places = {}
        PROVE  Reserved(r, new) /\ Staged(new) /\ Booked(new)
    <3>1. Reserved(r, new)
        BY <1>4, <2>2, FreshIs DEF Reserved
    <3>2. Staged(new) /\ Booked(new)
        BY <1>2, <1>3, <1>6, <2>2 DEF Staged, Booked
    <3> QED BY <3>1, <3>2
  <2> QED BY <1>1, <1>2, <1>3, <1>4, <2>1, <2>2, StagedStep DEF StagedWell, StagedAs
<1> QED BY <1>5, <1>6

(* An update, unless what it moves or adds is not where it must be.        *)
LEMMA WriteUpdateKeeps ==
    ASSUME AskedOK, IInv, NEW r \in Requests, WriteUpdate(r)
    PROVE  IInv'
<1>1. PICK q \in Request : q = request[r] /\ Stands(r, q)
    BY Itself
<1>2. PICK c \in Asked : c = q.call
    BY FieldsTyped
<1>3. q.pc = "write" /\ c.kind = "update" /\ c.books \subseteq Books /\ c.move \subseteq Books /\ ~c.files
    BY <1>1, <1>2, FieldsTyped DEF WriteUpdate, Stands, Called
<1>4. PICK places : places = Placements(c.project, c.books)
    OBVIOUS
<1> DEFINE refused == \/ ~Exists(c.unit)
                      \/ Away(c) # Active(Away(c))
                      \/ c.move # {} /\ ~(Exists(c.target) /\ unit[c.target] = c.project)
                      \/ MoveConflicts(Away(c), c.target)
                      \/ Active(Placements(c.project, c.books)) # {}
                      \/ MoveConflicts(Placements(c.project, c.books), c.unit)
<1>5. CASE refused
    BY <1>1, <1>2, <1>5, RefuseKeeps DEF WriteUpdate
<1>6. CASE ~refused
  <2>1. PICK books \in SUBSET Books : books = c.books \ BooksOf(places)
      BY <1>3
  <2>2. Stage(r, c.unit, books, places, "commit")
      BY <1>1, <1>2, <1>4, <1>6, <2>1 DEF WriteUpdate
  <2>3. places \subseteq Ids
      BY <1>3, <1>4 DEF Placements, UnitsOf, Ids
  <2>4. c.unit \in Units /\ unit[c.unit] = c.project /\ unit[c.unit] # "unborn"
      BY <1>1, <1>2, <1>3, <1>6 DEF Exists, Stands, Called, AskedOK
  <2>5. c.move # {} => c.target \in Units /\ unit[c.target] = c.project
      BY <1>6 DEF Exists
  <2>6. ASSUME NEW b \in c.move
        PROVE  HasLink(c.unit, b) /\ b \notin c.books
    <3>1. <<c.unit, b>> \in Active(Away(c))
        BY <1>6 DEF Away
    <3>2. held[c.unit][b].link = "active"
        BY <3>1 DEF Active
    <3>3. ASSUME b \in c.books
          PROVE  FALSE
      <4>1. <<c.unit, b>> \in Placements(c.project, c.books)
          BY <2>4, <3>2, <3>3 DEF Placements, UnitsOf
      <4>2. <<c.unit, b>> \in Active(Placements(c.project, c.books))
          BY <3>2, <4>1 DEF Active
      <4> QED BY <1>6, <4>2
    <3> QED BY <3>2, <3>3 DEF HasLink
  <2>7. ASSUME NEW new \in Request, new.pc = "commit", new.call = q.call, new.new = c.unit, new.places = places
        PROVE  Reserved(r, new) /\ Staged(new) /\ Booked(new)
    <3>1. Reserved(r, new)
        BY <1>2, <1>3, <2>7 DEF Reserved, Making
    <3>2. Staged(new) /\ Booked(new)
        BY <1>2, <1>3, <1>4, <2>4, <2>5, <2>6, <2>7 DEF Staged, Booked
    <3> QED BY <3>1, <3>2
  <2> QED BY <1>1, <1>2, <1>3, <2>2, <2>3, <2>4, <2>7, StagedStep DEF StagedWell, StagedAs
<1> QED BY <1>5, <1>6

(* A project with milestones is not deleted.                               *)
LEMMA WriteDeleteKeeps ==
    ASSUME AskedOK, IInv, NEW r \in Requests, WriteDelete(r)
    PROVE  IInv'
<1>1. PICK q \in Request : q = request[r] /\ Stands(r, q)
    BY Itself
<1>2. PICK c \in Asked : c = q.call
    BY FieldsTyped
<1>3. q.pc = "write" /\ c.kind \in {"deleteMilestone", "deleteProject"} /\ ~c.files
    BY <1>1, <1>2, FieldsTyped DEF WriteDelete, Stands, Called
<1>4. CASE c.kind = "deleteProject" /\ UnitsOf(c.project) # {}
    BY <1>1, <1>2, <1>4, RefuseKeeps DEF WriteDelete
<1>5. CASE ~(c.kind = "deleteProject" /\ UnitsOf(c.project) # {})
  <2>1. Stage(r, 0, {}, {}, "commit")
      BY <1>1, <1>2, <1>5 DEF WriteDelete
  <2>2. ASSUME NEW new \in Request, new.pc = "commit", new.call = q.call, new.new = 0, new.places = {}
        PROVE  Reserved(r, new) /\ Staged(new) /\ Booked(new)
      BY <1>2, <1>3, <1>5, <2>2 DEF Reserved, Making, Staged, Booked
  <2> QED BY <1>1, <1>3, <2>1, <2>2, StagedStep DEF StagedWell, StagedAs
<1> QED BY <1>4, <1>5

(* The jobs of a new project, or of the import of a milestone.             *)
LEMMA DecideKeeps ==
    ASSUME AskedOK, IInv, NEW r \in Requests, Decide(r)
    PROVE  IInv'
<1>1. PICK q \in Request : q = request[r] /\ Stands(r, q)
    BY Itself
<1>2. PICK c \in Asked : c = q.call
    BY FieldsTyped
<1>3. /\ q.pc = "decide" /\ c.kind \in {"createProject", "import"} /\ c.books \subseteq Books
      /\ c.project \in Projects /\ c.files \in BOOLEAN
    BY <1>1, <1>2, FieldsTyped DEF Decide, Stands, Called
<1>4. PICK missing \in SUBSET Books :
         missing = {b \in c.books : IF c.files THEN b \notin complete ELSE text[b] = {}}
    BY <1>3
<1> DEFINE new == [q EXCEPT !.pc = "commit", !.send = missing]
<1>5. request' = [request EXCEPT ![r] = new]
    BY <1>1, <1>2, <1>4 DEF Decide
<1>6. new \in Request
    BY DEF Request, Steps
<1>7. new.pc = "commit" /\ new.call = q.call /\ new.new = q.new /\ new.places = q.places /\ new.send = missing
    BY DEF Request
<1> HIDE DEF new
<1>8. PICK j : j = Ingest(missing, c.project, 0, Retries)
    OBVIOUS
<1>9. j \in Job /\ OfMilestone(j) /\ j.books = missing
  <2>1. Retries \in 0 .. Retries
      BY DEF AskedOK
  <2> QED BY <1>3, <1>8, <2>1 DEF Ingest, Job, OfMilestone
<1>10. job' = IF c.kind = "createProject" /\ missing # {} THEN job \cup {j} ELSE job
    BY <1>1, <1>2, <1>4, <1>8 DEF Decide
<1>11. job \subseteq job' /\ job' \subseteq Job /\ \A k \in job' : OfMilestone(k)
    BY <1>9, <1>10 DEF IInv, TypeOK
<1>12. UNCHANGED <<unchangedDb, worker, dead>> /\ UNCHANGED holder /\ retry' \in Retried
    BY DEF Decide, IInv, TypeOK, Retried
<1>13. \A x \in Requests : x # r => request'[x] = request[x]
    BY <1>5 DEF IInv, TypeOK
<1>14. Stands(r, new)'
  <2>1. Locked(r, new)' /\ Creating(r, new)' /\ Reserved(r, new)'
      BY <1>1, <1>2, <1>3, <1>7, <1>12, <1>13
      DEF Stands, Locked, Creating, Reserved, Critical, unchangedDb
  <2>2. Called(new)'
      BY <1>1, <1>2, <1>3, <1>7, <1>12 DEF Stands, Called, unchangedDb
  <2>3. Staged(new)'
    <3>1. Placements(c.project, c.books)' = Placements(c.project, c.books)
        BY <1>12 DEF Placements, UnitsOf, unchangedDb
    <3> QED BY <1>1, <1>2, <1>3, <1>7, <3>1 DEF Stands, Staged
  <2>4. ASSUME c.files, NEW b \in c.books
        PROVE  Cared(b)' \/ (c.kind = "import" /\ b \in missing)
    <3>1. CASE b \in complete
        BY <1>12, <3>1 DEF Cared, unchangedDb
    <3>2. CASE b \notin complete
      <4>1. b \in missing
          BY <1>4, <2>4, <3>2
      <4>2. c.kind = "createProject" => j \in job' /\ b \in j.books
          BY <1>9, <1>10, <4>1
      <4> QED BY <1>3, <4>1, <4>2 DEF Cared, Fetching
    <3> QED BY <3>1, <3>2
  <2>5. Booked(new)'
      BY <1>2, <1>7, <2>4 DEF Booked
  <2> QED BY <2>1, <2>2, <2>3, <2>5 DEF Stands
<1>15. holder' \in [Projects -> Requests \cup {None}]
       /\ \A p \in Projects : /\ holder'[p] # holder[p] => holder[p] \in {None, r} /\ holder'[p] \in {None, r}
                              /\ holder'[p] = r => /\ new.pc \in Critical /\ new.call.project = p
                                                   /\ new.call.kind # "createProject"
    BY <1>1, <1>7, <1>12 DEF IInv, TypeOK, Held, Critical, AskedOK
<1>16. Creator(new) => Creator(request[r]) /\ request[r].call.project = new.call.project
    BY <1>1, <1>3, <1>7 DEF Creator, Critical
<1>17. new.pc # "idle" /\ new.new = request[r].new
    BY <1>1, <1>7
<1> QED BY <1>5, <1>6, <1>11, <1>12, <1>14, <1>15, <1>16, <1>17, RequestStep

(* They cannot be sent.                                                    *)
LEMMA DecideFailsKeeps ==
    ASSUME AskedOK, IInv, NEW r \in Requests, DecideFails(r)
    PROVE  IInv'
<1>1. PICK q \in Request : q = request[r] /\ Stands(r, q)
    BY Itself
<1>2. PICK files \in BOOLEAN : files = q.call.files
    BY FieldsTyped
<1>3. CASE files
  <2>1. Answer(r) /\ Release(r) /\ UNCHANGED <<unchangedDb, worker, dead, job>> /\ retry' \in Retried
      BY <1>1, <1>2, <1>3 DEF DecideFails, unchangedQueues, IInv, TypeOK, Retried
  <2> QED BY <2>1, EndKeeps
<1>4. CASE ~files
  <2> DEFINE new == [q EXCEPT !.pc = "commit", !.send = {}]
  <2>1. request' = [request EXCEPT ![r] = new]
      BY <1>1, <1>2, <1>4 DEF DecideFails
  <2>2. new \in Request
      BY DEF Request, Steps
  <2>3. new.pc = "commit" /\ new.call = q.call /\ new.new = q.new /\ new.places = q.places
      BY DEF Request
  <2> HIDE DEF new
  <2>4. q.pc = "decide" /\ q.call.kind \in {"createProject", "import"}
      BY <1>1 DEF DecideFails, Stands, Called
  <2>5. UNCHANGED <<unchangedDb, unchangedQueues, holder>>
      BY <1>1, <1>2, <1>4 DEF DecideFails
  <2>6. \A x \in Requests : x # r => request'[x] = request[x]
      BY <2>1 DEF IInv, TypeOK
  <2>7. Reserved(r, new)'
      BY <1>1, <2>3, <2>4, <2>5, <2>6 DEF Stands, Reserved, unchangedDb
  <2>8. Called(new) /\ Staged(new)
      BY <1>1, <2>3, <2>4 DEF Stands, Called, Staged
  <2>9. Booked(new)
      BY <1>2, <1>4, <2>3 DEF Booked
  <2>10. /\ new.pc \in Critical <=> request[r].pc \in Critical
         /\ new.pc # "idle" /\ new.call = request[r].call /\ new.new = request[r].new
      BY <1>1, <2>3, <2>4 DEF Critical
  <2> QED BY <2>1, <2>2, <2>5, <2>7, <2>8, <2>9, <2>10, QuietStep
<1> QED BY <1>3, <1>4

(* A transaction that fails leaves nothing but its jobs.                   *)
LEMMA AbortKeeps ==
    ASSUME AskedOK, IInv, NEW r \in Requests, Abort(r)
    PROVE  IInv'
<1>1. Answer(r) /\ Release(r) /\ UNCHANGED <<unchangedDb, worker, dead, job>> /\ retry' \in Retried
    BY DEF Abort, unchangedQueues, IInv, TypeOK, Retried
<1> QED BY <1>1, EndKeeps

(* Nor does a process that dies after the commit.                          *)
LEMMA DieKeeps ==
    ASSUME AskedOK, IInv, NEW r \in Requests, Die(r)
    PROVE  IInv'
<1>1. Answer(r) /\ UNCHANGED <<unchangedDb, worker, dead, job>> /\ retry' \in Retried
    BY DEF Die, unchangedQueues, IInv, TypeOK, Retried
<1>2. UNCHANGED holder /\ request[r].pc \notin Critical
    BY DEF Die, Critical
<1> QED BY <1>1, <1>2, EndKeeps

-----------------------------------------------------------------------------
(* What the operators on the contents of milestones do to links.           *)
Link(h, u, b) == h[u][b].link # "none"

(* The contents of a milestone without a book.                             *)
LEMMA NothingIs == Nothing \in Contents /\ Nothing.link = "none"
BY DEF Nothing, Contents

(* Where a book is after it has been moved.                                *)
LEMMA MovedAll ==
    ASSUME NEW h \in Contained, NEW places \in SUBSET Ids, NEW to \in Units \cup {0}
    PROVE  /\ Moved(h, places, to) \in Contained
           /\ \A u \in Units, b \in Books :
                 Link(Moved(h, places, to), u, b) <=>
                     IF u = to /\ b \in BooksOf(places) THEN TRUE
                     ELSE <<u, b>> \notin places /\ Link(h, u, b)
<1> DEFINE from(b) == {i[1] : i \in {j \in places : j[2] = b}} \cup {to}
           merged(b) == [link |-> "active", chapters |-> UNION {h[v][b].chapters : v \in from(b)},
                         verses |-> \E v \in from(b) : h[v][b].verses]
           at(u, b) == IF u = to /\ b \in BooksOf(places) THEN merged(b)
                       ELSE IF <<u, b>> \in places THEN Nothing ELSE h[u][b]
<1>1. Moved(h, places, to) = [u \in Units |-> [b \in Books |-> at(u, b)]]
    BY DEF Moved
<1>2. ASSUME NEW b \in Books, to \in Units
      PROVE  merged(b) \in Contents
  <2>1. from(b) \subseteq Units
      BY <1>2 DEF Ids
  <2>2. \A v \in from(b) : h[v][b].chapters \subseteq Chapters
      BY <2>1 DEF Contained, Contents
  <2> DEFINE some == \E v \in from(b) : h[v][b].verses
             all == UNION {h[v][b].chapters : v \in from(b)}
  <2>3. all \subseteq Chapters
      BY <2>2
  <2>4. PICK verses \in BOOLEAN : verses = some
      OBVIOUS
  <2>5. merged(b) = [link |-> "active", chapters |-> all, verses |-> verses]
      BY <2>4
  <2> HIDE DEF some, all
  <2> QED BY <2>3, <2>5 DEF Contents
<1>3. \A b \in Books : merged(b).link = "active"
    OBVIOUS
<1> HIDE DEF merged
<1>4. ASSUME NEW u \in Units, NEW b \in Books
      PROVE  /\ at(u, b) \in Contents
             /\ at(u, b).link # "none" <=>
                     IF u = to /\ b \in BooksOf(places) THEN TRUE
                     ELSE <<u, b>> \notin places /\ Link(h, u, b)
    BY <1>2, <1>3, NothingIs DEF Link, Contained
<1> HIDE DEF at
<1>5. Moved(h, places, to) \in Contained
  <2>1. \A u \in Units : [b \in Books |-> at(u, b)] \in [Books -> Contents]
      BY <1>4
  <2> QED BY <1>1, <2>1 DEF Contained
<1>6. \A u \in Units, b \in Books : Moved(h, places, to)[u][b] = at(u, b)
    BY <1>1
<1> QED BY <1>4, <1>5, <1>6 DEF Link

(* The same of the contents that result, named.                            *)
LEMMA MovedIs ==
    ASSUME NEW h \in Contained, NEW places \in SUBSET Ids, NEW to \in Units \cup {0},
           NEW m, m = Moved(h, places, to)
    PROVE  /\ m \in Contained
           /\ \A u \in Units, b \in Books :
                 Link(m, u, b) <=> IF u = to /\ b \in BooksOf(places) THEN TRUE
                                   ELSE <<u, b>> \notin places /\ Link(h, u, b)
BY MovedAll

(* The books a milestone has after some were inserted.                     *)
LEMMA LinkedIs ==
    ASSUME NEW h \in Contained, NEW w \in Units, NEW books \in SUBSET Books,
           NEW staged \in [Books -> SUBSET Chapters]
    PROVE  /\ Linked(h, w, books, staged) \in Contained
           /\ \A u \in Units, b \in Books :
                 Link(Linked(h, w, books, staged), u, b) <=> (u = w /\ b \in books) \/ Link(h, u, b)
<1> DEFINE made(b) == [Nothing EXCEPT !.link = "active", !.chapters = staged[b]]
           at(b) == IF b \in books THEN made(b) ELSE h[w][b]
<1>1. Linked(h, w, books, staged) = [h EXCEPT ![w] = [b \in Books |-> at(b)]]
    BY DEF Linked
<1>2. \A b \in Books : made(b) \in Contents /\ made(b).link = "active"
    BY DEF Nothing, Contents
<1> HIDE DEF made
<1>3. \A b \in Books : at(b) \in Contents /\ (at(b).link # "none" <=> b \in books \/ Link(h, w, b))
    BY <1>2 DEF Link, Contained
<1> HIDE DEF at
<1>4. [b \in Books |-> at(b)] \in [Books -> Contents]
    BY <1>3
<1>5. Linked(h, w, books, staged) \in Contained
    BY <1>1, <1>4 DEF Contained
<1>6. \A u \in Units, b \in Books :
         Linked(h, w, books, staged)[u][b] = IF u = w THEN at(b) ELSE h[u][b]
    BY <1>1 DEF Contained
<1> QED BY <1>3, <1>5, <1>6 DEF Link

(* A removed link is still one.                                            *)
LEMMA UnlinkedIs ==
    ASSUME NEW h \in Contained, NEW w \in Units, NEW books \in SUBSET Books
    PROVE  /\ Unlinked(h, w, books) \in Contained
           /\ \A u \in Units, b \in Books : Link(Unlinked(h, w, books), u, b) <=> Link(h, u, b)
<1> DEFINE gone(b) == [h[w][b] EXCEPT !.link = "removed"]
           at(b) == IF b \in books /\ h[w][b].link = "active" THEN gone(b) ELSE h[w][b]
<1>1. Unlinked(h, w, books) = [h EXCEPT ![w] = [b \in Books |-> at(b)]]
    BY DEF Unlinked, Contained
<1>2. \A b \in Books : h[w][b] \in Contents
    BY DEF Contained
<1>3. \A b \in Books : gone(b) \in Contents /\ gone(b).link = "removed"
    BY <1>2 DEF Contents
<1> HIDE DEF gone
<1>4. \A b \in Books : at(b) \in Contents /\ (at(b).link # "none" <=> Link(h, w, b))
    BY <1>2, <1>3 DEF Link
<1> HIDE DEF at
<1>5. [b \in Books |-> at(b)] \in [Books -> Contents]
    BY <1>4
<1>6. Unlinked(h, w, books) \in Contained
    BY <1>1, <1>5 DEF Contained
<1>7. \A u \in Units, b \in Books : Unlinked(h, w, books)[u][b] = IF u = w THEN at(b) ELSE h[u][b]
    BY <1>1 DEF Contained
<1> QED BY <1>4, <1>6, <1>7 DEF Link

(* An import moves with its book.                                          *)
LEMMA ImportsMovedIs ==
    ASSUME NEW imports \in Imported, NEW places, NEW to \in Units \cup {0}
    PROVE  /\ ImportsMoved(imports, places, to) \in Imported
           /\ \A i \in Ids : ImportsMoved(imports, places, to)[i].state = imports[i].state
<1> DEFINE there(i) == [imports[i] EXCEPT !.at = to]
           now(i) == IF <<imports[i].at, i[2]>> \in places THEN there(i) ELSE imports[i]
<1>1. ImportsMoved(imports, places, to) = [i \in Ids |-> now(i)]
    BY DEF ImportsMoved
<1>2. \A i \in Ids : imports[i] \in [at : Units \cup {0}, state : {"none", "pending", "done"}]
    BY DEF Imported
<1>3. \A i \in Ids : /\ there(i) \in [at : Units \cup {0}, state : {"none", "pending", "done"}]
                     /\ there(i).state = imports[i].state
    BY <1>2
<1> HIDE DEF there
<1>4. \A i \in Ids : /\ now(i) \in [at : Units \cup {0}, state : {"none", "pending", "done"}]
                     /\ now(i).state = imports[i].state
    BY <1>2, <1>3
<1> QED BY <1>1, <1>4 DEF Imported

-----------------------------------------------------------------------------
(* The commits: what a request does to the project p that nobody else      *)
(* holds.                                                                  *)
OnlyOf(r, p) ==
    /\ \A o \in Requests \ {r} : holder[p] # o
    /\ \A x \in Projects \ {p} : KeptOf(x)
    /\ project' \subseteq Projects /\ project' \ {p} = project \ {p}
    /\ p \in project' => p \in project \/ (Creator(request[r]) /\ request[r].call.project = p)
    /\ UnitsKept
    /\ \A u \in Units : unit[u] = "unborn" /\ unit'[u] # "unborn" => \A o \in Requests \ {r} : request[o].new # u

(* Such a commit preserves the invariant where its own contents do.        *)
LEMMA CommitStep ==
    ASSUME AskedOK, IInv, NEW r \in Requests, NEW new \in Request, NEW p \in Projects,
           request' = [request EXCEPT ![r] = new], Release(r), OnlyOf(r, p),
           new.pc \notin Critical, new.pc = "idle" => new = Idle, Called(new)', new.new \in {0, request[r].new},
           unit' \in [Units -> Projects \cup {"unborn", "deleted"}], held' \in Contained, import' \in Imported,
           UNCHANGED <<text, complete, worker, retry, dead>>,
           job \subseteq job', job' \subseteq Job, (\A j \in job : OfMilestone(j))',
           Once', Unborn', Living', Waiting'
    PROVE  IInv'
<1>1. \A x \in Requests : request'[x] = IF x = r THEN new ELSE request[x]
    BY DEF IInv, TypeOK
<1>2. \A x \in Projects : holder'[x] = IF holder[x] = r THEN None ELSE holder[x]
    BY DEF Release
<1>3. holder' \in [Projects -> Requests \cup {None}]
    BY DEF Release, IInv, TypeOK
<1>4. Held'
    BY <1>1, <1>2, <1>3 DEF IInv, Held, TypeOK
<1>5. TypeOK'
  <2>1. request' \in [Requests -> Request] /\ \A x \in Requests : request'[x].pc = "idle" => request'[x] = Idle
      BY <1>1 DEF IInv, TypeOK
  <2>2. \A x \in Projects : holder'[x] # None => request'[holder'[x]].call.project = x
      BY <1>4 DEF Held
  <2> QED BY <1>3, <2>1, <2>2 DEF IInv, TypeOK, Contained, Contents, Imported, OnlyOf
<1>6. CareKept
    BY DEF CareKept, Cared, Fetching
<1>7. Working'
  <2>1. ASSUME worker.pc # "idle"
        PROVE  OfMilestone(worker.job)'
      BY <2>1 DEF IInv, Working, OfMilestone, OnlyOf, UnitsKept, Job, AskedOK
  <2> QED BY <2>1 DEF IInv, Working
<1>8. ASSUME NEW o \in Requests
      PROVE  Stands(o, request[o])'
  <2>1. CASE o = r
      BY <1>1, <2>1, OverStands
  <2>2. CASE o # r
    <3>1. PICK q \in Request : q = request[o] /\ Stands(o, q)
        BY Itself
    <3>2. ASSUME NEW x \in Projects, holder[x] = o
          PROVE  holder'[x] = o /\ (x \in project => x \in project') /\ KeptOf(x)
        BY <1>2, <2>2, <3>2 DEF OnlyOf
    <3>3. Creator(q) => q.call.project \notin project'
      <4>1. ASSUME Creator(q)
            PROVE  /\ q.call.project \notin project
                   /\ Creator(request[r]) => request[r].call.project # q.call.project
          BY <2>2, <3>1, <4>1 DEF Stands, Creating, Creator
      <4> QED BY <4>1 DEF OnlyOf
    <3>4. q.new \in Units /\ unit[q.new] = "unborn" => unit'[q.new] = "unborn"
        BY <2>2, <3>1 DEF OnlyOf
    <3>5. ASSUME NEW x \in Requests \ {o}, Creator(q), Creator(request'[x])
          PROVE  request'[x].call.project # q.call.project
      <4>1. x # r /\ request'[x] = request[x]
          BY <1>1, <3>5 DEF Creator
      <4> QED BY <3>1, <3>5, <4>1 DEF Stands, Creating, Creator
    <3>6. ASSUME NEW x \in Requests \ {o}, Reserved(o, q), q.new \in Units, q.pc \in {"decide", "commit"},
                 q.call.kind \in Making
          PROVE  request'[x].new # q.new
      <4>1. q.new # 0 /\ \A y \in Requests \ {o} : request[y].new # q.new
          BY <3>6 DEF Reserved, AskedOK
      <4> QED BY <1>1, <4>1
    <3>7. Leaves(o, q)
        BY <1>6, <3>2, <3>3, <3>4, <3>5, <3>6 DEF Leaves, OnlyOf
    <3>8. Stands(o, q)'
        BY <3>1, <3>7, StandKept
    <3>9. request'[o] = q
        BY <1>1, <2>2, <3>1
    <3> QED BY <3>8, <3>9
  <2> QED BY <2>1, <2>2
<1> QED BY <1>4, <1>5, <1>7, <1>8 DEF IInv

(* A project that a request has at its commit is nobody else's.            *)
LEMMA CommitAlone ==
    ASSUME AskedOK, IInv, NEW r \in Requests, NEW q \in Request, q = request[r], q.pc = "commit"
    PROVE  /\ q.call.project \in Projects
           /\ \A o \in Requests \ {r} : holder[q.call.project] # o
           /\ q.call.kind = "createProject" =>
                 q.call.project \notin project /\ Creator(request[r])
           /\ q.call.kind # "createProject" =>
                 q.call.project \in project /\ holder[q.call.project] = r
<1>1. Stands(r, q)
    BY Itself
<1>2. q.call.project \in Projects
    BY <1>1 DEF Stands, Called
<1>3. CASE q.call.kind # "createProject"
    BY <1>1, <1>2, <1>3 DEF Stands, Locked, Critical
<1>4. CASE q.call.kind = "createProject"
  <2>1. q.call.project \notin project /\ Creator(request[r])
      BY <1>1, <1>4 DEF Stands, Creating, Creator, Critical
  <2>2. ASSUME NEW o \in Requests \ {r}, holder[q.call.project] = o
        PROVE  FALSE
    <3>1. o # None
        BY DEF AskedOK
    <3>2. request[o].pc \in Critical /\ request[o].call.project = q.call.project
          /\ request[o].call.kind # "createProject"
        BY <1>2, <2>2, <3>1 DEF IInv, Held
    <3>3. Locked(o, request[o])
        BY DEF IInv, Stands
    <3> QED BY <2>1, <3>2, <3>3 DEF Locked
  <2> QED BY <1>2, <1>4, <2>1, <2>2
<1> QED BY <1>3, <1>4

(* What the foreign keys delete is of the project of the request.          *)
LEMMA DeletedStep ==
    ASSUME AskedOK, IInv, NEW r \in Requests, NEW p \in Projects, Answer(r), Release(r),
           \A o \in Requests \ {r} : holder[p] # o,
           NEW units \in SUBSET Units, \A u \in units : unit[u] \in {p, "deleted"}, Deleted(units),
           project' = project \/ (project' = project \ {p} /\ UnitsOf(p) \subseteq units),
           UNCHANGED <<text, complete, worker, retry, dead, job>>
    PROVE  IInv'
<1>1. PICK new \in Request : new = Idle
    BY IdleIs
<1>2. new.pc = "idle" /\ new.new = 0 /\ new.pc \notin Critical
    BY <1>1, IdleIs DEF Critical
<1>3. request' = [request EXCEPT ![r] = new]
    BY <1>1 DEF Answer
<1>4. Called(new)'
    BY <1>1, IdleStands
<1>5. \A u \in Units : unit'[u] = IF u \in units THEN "deleted" ELSE unit[u]
    BY DEF Deleted
<1>6. unit' \in [Units -> Projects \cup {"unborn", "deleted"}]
    BY DEF Deleted, IInv, TypeOK
<1>7. [b \in Books |-> Nothing] \in [Books -> Contents]
    BY NothingIs
<1>8. held' \in Contained
    BY <1>7 DEF Deleted, IInv, TypeOK, Contained, Contents
<1>9. \A u \in Units, b \in Books : HasLink(u, b)' <=> u \notin units /\ HasLink(u, b)
    BY NothingIs DEF Deleted, HasLink
<1>10. NoImport \in [at : Units \cup {0}, state : {"none", "pending", "done"}] /\ NoImport.state = "none"
    BY DEF NoImport
<1>11. import' \in Imported
    BY <1>10 DEF Deleted, IInv, TypeOK, Imported
<1>12. \A i \in Ids : import'[i].state = "pending" => import[i].state = "pending"
    BY <1>10 DEF Deleted
<1>13. Once' /\ Unborn' /\ Living'
  <2>1. Once'
      BY <1>5, <1>9 DEF IInv, Once, AskedOK
  <2>2. Unborn'
      BY <1>5, <1>9 DEF IInv, Unborn
  <2>3. Living'
      BY <1>5 DEF IInv, Living, UnitsOf, AskedOK
  <2> QED BY <2>1, <2>2, <2>3
<1>14. Waiting'
    BY <1>12 DEF IInv, Waiting, Cared, Fetching
<1>15. OnlyOf(r, p)
  <2>1. ASSUME NEW x \in Projects \ {p}
        PROVE  KeptOf(x)
      BY <1>5, <1>9 DEF KeptOf, AskedOK
  <2>2. project' \subseteq Projects /\ project' \ {p} = project \ {p} /\ (p \in project' => p \in project)
      BY DEF IInv, TypeOK
  <2>3. UnitsKept /\ \A u \in Units : unit[u] = "unborn" => unit'[u] = "unborn"
      BY <1>5 DEF UnitsKept, AskedOK
  <2> QED BY <2>1, <2>2, <2>3 DEF OnlyOf
<1>16. job \subseteq job' /\ job' \subseteq Job /\ (\A j \in job : OfMilestone(j))'
    BY <1>5 DEF IInv, TypeOK, OfMilestone, Job
<1> QED BY <1>1, <1>2, <1>3, <1>4, <1>6, <1>8, <1>11, <1>13, <1>14, <1>15, <1>16, CommitStep

(* A milestone is deleted, or a project without milestones.                *)
LEMMA CommitDeleteKeeps ==
    ASSUME AskedOK, IInv, NEW r \in Requests, CommitDelete(r)
    PROVE  IInv'
<1>1. PICK q \in Request : q = request[r] /\ Stands(r, q)
    BY Itself
<1>2. PICK c \in Asked : c = q.call
    BY FieldsTyped
<1>3. q.pc = "commit" /\ c.kind \in {"deleteMilestone", "deleteProject"}
    BY <1>1, <1>2 DEF CommitDelete
<1>4. c.project \in Projects /\ \A o \in Requests \ {r} : holder[c.project] # o
    BY <1>1, <1>2, <1>3, CommitAlone
<1>5. Answer(r) /\ Release(r) /\ UNCHANGED <<text, complete, worker, retry, dead, job>>
    BY DEF CommitDelete, unchangedQueues
<1>6. CASE c.kind = "deleteProject"
  <2>1. UnitsOf(c.project) = {}
      BY <1>1, <1>2, <1>3, <1>6 DEF Stands, Staged
  <2>2. Deleted({}) /\ project' = project \ {c.project}
      BY <1>1, <1>2, <1>6, <2>1 DEF CommitDelete
  <2> QED BY <1>4, <1>5, <2>1, <2>2, DeletedStep
<1>7. CASE c.kind = "deleteMilestone"
  <2>1. c.unit \in Units /\ unit[c.unit] \in {c.project, "deleted"}
      BY <1>1, <1>2, <1>3, <1>7 DEF Stands, Called
  <2>2. PICK units \in SUBSET Units : units = {c.unit}
      BY <2>1
  <2>3. Deleted(units) /\ project' = project
      BY <1>1, <1>2, <1>7, <2>2 DEF CommitDelete
  <2>4. \A u \in units : unit[u] \in {c.project, "deleted"}
      BY <2>1, <2>2
  <2> QED BY <1>4, <1>5, <2>3, <2>4, DeletedStep
<1> QED BY <1>3, <1>6, <1>7

(* A project is deleted with its milestones.                               *)
LEMMA CascadeKeeps ==
    ASSUME AskedOK, IInv, NEW r \in Requests, NEW p, Cascade(r, p)
    PROVE  IInv'
<1>1. p \in Projects /\ \A o \in Requests : holder[p] # o
    BY DEF Cascade, IInv, TypeOK, AskedOK
<1>2. PICK units \in SUBSET Units : units = UnitsOf(p)
    BY DEF UnitsOf
<1>3. Deleted(units) /\ project' = project \ {p} /\ UnitsOf(p) \subseteq units
    BY <1>2 DEF Cascade
<1>4. \A u \in units : unit[u] \in {p, "deleted"}
    BY <1>2 DEF UnitsOf
<1>5. Answer(r)
  <2>1. request[r] = Idle /\ request \in [Requests -> Request]
      BY DEF Cascade, IInv, TypeOK
  <2> QED BY <2>1 DEF Cascade, Answer
<1>6. Release(r)
  <2>1. \A x \in Projects : holder[x] # r
      BY DEF Cascade, IInv, Held, Critical, AskedOK
  <2>2. holder \in [Projects -> Requests \cup {None}] /\ holder' = holder
      BY DEF Cascade, IInv, TypeOK
  <2> QED BY <2>1, <2>2 DEF Release
<1>7. UNCHANGED <<text, complete, worker, retry, dead, job>>
    BY DEF Cascade, unchangedQueues
<1> QED BY <1>1, <1>3, <1>4, <1>5, <1>6, <1>7, DeletedStep

(* What an update does to the links: the books it moves go to the target,  *)
(* those it adds to its milestone, wherever they were in the project.      *)
LEMMA UpdateLinks ==
    ASSUME AskedOK, IInv, NEW q \in Request, NEW c \in Asked, c = q.call, q.pc = "commit", c.kind = "update",
           Called(q), Staged(q), NEW places, places = Placements(c.project, c.books),
           NEW h \in Contained, h = held, NEW staged \in [Books -> SUBSET Chapters],
           held' = Unlinked(Moved(Linked(Moved(h, Away(c), c.target), c.unit, c.books \ BooksOf(places), staged),
                                  places, c.unit), c.unit, c.remove)
    PROVE  /\ held' \in Contained
           /\ \A u \in Units, b \in Books :
                 HasLink(u, b)' <=>
                    IF b \in c.books THEN u = c.unit \/ (unit[u] # c.project /\ HasLink(u, b))
                    ELSE IF b \in c.move THEN u = c.target \/ (u # c.unit /\ HasLink(u, b))
                    ELSE HasLink(u, b)
<1>1. /\ c.unit \in Units /\ c.target \in Units \cup {0} /\ c.books \subseteq Books /\ c.move \subseteq Books
      /\ c.remove \subseteq Books
    BY FieldsTyped DEF Called
<1>2. /\ unit[c.unit] = c.project
      /\ c.move # {} => c.target \in Units /\ unit[c.target] = c.project
      /\ \A b \in c.move : b \notin c.books
    BY DEF Staged
<1>3. Away(c) \in SUBSET Ids /\ \A u, b : <<u, b>> \in Away(c) <=> u = c.unit /\ b \in c.move
    BY <1>1 DEF Away, Ids
<1>4. BooksOf(Away(c)) = c.move
  <2>1. \A x \in BooksOf(Away(c)) : x \in c.move
      BY DEF Away, BooksOf
  <2>2. ASSUME NEW b \in c.move
        PROVE  b \in BooksOf(Away(c))
    <3>1. PICK i \in Away(c) : i = <<c.unit, b>>
        BY <1>3
    <3>2. i[2] = b
        BY <3>1
    <3> QED BY <3>2 DEF BooksOf
  <2> QED BY <2>1, <2>2
<1>5. places \in SUBSET Ids /\ BooksOf(places) \subseteq c.books
    BY <1>1 DEF Placements, UnitsOf, Ids, BooksOf
<1>6. \A u \in Units, b \in Books :
         <<u, b>> \in places <=> unit[u] = c.project /\ b \in c.books /\ HasLink(u, b)
    BY DEF Placements, UnitsOf, HasLink
<1>7. PICK books \in SUBSET Books : books = c.books \ BooksOf(places)
    BY <1>1
<1>8. PICK away \in Contained :
         /\ away = Moved(h, Away(c), c.target)
         /\ \A u \in Units, b \in Books : Link(away, u, b) <=>
               IF u = c.target /\ b \in c.move THEN TRUE ELSE ~(u = c.unit /\ b \in c.move) /\ Link(h, u, b)
  <2>1. PICK m : m = Moved(h, Away(c), c.target)
      OBVIOUS
  <2>2. PICK from \in SUBSET Ids, to \in Units \cup {0} : from = Away(c) /\ to = c.target
      BY <1>1, <1>3
  <2>3. /\ m \in Contained
        /\ \A u \in Units, b \in Books :
              Link(m, u, b) <=> IF u = to /\ b \in BooksOf(from) THEN TRUE
                                ELSE <<u, b>> \notin from /\ Link(h, u, b)
      BY <2>1, <2>2, MovedIs
  <2>4. \A u \in Units, b \in Books :
           Link(m, u, b) <=> IF u = c.target /\ b \in c.move THEN TRUE
                             ELSE ~(u = c.unit /\ b \in c.move) /\ Link(h, u, b)
      BY <1>3, <1>4, <2>2, <2>3
  <2> QED BY <2>1, <2>3, <2>4
<1>9. PICK with \in Contained :
         /\ with = Linked(away, c.unit, books, staged)
         /\ \A u \in Units, b \in Books : Link(with, u, b) <=> (u = c.unit /\ b \in books) \/ Link(away, u, b)
  <2>1. Linked(away, c.unit, books, staged) \in Contained
      BY <1>1, LinkedIs
  <2>2. \A u \in Units, b \in Books :
           Link(Linked(away, c.unit, books, staged), u, b) <=> (u = c.unit /\ b \in books) \/ Link(away, u, b)
      BY <1>1, LinkedIs
  <2> QED BY <2>1, <2>2
<1>10. PICK moved \in Contained :
         /\ moved = Moved(with, places, c.unit)
         /\ \A u \in Units, b \in Books : Link(moved, u, b) <=>
               IF u = c.unit /\ b \in BooksOf(places) THEN TRUE ELSE <<u, b>> \notin places /\ Link(with, u, b)
  <2>1. PICK to \in Units : to = c.unit
      BY <1>1
  <2>2. PICK m : m = Moved(with, places, to)
      OBVIOUS
  <2>3. /\ m \in Contained
        /\ \A u \in Units, b \in Books :
              Link(m, u, b) <=> IF u = to /\ b \in BooksOf(places) THEN TRUE
                                ELSE <<u, b>> \notin places /\ Link(with, u, b)
      BY <1>5, <2>2, MovedIs
  <2> QED BY <2>1, <2>2, <2>3
<1>11. held' = Unlinked(moved, c.unit, c.remove)
    BY <1>7, <1>8, <1>9, <1>10
<1>12. held' \in Contained
    BY <1>1, <1>11, UnlinkedIs
<1>13. \A u \in Units, b \in Books : HasLink(u, b)' <=> Link(moved, u, b)
  <2>1. \A u \in Units, b \in Books : Link(Unlinked(moved, c.unit, c.remove), u, b) <=> Link(moved, u, b)
      BY <1>1, UnlinkedIs
  <2> QED BY <1>11, <2>1 DEF HasLink, Link
<1>14. \A u \in Units, b \in Books : Link(h, u, b) <=> HasLink(u, b)
    BY DEF Link, HasLink
<1>15. ASSUME NEW u \in Units, NEW b \in Books
       PROVE  HasLink(u, b)' <=>
                    IF b \in c.books THEN u = c.unit \/ (unit[u] # c.project /\ HasLink(u, b))
                    ELSE IF b \in c.move THEN u = c.target \/ (u # c.unit /\ HasLink(u, b))
                    ELSE HasLink(u, b)
  <2>1. CASE b \in c.books
    <3>1. b \notin c.move
        BY <1>2, <2>1
    <3>2. Link(away, u, b) <=> HasLink(u, b)
        BY <1>8, <1>14, <3>1
    <3>3. b \in books <=> b \notin BooksOf(places)
        BY <1>7, <2>1
    <3>4. <<u, b>> \in places => b \in BooksOf(places)
        BY DEF BooksOf
    <3> QED BY <1>6, <1>9, <1>10, <1>13, <2>1, <3>2, <3>3, <3>4
  <2>2. CASE b \notin c.books
    <3>1. b \notin BooksOf(places) /\ b \notin books /\ <<u, b>> \notin places
        BY <1>5, <1>6, <1>7, <2>2
    <3>2. HasLink(u, b)' <=> Link(away, u, b)
        BY <1>9, <1>10, <1>13, <3>1
    <3> QED BY <1>8, <1>14, <2>2, <3>2
  <2> QED BY <2>1, <2>2
<1> QED BY <1>12, <1>15

(* So a book is still in one milestone of the project.                     *)
LEMMA CommitUpdateKeeps ==
    ASSUME AskedOK, IInv, NEW r \in Requests, CommitUpdate(r)
    PROVE  IInv'
<1>1. PICK q \in Request : q = request[r] /\ Stands(r, q)
    BY Itself
<1>2. PICK c \in Asked : c = q.call
    BY FieldsTyped
<1>3. q.pc = "commit" /\ c.kind = "update"
    BY <1>1, <1>2 DEF CommitUpdate
<1>4. Called(q) /\ Staged(q)
    BY <1>1 DEF Stands
<1>5. PICK p \in Projects : p = c.project /\ p \in project /\ \A o \in Requests \ {r} : holder[p] # o
    BY <1>1, <1>2, <1>3, CommitAlone
<1>6. PICK h \in Contained : h = held
    BY DEF IInv, TypeOK, Contained, Contents
<1>7. PICK places : places = q.places /\ places = Placements(c.project, c.books)
    BY <1>2, <1>3, <1>4 DEF Staged
<1>8. PICK staged \in [Books -> SUBSET Chapters] : staged = q.staged
    BY FieldsTyped
<1>9. /\ held' \in Contained
      /\ \A u \in Units, b \in Books :
            HasLink(u, b)' <=>
               IF b \in c.books THEN u = c.unit \/ (unit[u] # c.project /\ HasLink(u, b))
               ELSE IF b \in c.move THEN u = c.target \/ (u # c.unit /\ HasLink(u, b))
               ELSE HasLink(u, b)
  <2>1. held' = Unlinked(Moved(Linked(Moved(h, Away(c), c.target), c.unit, c.books \ BooksOf(places), staged),
                                  places, c.unit), c.unit, c.remove)
      BY <1>1, <1>2, <1>6, <1>7, <1>8 DEF CommitUpdate
  <2> QED BY <1>2, <1>3, <1>4, <1>6, <1>7, <2>1, UpdateLinks
<1>10. /\ c.unit \in Units /\ unit[c.unit] = p /\ q.new = c.unit
       /\ c.move # {} => c.target \in Units /\ unit[c.target] = p
       /\ \A b \in c.move : HasLink(c.unit, b)
    BY <1>2, <1>3, <1>4, <1>5 DEF Called, Staged
<1>11. UNCHANGED <<project, unit, text, complete, worker, retry, dead, job>> /\ Release(r)
    BY DEF CommitUpdate, unchangedQueues
<1>12. Once'
  <2>1. SUFFICES ASSUME NEW u \in Units, NEW v \in Units, NEW b \in Books,
                        unit[u] = unit[v], unit[u] \in Projects, HasLink(u, b)', HasLink(v, b)'
                 PROVE  u = v
      BY <1>11 DEF Once
  <2>2. CASE b \in c.books /\ unit[u] = p
      BY <1>5, <1>9, <2>1, <2>2
  <2>3. CASE b \notin c.books /\ b \in c.move /\ unit[u] = p
    <3>1. \A w \in Units : unit[w] = p /\ HasLink(w, b) => w = c.unit
        BY <1>10, <2>3 DEF IInv, Once
    <3> QED BY <1>9, <2>1, <2>3, <3>1
  <2>4. CASE (b \notin c.books /\ b \notin c.move) \/ unit[u] # p
    <3>1. HasLink(u, b) /\ HasLink(v, b)
        BY <1>5, <1>9, <1>10, <2>1, <2>4
    <3> QED BY <2>1, <3>1 DEF IInv, Once
  <2> QED BY <2>2, <2>3, <2>4
<1>13. \A u \in Units, b \in Books : unit[u] # p => (HasLink(u, b)' <=> HasLink(u, b))
    BY <1>5, <1>9, <1>10
<1>14. Unborn' /\ Living'
    BY <1>11, <1>13 DEF IInv, Unborn, Living, AskedOK
<1>15. OnlyOf(r, p)
  <2>1. \A x \in Projects \ {p} : KeptOf(x)
      BY <1>11, <1>13 DEF KeptOf
  <2> QED BY <1>5, <1>11, <2>1 DEF OnlyOf, UnitsKept, IInv, TypeOK
<1>16. PICK i \in Imported : i = import
    BY DEF IInv, TypeOK, Imported
<1>17. PICK j \in Imported : j = ImportsMoved(i, Away(c), c.target) /\ \A x \in Ids : j[x].state = i[x].state
    BY FieldsTyped, <1>2, ImportsMovedIs
<1>18. import' = ImportsMoved(j, places, c.unit)
    BY <1>1, <1>2, <1>7, <1>16, <1>17 DEF CommitUpdate
<1>19. import' \in Imported /\ \A x \in Ids : import'[x].state = import[x].state
    BY <1>10, <1>16, <1>17, <1>18, ImportsMovedIs
<1>20. Waiting'
    BY <1>11, <1>19 DEF IInv, Waiting, Cared, Fetching
<1>21. PICK idle \in Request : idle = Idle /\ idle.pc = "idle" /\ idle.new = 0
    BY IdleIs
<1> DEFINE new == IF q.send # {} THEN [q EXCEPT !.pc = "enqueue"] ELSE idle
<1>22. request' = [request EXCEPT ![r] = new]
    BY <1>1, <1>21 DEF CommitUpdate
<1>23. [q EXCEPT !.pc = "enqueue"] \in Request
    BY DEF Request, Steps
<1>24. new \in Request
    BY <1>23
<1>25. new = Idle \/ (new.pc = "enqueue" /\ new.call = q.call /\ new.new = q.new)
    BY <1>21 DEF Request
<1> HIDE DEF new
<1>26. Called(new)'
  <2>1. CASE new = Idle
      BY <2>1, IdleStands
  <2>2. CASE new # Idle
      BY <1>2, <1>3, <1>4, <1>5, <1>10, <1>11, <1>25, <2>2 DEF Called, AskedOK
  <2> QED BY <2>1, <2>2
<1>27. new.pc \notin Critical /\ (new.pc = "idle" => new = Idle) /\ new.new \in {0, request[r].new}
    BY <1>1, <1>21, <1>25 DEF Critical
<1>28. /\ unit' \in [Units -> Projects \cup {"unborn", "deleted"}]
       /\ job \subseteq job' /\ job' \subseteq Job /\ (\A k \in job : OfMilestone(k))'
    BY <1>11 DEF IInv, TypeOK, OfMilestone
<1>29. UNCHANGED <<text, complete, worker, retry, dead>>
    BY <1>11
<1> QED BY <1>9, <1>11, <1>12, <1>14, <1>15, <1>19, <1>20, <1>22, <1>24, <1>26, <1>27, <1>28, <1>29, CommitStep

(* What a new milestone does to the links: it has its books, wherever they *)
(* were in the project.                                                    *)
LEMMA NewLinks ==
    ASSUME NEW n \in Units, NEW p, NEW books \in SUBSET Books, NEW places \in SUBSET Ids,
           places = Placements(p, books), unit[n] # p, \A b \in Books : ~HasLink(n, b),
           NEW h \in Contained, h = held, NEW staged \in [Books -> SUBSET Chapters],
           held' = Moved(Linked(h, n, books \ BooksOf(places), staged), places, n)
    PROVE  /\ held' \in Contained
           /\ \A u \in Units, b \in Books :
                 HasLink(u, b)' <=> IF u = n THEN b \in books
                                    ELSE HasLink(u, b) /\ ~(unit[u] = p /\ b \in books)
<1>1. BooksOf(places) \subseteq books
    BY DEF Placements, BooksOf
<1>2. \A u \in Units, b \in Books :
         <<u, b>> \in places <=> unit[u] = p /\ b \in books /\ HasLink(u, b)
    BY DEF Placements, UnitsOf, HasLink
<1>3. PICK added \in SUBSET Books : added = books \ BooksOf(places)
    OBVIOUS
<1>4. PICK with \in Contained :
         /\ with = Linked(h, n, added, staged)
         /\ \A u \in Units, b \in Books : Link(with, u, b) <=> (u = n /\ b \in added) \/ Link(h, u, b)
  <2>1. Linked(h, n, added, staged) \in Contained
      BY LinkedIs
  <2>2. \A u \in Units, b \in Books :
           Link(Linked(h, n, added, staged), u, b) <=> (u = n /\ b \in added) \/ Link(h, u, b)
      BY LinkedIs
  <2> QED BY <2>1, <2>2
<1>5. PICK m : m = Moved(with, places, n)
    OBVIOUS
<1>6. /\ m \in Contained
      /\ \A u \in Units, b \in Books :
            Link(m, u, b) <=> IF u = n /\ b \in BooksOf(places) THEN TRUE
                              ELSE <<u, b>> \notin places /\ Link(with, u, b)
  <2>1. n \in Units \cup {0}
      OBVIOUS
  <2> QED BY <1>5, <2>1, MovedIs
<1>7. held' = m /\ \A u \in Units, b \in Books : HasLink(u, b)' <=> Link(m, u, b)
  <2>1. held' = m
      BY <1>3, <1>4, <1>5
  <2> QED BY <2>1 DEF HasLink, Link
<1>8. \A u \in Units, b \in Books : Link(h, u, b) <=> HasLink(u, b)
    BY DEF Link, HasLink
<1>9. ASSUME NEW u \in Units, NEW b \in Books
      PROVE  HasLink(u, b)' <=> IF u = n THEN b \in books
                                ELSE HasLink(u, b) /\ ~(unit[u] = p /\ b \in books)
  <2>1. CASE u = n
      BY <1>1, <1>2, <1>3, <1>4, <1>6, <1>7, <1>8, <2>1
  <2>2. CASE u # n
      BY <1>2, <1>4, <1>6, <1>7, <1>8, <2>2
  <2> QED BY <2>1, <2>2
<1> QED BY <1>6, <1>7, <1>9

(* The imports of a new milestone, and the jobs that come with them.       *)
LEMMA NewImports ==
    ASSUME AskedOK, IInv, NEW c \in Asked, c.books \subseteq Books, NEW n \in Units \cup {0},
           NEW places, NEW send \in SUBSET Books,
           c.files => c.kind \in {"createProject", "import"},
           c.files => \A b \in c.books : Cared(b) \/ (c.kind = "import" /\ b \in send),
           import' = [i \in Ids |-> IF c.files /\ i[1] = n /\ i[2] \in c.books
                                    THEN [at |-> n, state |-> "pending"] ELSE ImportsMoved(import, places, n)[i]],
           job' = IF c.kind = "import" THEN job \cup {Ingest({b}, None, n, Retries) : b \in send} ELSE job,
           UNCHANGED <<complete, dead, worker>>, UnitsKept,
           c.kind = "import" => n \in Units /\ unit'[n] # "unborn"
    PROVE  /\ import' \in Imported /\ Waiting'
           /\ job \subseteq job' /\ job' \subseteq Job /\ (\A j \in job : OfMilestone(j))'
<1>1. PICK i \in Imported : i = import
    BY DEF IInv, TypeOK, Imported
<1>2. PICK moved \in Imported :
         moved = ImportsMoved(i, places, n) /\ \A x \in Ids : moved[x].state = i[x].state
    BY ImportsMovedIs
<1>3. [at |-> n, state |-> "pending"] \in [at : Units \cup {0}, state : {"none", "pending", "done"}]
    OBVIOUS
<1>4. \A x \in Ids : import'[x] = IF c.files /\ x[1] = n /\ x[2] \in c.books
                                  THEN [at |-> n, state |-> "pending"] ELSE moved[x]
    BY <1>1, <1>2
<1>5. import' \in Imported
    BY <1>1, <1>2, <1>3 DEF Imported
<1>6. ASSUME NEW b \in send
      PROVE  /\ Ingest({b}, None, n, Retries) \in Job
             /\ Ingest({b}, None, n, Retries).books = {b} /\ Ingest({b}, None, n, Retries).unit = n
  <2>1. {b} \in SUBSET Books /\ Retries \in 0 .. Retries
      BY DEF AskedOK
  <2> QED BY <2>1 DEF Ingest, Job
<1>7. /\ job \subseteq job' /\ job' \subseteq Job
      /\ \A j \in job' : j \in job \/ (c.kind = "import" /\ j.unit = n)
  <2>1. PICK js : js = {Ingest({b}, None, n, Retries) : b \in send}
      OBVIOUS
  <2>2. \A j \in js : j \in Job /\ j.unit = n
      BY <1>6, <2>1
  <2>3. job' = IF c.kind = "import" THEN job \cup js ELSE job
      BY <2>1
  <2> QED BY <2>2, <2>3 DEF IInv, TypeOK
<1>8. ASSUME NEW j \in job'
      PROVE  OfMilestone(j)'
  <2>1. CASE j \in job
      BY <1>7, <2>1 DEF IInv, OfMilestone, UnitsKept, Job, AskedOK
  <2>2. CASE j \notin job
    <3>1. j.unit = n /\ n \in Units /\ unit'[n] # "unborn"
        BY <1>7, <2>2
    <3> QED BY <3>1 DEF OfMilestone
  <2> QED BY <2>1, <2>2
<1>9. ASSUME NEW b \in Books, Cared(b)
      PROVE  Cared(b)'
    BY <1>7, <1>9 DEF Cared, Fetching
<1>10. ASSUME NEW x \in Ids, import'[x].state = "pending"
       PROVE  Cared(x[2])'
  <2>1. x[2] \in Books
      BY DEF Ids
  <2>2. CASE c.files /\ x[1] = n /\ x[2] \in c.books
    <3>1. CASE Cared(x[2])
        BY <1>9, <2>1, <3>1
    <3>2. CASE c.kind = "import" /\ x[2] \in send
      <4>1. Ingest({x[2]}, None, n, Retries) \in job' /\ x[2] \in Ingest({x[2]}, None, n, Retries).books
          BY <1>6, <3>2
      <4> QED BY <4>1 DEF Cared, Fetching
    <3> QED BY <2>2, <3>1, <3>2
  <2>3. CASE ~(c.files /\ x[1] = n /\ x[2] \in c.books)
    <3>1. import[x].state = "pending"
        BY <1>1, <1>2, <1>4, <1>10, <2>3
    <3> QED BY <1>9, <2>1, <3>1 DEF IInv, Waiting
  <2> QED BY <2>2, <2>3
<1> QED BY <1>5, <1>7, <1>8, <1>10 DEF Waiting

(* What a request has staged for a new milestone.                          *)
LEMMA NewStaged ==
    ASSUME AskedOK, IInv, NEW r \in Requests, NEW q \in Request, q = request[r], q.pc = "commit",
           q.call.kind \in Making
    PROVE  /\ q.places = Placements(q.call.project, q.call.books) /\ q.places \in SUBSET Ids
           /\ q.new = 0 => q.call.kind = "createProject" /\ q.call.books = {} /\ q.places = {}
           /\ q.new # 0 => /\ q.new \in Units /\ unit[q.new] = "unborn"
                           /\ \A o \in Requests \ {r} : request[o].new # q.new
<1>1. Stands(r, q)
    BY Itself
<1>2. q.places \in SUBSET Ids
    BY FieldsTyped
<1>3. q.places = Placements(q.call.project, q.call.books)
  <2>1. CASE q.call.kind = "createProject"
    <3>1. q.call.project \in Projects /\ q.call.project \notin project
        BY <2>1, CommitAlone
    <3>2. UnitsOf(q.call.project) = {}
        BY <3>1 DEF UnitsOf, IInv, Living
    <3>3. Placements(q.call.project, q.call.books) = {}
        BY <3>2 DEF Placements
    <3> QED BY <1>1, <2>1, <3>3 DEF Stands, Staged
  <2>2. CASE q.call.kind # "createProject"
      BY <1>1, <2>2 DEF Stands, Staged, Making
  <2> QED BY <2>1, <2>2
<1>4. \/ q.new = 0 /\ q.call.kind = "createProject" /\ q.call.books = {}
      \/ /\ q.new \in Units /\ unit[q.new] = "unborn"
         /\ \A o \in Requests \ {r} : request[o].new # q.new
    BY <1>1 DEF Stands, Reserved
<1>5. q.call.kind = "createProject" => q.places = {}
    BY <1>1 DEF Stands, Staged
<1> QED BY <1>2, <1>3, <1>4, <1>5 DEF AskedOK

(* So a book is in one milestone of the project, and every import has its  *)
(* job.                                                                    *)
LEMMA CommitNewKeeps ==
    ASSUME AskedOK, IInv, NEW r \in Requests, CommitNew(r)
    PROVE  IInv'
<1>1. PICK q \in Request : q = request[r] /\ Stands(r, q)
    BY Itself
<1>2. PICK c \in Asked : c = q.call
    BY FieldsTyped
<1>3. /\ q.pc = "commit" /\ c.kind \in Making /\ c.books \in SUBSET Books
      /\ c.files => c.kind \in {"createProject", "import"}
    BY <1>1, <1>2, FieldsTyped DEF CommitNew, Making, Stands, Called
<1>4. PICK p \in Projects : p = c.project /\ (\A o \in Requests \ {r} : holder[p] # o)
                            /\ (c.kind = "createProject" => Creator(request[r]))
                            /\ (c.kind # "createProject" => p \in project)
    BY <1>1, <1>2, <1>3, CommitAlone
<1>5. PICK h \in Contained : h = held
    BY DEF IInv, TypeOK, Contained, Contents
<1>6. PICK places \in SUBSET Ids : places = q.places
    BY FieldsTyped
<1>7. PICK n \in Units \cup {0} : n = q.new
    BY FieldsTyped
<1>8. /\ places = Placements(p, c.books)
      /\ n = 0 => c.kind = "createProject" /\ c.books = {} /\ places = {}
      /\ n # 0 => n \in Units /\ unit[n] = "unborn" /\ \A o \in Requests \ {r} : request[o].new # n
    BY <1>1, <1>2, <1>3, <1>4, <1>6, <1>7, NewStaged
<1>9. PICK staged \in [Books -> SUBSET Chapters] : staged = q.staged
    BY FieldsTyped
<1>10. /\ UNCHANGED <<text, complete, worker, retry, dead>> /\ Release(r) /\ project' = project \cup {p}
       /\ unit' = [u \in Units |-> IF u = n THEN p ELSE unit[u]]
    BY <1>1, <1>2, <1>4, <1>7 DEF CommitNew
<1>11. unit' \in [Units -> Projects \cup {"unborn", "deleted"}] /\ UnitsKept
    BY <1>8, <1>10 DEF IInv, TypeOK, UnitsKept, AskedOK
<1>12. /\ held' \in Contained
       /\ \A u \in Units, b \in Books :
             HasLink(u, b)' <=> IF u = n THEN b \in c.books
                                ELSE HasLink(u, b) /\ ~(unit[u] = p /\ b \in c.books)
  <2>1. CASE n = 0
    <3>1. held' = held /\ n \notin Units
        BY <1>1, <1>7, <2>1 DEF CommitNew, AskedOK
    <3> QED BY <1>5, <1>8, <2>1, <3>1 DEF HasLink
  <2>2. CASE n # 0
    <3>1. held' = Moved(Linked(h, n, c.books \ BooksOf(places), staged), places, n)
        BY <1>1, <1>2, <1>5, <1>6, <1>7, <1>9, <2>2 DEF CommitNew
    <3>2. n \in Units
        BY <1>8, <2>2
    <3>3. unit[n] # p
        BY <1>8, <2>2, <3>2 DEF AskedOK
    <3>4. \A b \in Books : ~HasLink(n, b)
        BY <1>8, <2>2, <3>2 DEF IInv, Unborn
    <3>5. PICK books \in SUBSET Books : books = c.books
        BY <1>3
    <3>6. places = Placements(p, books)
        BY <1>8, <3>5
    <3>7. held' = Moved(Linked(h, n, books \ BooksOf(places), staged), places, n)
        BY <3>1, <3>5
    <3>8. /\ held' \in Contained
          /\ \A u \in Units, b \in Books :
                HasLink(u, b)' <=> IF u = n THEN b \in books
                                   ELSE HasLink(u, b) /\ ~(unit[u] = p /\ b \in books)
        BY <1>5, <3>2, <3>3, <3>4, <3>6, <3>7, NewLinks
    <3> QED BY <3>5, <3>8
  <2> QED BY <2>1, <2>2
<1>13. Once'
  <2>1. SUFFICES ASSUME NEW u \in Units, NEW v \in Units, NEW b \in Books,
                        unit'[u] = unit'[v], unit'[u] \in Projects, HasLink(u, b)', HasLink(v, b)'
                 PROVE  u = v
      BY DEF Once
  <2>2. CASE u = n \/ v = n
    <3>1. unit'[u] = p /\ unit'[v] = p /\ b \in c.books
        BY <1>10, <1>12, <2>1, <2>2
    <3> QED BY <1>10, <1>12, <2>1, <3>1
  <2>3. CASE u # n /\ v # n
      BY <1>10, <1>12, <2>1, <2>3 DEF IInv, Once
  <2> QED BY <2>2, <2>3
<1>14. Unborn' /\ Living'
    BY <1>4, <1>10, <1>12 DEF IInv, Unborn, Living, AskedOK
<1>15. OnlyOf(r, p)
  <2>1. ASSUME NEW x \in Projects \ {p}
        PROVE  KeptOf(x)
      BY <1>8, <1>10, <1>12 DEF KeptOf, AskedOK
  <2>2. project' \subseteq Projects /\ project' \ {p} = project \ {p}
      BY <1>10 DEF IInv, TypeOK
  <2>3. p \in project' => p \in project \/ (Creator(request[r]) /\ request[r].call.project = p)
      BY <1>1, <1>2, <1>4
  <2>4. \A u \in Units : unit[u] = "unborn" /\ unit'[u] # "unborn" => \A o \in Requests \ {r} : request[o].new # u
      BY <1>8, <1>10 DEF AskedOK
  <2> QED BY <1>4, <1>11, <2>1, <2>2, <2>3, <2>4 DEF OnlyOf
<1>16. PICK send \in SUBSET Books : send = q.send
    BY FieldsTyped
<1>17. /\ import' \in Imported /\ Waiting'
       /\ job \subseteq job' /\ job' \subseteq Job /\ (\A j \in job : OfMilestone(j))'
  <2>1. c.files => \A b \in c.books : Cared(b) \/ (c.kind = "import" /\ b \in send)
      BY <1>1, <1>2, <1>3, <1>16 DEF Stands, Booked
  <2>2. import' = [i \in Ids |-> IF c.files /\ i[1] = n /\ i[2] \in c.books
                                 THEN [at |-> n, state |-> "pending"] ELSE ImportsMoved(import, places, n)[i]]
      BY <1>1, <1>2, <1>6, <1>7 DEF CommitNew
  <2>3. job' = IF c.kind = "import" THEN job \cup {Ingest({b}, None, n, Retries) : b \in send} ELSE job
      BY <1>1, <1>2, <1>7, <1>16 DEF CommitNew
  <2>4. c.kind = "import" => n \in Units /\ unit'[n] # "unborn"
      BY <1>8, <1>10 DEF AskedOK
  <2> QED BY <1>3, <1>10, <1>11, <2>1, <2>2, <2>3, <2>4, NewImports
<1>18. PICK idle \in Request : idle = Idle /\ idle.pc = "idle" /\ idle.new = 0
    BY IdleIs
<1> DEFINE new == IF c.files THEN [q EXCEPT !.pc = "read"]
                  ELSE IF c.kind = "createMilestone" /\ q.send # {} THEN [q EXCEPT !.pc = "enqueue"] ELSE idle
<1>19. request' = [request EXCEPT ![r] = new]
    BY <1>1, <1>2, <1>18 DEF CommitNew
<1>20. [q EXCEPT !.pc = "read"] \in Request /\ [q EXCEPT !.pc = "enqueue"] \in Request
    BY DEF Request, Steps
<1>21. new \in Request
    BY <1>20
<1>22. \/ new = Idle
       \/ new.pc = "read" /\ new.call = q.call /\ new.new = q.new
       \/ new.pc = "enqueue" /\ new.call = q.call /\ new.new = q.new /\ c.kind = "createMilestone"
    BY <1>18 DEF Request
<1> HIDE DEF new
<1>23. Called(new)'
  <2>1. CASE new = Idle
      BY <2>1, IdleStands
  <2>2. CASE new.pc = "read" /\ new.call = q.call
      BY <1>1, <1>2, <1>3, <1>4, <2>2 DEF Stands, Called, Making
  <2>3. CASE new.pc = "enqueue" /\ new.call = q.call /\ new.new = q.new /\ c.kind = "createMilestone"
    <3>1. n \in Units /\ unit'[n] # "unborn"
        BY <1>8, <1>10, <2>3 DEF AskedOK
    <3> QED BY <1>1, <1>2, <1>3, <1>4, <1>7, <2>3, <3>1 DEF Called
  <2> QED BY <1>22, <2>1, <2>2, <2>3
<1>24. new.pc \notin Critical /\ (new.pc = "idle" => new = Idle) /\ new.new \in {0, request[r].new}
    BY <1>1, <1>18, <1>22 DEF Critical
<1> QED BY <1>10, <1>11, <1>12, <1>13, <1>14, <1>15, <1>17, <1>19, <1>21, <1>23, <1>24, CommitStep

-----------------------------------------------------------------------------
(* The worker, the materializations and the sweep.                         *)

(* What the invariant says of the variables they write.                    *)
LEMMA RestTyped ==
    ASSUME IInv
    PROVE  /\ held \in Contained /\ import \in Imported /\ retry \in Retried
           /\ text \in [Books -> SUBSET Chapters] /\ complete \subseteq Books
           /\ job \subseteq Job /\ worker \in Work /\ \A j \in job : OfMilestone(j)
BY DEF IInv, TypeOK, Contained, Contents, Imported, Retried

(* A step that does not touch the jobs.                                    *)
LEMMA AsideStep ==
    ASSUME AskedOK, IInv, UNCHANGED <<project, unit, holder, request, text, complete, job, worker>>,
           dead \subseteq dead', held' \in Contained, SameLinks, import' \in Imported, NoneMore,
           retry' \in Retried
    PROVE  IInv'
<1>1. CareKept
    BY DEF CareKept, Cared, Fetching
<1>2. Working'
    BY DEF IInv, Working, OfMilestone
<1> QED BY <1>1, <1>2, RestTyped, RestStep

(* One that leaves the milestones and the imports alone, too.              *)
LEMMA QueueStep ==
    ASSUME AskedOK, IInv, UNCHANGED <<project, unit, holder, request, text, complete, job, worker>>,
           UNCHANGED <<held, import>>, dead \subseteq dead', retry' \in Retried
    PROVE  IInv'
<1>1. SameLinks /\ NoneMore
    BY DEF SameLinks, NoneMore, HasLink
<1> QED BY <1>1, RestTyped, AsideStep

(* Verses are written, and an import is marked.                            *)
LEMMA WriteKeeps ==
    ASSUME AskedOK, IInv, NEW m, NEW row, Write(m, row)
    PROVE  IInv'
<1>1. PICK b : b = row.id[2]
    OBVIOUS
<1>2. UNCHANGED <<project, unit, holder, request, text, complete, job, worker>>
      /\ dead' = dead /\ retry' = retry /\ import' = import
    BY DEF Write, unchangedQueues
<1>3. held' \in Contained /\ SameLinks
  <2>1. CASE held' = held
      BY <2>1, RestTyped DEF SameLinks, HasLink
  <2>2. CASE held' # held
    <3>1. PICK a \in Units : a = row.at
        BY <2>2 DEF Write, Exists
    <3>2. b \in Books /\ held' = [held EXCEPT ![a][b].verses = TRUE]
        BY <1>1, <2>2, <3>1, RestTyped DEF Write
    <3>3. PICK h \in Contained : h = held
        BY RestTyped
    <3>4. PICK w \in Contents : w = h[a][b]
        BY <3>2 DEF Contained
    <3> DEFINE v == [w EXCEPT !.verses = TRUE]
    <3>5. v \in Contents /\ v.link = w.link
        BY DEF Contents
    <3>6. held' = [h EXCEPT ![a] = [h[a] EXCEPT ![b] = v]]
        BY <3>2, <3>3, <3>4
    <3> HIDE DEF v
    <3>7. PICK k \in [Books -> Contents] : k = [h[a] EXCEPT ![b] = v]
        BY <3>2, <3>5 DEF Contained
    <3>8. \A c \in Books : k[c].link = h[a][c].link
        BY <3>2, <3>4, <3>5, <3>7 DEF Contained
    <3>9. held' = [h EXCEPT ![a] = k]
        BY <3>6, <3>7
    <3>10. held' \in Contained
        BY <3>9 DEF Contained
    <3>11. \A u \in Units, c \in Books : held'[u][c].link = h[u][c].link
        BY <3>8, <3>9 DEF Contained
    <3> QED BY <3>3, <3>10, <3>11 DEF SameLinks, HasLink
  <2> QED BY <2>1, <2>2
<1>4. NoneMore /\ import' \in Imported /\ retry' \in Retried /\ dead \subseteq dead'
    BY <1>2, RestTyped DEF NoneMore
<1> QED BY <1>2, <1>3, <1>4, AsideStep

(* An import whose verses are there is done.                               *)
LEMMA MarkKeeps ==
    ASSUME AskedOK, IInv, NEW m, NEW row, Mark(m, row)
    PROVE  IInv'
<1>1. UNCHANGED <<project, unit, holder, request, text, complete, job, worker>>
      /\ dead' = dead /\ retry' = retry /\ held' = held
    BY DEF Mark, unchangedQueues
<1>2. PICK i : i = row.id
    OBVIOUS
<1>3. import' = [import EXCEPT ![i].state = IF @ = "pending" THEN "done" ELSE @]
    BY <1>2 DEF Mark
<1>4. import' \in Imported /\ NoneMore
  <2>1. CASE i \notin Ids
      BY <1>3, <2>1, RestTyped DEF Imported, NoneMore
  <2>2. CASE i \in Ids
    <3>1. PICK w \in [at : Units \cup {0}, state : {"none", "pending", "done"}] : w = import[i]
        BY <2>2, RestTyped DEF Imported
    <3>2. PICK s \in {"none", "done"} : s = IF w.state = "pending" THEN "done" ELSE w.state
        OBVIOUS
    <3> DEFINE v == [w EXCEPT !.state = s]
    <3>3. v \in [at : Units \cup {0}, state : {"none", "pending", "done"}] /\ v.state # "pending"
        OBVIOUS
    <3>4. import' = [import EXCEPT ![i] = v]
        BY <1>3, <3>1, <3>2
    <3> HIDE DEF v
    <3> QED BY <2>2, <3>3, <3>4, RestTyped DEF Imported, NoneMore
  <2> QED BY <2>1, <2>2
<1>5. SameLinks /\ held' \in Contained /\ retry' \in Retried /\ dead \subseteq dead'
    BY <1>1, RestTyped DEF SameLinks, HasLink
<1> QED BY <1>1, <1>4, <1>5, AsideStep

(* An import fails on its own.                                             *)
LEMMA RowFailsKeeps ==
    ASSUME AskedOK, IInv, NEW m, NEW row, RowFails(m, row)
    PROVE  IInv'
<1>1. UNCHANGED <<project, unit, holder, request, text, complete, job, worker>>
      /\ UNCHANGED <<held, import>> /\ dead' = dead /\ retry' = retry
    BY DEF RowFails, unchangedQueues, unchangedDb
<1> QED BY <1>1, RestTyped, QueueStep

(* The retries of a materialization are bounded.                           *)
LEMMA RetryingKeeps ==
    ASSUME AskedOK, IInv, NEW b \in Books, Retrying(b)
    PROVE  IInv'
<1>1. UNCHANGED <<project, unit, holder, request, text, complete, job, worker>>
      /\ UNCHANGED <<held, import>> /\ dead \subseteq dead'
    BY DEF Retrying, RetryTake, RetryDone, unchangedDb, unchangedByWorker
<1>2. retry[b] \in [state : {"none", "queued", "active"}, left : 0 .. Retries] /\ Retries \in Nat
    BY RestTyped DEF Retried, AskedOK
<1>3. retry' \in Retried
  <2>1. CASE RetryTake(b)
    <3>1. [retry[b] EXCEPT !.state = "active"] \in [state : {"none", "queued", "active"}, left : 0 .. Retries]
        BY <1>2
    <3>2. retry' = [retry EXCEPT ![b] = [retry[b] EXCEPT !.state = "active"]]
        BY <2>1 DEF RetryTake
    <3> QED BY <3>1, <3>2, RestTyped DEF Retried
  <2>2. CASE RetryDone(b)
    <3>1. PICK again \in BOOLEAN : again <=> rows["retry"].failed \/ rows["retry"].pending
        OBVIOUS
    <3>2. retry' = [retry EXCEPT ![b] = IF again /\ ~(again /\ retry[b].left = 0)
                                        THEN [state |-> "queued", left |-> retry[b].left - 1]
                                        ELSE [state |-> "none", left |-> 0]]
        BY <2>2, <3>1 DEF RetryDone
    <3>3. retry[b].left # 0 => retry[b].left - 1 \in 0 .. Retries
        BY <1>2
    <3>4. 0 \in 0 .. Retries
        BY <1>2
    <3> QED BY <3>2, <3>3, <3>4, RestTyped DEF Retried
  <2> QED BY <2>1, <2>2 DEF Retrying
<1> QED BY <1>1, <1>3, QueueStep

(* The sweep only asks for retries.                                        *)
LEMMA SweepKeeps ==
    ASSUME AskedOK, IInv, Sweep
    PROVE  IInv'
<1>1. UNCHANGED <<project, unit, holder, request, text, complete, job, worker>>
      /\ UNCHANGED <<held, import>> /\ dead' = dead
    BY DEF Sweep, SweepReads, SweepSends, unchangedDb, unchangedByWorker
<1>2. retry' \in Retried
  <2>1. CASE UNCHANGED retry
      BY <2>1, RestTyped
  <2>2. CASE \E books : SendRetry(books)
      BY <2>2, SentTyped
  <2> QED BY <2>1, <2>2 DEF Sweep, SweepReads, SweepSends
<1> QED BY <1>1, <1>2, QueueStep

(* A job that fails waits again, or is in the dead letter queue.           *)
LEMMA ThrowKeeps ==
    ASSUME AskedOK, IInv, worker.pc # "idle", Throw, UNCHANGED <<project, unit, holder, request, text, complete, import>>,
           held' \in Contained, SameLinks, retry' \in Retried
    PROVE  IInv'
<1>1. PICK j \in Job : j = worker.job /\ OfMilestone(j)
    BY DEF IInv, Working
<1>2. worker' = NoWork
    BY DEF Throw
<1>3. NoWork \in Work /\ NoWork.pc = "idle"
    BY DEF NoWork, Work
<1> DEFINE again == [j EXCEPT !.left = @ - 1]
<1>4. again.books = j.books /\ again.unit = j.unit
    BY DEF Job
<1>5. j.left > 0 => again \in Job
    BY DEF Job, AskedOK
<1> HIDE DEF again
<1>6. \/ j.left > 0 /\ job' = job \cup {again} /\ dead' = dead
      \/ job' = job /\ dead' = dead \cup {<<"ingest", b>> : b \in j.books}
    BY <1>1 DEF Throw, again
<1>7. job \subseteq job' /\ job' \subseteq Job /\ \A k \in job' : OfMilestone(k)
    BY <1>1, <1>4, <1>5, <1>6, RestTyped DEF OfMilestone
<1>8. dead \subseteq dead' /\ \A b \in j.books : (\E k \in job' : b \in k.books) \/ <<"ingest", b>> \in dead'
    BY <1>4, <1>6
<1>9. CareKept
    BY <1>1, <1>7, <1>8 DEF CareKept, Cared, Fetching
<1>10. Working' /\ worker' \in Work
    BY <1>2, <1>3 DEF Working
<1>11. NoneMore /\ import' \in Imported /\ text' \in [Books -> SUBSET Chapters] /\ complete' \subseteq Books
    BY RestTyped DEF NoneMore
<1> QED BY <1>7, <1>9, <1>10, <1>11, RestStep

(* A step of the worker on its job.                                        *)
LEMMA WorkerStep ==
    ASSUME AskedOK, IInv, UNCHANGED <<project, unit, holder, request, held, import, job, dead>>,
           worker.pc # "idle", NEW w \in Work, worker' = w, w.pc # "idle", w.job = worker.job,
           text' \in [Books -> SUBSET Chapters], complete \subseteq complete', complete' \subseteq Books,
           retry' \in Retried,
           \A b \in w.job.books :
              \/ b \in complete' \/ b \in w.bad
              \/ w.pc \in {"fetch", "book"} /\ \E x \in w.todo : x[1] = b
              \/ w.pc = "book" /\ b \in w.done,
           w.pc = "assign" => w.bad = {}
    PROVE  IInv'
<1>1. w.job \in Job /\ OfMilestone(w.job)'
    BY DEF IInv, Working, OfMilestone
<1>2. Working'
    BY <1>1 DEF Working
<1>3. CareKept
    BY DEF CareKept, Cared, Fetching
<1>4. SameLinks /\ NoneMore
    BY DEF SameLinks, NoneMore, HasLink
<1> QED BY <1>2, <1>3, <1>4, RestTyped, RestStep

(* A job is taken: somebody still fetches its books.                       *)
LEMMA TakeKeeps ==
    ASSUME AskedOK, IInv, NEW j \in job, Take(j)
    PROVE  IInv'
<1>1. PICK k \in Job : k = j
    BY RestTyped
<1>2. PICK n : n = NoWork
    OBVIOUS
<1>3. n = [pc |-> "idle", job |-> None, todo |-> {}, bad |-> {}, done |-> {}]
    BY <1>2 DEF NoWork
<1> DEFINE w == [n EXCEPT !.pc = "fetch", !.job = k, !.todo = k.books \X Chapters]
<1>4. worker' = w
    BY <1>1, <1>2 DEF Take
<1>5. k.books \subseteq Books
    BY DEF Job
<1>6. w \in Work
    BY <1>3, <1>5 DEF Work
<1>7. w.pc = "fetch" /\ w.job = k /\ w.todo = k.books \X Chapters
    BY <1>3
<1> HIDE DEF w
<1>8. UNCHANGED <<project, unit, holder, request, held, import, text, complete, retry, dead>>
      /\ job' = job \ {k} /\ worker.pc = "idle"
    BY <1>1 DEF Take, unchangedDb, unchangedByWorker
<1>9. CareKept
  <2>1. SUFFICES ASSUME NEW b \in Books, Cared(b)
                 PROVE  Cared(b)'
      BY DEF CareKept
  <2>2. CASE b \in k.books
      BY <1>4, <1>7, <2>2 DEF Cared, Fetching
  <2>3. CASE b \notin k.books
      BY <1>8, <2>1, <2>3 DEF Cared, Fetching
  <2> QED BY <2>2, <2>3
<1>10. OfMilestone(k)' /\ \A x \in job' : OfMilestone(x)
    BY <1>1, <1>8, RestTyped DEF OfMilestone
<1>11. \A b \in w.job.books : \E x \in w.todo : x[1] = b
  <2>1. PICK c : c \in Chapters
      BY DEF AskedOK
  <2>2. ASSUME NEW b \in w.job.books
        PROVE  \E x \in w.todo : x[1] = b
    <3>1. <<b, c>> \in w.todo
        BY <1>7, <2>1, <2>2
    <3> QED BY <3>1
  <2> QED BY <2>2
<1>12. Working'
    BY <1>4, <1>7, <1>10, <1>11 DEF Working
<1>13. SameLinks /\ NoneMore /\ job' \subseteq Job
    BY <1>8, RestTyped DEF SameLinks, NoneMore, HasLink
<1> QED BY <1>4, <1>6, <1>8, <1>9, <1>10, <1>12, <1>13, RestTyped, RestStep

(* A chapter comes, or does not.                                           *)
LEMMA FetchChapterKeeps ==
    ASSUME AskedOK, IInv, FetchChapter
    PROVE  IInv'
<1>1. PICK v \in Work : v = worker
    BY RestTyped
<1>2. v.todo \subseteq Books \X Chapters /\ v.todo # {} /\ v.pc = "fetch" /\ v.bad \subseteq Books
      /\ v.done \subseteq Books
    BY <1>1 DEF FetchChapter, Work
<1>3. PICK x \in v.todo : x = NextChapter
  <2>1. \E x \in v.todo : \A y \in v.todo : x[1] < y[1] \/ (x[1] = y[1] /\ x[2] <= y[2])
      BY <1>2, NextIs
  <2>2. NextChapter \in v.todo
      BY <1>1, <2>1, Zenon DEF NextChapter
  <2> QED BY <2>2
<1>4. PICK b \in Books : b = x[1] /\ x[2] \in Chapters
    BY <1>2
<1>5. PICK last \in BOOLEAN : last <=> {y \in v.todo : y[1] = b} = {x}
    OBVIOUS
<1>6. UNCHANGED <<project, unit, holder, request, held, import, job, dead, complete, retry>>
    BY DEF FetchChapter, unchangedByWorker
<1>7. /\ v.job = worker.job /\ v.job.books \subseteq Books
      /\ \A c \in v.job.books : c \in complete \/ c \in v.bad \/ \E y \in v.todo : y[1] = c
    BY <1>1, <1>2 DEF IInv, Working, Job
<1>8. PICK rest : rest = v.todo \ {x}
    OBVIOUS
<1>9. /\ rest \subseteq Books \X Chapters
      /\ \A c \in Books : c # b /\ (\E y \in v.todo : y[1] = c) => \E y \in rest : y[1] = c
      /\ ~last => \E y \in rest : y[1] = b
    BY <1>2, <1>4, <1>5, <1>8
<1>10. \/ /\ text' = [text EXCEPT ![b] = @ \cup {x[2]}]
          /\ worker' = [v EXCEPT !.todo = rest, !.pc = IF last /\ b \notin v.bad THEN "book" ELSE "fetch",
                                 !.done = IF last /\ b \notin v.bad THEN @ \cup {b} ELSE @]
       \/ UNCHANGED text /\ worker' = [v EXCEPT !.todo = rest, !.bad = @ \cup {b}]
  <2>1. PICK y \in v.todo : y = NextChapter /\ y = x
      BY <1>3
  <2>2. last <=> {z \in worker.todo : z[1] = NextChapter[1]} = {NextChapter}
      BY <1>1, <1>4, <1>5, <2>1
  <2>3. rest = worker.todo \ {NextChapter} /\ b = NextChapter[1] /\ x[2] = NextChapter[2]
      BY <1>1, <1>4, <1>8, <2>1
  <2> QED BY <1>1, <2>2, <2>3 DEF FetchChapter
<1>11. CASE /\ text' = [text EXCEPT ![b] = @ \cup {x[2]}]
            /\ worker' = [v EXCEPT !.todo = rest, !.pc = IF last /\ b \notin v.bad THEN "book" ELSE "fetch",
                                   !.done = IF last /\ b \notin v.bad THEN @ \cup {b} ELSE @]
  <2>1. PICK pc \in {"book", "fetch"} : pc = IF last /\ b \notin v.bad THEN "book" ELSE "fetch"
      OBVIOUS
  <2>2. PICK done \in SUBSET Books : done = IF last /\ b \notin v.bad THEN v.done \cup {b} ELSE v.done
      BY <1>2
  <2> DEFINE w == [v EXCEPT !.todo = rest, !.pc = pc, !.done = done]
  <2>3. worker' = w /\ text' = [text EXCEPT ![b] = @ \cup {x[2]}]
      BY <1>11, <2>1, <2>2
  <2>4. w \in Work
      BY <1>9 DEF Work
  <2>5. w.pc = pc /\ w.todo = rest /\ w.done = done /\ w.bad = v.bad /\ w.job = v.job
      BY DEF Work
  <2> HIDE DEF w
  <2>6. text' \in [Books -> SUBSET Chapters]
      BY <1>4, <2>3, RestTyped
  <2>7. \A c \in w.job.books :
              \/ c \in complete' \/ c \in w.bad
              \/ w.pc \in {"fetch", "book"} /\ \E y \in w.todo : y[1] = c
              \/ w.pc = "book" /\ c \in w.done
      BY <1>6, <1>7, <1>9, <2>1, <2>2, <2>5
  <2> QED BY <1>1, <1>2, <1>6, <1>7, <2>1, <2>3, <2>4, <2>5, <2>6, <2>7, RestTyped, WorkerStep
<1>12. CASE UNCHANGED text /\ worker' = [v EXCEPT !.todo = rest, !.bad = @ \cup {b}]
  <2>1. PICK bad \in SUBSET Books : bad = v.bad \cup {b}
      BY <1>2
  <2> DEFINE w == [v EXCEPT !.todo = rest, !.bad = bad]
  <2>2. worker' = w
      BY <1>12, <2>1
  <2>3. w \in Work
      BY <1>9 DEF Work
  <2>4. w.pc = "fetch" /\ w.todo = rest /\ w.bad = bad /\ w.job = v.job
      BY <1>2 DEF Work
  <2> HIDE DEF w
  <2>5. \A c \in w.job.books :
              \/ c \in complete' \/ c \in w.bad
              \/ w.pc \in {"fetch", "book"} /\ \E y \in w.todo : y[1] = c
      BY <1>6, <1>7, <1>9, <2>1, <2>4
  <2> QED BY <1>1, <1>2, <1>6, <1>7, <1>12, <2>2, <2>3, <2>4, <2>5, RestTyped, WorkerStep
<1> QED BY <1>10, <1>11, <1>12

(* The books of which every chapter came are complete.                     *)
LEMMA FinishBookKeeps ==
    ASSUME AskedOK, IInv, FinishBook
    PROVE  IInv'
<1>1. PICK v \in Work : v = worker
    BY RestTyped
<1> DEFINE w == [v EXCEPT !.pc = "fetch"]
<1>2. worker' = w /\ v.pc = "book"
    BY <1>1 DEF FinishBook
<1>3. w \in Work
    BY DEF Work
<1>4. w.pc = "fetch" /\ w.todo = v.todo /\ w.bad = v.bad /\ w.job = v.job
    BY DEF Work
<1> HIDE DEF w
<1>5. complete' = complete \cup v.done /\ v.done \subseteq Books
    BY <1>1 DEF FinishBook, Work
<1>6. UNCHANGED <<project, unit, holder, request, held, import, job, dead, text, retry>>
    BY DEF FinishBook, unchangedByWorker
<1>7. \A c \in v.job.books :
         c \in complete \/ c \in v.bad \/ (\E y \in v.todo : y[1] = c) \/ c \in v.done
    BY <1>1, <1>2 DEF IInv, Working
<1>8. \A c \in w.job.books :
              \/ c \in complete' \/ c \in w.bad
              \/ w.pc \in {"fetch", "book"} /\ \E y \in w.todo : y[1] = c
    BY <1>4, <1>5, <1>7
<1> QED BY <1>1, <1>2, <1>3, <1>4, <1>5, <1>6, <1>8, RestTyped, WorkerStep

(* The worker turns to the imports of its books.                           *)
LEMMA WorkerReadsKeeps ==
    ASSUME AskedOK, IInv, WorkerReads
    PROVE  IInv'
<1>1. PICK v \in Work : v = worker
    BY RestTyped
<1> DEFINE w == [v EXCEPT !.pc = "materialize"]
<1>2. worker' = w /\ v.pc = "fetch" /\ v.todo = {}
    BY <1>1 DEF WorkerReads
<1>3. w \in Work
    BY DEF Work
<1>4. w.pc = "materialize" /\ w.bad = v.bad /\ w.job = v.job
    BY DEF Work
<1> HIDE DEF w
<1>5. UNCHANGED <<project, unit, holder, request, held, import, job, dead, text, retry, complete>>
    BY DEF WorkerReads, unchangedByWorker, unchangedDb
<1>6. \A c \in w.job.books : c \in complete' \/ c \in w.bad
    BY <1>1, <1>2, <1>4, <1>5 DEF IInv, Working
<1> QED BY <1>1, <1>2, <1>3, <1>4, <1>5, <1>6, RestTyped, WorkerStep

(* The worker goes on to the chapters, or fails for its missing books.     *)
LEMMA WorkerMaterializedKeeps ==
    ASSUME AskedOK, IInv, WorkerMaterialized
    PROVE  IInv'
<1>1. PICK v \in Work : v = worker
    BY RestTyped
<1>2. v.pc = "materialize"
    BY <1>1 DEF WorkerMaterialized
<1>3. retry' \in Retried
  <2>1. CASE SendRetry(worker.done)
      BY <2>1, SentTyped
  <2>2. CASE UNCHANGED retry
      BY <2>2, RestTyped
  <2> QED BY <2>1, <2>2 DEF WorkerMaterialized
<1>4. UNCHANGED <<project, unit, holder, request, held, import, text, complete>>
    BY DEF WorkerMaterialized, unchangedByWorker, unchangedDb
<1>5. CASE v.bad # {}
  <2>1. Throw
      BY <1>1, <1>5 DEF WorkerMaterialized
  <2>2. held' \in Contained /\ SameLinks
      BY <1>4, RestTyped DEF SameLinks, HasLink
  <2> QED BY <1>1, <1>2, <1>3, <1>4, <2>1, <2>2, ThrowKeeps
<1>6. CASE v.bad = {}
  <2> DEFINE w == [v EXCEPT !.pc = "assign"]
  <2>1. worker' = w /\ UNCHANGED <<job, dead>>
      BY <1>1, <1>6 DEF WorkerMaterialized
  <2>2. w \in Work
      BY DEF Work
  <2>3. w.pc = "assign" /\ w.bad = {} /\ w.job = v.job
      BY <1>6 DEF Work
  <2> HIDE DEF w
  <2>4. \A c \in w.job.books : c \in complete' \/ c \in w.bad
      BY <1>1, <1>2, <1>4, <1>6, <2>3 DEF IInv, Working
  <2> QED BY <1>1, <1>2, <1>3, <1>4, <2>1, <2>2, <2>3, <2>4, RestTyped, WorkerStep
<1> QED BY <1>5, <1>6

(* The chapters are assigned, where there is a milestone with the books.   *)
LEMMA AssignKeeps ==
    ASSUME AskedOK, IInv, Assign
    PROVE  IInv'
<1>1. PICK v \in Work : v = worker
    BY RestTyped
<1>2. PICK j \in Job : j = v.job
    BY <1>1 DEF IInv, Working, Assign
<1>3. v.pc = "assign" /\ v.bad = {} /\ \A b \in j.books : b \in complete
    BY <1>1, <1>2 DEF Assign, IInv, Working
<1>4. UNCHANGED <<project, unit, holder, request, import, text, complete, retry>>
    BY DEF Assign, unchangedByWorker
<1>5. PICK units : units = IF j.unit # 0 THEN {j.unit} ELSE UnitsOf(j.project)
    OBVIOUS
<1> DEFINE fits(u) == \A b \in j.books : held[u][b].link # "none"
           more(u, b) == [held[u][b] EXCEPT !.chapters = @ \cup text[b]]
           at(u, b) == IF b \in j.books THEN more(u, b) ELSE held[u][b]
           row(u) == IF u \in units /\ fits(u) THEN [b \in Books |-> at(u, b)] ELSE held[u]
<1>6. held' = [u \in Units |-> row(u)]
    BY <1>1, <1>2, <1>5 DEF Assign
<1>7. ASSUME NEW u \in Units, NEW b \in Books
      PROVE  at(u, b) \in Contents /\ at(u, b).link = held[u][b].link
  <2>1. PICK w \in Contents : w = held[u][b]
      BY RestTyped DEF Contained
  <2>2. PICK t \in SUBSET Chapters : t = text[b]
      BY RestTyped
  <2>3. [w EXCEPT !.chapters = @ \cup t] \in Contents /\ [w EXCEPT !.chapters = @ \cup t].link = w.link
      BY DEF Contents
  <2> QED BY <2>1, <2>2, <2>3
<1> HIDE DEF at
<1>8. \A u \in Units : row(u) \in [Books -> Contents] /\ \A b \in Books : row(u)[b].link = held[u][b].link
    BY <1>7, RestTyped DEF Contained
<1> HIDE DEF row
<1>9. held' \in Contained
    BY <1>6, <1>8 DEF Contained
<1>10. SameLinks
    BY <1>6, <1>8 DEF SameLinks, HasLink
<1>11. (worker' = NoWork /\ UNCHANGED <<job, dead>>) \/ Throw
    BY DEF Assign
<1>12. CASE Throw
    BY <1>1, <1>3, <1>4, <1>9, <1>10, <1>12, RestTyped, ThrowKeeps
<1>13. CASE worker' = NoWork /\ UNCHANGED <<job, dead>>
  <2>1. worker' \in Work /\ Working'
      BY <1>13 DEF NoWork, Work, Working
  <2>2. CareKept
      BY <1>1, <1>2, <1>3, <1>4, <1>13 DEF CareKept, Cared, Fetching
  <2>3. NoneMore
      BY <1>4 DEF NoneMore
  <2> QED BY <1>4, <1>9, <1>10, <1>13, <2>1, <2>2, <2>3, RestTyped, RestStep
<1> QED BY <1>11, <1>12, <1>13

(* The worker dies.                                                        *)
LEMMA WorkerFailsKeeps ==
    ASSUME AskedOK, IInv, WorkerFails
    PROVE  IInv'
<1>1. UNCHANGED <<project, unit, holder, request, held, import, text, complete, retry>>
    BY DEF WorkerFails, unchangedByWorker, unchangedDb
<1>2. held' \in Contained /\ SameLinks /\ retry' \in Retried
    BY <1>1, RestTyped DEF SameLinks, HasLink
<1> QED BY <1>1, <1>2, ThrowKeeps DEF WorkerFails

-----------------------------------------------------------------------------
(* The invariant, and what follows from it.                                *)

(* It holds of any database that may be found.                             *)
LEMMA InitIInv ==
    ASSUME AskedOK, Init
    PROVE  IInv
<1>1. PICK d \in Initial : Start(d) /\ StartOK(d)
    BY DEF Init, AskedOK
<1>2. /\ project = d.projects /\ complete = d.ingested /\ job = d.jobs
      /\ d.projects \subseteq Projects /\ d.ingested \subseteq Books /\ d.jobs \subseteq Job
      /\ unit = [u \in Units |-> IF u \in DOMAIN d.units THEN d.units[u] ELSE "unborn"]
      /\ DOMAIN d.units \subseteq Units /\ \A u \in DOMAIN d.units : d.units[u] \in d.projects
      /\ DOMAIN d.links \subseteq (DOMAIN d.units) \X Books
      /\ \A i \in DOMAIN d.links : d.links[i] \in {"active", "removed"}
      /\ \A i, j \in DOMAIN d.links : i[2] = j[2] /\ d.units[i[1]] = d.units[j[1]] => i = j
      /\ \A j \in d.jobs : j.unit # 0 => j.unit \in DOMAIN d.units
    BY <1>1 DEF Start, StartOK
<1>3. \A r \in Requests : request[r] = Idle
    BY DEF Init
<1> DEFINE linked(u, b) == [Nothing EXCEPT !.link = d.links[<<u, b>>],
                                           !.chapters = IF b \in d.ingested THEN Chapters ELSE {}]
           at(u, b) == IF <<u, b>> \in DOMAIN d.links THEN linked(u, b) ELSE Nothing
<1>4. held = [u \in Units |-> [b \in Books |-> at(u, b)]]
    BY <1>1 DEF Start
<1>5. ASSUME NEW u \in Units, NEW b \in Books
      PROVE  at(u, b) \in Contents /\ (at(u, b).link # "none" <=> <<u, b>> \in DOMAIN d.links)
  <2>1. CASE <<u, b>> \in DOMAIN d.links
    <3>1. PICK s \in {"active", "removed"} : s = d.links[<<u, b>>]
        BY <1>2, <2>1
    <3>2. PICK t \in SUBSET Chapters : t = IF b \in d.ingested THEN Chapters ELSE {}
        OBVIOUS
    <3>3. PICK n \in Contents : n = Nothing
        BY NothingIs
    <3>4. linked(u, b) = [n EXCEPT !.link = s, !.chapters = t]
        BY <3>1, <3>2, <3>3
    <3>5. [n EXCEPT !.link = s, !.chapters = t] \in Contents /\ [n EXCEPT !.link = s, !.chapters = t].link = s
        BY DEF Contents
    <3>6. at(u, b) = [n EXCEPT !.link = s, !.chapters = t]
        BY <2>1, <3>4 DEF at
    <3> QED BY <2>1, <3>5, <3>6
  <2>2. CASE <<u, b>> \notin DOMAIN d.links
      BY <2>2, NothingIs
  <2> QED BY <2>1, <2>2
<1> HIDE DEF at
<1>6. held \in Contained
  <2>1. \A u \in Units : [b \in Books |-> at(u, b)] \in [Books -> Contents]
      BY <1>5
  <2> QED BY <1>4, <2>1 DEF Contained
<1>7. \A u \in Units, b \in Books : HasLink(u, b) <=> <<u, b>> \in DOMAIN d.links
    BY <1>4, <1>5 DEF HasLink
<1>8. TypeOK
  <2>1. project \subseteq Projects /\ complete \subseteq Books /\ job \subseteq Job
        /\ unit \in [Units -> Projects \cup {"unborn", "deleted"}]
      BY <1>2
  <2>2. holder \in [Projects -> Requests \cup {None}] /\ \A p \in Projects : holder[p] = None
      BY DEF Init
  <2>3. import \in Imported /\ text \in [Books -> SUBSET Chapters]
      BY DEF Init, Imported, NoImport
  <2>4. retry \in Retried
    <3>1. 0 \in 0 .. Retries
        BY DEF AskedOK
    <3> QED BY <3>1 DEF Init, Retried
  <2>5. worker \in Work
      BY DEF Init, NoWork, Work
  <2>6. request \in [Requests -> Request]
      BY IdleIs DEF Init
  <2> QED BY <1>3, <1>6, <2>1, <2>2, <2>3, <2>4, <2>5, <2>6
      DEF TypeOK, Contained, Contents, Imported, Retried
<1>9. Once
  <2>1. SUFFICES ASSUME NEW u \in Units, NEW v \in Units, NEW b \in Books,
                        unit[u] = unit[v], unit[u] \in Projects, HasLink(u, b), HasLink(v, b)
                 PROVE  u = v
      BY DEF Once
  <2>2. PICK i, j \in DOMAIN d.links : i = <<u, b>> /\ j = <<v, b>>
      BY <1>7, <2>1
  <2>3. u \in DOMAIN d.units /\ v \in DOMAIN d.units /\ i[1] = u /\ i[2] = b /\ j[1] = v /\ j[2] = b
      BY <1>2, <2>2
  <2>4. d.units[i[1]] = d.units[j[1]] /\ i[2] = j[2]
      BY <1>2, <2>1, <2>3
  <2>5. i = j
      BY <1>2, <2>4
  <2> QED BY <2>3, <2>5
<1>10. Unborn /\ Living
  <2>1. ASSUME NEW u \in Units, NEW b \in Books, unit[u] = "unborn", HasLink(u, b)
        PROVE  FALSE
    <3>1. <<u, b>> \in DOMAIN d.links
        BY <1>7, <2>1
    <3>2. u \in DOMAIN d.units
        BY <1>2, <3>1
    <3>3. unit[u] \in Projects
        BY <1>2, <3>2
    <3> QED BY <2>1, <3>3 DEF AskedOK
  <2> QED BY <1>2, <2>1 DEF Unborn, Living, AskedOK
<1>11. \A r \in Requests : Stands(r, request[r])
  <2>1. ASSUME NEW r \in Requests
        PROVE  Stands(r, Idle)
      BY IdleIs DEF Stands, Locked, Creating, Reserved, Called, Staged, Booked, Critical
  <2> QED BY <1>3, <2>1
<1>12. Held /\ Waiting /\ Working
    BY DEF Init, Held, Waiting, NoImport, Working, NoWork
<1>13. \A j \in job : OfMilestone(j)
    BY <1>2 DEF OfMilestone, AskedOK
<1> QED BY <1>8, <1>9, <1>10, <1>11, <1>12, <1>13 DEF IInv

(* Every action preserves it.                                              *)
LEMMA NextIInv ==
    ASSUME AskedOK, IInv, [Next]_vars
    PROVE  IInv'
<1>1. ASSUME NEW r \in Requests, Requesting(r)
      PROVE  IInv'
    BY <1>1, CascadeKeeps, BeginKeeps DEF Requesting
<1>2. ASSUME NEW r \in Requests, Proceed(r)
      PROVE  IInv'
  <2>1. CASE WriteProject(r) \/ WriteMilestone(r) \/ WriteImport(r) \/ WriteUpdate(r) \/ WriteDelete(r)
      BY <2>1, WriteProjectKeeps, WriteMilestoneKeeps, WriteImportKeeps, WriteUpdateKeeps, WriteDeleteKeeps
  <2>2. CASE Lock(r) \/ Decide(r) \/ CommitNew(r) \/ CommitUpdate(r) \/ CommitDelete(r)
      BY <2>2, LockKeeps, DecideKeeps, CommitNewKeeps, CommitUpdateKeeps, CommitDeleteKeeps
  <2>3. CASE \/ \E b \in Books : Enqueue(r, b) \/ Requeue(r, b)
             \/ RequestReads(r) \/ RequestDone(r)
      BY <2>3, EnqueueKeeps, RequeueKeeps, RequestReadsKeeps, RequestDoneKeeps
  <2> QED BY <1>2, <2>1, <2>2, <2>3 DEF Proceed
<1>3. ASSUME NEW m \in Materializers, Materialize(m)
      PROVE  IInv'
    BY <1>3, WriteKeeps, MarkKeeps DEF Materialize
<1>4. ASSUME Ingestion
      PROVE  IInv'
    BY <1>4, TakeKeeps, FetchChapterKeeps, FinishBookKeeps, WorkerReadsKeeps, WorkerMaterializedKeeps,
       AssignKeeps DEF Ingestion
<1>5. ASSUME Fails
      PROVE  IInv'
    BY <1>5, DecideFailsKeeps, AbortKeeps, DieKeeps, RowFailsKeeps, WorkerFailsKeeps DEF Fails
<1>6. ASSUME UNCHANGED vars
      PROVE  IInv'
  <2>1. /\ UNCHANGED <<project, unit, holder, request, text, complete, job, worker>>
        /\ UNCHANGED <<held, import>> /\ dead' = dead /\ retry' = retry
      BY <1>6 DEF vars
  <2> QED BY <2>1, RestTyped, QueueStep
<1> QED BY <1>1, <1>2, <1>3, <1>4, <1>5, <1>6, RetryingKeeps, SweepKeeps DEF Next

(* The invariant the theorems of this module rest on.                      *)
THEOREM Invariance ==
    ASSUME AskedOK
    PROVE  Spec => []IInv
<1>1. Init => IInv
    BY InitIInv
<1>2. IInv /\ [Next]_vars => IInv'
    BY NextIInv
<1> QED BY <1>1, <1>2, PTL DEF Spec

(* A request is always of its record, and a lock of a request for its      *)
(* project.                                                                *)
THEOREM TypeCorrect ==
    ASSUME AskedOK
    PROVE  Spec => []TypeOK
<1>1. IInv => TypeOK
    BY DEF IInv
<1> QED BY <1>1, Invariance, PTL

(* A project has a book in one milestone only, whatever requests add it,   *)
(* import it, move it or revive it at once (milestones.service.ts).        *)
THEOREM Placed ==
    ASSUME AskedOK
    PROVE  Spec => []OnePlacement
<1>1. IInv => OnePlacement
  <2> SUFFICES ASSUME IInv, NEW p \in Projects, NEW b \in Books
               PROVE  Cardinality(Placements(p, {b})) <= 1
      BY DEF OnePlacement
  <2>1. PICK places : places = Placements(p, {b})
      OBVIOUS
  <2>2. \A i, j \in places : i = j
    <3>1. \A i \in places : i[1] \in Units /\ unit[i[1]] = p /\ i = <<i[1], b>> /\ HasLink(i[1], b)
        BY <2>1 DEF Placements, UnitsOf, HasLink
    <3>2. ASSUME NEW i \in places, NEW j \in places
          PROVE  i = j
      <4>1. i[1] = j[1]
          BY <3>1 DEF IInv, Once
      <4> QED BY <3>1, <4>1
    <3> QED BY <3>2
  <2>3. CASE places = {}
      BY <2>1, <2>3, FS_EmptySet
  <2>4. CASE places # {}
    <3>1. PICK i : i \in places
        BY <2>4
    <3>2. places = {i}
        BY <2>2, <3>1
    <3>3. Cardinality(places) = 1
        BY <3>2, FS_Singleton
    <3> QED BY <2>1, <3>3
  <2> QED BY <2>3, <2>4
<1> QED BY <1>1, Invariance, PTL

(* An import that waits for the text of its book has somebody who fetches  *)
(* it, and a job is of a milestone there is or was                         *)
(* (milestone-usfm-import.service.ts, ingest-bible-text.worker.ts).        *)
THEOREM Fetched ==
    ASSUME AskedOK
    PROVE  Spec => []ImportsHaveJobs
<1>1. IInv => ImportsHaveJobs
  <2> SUFFICES ASSUME IInv
               PROVE  ImportsHaveJobs
      OBVIOUS
  <2>1. \A i \in Ids : import[i].state = "pending" => i[2] \in complete \/ Fetching(i[2])
      BY DEF IInv, Waiting, Cared
  <2>2. \A j \in job : j.unit # 0 => unit[j.unit] # "unborn"
      BY DEF IInv, OfMilestone
  <2> QED BY <2>1, <2>2 DEF ImportsHaveJobs
<1> QED BY <1>1, Invariance, PTL

(* The project that is deleted because it has no milestones has none when  *)
(* it is deleted (projects.service.ts).                                    *)
THEOREM EmptyDeleted ==
    ASSUME AskedOK
    PROVE  Spec => [][DeletesNoMilestone]_vars
<1>1. IInv /\ [Next]_vars => [DeletesNoMilestone]_vars
  <2> SUFFICES ASSUME IInv
               PROVE  DeletesNoMilestone
      OBVIOUS
  <2>1. ASSUME NEW r \in Requests, request[r].pc = "commit", request[r].call.kind = "deleteProject"
        PROVE  UnitsOf(request[r].call.project) = {}
      BY <2>1 DEF IInv, Stands, Staged
  <2> QED BY <2>1 DEF DeletesNoMilestone
<1> QED BY <1>1, Invariance, PTL DEF Spec
=============================================================================
