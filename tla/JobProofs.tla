----------------------------- MODULE JobProofs ------------------------------
(***************************************************************************)
(* Safety of QueueLifecycle for any queues, jobs and keys, and whatever    *)
(* the database held that the processes found: InitiallyOK.                *)
(*                                                                         *)
(* What a process has read of a queue may be stale by the time it writes.  *)
(* It does no harm because queues change in one direction only (Grows):    *)
(* none is removed, a dead letter queue that keeps its jobs for long is    *)
(* not shortened, failed jobs that go somewhere go on doing so.  What a    *)
(* process may conclude (Ensures) survives the others' steps by that, and  *)
(* what it is (Lives) changes by its own steps only.                       *)
(*                                                                         *)
(* After it the longest of the jobs: the sync of CatalogueSync.            *)
(***************************************************************************)
EXTENDS QueueLifecycle, SequenceTheorems, TLAPS, FiniteSetTheorems, WellFoundedInduction

Kept(n) == queue[n] # None /\ queue[n].dead /\ deadQueue[n] = "long"

Reading == {"get", "getDead", "writeDead", "write"}
Running == {"no", "draining", "awaiting", "stopping"}

(* What a process that converges the queues has done, and may conclude     *)
(* from what it has read.                                                  *)
Ensures(q) ==
    LET n == Head(q.left) IN
    /\ q.boot \in Reading =>
          /\ q.left # <<>>
          /\ \A m \in Names : Kept(m) \/ \E i \in 1 .. Len(q.left) : q.left[i] = m
    /\ q.boot \in {"getDead", "writeDead", "write"} /\ q.source = None =>
          queue[n] = None \/ queue[n].dead
    /\ q.boot = "writeDead" =>
          /\ q.dead = None => deadQueue[n] # "short"
          /\ q.dead = "long" => deadQueue[n] = "long"
    /\ q.boot = "write" => deadQueue[n] = "long"
    /\ q.boot \in {"converged", "listening"} \/ q.ready => \A m \in Names : Kept(m)

(* How far a process has come in its boot and in its shutdown.             *)
Lives(p, q) ==
    /\ q.stop # "exited" => (q.boss = "starting" <=> q.boot = "starting")
    /\ q.stop \in Running => q.boss \in {"none", "starting", "started"}
    /\ q.stop = "stopping" => q.boss # "starting"
    /\ q.stop = "closing" => q.boss = "stopping"
    /\ q.stop \in Running /\ q.boot \in Reading \cup {"converged", "listening"} => q.boss = "started"
    /\ q.ready => p = "api" /\ q.boot = "ended" /\ q.boss = "started" /\ q.stop \in {"no", "draining"}
    /\ q.monitor = "on" => q.boot = "ended" /\ q.stop = "no"
    /\ p = "worker" => q.stop \in {"no", "exited"} \/ q.boot = "listening"
    /\ p = "api" /\ q.stop = "exited" =>
          q.boss \in {"none", "stopped"} \/ (q.late /\ q.boss = "starting")

(* An exclusive queue has jobs of its own policy only; one that does not   *)
(* exist has none.                                                         *)
JobsIndexed ==
    /\ queue[Migrated] = None => \A i \in Jobs : job[i] = None
    /\ queue[Migrated] # None /\ Exclusive =>
          \A i \in Jobs : job[i] # None => job[i].policy = "exclusive"

MigrationReady == migration = "locking" => queue[Migrated] # None

IInv ==
    /\ TypeOK
    /\ RoutedSomewhere
    /\ \A p \in Processes : Ensures(process[p]) /\ Lives(p, process[p])
    /\ JobsIndexed /\ OnePending /\ MigrationReady

-----------------------------------------------------------------------------
(* Queues change in one direction.                                         *)
Grows ==
    \A n \in Names :
        /\ queue[n] # None => queue'[n] # None /\ (queue[n].dead => queue'[n].dead)
        /\ queue[n] = None => queue'[n] = None \/ queue'[n].dead
        /\ deadQueue[n] = "long" => deadQueue'[n] = "long"
        /\ deadQueue[n] # "short" => deadQueue'[n] # "short"
        /\ deadQueue[n] # None => deadQueue'[n] # None

(* What one process may conclude survives what others do to the queues.    *)
LEMMA EnsuresKept ==
    ASSUME InitiallyOK, TypeOK, NEW q \in Process, Ensures(q), Grows
    PROVE  Ensures(q)'
<1>1. \A m \in Names : Kept(m) => Kept(m)'
    BY DEF Kept, Grows
<1>2. q.boot \in Reading => Head(q.left) \in Names
    BY DEF Ensures, Process
<1> QED BY <1>1, <1>2 DEF Ensures, Grows, Reading

(* A step of one process, whatever it writes to the queues.                *)
LEMMA ProcessStep ==
    ASSUME InitiallyOK, IInv, NEW p \in Processes, NEW r \in Process,
           process' = [process EXCEPT ![p] = r], Grows,
           queue' \in [Names -> QueueRow \cup {None}], deadQueue' \in [Names -> DeadQueue],
           RoutedSomewhere', Ensures(r)', Lives(p, r), JobsIndexed', OnePending',
           UNCHANGED <<database, job, migration, started>>, faults' \in 0 .. MaxFaults
    PROVE  IInv'
<1>1. TypeOK'
    BY DEF IInv, TypeOK
<1>2. ASSUME NEW o \in Processes
      PROVE  Ensures(process[o])' /\ Lives(o, process[o])'
  <2>1. CASE o = p
    <3>1. process'[o] = r
        BY <2>1 DEF IInv, TypeOK
    <3> QED BY <2>1, <3>1 DEF Ensures, Lives, Kept
  <2>2. CASE o # p
    <3>1. PICK q \in Process : q = process[o]
        BY DEF IInv, TypeOK
    <3>2. process'[o] = q
        BY <2>2, <3>1 DEF IInv, TypeOK
    <3>3. Ensures(q) /\ Lives(o, q)
        BY <3>1 DEF IInv
    <3>4. Ensures(q)'
        BY <3>3, EnsuresKept DEF IInv
    <3> QED BY <3>2, <3>3, <3>4 DEF Ensures, Lives, Kept
  <2> QED BY <2>1, <2>2
<1>3. MigrationReady'
    BY DEF IInv, MigrationReady, Grows, InitiallyOK
<1> QED BY <1>1, <1>2, <1>3 DEF IInv

(* A step of a process that leaves the queues alone.                       *)
LEMMA OwnStep ==
    ASSUME InitiallyOK, IInv, NEW p \in Processes, NEW r \in Process,
           process' = [process EXCEPT ![p] = r], Ensures(r), Lives(p, r),
           UNCHANGED <<database, queue, deadQueue, job, migration, started>>,
           faults' \in 0 .. MaxFaults
    PROVE  IInv'
<1>1. Grows
    BY DEF Grows
<1>2. Ensures(r)'
    BY DEF Ensures, Kept
<1>3. RoutedSomewhere' /\ JobsIndexed' /\ OnePending'
    BY DEF IInv, RoutedSomewhere, JobsIndexed, OnePending, Exclusive, Pending
<1> QED BY <1>1, <1>2, <1>3, ProcessStep DEF IInv, TypeOK

-----------------------------------------------------------------------------
(* The boot chain.                                                         *)

(* What a process is, read once.                                           *)
LEMMA Itself ==
    ASSUME IInv, NEW p \in Processes
    PROVE  \E q \in Process : q = process[p] /\ Ensures(q) /\ Lives(p, q)
BY DEF IInv, TypeOK

(* A list of all the queues has every queue.                               *)
LEMMA Listed ==
    ASSUME InitiallyOK, NEW q \in Process, q.boot = "get", q.left = Queues,
           q.boot \notin {"converged", "listening"}, ~q.ready
    PROVE  Ensures(q)
<1>1. \A m \in Names : \E i \in 1 .. Len(Queues) : Queues[i] = m
    BY DEF Names
<1> QED BY <1>1 DEF Ensures, InitiallyOK

(* A process that sleeps or has died is one, with its instance or none.    *)
LEMMA GivenUp ==
    ASSUME NEW q \in Process, NEW instance \in {"none", q.boss}
    PROVE  /\ [q EXCEPT !.boot = "sleep", !.boss = instance] \in Process
           /\ [q EXCEPT !.stop = "exited", !.boss = instance] \in Process
<1>1. /\ [q EXCEPT !.boot = "sleep", !.boss = "none"] \in Process
      /\ [q EXCEPT !.stop = "exited", !.boss = "none"] \in Process
    BY DEF Process
<1>2. /\ [q EXCEPT !.boot = "sleep", !.boss = q.boss] \in Process
      /\ [q EXCEPT !.stop = "exited", !.boss = q.boss] \in Process
    BY DEF Process
<1> QED BY <1>1, <1>2

(* A boot that gives up waits for another attempt, or ends its process.    *)
LEMMA GiveUpKeeps ==
    ASSUME InitiallyOK, IInv, NEW p \in Processes, NEW q \in Process, q = process[p],
           Ensures(q), Lives(p, q), NEW boss \in {"none", q.boss},
           q.stop # "exited", q.boot \in Reading \cup {"starting"},
           q.boot = "starting" => boss = "none", q.boot # "starting" => boss = q.boss,
           process' = [GiveUp(p) EXCEPT ![p].boss = boss],
           UNCHANGED <<database, queue, deadQueue, job, migration, started, faults>>
    PROVE  IInv'
<1> DEFINE slept == [q EXCEPT !.boot = "sleep", !.boss = boss]
           died == [q EXCEPT !.stop = "exited", !.boss = boss]
<1>1. CASE p = "api"
  <2>1. process' = [process EXCEPT ![p] = slept]
      BY <1>1 DEF GiveUp, Goes, IInv, TypeOK
  <2>2. slept \in Process
      BY GivenUp
  <2>3. Ensures(slept) /\ Lives(p, slept)
      BY <1>1 DEF Ensures, Lives, Process, Reading, Running
  <2> HIDE DEF slept
  <2> QED BY <2>1, <2>2, <2>3, OwnStep DEF IInv, TypeOK
<1>2. CASE p # "api"
  <2>1. process' = [process EXCEPT ![p] = died]
      BY <1>2 DEF GiveUp, IInv, TypeOK
  <2>2. died \in Process
      BY GivenUp
  <2>3. Ensures(died)
      BY DEF Ensures, Process
  <2>4. Lives(p, died)
      BY <1>2 DEF Lives, Process, Reading, Running
  <2> HIDE DEF died
  <2> QED BY <2>1, <2>2, <2>3, <2>4, OwnStep DEF IInv, TypeOK
<1> QED BY <1>1, <1>2

(* A boot begins with an instance of pg-boss, unless the API is stopping.  *)
LEMMA CheckKeeps ==
    ASSUME InitiallyOK, IInv, NEW p \in Processes, Check(p)
    PROVE  IInv'
<1>1. PICK q \in Process : q = process[p] /\ Ensures(q) /\ Lives(p, q)
    BY Itself
<1> DEFINE r == IF p = "api" /\ q.stop # "no" THEN [q EXCEPT !.boot = "ended"]
                ELSE IF q.boss = "none" THEN [q EXCEPT !.boot = "starting", !.boss = "starting"]
                ELSE [q EXCEPT !.boot = "get", !.left = Queues]
<1>2. process' = [process EXCEPT ![p] = r]
    BY <1>1 DEF Check, Goes, Stopping, IInv, TypeOK
<1>3. r \in Process
  <2>1. [q EXCEPT !.boot = "ended"] \in Process
      BY DEF Process
  <2>2. [q EXCEPT !.boot = "starting", !.boss = "starting"] \in Process
      BY DEF Process
  <2>3. [q EXCEPT !.boot = "get", !.left = Queues] \in Process
      BY DEF Process, InitiallyOK
  <2> QED BY <2>1, <2>2, <2>3
<1>4. Lives(p, r)
    BY <1>1 DEF Check, In, Lives, Process, Reading, Running, Processes
<1>5. q.boot = "check" /\ ~q.ready
    BY <1>1 DEF Check, In, Lives
<1>6. Ensures(r)
  <2>1. CASE (p = "api" /\ q.stop # "no") \/ q.boss = "none"
      BY <1>5, <2>1 DEF Ensures, Process, Reading
  <2>2. CASE ~((p = "api" /\ q.stop # "no") \/ q.boss = "none")
    <3>1. r.boot = "get" /\ r.left = Queues /\ ~r.ready
        BY <1>5, <2>2 DEF Process
    <3> QED BY <1>3, <3>1, Listed
  <2> QED BY <2>1, <2>2
<1> HIDE DEF r
<1> QED BY <1>2, <1>3, <1>4, <1>6, OwnStep DEF Check, IInv, TypeOK

(* The instance is published once it has started.                          *)
LEMMA StartKeeps ==
    ASSUME InitiallyOK, IInv, NEW p \in Processes, Start(p)
    PROVE  IInv'
<1>1. PICK q \in Process : q = process[p] /\ Ensures(q) /\ Lives(p, q)
    BY Itself
<1> DEFINE r == [q EXCEPT !.boot = "get", !.boss = "started", !.left = Queues]
<1>2. CASE database
  <2>1. process' = [process EXCEPT ![p] = r]
      BY <1>1, <1>2 DEF Start, IInv, TypeOK
  <2>2. r \in Process
      BY DEF Process, InitiallyOK
  <2>3. Lives(p, r)
      BY <1>1 DEF Start, In, Lives, Process, Reading, Running
  <2>4. Ensures(r)
    <3>1. r.boot = "get" /\ r.left = Queues /\ ~r.ready
        BY <1>1 DEF Start, In, Lives, Process
    <3> QED BY <2>2, <3>1, Listed
  <2> HIDE DEF r
  <2> QED BY <2>1, <2>2, <2>3, <2>4, OwnStep DEF Start, IInv, TypeOK
<1>3. CASE ~database
  <2>1. process' = [GiveUp(p) EXCEPT ![p].boss = "none"]
      BY <1>3 DEF Start
  <2> QED BY <1>1, <2>1, GiveUpKeeps DEF Start, In
<1> QED BY <1>2, <1>3

(* A statement that fails ends the attempt.                                *)
LEMMA FailsKeeps ==
    ASSUME InitiallyOK, IInv, NEW p \in Processes, NEW step \in Reading, Fails(p, step)
    PROVE  IInv'
<1>1. PICK q \in Process : q = process[p] /\ Ensures(q) /\ Lives(p, q)
    BY Itself
<1>2. process' = [GiveUp(p) EXCEPT ![p].boss = q.boss]
    BY <1>1 DEF Fails, GiveUp, Goes, IInv, TypeOK, Process
<1>3. q.boot = step /\ q.stop # "exited"
    BY <1>1 DEF Fails, In
<1> QED BY <1>1, <1>2, <1>3, GiveUpKeeps DEF Fails, Reading

(* After a while the API tries again.                                      *)
LEMMA SleepKeeps ==
    ASSUME InitiallyOK, IInv, NEW p \in Processes, Sleep(p)
    PROVE  IInv'
<1>1. PICK q \in Process : q = process[p] /\ Ensures(q) /\ Lives(p, q)
    BY Itself
<1> DEFINE r == [q EXCEPT !.boot = "check"]
<1>2. process' = [process EXCEPT ![p] = r]
    BY <1>1 DEF Sleep, Goes, IInv, TypeOK
<1>3. r \in Process
    BY DEF Process
<1>4. Ensures(r) /\ Lives(p, r)
    BY <1>1 DEF Sleep, In, Ensures, Lives, Process, Reading, Running
<1> HIDE DEF r
<1> QED BY <1>2, <1>3, <1>4, OwnStep DEF Sleep, IInv, TypeOK

(* The queue as read: a process that finds none may still find one later,  *)
(* but then one that routes its failed jobs.                               *)
LEMMA GetSourceKeeps ==
    ASSUME InitiallyOK, IInv, NEW p \in Processes, GetSource(p)
    PROVE  IInv'
<1>1. PICK q \in Process : q = process[p] /\ Ensures(q) /\ Lives(p, q)
    BY Itself
<1>2. q.boot = "get" /\ q.left # <<>> /\ Head(q.left) \in Names
    BY <1>1 DEF GetSource, In, Ensures, Reading, Process
<1> DEFINE n == Head(q.left)
           r == [q EXCEPT !.boot = "getDead", !.source = queue[n]]
<1>3. process' = [process EXCEPT ![p] = r]
    BY <1>1 DEF GetSource, Name, IInv, TypeOK
<1>4. r \in Process
    BY <1>2 DEF Process, IInv, TypeOK
<1>5. Ensures(r) /\ Lives(p, r)
    BY <1>1, <1>2 DEF Ensures, Lives, Process, Reading, Running
<1> HIDE DEF r
<1> QED BY <1>3, <1>4, <1>5, OwnStep DEF GetSource, IInv, TypeOK

(* Its dead letter queue as read.                                          *)
LEMMA GetDeadKeeps ==
    ASSUME InitiallyOK, IInv, NEW p \in Processes, GetDead(p)
    PROVE  IInv'
<1>1. PICK q \in Process : q = process[p] /\ Ensures(q) /\ Lives(p, q)
    BY Itself
<1>2. q.boot = "getDead" /\ q.left # <<>> /\ Head(q.left) \in Names
    BY <1>1 DEF GetDead, In, Ensures, Reading, Process
<1> DEFINE n == Head(q.left)
           r == [q EXCEPT !.boot = "writeDead", !.dead = deadQueue[n]]
<1>3. process' = [process EXCEPT ![p] = r]
    BY <1>1 DEF GetDead, Name, IInv, TypeOK
<1>4. r \in Process
    BY <1>2 DEF Process, IInv, TypeOK
<1>5. Ensures(r) /\ Lives(p, r)
    BY <1>1, <1>2 DEF Ensures, Lives, Process, Reading, Running, InitiallyOK
<1> HIDE DEF r
<1> QED BY <1>3, <1>4, <1>5, OwnStep DEF GetDead, IInv, TypeOK

(* Its dead letter queue as written: it keeps jobs for long, whoever       *)
(* created or changed it since it was read.                                *)
LEMMA WriteDeadKeeps ==
    ASSUME InitiallyOK, IInv, NEW p \in Processes, WriteDead(p)
    PROVE  IInv'
<1>1. PICK q \in Process : q = process[p] /\ Ensures(q) /\ Lives(p, q)
    BY Itself
<1>2. q.boot = "writeDead" /\ q.left # <<>> /\ Head(q.left) \in Names
    BY <1>1 DEF WriteDead, In, Ensures, Reading, Process
<1> DEFINE n == Head(q.left)
           r == [q EXCEPT !.boot = "write"]
<1>3. deadQueue' = [deadQueue EXCEPT ![n] = "long"]
  <2>1. deadQueue[n] \in DeadQueue /\ q.dead \in DeadQueue
      BY <1>2 DEF IInv, TypeOK, Process
  <2>2. CASE q.dead = None
    <3>1. deadQueue[n] \in {None, "long"}
        BY <1>1, <1>2, <2>1, <2>2 DEF Ensures, DeadQueue
    <3> QED BY <1>1, <2>2, <3>1 DEF WriteDead, Name, IInv, TypeOK
  <2>3. CASE q.dead = "long"
    <3>1. deadQueue[n] = "long"
        BY <1>1, <1>2, <2>3 DEF Ensures
    <3>2. deadQueue' = deadQueue
        BY <1>1, <2>3 DEF WriteDead, InitiallyOK
    <3> QED BY <3>1, <3>2 DEF IInv, TypeOK
  <2>4. CASE q.dead = "short"
      BY <1>1, <2>4 DEF WriteDead, Name, InitiallyOK
  <2> QED BY <2>1, <2>2, <2>3, <2>4 DEF DeadQueue
<1>4. process' = [process EXCEPT ![p] = r]
    BY <1>1 DEF WriteDead, Goes, IInv, TypeOK
<1>5. r \in Process
    BY DEF Process
<1>6. deadQueue' \in [Names -> DeadQueue]
    BY <1>2, <1>3 DEF IInv, TypeOK, DeadQueue
<1>7. Grows
    BY <1>2, <1>3 DEF Grows, IInv, TypeOK, InitiallyOK, WriteDead
<1>8. RoutedSomewhere' /\ JobsIndexed' /\ OnePending'
  <2>1. RoutedSomewhere'
      BY <1>7 DEF Grows, RoutedSomewhere, IInv, WriteDead
  <2> QED BY <2>1 DEF IInv, JobsIndexed, OnePending, Exclusive, Pending, WriteDead
<1>9. Ensures(r)'
  <2>1. Ensures(q)'
      BY <1>1, <1>7, EnsuresKept DEF IInv
  <2>2. deadQueue'[n] = "long"
      BY <1>2, <1>3 DEF IInv, TypeOK
  <2> HIDE DEF n
  <2>3. r.left = q.left /\ r.source = q.source /\ r.boot = "write" /\ r.ready = q.ready
      BY DEF Process
  <2> QED BY <1>2, <2>1, <2>2, <2>3 DEF Ensures, Reading, n
<1>10. Lives(p, r)
    BY <1>1, <1>2 DEF Lives, Process, Reading, Running
<1> HIDE DEF r
<1> QED BY <1>4, <1>5, <1>6, <1>7, <1>8, <1>9, <1>10, ProcessStep DEF WriteDead, IInv, TypeOK

(* What is left of a list of several is not empty.                         *)
LEMMA MoreLeft ==
    ASSUME NEW S, NEW s \in Seq(S), s # <<>>, Len(s) # 1
    PROVE  Tail(s) # <<>>
<1>1. Len(s) \in Nat /\ Len(Tail(s)) = Len(s) - 1
    BY HeadTailProperties
<1>2. Len(<<>>) = 0
    BY EmptySeq
<1>3. Len(Tail(s)) # 0
    BY <1>1
<1> QED BY <1>2, <1>3

(* The queue as written: its failed jobs go to the dead letter queue that  *)
(* is there, and a policy that somebody chose is kept.                     *)
LEMMA WriteSourceKeeps ==
    ASSUME InitiallyOK, IInv, NEW p \in Processes, WriteSource(p)
    PROVE  IInv'
<1>1. PICK q \in Process : q = process[p] /\ Ensures(q) /\ Lives(p, q)
    BY Itself
<1>2. q.boot = "write" /\ q.left # <<>> /\ Head(q.left) \in Names /\ q.left \in Seq(Names)
    BY <1>1 DEF WriteSource, In, Ensures, Reading, Process
<1> DEFINE n == Head(q.left)
           r == [q EXCEPT !.left = Tail(q.left), !.source = None, !.dead = None,
                          !.boot = IF Len(q.left) = 1 THEN "converged" ELSE "get"]
<1>3. PICK w \in QueueRow :
         /\ queue' = [queue EXCEPT ![n] = w] /\ w.dead
         /\ w.policy = IF queue[n] = None THEN "exclusive" ELSE queue[n].policy
  <2>1. queue' = [queue EXCEPT ![n] = Written(p)]
      BY <1>1 DEF WriteSource, Name
  <2>2. CASE queue[n] = None
    <3> DEFINE new == [policy |-> "exclusive", dead |-> TRUE]
    <3>1. Written(p) = new
        BY <1>1, <2>2 DEF Written, Name
    <3>2. new \in QueueRow /\ new.dead /\ new.policy = "exclusive"
        BY DEF QueueRow
    <3> HIDE DEF new
    <3> QED BY <2>1, <2>2, <3>1, <3>2
  <2>3. CASE queue[n] # None
    <3>1. PICK row \in QueueRow : row = queue[n]
        BY <1>2, <2>3 DEF IInv, TypeOK
    <3>2. Written(p) = IF q.source = None THEN row ELSE [row EXCEPT !.dead = TRUE]
        BY <1>1, <2>3, <3>1 DEF Written, Name
    <3>3. q.source = None => row.dead
        BY <1>1, <1>2, <2>3, <3>1 DEF Ensures
    <3>4. [row EXCEPT !.dead = TRUE] \in QueueRow
        BY DEF QueueRow
    <3>5. [row EXCEPT !.dead = TRUE].dead /\ [row EXCEPT !.dead = TRUE].policy = row.policy
        BY DEF QueueRow
    <3> QED BY <2>1, <2>3, <3>1, <3>2, <3>3, <3>4, <3>5
  <2> QED BY <2>2, <2>3
<1>4. process' = [process EXCEPT ![p] = r]
    BY <1>1 DEF WriteSource, IInv, TypeOK
<1>5. r \in Process
  <2>1. Tail(q.left) \in Seq(Names)
      BY <1>2
  <2> QED BY <2>1 DEF Process, DeadQueue
<1>6. queue' \in [Names -> QueueRow \cup {None}]
    BY <1>2, <1>3 DEF IInv, TypeOK
<1>7. w # None
    BY DEF InitiallyOK
<1>8. Grows
    BY <1>2, <1>3, <1>7 DEF Grows, IInv, TypeOK, WriteSource
<1>9. deadQueue[n] = "long"
    BY <1>1, <1>2 DEF Ensures
<1>10. RoutedSomewhere'
    BY <1>2, <1>3, <1>8, <1>9 DEF Grows, RoutedSomewhere, IInv, TypeOK, InitiallyOK, WriteSource
<1>11. JobsIndexed' /\ OnePending'
  <2>1. queue'[Migrated] # None /\ (queue'[Migrated].policy = "exclusive") =>
           queue[Migrated] = None \/ queue[Migrated].policy = "exclusive"
      BY <1>2, <1>3 DEF IInv, TypeOK, InitiallyOK
  <2>2. queue'[Migrated] = None => queue[Migrated] = None
      BY <1>8 DEF Grows, InitiallyOK
  <2>3. job' = job
      BY DEF WriteSource
  <2>4. JobsIndexed'
      BY <2>1, <2>2, <2>3 DEF IInv, JobsIndexed, Exclusive
  <2>5. OnePending'
    <3> SUFFICES ASSUME queue'[Migrated] # None /\ queue'[Migrated].policy = "exclusive",
                        NEW i \in Jobs, NEW k \in Jobs, Pending(i), Pending(k), job[i].key = job[k].key
                 PROVE  i = k
        BY <2>3 DEF OnePending, Exclusive, Pending
    <3>1. queue[Migrated] # None
        BY DEF IInv, JobsIndexed, Pending
    <3> QED BY <2>1, <3>1 DEF IInv, OnePending, Exclusive
  <2> QED BY <2>4, <2>5
<1>12. Ensures(r)'
  <2>1. \A m \in Names : Kept(m) \/ m = n => Kept(m)'
      BY <1>2, <1>3, <1>7, <1>8, <1>9 DEF Kept, Grows, IInv, TypeOK
  <2>2. ASSUME NEW m \in Names
        PROVE  Kept(m)' \/ \E i \in 1 .. Len(Tail(q.left)) : Tail(q.left)[i] = m
    <3>1. CASE Kept(m) \/ m = n
        BY <2>1, <3>1
    <3>2. CASE ~(Kept(m) \/ m = n)
      <4>1. PICK i \in 1 .. Len(q.left) : q.left[i] = m
          BY <1>1, <1>2, <3>2 DEF Ensures, Reading
      <4>2. i # 1
          BY <1>2, <3>2, <4>1
      <4>3. Len(q.left) \in Nat /\ Len(Tail(q.left)) = Len(q.left) - 1
          BY <1>2, HeadTailProperties
      <4>4. i - 1 \in 1 .. Len(Tail(q.left))
          BY <4>1, <4>2, <4>3
      <4>5. \A j \in 1 .. Len(Tail(q.left)) : Tail(q.left)[j] = q.left[j + 1]
          BY <1>2, HeadTailProperties
      <4>6. Tail(q.left)[i - 1] = m
          BY <4>1, <4>4, <4>5
      <4> QED BY <4>4, <4>6
    <3> QED BY <3>1, <3>2
  <2>3. Len(q.left) # 1 => Tail(q.left) # <<>>
      BY <1>2, MoreLeft
  <2>4. Len(q.left) = 1 => \A m \in Names : Kept(m)'
    <3> SUFFICES ASSUME Len(q.left) = 1, NEW m \in Names PROVE Kept(m)'
        OBVIOUS
    <3>1. Len(Tail(q.left)) = 0
        BY <1>2, HeadTailProperties
    <3> QED BY <2>2, <3>1
  <2>5. ~q.ready
      BY <1>1, <1>2 DEF Lives
  <2>6. /\ r.left = Tail(q.left) /\ ~r.ready
        /\ r.boot = IF Len(q.left) = 1 THEN "converged" ELSE "get"
      BY <2>5 DEF Process
  <2> HIDE DEF r
  <2> QED BY <2>2, <2>3, <2>4, <2>6 DEF Ensures, Reading
<1>13. Lives(p, r)
    BY <1>1, <1>2 DEF Lives, Process, Reading, Running
<1> HIDE DEF r, n
<1> QED BY <1>4, <1>5, <1>6, <1>8, <1>10, <1>11, <1>12, <1>13, ProcessStep DEF WriteSource, IInv, TypeOK

(* The API announces its queue, the worker process begins to listen.       *)
LEMMA ConvergedKeeps ==
    ASSUME InitiallyOK, IInv, NEW p \in Processes, Converged(p)
    PROVE  IInv'
<1>1. PICK q \in Process : q = process[p] /\ Ensures(q) /\ Lives(p, q)
    BY Itself
<1> DEFINE r == IF p # "api" THEN [q EXCEPT !.boot = "listening"]
                ELSE IF q.stop # "no" THEN [q EXCEPT !.boot = "ended"]
                ELSE [q EXCEPT !.boot = "ended", !.ready = TRUE, !.monitor = "on"]
<1>2. process' = [process EXCEPT ![p] = r]
    BY <1>1 DEF Converged, Announced, Goes, Stopping, IInv, TypeOK
<1>3. r \in Process
    BY DEF Process
<1>4. q.boot = "converged"
    BY <1>1 DEF Converged, In
<1>5. Ensures(r)
    BY <1>1, <1>4 DEF Ensures, Process, Reading
<1>6. Lives(p, r)
    BY <1>1, <1>4 DEF Lives, Process, Reading, Running
<1> HIDE DEF r
<1> QED BY <1>2, <1>3, <1>5, <1>6, OwnStep DEF Converged, IInv, TypeOK

-----------------------------------------------------------------------------
(* The shutdown, and what surrounds the processes.                         *)

(* A signal ends a worker that boots, and lets the others drain.           *)
LEMMA SignalKeeps ==
    ASSUME InitiallyOK, IInv, NEW p \in Processes, Signal(p)
    PROVE  IInv'
<1>1. PICK q \in Process : q = process[p] /\ Ensures(q) /\ Lives(p, q)
    BY Itself
<1> DEFINE to == IF p = "api" \/ q.boot = "listening" THEN "draining" ELSE "exited"
           monitor == IF q.monitor = "on" THEN "stopping" ELSE q.monitor
           r == [q EXCEPT !.stop = to, !.monitor = monitor]
<1>2. q.stop = "no"
    BY <1>1 DEF Signal, Stopping
<1>3. process' = [process EXCEPT ![p] = r]
    BY <1>1, <1>2 DEF Signal, In, IInv, TypeOK
<1>4. /\ to \in {"draining", "exited"} /\ (to = "exited" => p = "worker")
      /\ (p = "worker" /\ to = "draining" => q.boot = "listening")
    BY DEF Processes
<1>5. monitor \in {"off", "on", "stopping", "stopped"} /\ monitor # "on"
    BY DEF Process
<1> HIDE DEF to, monitor
<1>6. r \in Process
  <2>1. PICK s \in Process : s = [q EXCEPT !.stop = to]
      BY <1>4 DEF Process
  <2>2. r = [s EXCEPT !.monitor = monitor]
      BY <2>1 DEF Process
  <2> QED BY <1>5, <2>2, SMTT(60) DEF Process
<1>7. Ensures(r)
    BY <1>1 DEF Ensures, Process
<1>8. Lives(p, r)
  <2>1. /\ r.stop = to /\ r.monitor = monitor /\ r.boot = q.boot /\ r.boss = q.boss
        /\ r.ready = q.ready /\ r.late = q.late
      BY DEF Process
  <2>2. q.ready => p = "api"
      BY <1>1, <1>2, <1>4 DEF Lives
  <2> HIDE DEF r
  <2> QED BY <1>1, <1>2, <1>4, <1>5, <2>1, <2>2 DEF Lives, Running
<1> HIDE DEF r
<1> QED BY <1>3, <1>6, <1>7, <1>8, OwnStep DEF Signal, IInv, TypeOK

(* The queue is no longer ready when it is being stopped.                  *)
LEMMA StopQueueKeeps ==
    ASSUME InitiallyOK, IInv, NEW p \in Processes, StopQueue(p)
    PROVE  IInv'
<1>1. PICK q \in Process : q = process[p] /\ Ensures(q) /\ Lives(p, q)
    BY Itself
<1> DEFINE to == IF q.boss = "starting" THEN "awaiting" ELSE "stopping"
           monitor == IF q.monitor = "stopping" THEN "stopped" ELSE q.monitor
           r == [q EXCEPT !.stop = to, !.ready = FALSE, !.monitor = monitor]
<1>2. q.stop = "draining"
    BY <1>1 DEF StopQueue
<1>3. process' = [process EXCEPT ![p] = r]
  <2>1. p \in DOMAIN process
      BY DEF IInv, TypeOK
  <2>2. CASE q.boss = "starting"
      BY <1>1, <2>1, <2>2 DEF StopQueue, Mark, Process
  <2>3. CASE q.boss # "starting"
      BY <1>1, <2>1, <2>3 DEF StopQueue, Mark, Process
  <2> QED BY <2>2, <2>3
<1>4. to \in {"awaiting", "stopping"} /\ (to = "stopping" => q.boss # "starting")
    OBVIOUS
<1>5. monitor \in {"off", "on", "stopping", "stopped"} /\ (monitor = "on" => q.monitor = "on")
    BY DEF Process
<1> HIDE DEF to, monitor
<1>6. r \in Process
  <2>1. PICK s \in Process : s = [q EXCEPT !.stop = to, !.ready = FALSE]
      BY <1>4 DEF Process
  <2>2. r = [s EXCEPT !.monitor = monitor]
      BY <2>1 DEF Process
  <2> QED BY <1>5, <2>2 DEF Process
<1>7. Ensures(r)
    BY <1>1 DEF Ensures, Process
<1>8. Lives(p, r)
  <2>1. /\ r.stop = to /\ r.monitor = monitor /\ r.boot = q.boot /\ r.boss = q.boss
        /\ ~r.ready /\ r.late = q.late
      BY DEF Process
  <2> HIDE DEF r
  <2> QED BY <1>1, <1>2, <1>4, <1>5, <2>1 DEF Lives, Running
<1> HIDE DEF r
<1> QED BY <1>3, <1>6, <1>7, <1>8, OwnStep DEF StopQueue, IInv, TypeOK

(* An instance that was about to start has settled.                        *)
LEMMA SettledKeeps ==
    ASSUME InitiallyOK, IInv, NEW p \in Processes, Settled(p)
    PROVE  IInv'
<1>1. PICK q \in Process : q = process[p] /\ Ensures(q) /\ Lives(p, q)
    BY Itself
<1> DEFINE r == [q EXCEPT !.stop = "stopping"]
<1>2. process' = [process EXCEPT ![p] = r]
    BY <1>1 DEF Settled, IInv, TypeOK
<1>3. r \in Process
    BY DEF Process
<1>4. Ensures(r) /\ Lives(p, r)
    BY <1>1 DEF Settled, Ensures, Lives, Process, Reading, Running
<1> HIDE DEF r
<1> QED BY <1>2, <1>3, <1>4, OwnStep DEF Settled, IInv, TypeOK

(* Or has not, within the grace period.                                    *)
LEMMA GraceEndsKeeps ==
    ASSUME InitiallyOK, IInv, NEW p \in Processes, GraceEnds(p)
    PROVE  IInv'
<1>1. PICK q \in Process : q = process[p] /\ Ensures(q) /\ Lives(p, q)
    BY Itself
<1> DEFINE r == [q EXCEPT !.stop = "exited", !.late = TRUE]
<1>2. process' = [process EXCEPT ![p] = r]
    BY <1>1 DEF GraceEnds, IInv, TypeOK
<1>3. r \in Process
    BY DEF Process
<1>4. Ensures(r) /\ Lives(p, r)
    BY <1>1 DEF GraceEnds, Ensures, Lives, Process, Reading, Running
<1> HIDE DEF r
<1> QED BY <1>2, <1>3, <1>4, OwnStep DEF GraceEnds, IInv, TypeOK

(* An instance that has been published is stopped before the process ends. *)
LEMMA StopBossKeeps ==
    ASSUME InitiallyOK, IInv, NEW p \in Processes, StopBoss(p)
    PROVE  IInv'
<1>1. PICK q \in Process : q = process[p] /\ Ensures(q) /\ Lives(p, q)
    BY Itself
<1> DEFINE r == IF q.boss = "started" THEN [q EXCEPT !.stop = "closing", !.boss = "stopping"]
                ELSE [q EXCEPT !.stop = "exited"]
<1>2. process' = [process EXCEPT ![p] = r]
    BY <1>1 DEF StopBoss, IInv, TypeOK
<1>3. r \in Process
    BY DEF Process
<1>4. Ensures(r) /\ Lives(p, r)
    BY <1>1 DEF StopBoss, Ensures, Lives, Process, Reading, Running
<1> HIDE DEF r
<1> QED BY <1>2, <1>3, <1>4, OwnStep DEF StopBoss, IInv, TypeOK

(* It stops in time, and the process ends.                                 *)
LEMMA ClosedKeeps ==
    ASSUME InitiallyOK, IInv, NEW p \in Processes, Closed(p)
    PROVE  IInv'
<1>1. PICK q \in Process : q = process[p] /\ Ensures(q) /\ Lives(p, q)
    BY Itself
<1> DEFINE r == [q EXCEPT !.stop = "exited", !.boss = "stopped"]
<1>2. process' = [process EXCEPT ![p] = r]
    BY <1>1 DEF Closed, IInv, TypeOK
<1>3. r \in Process
    BY DEF Process
<1>4. Ensures(r) /\ Lives(p, r)
    BY <1>1 DEF Closed, Ensures, Lives, Process, Reading, Running
<1> HIDE DEF r
<1> QED BY <1>2, <1>3, <1>4, OwnStep DEF Closed, IInv, TypeOK

(* A process that is started, for the first time or again.                 *)
LEMMA FreshOK ==
    ASSUME NEW p \in Processes
    PROVE  Fresh \in Process /\ Ensures(Fresh) /\ Lives(p, Fresh)
<1>1. Fresh \in Process
    BY DEF Fresh, Process, DeadQueue
<1> QED BY <1>1 DEF Fresh, Ensures, Lives, Reading, Running

(* A process that dies at any point leaves the queues as they are.         *)
LEMMA RestartKeeps ==
    ASSUME InitiallyOK, IInv, NEW p \in Processes, Restart(p)
    PROVE  IInv'
<1>1. faults' \in 0 .. MaxFaults
    BY DEF Restart, IInv, TypeOK, InitiallyOK
<1> QED BY <1>1, FreshOK, OwnStep DEF Restart

(* A step of no process.                                                   *)
LEMMA OtherStep ==
    ASSUME InitiallyOK, IInv, TypeOK', UNCHANGED <<deadQueue, process>>, Grows,
           RoutedSomewhere', JobsIndexed', OnePending',
           migration' = "locking" => queue[Migrated] # None
    PROVE  IInv'
<1>1. ASSUME NEW p \in Processes
      PROVE  Ensures(process[p])' /\ Lives(p, process[p])'
  <2>1. PICK q \in Process : q = process[p] /\ Ensures(q) /\ Lives(p, q)
      BY Itself
  <2>2. Ensures(q)'
      BY <2>1, EnsuresKept DEF IInv
  <2>3. process'[p] = q
      BY <2>1
  <2> QED BY <2>1, <2>2, <2>3 DEF Ensures, Lives, Kept
<1>2. MigrationReady'
    BY DEF MigrationReady, Grows, InitiallyOK
<1> QED BY <1>1, <1>2 DEF IInv

(* The database comes and goes, and an operator looks at a queue.          *)
LEMMA DatabaseKeeps ==
    ASSUME InitiallyOK, IInv, Outage \/ Recovers \/ Preflight
    PROVE  IInv'
<1>1. UNCHANGED <<queue, deadQueue, job, process, started>>
    BY DEF Outage, Recovers, Preflight
<1>2. TypeOK'
  <2>1. CASE Outage
    <3>1. MaxFaults \in Nat /\ faults \in 0 .. MaxFaults
        BY DEF InitiallyOK, IInv, TypeOK
    <3>2. UNCHANGED migration /\ database' = FALSE /\ faults < MaxFaults /\ faults' = faults + 1
        BY <2>1 DEF Outage
    <3>3. faults' \in 0 .. MaxFaults
        BY <3>1, <3>2
    <3> QED BY <1>1, <3>2, <3>3 DEF IInv, TypeOK
  <2>2. CASE Recovers
      BY <1>1, <2>2 DEF Recovers, IInv, TypeOK
  <2>3. CASE Preflight
    <3>1. UNCHANGED <<database, faults>> /\ migration' \in {"locking", "done"}
        BY <2>3 DEF Preflight
    <3> QED BY <1>1, <3>1 DEF IInv, TypeOK
  <2> QED BY <2>1, <2>2, <2>3
<1>3. Grows /\ RoutedSomewhere' /\ JobsIndexed' /\ OnePending'
    BY <1>1 DEF Grows, IInv, RoutedSomewhere, JobsIndexed, OnePending, Exclusive, Pending
<1>4. migration' = "locking" => queue[Migrated] # None
    BY DEF Outage, Recovers, Preflight, IInv, MigrationReady
<1> QED BY <1>1, <1>2, <1>3, <1>4, OtherStep

-----------------------------------------------------------------------------
(* The jobs.                                                               *)

(* A step that writes jobs only.                                           *)
LEMMA JobStep ==
    ASSUME InitiallyOK, IInv, job' \in [Jobs -> Job \cup {None}],
           started' \in 0 .. MaxRequests, faults' \in 0 .. MaxFaults,
           JobsIndexed', OnePending',
           UNCHANGED <<database, queue, deadQueue, process, migration>>
    PROVE  IInv'
<1>1. TypeOK'
    BY DEF IInv, TypeOK
<1>2. Grows /\ RoutedSomewhere'
    BY DEF Grows, IInv, RoutedSomewhere
<1>3. migration' = "locking" => queue[Migrated] # None
    BY DEF IInv, MigrationReady
<1> QED BY <1>1, <1>2, <1>3, OtherStep

(* A job that is there is worked on, ends or is retried.                   *)
LEMMA JobMoved ==
    ASSUME InitiallyOK, IInv, NEW i \in Jobs, job[i] # None,
           NEW state \in {"created", "active", "completed", "failed"},
           job' = [job EXCEPT ![i].state = state],
           \/ Pending(i) \/ state \notin {"created", "active"}
           \/ ~(job[i].policy = "exclusive" /\ Taken(job[i].key)),
           started' \in 0 .. MaxRequests, faults' \in 0 .. MaxFaults,
           UNCHANGED <<database, queue, deadQueue, process, migration>>
    PROVE  IInv'
<1>1. PICK row \in Job : row = job[i]
    BY DEF IInv, TypeOK
<1> DEFINE new == [row EXCEPT !.state = state]
<1>2. new \in Job /\ new.key = row.key /\ new.policy = row.policy /\ new.state = state
    BY DEF Job
<1>3. job' = [job EXCEPT ![i] = new]
    BY <1>1 DEF IInv, TypeOK
<1> HIDE DEF new
<1>4. new # None
    BY <1>2 DEF InitiallyOK
<1>5. job' \in [Jobs -> Job \cup {None}]
    BY <1>2, <1>3 DEF IInv, TypeOK
<1>6. JobsIndexed'
    BY <1>1, <1>2, <1>3, <1>4 DEF IInv, TypeOK, JobsIndexed, Exclusive
<1>7. OnePending'
  <2> SUFFICES ASSUME queue[Migrated] # None, Exclusive, NEW j \in Jobs, NEW k \in Jobs,
                      Pending(j)', Pending(k)', job'[j].key = job'[k].key
               PROVE  j = k
      BY DEF OnePending, Exclusive
  <2>1. \A l \in Jobs \ {i} : job'[l] = job[l]
      BY <1>3 DEF IInv, TypeOK
  <2>2. job'[i] = new
      BY <1>3 DEF IInv, TypeOK
  <2>3. \A l \in Jobs \ {i} : Pending(l)' => Pending(l)
      BY <2>1 DEF Pending
  <2>4. \A l \in Jobs : job[l] # None => job[l].policy = "exclusive"
      BY DEF IInv, JobsIndexed
  <2>5. CASE Pending(i)
      BY <1>1, <1>2, <2>1, <2>2, <2>3, <2>5 DEF IInv, OnePending
  <2>6. CASE state \notin {"created", "active"}
    <3>1. ~Pending(i)'
        BY <1>2, <2>2, <2>6 DEF Pending
    <3> QED BY <2>1, <2>3, <3>1 DEF IInv, OnePending
  <2>7. CASE ~Taken(row.key)
    <3>1. \A l \in Jobs \ {i} : Pending(l) => job[l].key # row.key
        BY <2>4, <2>7 DEF Taken, Pending
    <3>2. CASE j = i /\ k # i
      <4>1. job[k].key = row.key /\ Pending(k)
          BY <1>2, <2>1, <2>2, <2>3, <3>2
      <4> QED BY <3>1, <3>2, <4>1
    <3>3. CASE k = i /\ j # i
      <4>1. job[j].key = row.key /\ Pending(j)
          BY <1>2, <2>1, <2>2, <2>3, <3>3
      <4> QED BY <3>1, <3>3, <4>1
    <3>4. CASE j # i /\ k # i
        BY <2>1, <2>3, <3>4 DEF IInv, OnePending
    <3> QED BY <3>2, <3>3, <3>4
  <2> QED BY <1>1, <2>4, <2>5, <2>6, <2>7
<1> QED BY <1>5, <1>6, <1>7, JobStep

(* Working on a job, its end and a retry by hand.                          *)
LEMMA JobStepsKeep ==
    ASSUME InitiallyOK, IInv, NEW i \in Jobs, Work(i) \/ End(i) \/ RetryByHand(i)
    PROVE  IInv'
<1>1. CASE Work(i)
    BY <1>1, JobMoved DEF Work, Pending, IInv, TypeOK
<1>2. CASE End(i)
  <2>1. PICK result \in {"failed", "completed"} : job' = [job EXCEPT ![i].state = result]
      BY <1>2 DEF End
  <2> QED BY <1>2, <2>1, JobMoved DEF End, IInv, TypeOK
<1>3. CASE RetryByHand(i)
  <2>1. faults' \in 0 .. MaxFaults
      BY <1>3 DEF RetryByHand, IInv, TypeOK, InitiallyOK
  <2> QED BY <1>3, <2>1, JobMoved DEF RetryByHand, IInv, TypeOK
<1> QED BY <1>1, <1>2, <1>3

(* The insertion of a job, which the unique index refuses when another one *)
(* of its key is pending in an exclusive queue.                            *)
LEMMA SendKeeps ==
    ASSUME InitiallyOK, IInv, NEW key \in Keys, Send(key)
    PROVE  IInv'
<1>1. started' \in 0 .. MaxRequests /\ faults' \in 0 .. MaxFaults
    BY DEF Send, IInv, TypeOK, InitiallyOK
<1>2. CASE job' = job
    BY <1>1, <1>2, JobStep DEF Send, IInv, TypeOK, JobsIndexed, OnePending, Exclusive, Pending
<1>3. CASE ~(queue[Migrated].policy = "exclusive" /\ Taken(key)) /\ job' # job
  <2>1. PICK q \in QueueRow : q = queue[Migrated]
      BY DEF Send, IInv, TypeOK, InitiallyOK
  <2> DEFINE new == [key |-> key, policy |-> q.policy, state |-> "created"]
  <2>2. PICK i \in Jobs : job[i] = None /\ job' = [job EXCEPT ![i] = new]
      BY <1>3, <2>1 DEF Send
  <2>3. new \in Job /\ new.key = key /\ new.policy = q.policy
      BY DEF Job, QueueRow
  <2> HIDE DEF new
  <2>4. job' \in [Jobs -> Job \cup {None}]
      BY <2>2, <2>3 DEF IInv, TypeOK
  <2>5. job'[i] = new /\ \A l \in Jobs \ {i} : job'[l] = job[l]
      BY <2>2 DEF IInv, TypeOK
  <2>6. queue' = queue /\ queue[Migrated] # None
      BY DEF Send
  <2>7. JobsIndexed'
      BY <2>1, <2>3, <2>5, <2>6 DEF IInv, JobsIndexed, Exclusive
  <2>8. OnePending'
    <3> SUFFICES ASSUME Exclusive, NEW j \in Jobs, NEW k \in Jobs,
                        Pending(j)', Pending(k)', job'[j].key = job'[k].key
                 PROVE  j = k
        BY <2>6 DEF OnePending, Exclusive
    <3>1. \A l \in Jobs : job[l] # None => job[l].policy = "exclusive"
        BY <2>6 DEF IInv, JobsIndexed
    <3>2. \A l \in Jobs \ {i} : Pending(l)' => Pending(l) /\ job[l].key # key
        BY <1>3, <2>5, <3>1 DEF Pending, Taken, Exclusive
    <3> QED BY <2>3, <2>5, <2>6, <3>2 DEF IInv, OnePending
  <2> QED BY <1>1, <2>4, <2>7, <2>8, JobStep DEF Send
<1> QED BY <1>2, <1>3 DEF Send

(* The migration changes the policy of a queue without pending jobs, and   *)
(* of the jobs it has kept.                                                *)
LEMMA MigrateKeeps ==
    ASSUME InitiallyOK, IInv, Migrate
    PROVE  IInv'
<1>1. UNCHANGED <<database, deadQueue, process, started, faults>> /\ migration' = "done"
    BY DEF Migrate
<1>2. CASE UNCHANGED <<queue, job>>
  <2>1. TypeOK'
      BY <1>1, <1>2 DEF IInv, TypeOK
  <2>2. Grows /\ RoutedSomewhere' /\ JobsIndexed' /\ OnePending'
      BY <1>1, <1>2 DEF Grows, IInv, RoutedSomewhere, JobsIndexed, OnePending, Exclusive, Pending
  <2> QED BY <1>1, <2>1, <2>2, OtherStep
<1>3. CASE ~UNCHANGED <<queue, job>>
  <2>1. /\ Drained /\ queue' = [queue EXCEPT ![Migrated].policy = "exclusive"]
        /\ job' = [i \in Jobs |-> IF job[i] = None THEN None
                                  ELSE [job[i] EXCEPT !.policy = "exclusive"]]
      BY <1>3 DEF Migrate
  <2>2. PICK row \in QueueRow : row = queue[Migrated]
      BY DEF Migrate, IInv, TypeOK, MigrationReady, InitiallyOK
  <2> DEFINE new == [row EXCEPT !.policy = "exclusive"]
  <2>3. new \in QueueRow /\ new.dead = row.dead /\ new.policy = "exclusive" /\ new # None
    <3>1. new \in QueueRow
        BY DEF QueueRow
    <3> QED BY <3>1 DEF QueueRow, InitiallyOK
  <2>4. queue' = [queue EXCEPT ![Migrated] = new]
      BY <2>1, <2>2 DEF IInv, TypeOK
  <2> HIDE DEF new
  <2>5. \A i \in Jobs : /\ job[i] = None => job'[i] = None
                        /\ job[i] # None => /\ job'[i] \in Job /\ job'[i].policy = "exclusive"
                                            /\ job'[i].state = job[i].state
    <3> SUFFICES ASSUME NEW i \in Jobs
                 PROVE  /\ job[i] = None => job'[i] = None
                        /\ job[i] # None => /\ job'[i] \in Job /\ job'[i].policy = "exclusive"
                                            /\ job'[i].state = job[i].state
        OBVIOUS
    <3>1. CASE job[i] = None
        BY <2>1, <3>1
    <3>2. CASE job[i] # None
      <4>1. PICK old \in Job : old = job[i]
          BY <3>2 DEF IInv, TypeOK
      <4>2. job'[i] = [old EXCEPT !.policy = "exclusive"]
          BY <2>1, <3>2, <4>1
      <4>3. /\ [old EXCEPT !.policy = "exclusive"] \in Job
            /\ [old EXCEPT !.policy = "exclusive"].policy = "exclusive"
            /\ [old EXCEPT !.policy = "exclusive"].state = old.state
          BY DEF Job
      <4> QED BY <3>2, <4>1, <4>2, <4>3
    <3> QED BY <3>1, <3>2
  <2>6. TypeOK'
    <3>1. queue' \in [Names -> QueueRow \cup {None}]
        BY <2>3, <2>4 DEF IInv, TypeOK
    <3>2. job' \in [Jobs -> Job \cup {None}]
      <4>1. job' = [i \in Jobs |-> job'[i]]
          BY <2>1
      <4>2. \A i \in Jobs : job'[i] \in Job \cup {None}
          BY <2>5
      <4> QED BY <4>1, <4>2
    <3> QED BY <1>1, <3>1, <3>2 DEF IInv, TypeOK
  <2>7. Migrated \in Names /\ queue'[Migrated] = new
        /\ \A n \in Names \ {Migrated} : queue'[n] = queue[n]
      BY <2>4 DEF IInv, TypeOK, InitiallyOK
  <2>8. Grows
    <3> SUFFICES ASSUME NEW n \in Names
                 PROVE  /\ queue[n] # None => queue'[n] # None /\ (queue[n].dead => queue'[n].dead)
                        /\ queue[n] = None => queue'[n] = None \/ queue'[n].dead
        BY <1>1 DEF Grows
    <3>1. row # None
        BY DEF InitiallyOK
    <3>2. CASE n = Migrated
        BY <2>2, <2>3, <2>7, <3>1, <3>2
    <3>3. CASE n # Migrated
        BY <2>7, <3>3
    <3> QED BY <3>2, <3>3
  <2>9. RoutedSomewhere'
      BY <1>1, <2>2, <2>3, <2>7 DEF IInv, RoutedSomewhere, InitiallyOK
  <2>10. JobsIndexed'
      BY <2>3, <2>5, <2>7 DEF JobsIndexed
  <2>11. \A i \in Jobs : ~Pending(i)'
      BY <2>1, <2>5 DEF Drained, Pending
  <2>12. OnePending'
      BY <2>11 DEF OnePending
  <2> QED BY <1>1, <2>6, <2>8, <2>9, <2>10, <2>12, OtherStep
<1> QED BY <1>2, <1>3

-----------------------------------------------------------------------------
(* The invariant, and what follows from it.                                *)

(* The processes find the queues as some release has left them.            *)
LEMMA InitIInv ==
    ASSUME InitiallyOK, Init
    PROVE  IInv
<1>1. PICK s \in Initially :
         /\ queue = [n \in Names |-> s.queue] /\ deadQueue = [n \in Names |-> s.deadQueue]
         /\ job = s.job
    BY DEF Init
<1>2. /\ s.queue \in QueueRow \cup {None} /\ s.deadQueue \in DeadQueue
      /\ s.job \in [Jobs -> Job \cup {None}]
    BY DEF InitiallyOK
<1>3. process = [p \in Processes |-> Fresh] /\ migration = "idle" /\ started = 0 /\ faults = 0
      /\ database \in BOOLEAN
    BY DEF Init
<1>4. TypeOK
    BY <1>1, <1>2, <1>3, FreshOK DEF TypeOK, InitiallyOK
<1>5. RoutedSomewhere
    BY <1>1 DEF RoutedSomewhere, InitiallyOK
<1>6. \A p \in Processes : Ensures(process[p]) /\ Lives(p, process[p])
    BY <1>3, FreshOK
<1>7. queue[Migrated] = s.queue
    BY <1>1 DEF InitiallyOK
<1>8. JobsIndexed
    BY <1>1, <1>7 DEF JobsIndexed, Exclusive, InitiallyOK
<1>9. OnePending
    BY <1>1, <1>7 DEF OnePending, Exclusive, Pending, InitiallyOK
<1> QED BY <1>3, <1>4, <1>5, <1>6, <1>8, <1>9 DEF IInv, MigrationReady

(* Every step keeps the invariant.                                         *)
LEMMA NextIInv ==
    ASSUME InitiallyOK, IInv, [Next]_vars
    PROVE  IInv'
<1>1. CASE \E p \in Processes : Booting(p)
  <2>1. PICK p \in Processes : Booting(p)
      BY <1>1
  <2>2. CASE \E step \in {"get", "getDead", "writeDead", "write"} : Fails(p, step)
      BY <2>2, FailsKeeps DEF Reading
  <2>3. CASE Ensure(p)
      BY <2>3, GetSourceKeeps, GetDeadKeeps, WriteDeadKeeps, WriteSourceKeeps DEF Ensure
  <2> QED BY <2>1, <2>2, <2>3, CheckKeeps, StartKeeps, SleepKeeps, ConvergedKeeps DEF Booting
<1>2. CASE \E p \in Processes : Signal(p) \/ ShuttingDown(p) \/ Restart(p)
    BY <1>2, SignalKeeps, StopQueueKeeps, SettledKeeps, GraceEndsKeeps, StopBossKeeps, ClosedKeeps,
       RestartKeeps DEF ShuttingDown
<1>3. CASE Outage \/ Recovers \/ Preflight
    BY <1>3, DatabaseKeeps
<1>4. CASE Migrate
    BY <1>4, MigrateKeeps
<1>5. CASE \E key \in Keys : Send(key)
    BY <1>5, SendKeeps
<1>6. CASE \E i \in Jobs : Work(i) \/ End(i) \/ RetryByHand(i)
    BY <1>6, JobStepsKeep
<1>7. CASE UNCHANGED vars
  <2>1. TypeOK'
      BY <1>7 DEF IInv, TypeOK, vars
  <2>2. Grows /\ RoutedSomewhere' /\ JobsIndexed' /\ OnePending'
      BY <1>7 DEF Grows, IInv, RoutedSomewhere, JobsIndexed, OnePending, Exclusive, Pending, vars
  <2>3. migration' = "locking" => queue[Migrated] # None
      BY <1>7 DEF IInv, MigrationReady, vars
  <2> QED BY <1>7, <2>1, <2>2, <2>3, OtherStep DEF vars
<1> QED BY <1>1, <1>2, <1>3, <1>4, <1>5, <1>6, <1>7 DEF Next

(* The invariant the theorems of this module rest on.                      *)
THEOREM Invariance ==
    ASSUME InitiallyOK
    PROVE  Spec => []IInv
<1>1. Init => IInv
    BY InitIInv
<1>2. IInv /\ [Next]_vars => IInv'
    BY NextIInv
<1> QED BY <1>1, <1>2, PTL DEF Spec

(* Whatever the processes, the operator and the database do at what point, *)
(* and whatever an earlier release has left: a process that uses the       *)
(* queues finds them converged, no queue routes its failed jobs to one     *)
(* that does not exist, no instance of pg-boss is left behind by an        *)
(* orderly end, nobody watches after it, and an exclusive queue has one    *)
(* pending job of a key.                                                   *)
THEOREM Lifecycle ==
    ASSUME InitiallyOK
    PROVE  Spec => []LifecycleKept
<1>1. ASSUME IInv PROVE LifecycleKept
  <2>1. ASSUME NEW p \in Processes
        PROVE  \E q \in Process : q = process[p] /\ Ensures(q) /\ Lives(p, q)
      BY <1>1, Itself
  <2>2. ReadyConverged
    <3> SUFFICES ASSUME NEW p \in Processes, UsesQueues(p)
                 PROVE  /\ \A n \in Names : Kept(n)
                        /\ process[p].ready => /\ process[p].stop \in {"no", "draining"}
                                               /\ process[p].boss = "started"
        BY DEF ReadyConverged, Kept
    <3>1. PICK q \in Process : q = process[p] /\ Ensures(q) /\ Lives(p, q)
        BY <2>1
    <3> QED BY <3>1 DEF UsesQueues, In, Ensures, Lives
  <2>3. NotOrphaned
    <3>1. PICK q \in Process : q = process["api"] /\ Ensures(q) /\ Lives("api", q)
        BY <2>1 DEF Processes
    <3> QED BY <3>1 DEF NotOrphaned, Lives
  <2>4. MonitorEnds
      BY <2>1 DEF MonitorEnds, Lives
  <2> QED BY <1>1, <2>2, <2>3, <2>4 DEF LifecycleKept, IInv
<1> QED BY <1>1, Invariance, PTL

-----------------------------------------------------------------------------
(* CatalogueSync is another component: what has a name of QueueLifecycle    *)
(* too, the jobs, what has been started and what has failed, is declared    *)
(* once.                                                                   *)
CONSTANTS Languages, Bibles, Codes, Published, Resource, Calls, Requests, Clocks, MaxStarted
VARIABLES item, watermark, owner, drawn, resource, missed, named, hushed, shelf, published, request, client
Catalogue == INSTANCE CatalogueSync

-----------------------------------------------------------------------------
(* The smallest of a set of numbers.                                       *)
LEMMA SmallestOf ==
    ASSUME NEW T, T \subseteq Nat, T # {}
    PROVE  \E x \in T : \A y \in T : x <= y
<1>1. PICK x \in T : \A y \in T : <<y, x>> \notin OpToRel(<, Nat)
    BY NatLessThanWellFounded, WFMin
<1>2. \A y \in T : ~(y < x)
    BY <1>1 DEF OpToRel
<1> QED BY <1>2

-----------------------------------------------------------------------------
(* The catalogue of languages, Bibles and books.                           *)

(* The largest of a bounded set of numbers.                                *)
LEMMA LargestOf ==
    ASSUME NEW T, T \subseteq Nat, T # {}, NEW bound \in Nat, \A x \in T : x <= bound
    PROVE  Catalogue!Max(T) \in T /\ \A x \in T : x <= Catalogue!Max(T)
<1>1. PICK gaps : gaps = {bound - x : x \in T}
    OBVIOUS
<1>2. gaps \subseteq Nat /\ gaps # {}
  <2>1. \A x \in T : bound - x \in Nat
      OBVIOUS
  <2> QED BY <1>1, <2>1
<1>3. PICK g \in gaps : \A h \in gaps : g <= h
    BY <1>2, SmallestOf
<1>4. PICK x \in T : g = bound - x
    BY <1>1, <1>3
<1>5. \A y \in T : x >= y
  <2>1. \A y \in T : bound - x <= bound - y
      BY <1>1, <1>3, <1>4
  <2> QED BY <2>1
<1> QED BY <1>5 DEF Catalogue!Max

(* The catalogue's finite sets are the finite sets.                        *)
LEMMA SameSets ==
    ASSUME NEW S
    PROVE  Catalogue!Cardinality(S) = Cardinality(S) /\ (Catalogue!IsFiniteSet(S) <=> IsFiniteSet(S))
<1>1. Catalogue!Cardinality(S) = Cardinality(S)
    BY DEF Cardinality, Catalogue!Cardinality, IsFiniteSet, Catalogue!IsFiniteSet
<1>2. Catalogue!IsFiniteSet(S) <=> IsFiniteSet(S)
    BY DEF IsFiniteSet, Catalogue!IsFiniteSet
<1> QED BY <1>1, <1>2

(* The rows of a statement are counted off, each once.                     *)
LEMMA Counted ==
    ASSUME NEW S, IsFiniteSet(S)
    PROVE  /\ Cardinality(S) \in Nat /\ Len(Catalogue!SetToSeq(S)) = Cardinality(S)
           /\ \A x \in S : \E n \in 1 .. Cardinality(S) : Catalogue!SetToSeq(S)[n] = x
<1>1. PICK n \in Nat : n = Cardinality(S) /\ ExistsBijection(1 .. n, S)
    BY FS_CardinalityType
<1>2. PICK f \in [1 .. n -> S] : Catalogue!IsInjective(f)
    BY <1>1 DEF ExistsBijection, Bijection, Injection, IsInjective, Catalogue!IsInjective
<1>3. PICK order : order = Catalogue!SetToSeq(S)
    OBVIOUS
<1>4. order \in [1 .. n -> S] /\ Catalogue!IsInjective(order)
  <2>1. order = CHOOSE g \in [1 .. n -> S] : Catalogue!IsInjective(g)
      BY <1>1, <1>3, SameSets DEF Catalogue!SetToSeq
  <2> QED BY Zenon, <1>2, <2>1
<1>5. order \in Injection(1 .. n, S)
    BY <1>4 DEF Injection, IsInjective, Catalogue!IsInjective
<1>6. Cardinality(1 .. n) = n /\ IsFiniteSet(1 .. n)
    BY FS_Interval
<1>7. order \in Surjection(1 .. n, S)
    BY <1>1, <1>5, <1>6, FS_Injection
<1>8. \A x \in S : \E i \in 1 .. n : order[i] = x
    BY <1>7 DEF Surjection
<1>9. Len(order) = n
    BY <1>4
<1> QED BY <1>1, <1>3, <1>8, <1>9

Synchronised == {Languages, Bibles, Codes}
Writers == Requests \cup {"job"}
Writing == [pc : {"idle", "waiting", "held", "done"}, call : Calls \cup {None}, seen : SUBSET Catalogue!Items]

(* Whoever has the allocator has drawn a stamp after all there are, and     *)
(* nobody else has a statement that stamps under way.                      *)
Allocated ==
    /\ item = [i \in Catalogue!Items |-> item[i]]
    /\ \A i \in Catalogue!Items : item[i] # None => item[i].at \in Nat /\ item[i].at <= watermark
    /\ watermark \in Nat /\ drawn \in [Writers -> Nat]
    /\ owner # None => owner \in Writers /\ drawn[owner] >= watermark + 2
    /\ request \in [Requests -> Writing]
    /\ \A w \in Requests :
          /\ request[w].pc \in {"waiting", "held"} => request[w].call \in Calls
          /\ request[w].pc = "held" => owner = w /\ request[w].call.kind # "delete"

(* Of the job, what it is to write is about rows there are keys for.       *)
JobBounded ==
    /\ job = [step |-> job.step, heard |-> job.heard, left |-> job.left, errors |-> job.errors, of |-> job.of]
    /\ job.step = "enter" => job.left \subseteq Languages
    /\ job.step = "upsert" => DOMAIN job.heard \subseteq Bibles
    /\ job.step \in {"link", "shelve"} => job.left \subseteq Bibles
    /\ job.step = "link" => \A b \in job.left : job.heard[b] \subseteq Codes
    /\ published \in 1 .. Len(Published)

(* What a client has: all rows stamped before its cursor, as they are; and, *)
(* while it has the Bibles and not yet the facts, all that its next cursor  *)
(* will be after.                                                          *)
FactsOf(rows, facts, i) == IF i \in Bibles /\ (i = Resource \/ rows[i].value.link) THEN facts ELSE 0
Sees(rows, last, facts, unseen, has) ==
    /\ has = [pc |-> has.pc, rows |-> has.rows, copy |-> has.copy, cursor |-> has.cursor]
    /\ has.copy = [i \in Catalogue!Items |-> has.copy[i]]
    /\ has.cursor \in [Synchronised -> Nat] /\ \A T \in Synchronised : has.cursor[T] <= last
    /\ \A i \in Catalogue!Items \ unseen :
          rows[i] # None /\ rows[i].at < has.cursor[Catalogue!Table(i)] =>
              has.copy[i] = [value |-> rows[i].value, facts |-> FactsOf(rows, facts, i)]
    /\ has.pc = "facts" =>
          /\ DOMAIN has.rows \subseteq Bibles
          /\ \A c \in DOMAIN has.rows :
                /\ has.rows[c].at \in Nat /\ has.rows[c].at <= last
                /\ \A b \in Bibles : rows[b] # None /\ rows[b].at <= has.rows[c].at =>
                      IF b \in DOMAIN has.rows THEN rows[b] = has.rows[b] ELSE rows[b].at < has.cursor[Bibles]

CatalogueInv == Allocated /\ JobBounded /\ Sees(item, watermark, resource, missed, client)

(* An item is in one table.                                                *)
LEMMA TableOf ==
    ASSUME Catalogue!SyncOK
    PROVE  /\ \A i \in Catalogue!Items : Catalogue!Table(i) \in Synchronised /\ i \in Catalogue!Table(i)
           /\ \A T \in Synchronised : T \subseteq Catalogue!Items /\ \A i \in T : Catalogue!Table(i) = T
BY DEF Catalogue!SyncOK, Catalogue!Items, Catalogue!Table, Synchronised

(* A statement stamps the rows it touches after all stamps there were.     *)
LEMMA StampedLater ==
    ASSUME Catalogue!SyncOK, Allocated, NEW w \in Writers, owner = w, NEW to, NEW touched,
           DOMAIN to \subseteq Catalogue!Items, touched \subseteq DOMAIN to, Catalogue!Stores(w, to, touched)
    PROVE  /\ item' = [i \in Catalogue!Items |-> item'[i]]
           /\ watermark' \in Nat /\ watermark <= watermark'
           /\ \A i \in Catalogue!Items :
                IF i \in touched
                THEN item'[i].value = to[i] /\ item'[i].at \in watermark + 2 .. watermark'
                ELSE item'[i] = item[i]
           /\ owner' = None /\ drawn' \in [Writers -> Nat]
<1>1. PICK first \in Nat : first = drawn[w] /\ first >= watermark + 2
    BY DEF Allocated, Catalogue!SyncOK, Writers
<1>2. PICK n \in Nat : n = Cardinality(DOMAIN to) /\ n = Catalogue!Cardinality(DOMAIN to)
  <2>1. IsFiniteSet(DOMAIN to)
      BY FS_Subset, SameSets DEF Catalogue!SyncOK
  <2> QED BY <2>1, FS_CardinalityType, SameSets
<1>3. PICK order : /\ order = Catalogue!SetToSeq(DOMAIN to) /\ Len(order) = n
                   /\ \A i \in DOMAIN to : \E k \in 1 .. n : order[k] = i
  <2>1. IsFiniteSet(DOMAIN to)
      BY FS_Subset, SameSets DEF Catalogue!SyncOK
  <2> QED BY <1>2, <2>1, Counted
<1>4. watermark' \in Nat /\ \A x \in {watermark, first, first + 2 * n - 2} : x <= watermark'
  <2>1. PICK T : T = {watermark, first, first + 2 * n - 2}
      OBVIOUS
  <2>2. T \subseteq Nat /\ T # {} /\ watermark \in Nat
      BY <1>1, <2>1 DEF Allocated
  <2>3. PICK bound \in Nat : \A x \in T : x <= bound
    <3>1. first + 2 * n \in Nat /\ \A x \in T : x <= first + 2 * n
        BY <1>1, <2>1, <2>2
    <3> QED BY <3>1
  <2>4. Catalogue!Max(T) \in T /\ \A x \in T : x <= Catalogue!Max(T)
      BY <2>2, <2>3, LargestOf
  <2>5. {watermark, drawn[w]} \cup {drawn[w] + 2 * Catalogue!Cardinality(DOMAIN to) - 2} = T
      BY <1>1, <1>2, <2>1
  <2>6. watermark' = Catalogue!Max(T)
      BY <2>5 DEF Catalogue!Stores
  <2> QED BY <2>1, <2>2, <2>4, <2>6
<1>5. ASSUME NEW i \in touched
      PROVE  item'[i].value = to[i] /\ item'[i].at \in watermark + 2 .. watermark'
  <2>1. PICK k : k = CHOOSE j \in 1 .. n : order[j] = i
      OBVIOUS
  <2>2. k \in 1 .. n
      BY <1>3, <2>1
  <2>3. item'[i] = [value |-> to[i], at |-> first + 2 * k - 2]
      BY <1>1, <1>3, <2>1 DEF Catalogue!Stores, Catalogue!Stamped
  <2>4. first + 2 * k - 2 \in Nat /\ first + 2 * k - 2 >= first /\ first + 2 * k - 2 <= first + 2 * n - 2
      BY <1>1, <2>2
  <2>5. watermark \in Nat /\ first + 2 * n - 2 <= watermark'
      BY <1>4 DEF Allocated
  <2> QED BY <1>1, <1>4, <2>3, <2>4, <2>5
<1>6. \A i \in Catalogue!Items \ touched : item'[i] = item[i]
    BY DEF Catalogue!Stores, Catalogue!Stamped
<1>7. item' = [i \in Catalogue!Items |-> item'[i]]
    BY DEF Catalogue!Stores, Catalogue!Stamped
<1>8. owner' = None /\ drawn' \in [Writers -> Nat]
    BY DEF Catalogue!Stores, Catalogue!Release, Allocated
<1> QED BY <1>4, <1>5, <1>6, <1>7, <1>8

(* Rows that are stamped later, or are gone, are none that a client is      *)
(* taken to have; facts may change only of those.                          *)
LEMMA StillSees ==
    ASSUME Catalogue!SyncOK, NEW rows, NEW last \in Nat, NEW facts, NEW unseen, NEW has,
           Sees(rows, last, facts, unseen, has),
           \A i \in Catalogue!Items : rows[i] # None => rows[i].at \in Nat,
           NEW more, NEW next \in Nat, last <= next, NEW since, NEW hidden, unseen \subseteq hidden,
           \A i \in Catalogue!Items : \/ more[i] = None \/ more[i] = rows[i]
                                      \/ more[i].at \in Nat /\ more[i].at > last,
           \A i \in Bibles \ hidden : rows[i] # None /\ more[i] = rows[i] =>
               FactsOf(rows, since, i) = FactsOf(rows, facts, i)
    PROVE  Sees(more, next, since, hidden, has)
<1>1. \A T \in Synchronised : has.cursor[T] \in Nat /\ has.cursor[T] <= last
    BY DEF Sees
<1>2. ASSUME NEW i \in Catalogue!Items \ hidden, more[i] # None, more[i].at < has.cursor[Catalogue!Table(i)]
      PROVE  has.copy[i] = [value |-> more[i].value, facts |-> FactsOf(more, since, i)]
  <2>1. has.cursor[Catalogue!Table(i)] \in Nat /\ has.cursor[Catalogue!Table(i)] <= last
      BY <1>1, TableOf
  <2>2. more[i] = rows[i]
      BY <1>2, <2>1
  <2>3. has.copy[i] = [value |-> rows[i].value, facts |-> FactsOf(rows, facts, i)]
      BY <1>2, <2>2 DEF Sees
  <2>4. FactsOf(more, since, i) = FactsOf(rows, facts, i)
      BY <1>2, <2>2 DEF FactsOf
  <2> QED BY <2>2, <2>3, <2>4
<1>3. ASSUME has.pc = "facts", NEW c \in DOMAIN has.rows, NEW b \in Bibles, more[b] # None,
             more[b].at <= has.rows[c].at
      PROVE  IF b \in DOMAIN has.rows THEN more[b] = has.rows[b] ELSE more[b].at < has.cursor[Bibles]
  <2>1. has.rows[c].at \in Nat /\ has.rows[c].at <= last
      BY <1>3 DEF Sees
  <2>2. more[b] = rows[b]
      BY <1>3, <2>1 DEF Catalogue!Items
  <2> QED BY <1>3, <2>2 DEF Sees
<1>4. \A T \in Synchronised : has.cursor[T] <= next
    BY <1>1
<1>5. has.pc = "facts" => /\ DOMAIN has.rows \subseteq Bibles
                          /\ \A c \in DOMAIN has.rows : has.rows[c].at \in Nat /\ has.rows[c].at <= next
  <2>1. has.pc = "facts" => \A c \in DOMAIN has.rows : has.rows[c].at \in Nat /\ has.rows[c].at <= last
      BY DEF Sees
  <2> QED BY <2>1 DEF Sees
<1> QED BY <1>2, <1>3, <1>4, <1>5 DEF Sees

(* What the job is to write stays about rows there are keys for.           *)
LEMMA JobStaysBounded ==
    ASSUME Catalogue!SyncOK, JobBounded, [Catalogue!Next]_Catalogue!vars
    PROVE  JobBounded'
<1> DEFINE JobAt(step, heard, left, errors, of) ==
               [step |-> step, heard |-> heard, left |-> left, errors |-> errors, of |-> of]
           Bounds(step, heard, left) ==
               /\ step = "enter" => left \subseteq Languages
               /\ step = "upsert" => DOMAIN heard \subseteq Bibles
               /\ step \in {"link", "shelve"} => left \subseteq Bibles
               /\ step = "link" => \A b \in left : heard[b] \subseteq Codes
<1>1. job = JobAt(job.step, job.heard, job.left, job.errors, job.of)
    BY DEF JobBounded
<1>2. Bounds(job.step, job.heard, job.left)
    BY DEF JobBounded
<1>3. ASSUME NEW step, NEW heard, NEW left, NEW errors, NEW of, job' = JobAt(step, heard, left, errors, of),
             Bounds(step, heard, left), published' = published
      PROVE  JobBounded'
  <2>1. /\ job'.step = step /\ job'.heard = heard /\ job'.left = left /\ job'.errors = errors /\ job'.of = of
        /\ job' = [step |-> step, heard |-> heard, left |-> left, errors |-> errors, of |-> of]
      BY <1>3
  <2> QED BY <1>3, <2>1 DEF JobBounded
<1>4. CASE UNCHANGED <<job, published>>
    BY <1>4 DEF JobBounded
<1>5. CASE Catalogue!Publish
    BY <1>5 DEF Catalogue!Publish, JobBounded, Catalogue!SyncOK
<1>7. CASE Catalogue!FetchLanguages
  <2>1. PICK left \in SUBSET Languages :
            left = {Catalogue!Library(b).language : b \in Catalogue!InLibrary} \cap Languages
      OBVIOUS
  <2>2. job' = JobAt("enter", job.heard, left, job.errors, job.of)
      BY <1>1, <1>7, <2>1 DEF Catalogue!FetchLanguages
  <2> QED BY ZenonT(60), <1>3, <1>7, <2>2 DEF Catalogue!FetchLanguages
<1>8. CASE Catalogue!FetchBibles
  <2>1. PICK heard : /\ DOMAIN heard \subseteq Bibles
                     /\ job' = [job EXCEPT !.step = "upsert", !.heard = heard]
    <3>1. DOMAIN [b \in {c \in Catalogue!InLibrary : Catalogue!Library(c).language \in Catalogue!Rows(Languages)} |->
                      [name |-> Catalogue!NameOf(b), audio |-> DOMAIN Catalogue!Library(b).audios # {}]] \subseteq Bibles
        BY DEF Catalogue!InLibrary
    <3> QED BY <1>8, <3>1 DEF Catalogue!FetchBibles
  <2>2. job' = JobAt("upsert", heard, job.left, job.errors, job.of)
      BY <1>1, <2>1
  <2> QED BY <1>3, <1>8, <2>1, <2>2 DEF Catalogue!FetchBibles
<1>9. CASE Catalogue!FetchBooks
  <2>1. PICK failed \in SUBSET Catalogue!External :
            /\ Catalogue!External \ Catalogue!InLibrary \subseteq failed
            /\ job' = [job EXCEPT !.step = "link", !.left = Catalogue!External \ failed,
                          !.errors = Catalogue!Cardinality(failed), !.of = Catalogue!Cardinality(Catalogue!External),
                          !.heard = [b \in Catalogue!External \ failed |-> Catalogue!Library(b).books]]
      BY <1>9 DEF Catalogue!FetchBooks
  <2>2. PICK left : left = Catalogue!External \ failed
      OBVIOUS
  <2>3. left \subseteq Bibles /\ left \subseteq Catalogue!InLibrary
      BY <2>1, <2>2 DEF Catalogue!External, Catalogue!Rows
  <2>4. PICK heard : heard = [b \in left |-> Catalogue!Library(b).books]
      OBVIOUS
  <2>5. \A b \in left : heard[b] \subseteq Codes
      BY <2>3, <2>4 DEF Catalogue!InLibrary, Catalogue!Library, Catalogue!SyncOK, JobBounded
  <2>6. job' = JobAt("link", heard, left, Catalogue!Cardinality(failed), Catalogue!Cardinality(Catalogue!External))
      BY <1>1, <2>1, <2>2, <2>4
  <2> QED BY <1>3, <1>9, <2>3, <2>5, <2>6 DEF Catalogue!FetchBooks
<1>10. CASE Catalogue!FetchAudio
  <2>1. PICK left, heard, errors, of :
            /\ left \subseteq Bibles
            /\ job' = [job EXCEPT !.step = "shelve", !.left = left, !.errors = errors, !.of = of, !.heard = heard]
    <3>1. Catalogue!External \subseteq Bibles
        BY DEF Catalogue!External, Catalogue!Rows
    <3> QED BY <1>10, <3>1 DEF Catalogue!FetchAudio
  <2>2. job' = JobAt("shelve", heard, left, errors, of)
      BY <1>1, <2>1
  <2> QED BY <1>3, <1>10, <2>1, <2>2 DEF Catalogue!FetchAudio
<1>11. CASE /\ job' = [job EXCEPT !.step = "bibles"] \/ job' = [job EXCEPT !.step = "books"]
            /\ published' = published
  <2>1. PICK step \in {"bibles", "books"} : job' = JobAt(step, job.heard, job.left, job.errors, job.of)
      BY <1>1, <1>11
  <2> QED BY <1>3, <1>11, <2>1
<1>12. CASE /\ \E n \in {0, 1} : job' = Catalogue!Skipped(n)
            /\ published' = published /\ job.step \in {"link", "shelve"}
  <2>1. PICK errors : job' = JobAt(job.step, job.heard, job.left \ {Catalogue!Turn}, errors, job.of)
      BY <1>1, <1>12 DEF Catalogue!Skipped
  <2>2. Bounds(job.step, job.heard, job.left \ {Catalogue!Turn})
      BY <1>2, <1>12
  <2> QED BY <1>3, <1>12, <2>1, <2>2
<1>13. CASE /\ \/ job' = Catalogue!Attempt
               \/ \E then \in {"audio", "done"} : job' = [Catalogue!Attempt EXCEPT !.step = then]
            /\ published' = published
  <2>1. PICK step \in {"languages", "audio", "done"} : job' = JobAt(step, <<>>, {}, 0, 0)
      BY <1>13 DEF Catalogue!Attempt
  <2> QED BY <1>3, <1>13, <2>1
<1>14. CASE \/ Catalogue!EnterLanguages \/ Catalogue!UpsertBibles
    BY <1>11, <1>14 DEF Catalogue!EnterLanguages, Catalogue!UpsertBibles, Catalogue!Commits
<1>15. CASE Catalogue!Link \/ Catalogue!Shelve \/ Catalogue!SkipsBible
    BY <1>12, <1>15 DEF Catalogue!Link, Catalogue!Commits, Catalogue!Shelve, Catalogue!SkipsBible
<1>16. CASE Catalogue!BooksEnd \/ Catalogue!AudioEnds \/ Catalogue!JobFails \/ Catalogue!SyncAgain
    BY <1>13, <1>16 DEF Catalogue!BooksEnd, Catalogue!AudioEnds, Catalogue!StepEnds, Catalogue!JobFails,
                        Catalogue!SyncAgain
<1>17. CASE Catalogue!Locks \/ Catalogue!Writes \/ Catalogue!Reads \/ UNCHANGED Catalogue!vars
    BY <1>4, <1>17 DEF Catalogue!Locks, Catalogue!Writes, Catalogue!Reads, Catalogue!vars, Catalogue!Begin,
                       Catalogue!Nothing, Catalogue!Hold, Catalogue!Write, Catalogue!Aborts, Catalogue!Delete,
                       Catalogue!Pull, Catalogue!PullBibles, Catalogue!PullFacts
<1> QED BY <1>5, <1>7, <1>8, <1>9, <1>10, <1>14, <1>15, <1>16, <1>17 DEF Catalogue!Next, Catalogue!Syncs

(* The allocator is taken: the first stamp is after all there are.         *)
LEMMA StampDrawn ==
    ASSUME Catalogue!SyncOK, Allocated, NEW w \in Writers, Catalogue!Take(w)
    PROVE  /\ owner = None /\ owner' = w /\ watermark' = watermark
           /\ drawn' \in [Writers -> Nat] /\ drawn'[w] >= watermark + 2
<1>1. PICK clock \in Nat : drawn' = [drawn EXCEPT ![w] = Catalogue!Stamp(watermark, clock)]
    BY DEF Catalogue!Take, Catalogue!Draws, Catalogue!SyncOK
<1>2. PICK stamp \in Nat : stamp = Catalogue!Stamp(watermark, clock) /\ stamp >= watermark + 2
  <2>1. Catalogue!Stamp(watermark, clock) \in Nat /\ Catalogue!Stamp(watermark, clock) >= watermark + 2
      BY DEF Catalogue!Stamp, Allocated
  <2> QED BY <2>1
<1>3. drawn' \in [Writers -> Nat] /\ drawn'[w] = stamp
    BY <1>1, <1>2 DEF Allocated
<1> QED BY <1>2, <1>3 DEF Catalogue!Take

(* A request comes to something else, the rows and the allocator as they    *)
(* are or as they are left to nobody.                                      *)
LEMMA RequestsKeep ==
    ASSUME Catalogue!SyncOK, Allocated, NEW w \in Requests, NEW x \in Writing,
           x.pc \in {"waiting", "held"} => x.call \in Calls,
           x.pc = "held" => owner' = w /\ x.call.kind # "delete",
           request' = [request EXCEPT ![w] = x],
           owner' \notin {None} => owner' \in Writers /\ drawn'[owner'] >= watermark' + 2,
           owner' = owner \/ (owner \in {None, w}),
           item' = [i \in Catalogue!Items |-> item'[i]],
           \A i \in Catalogue!Items : item'[i] # None => item'[i].at \in Nat /\ item'[i].at <= watermark',
           watermark' \in Nat, drawn' \in [Writers -> Nat]
    PROVE  Allocated'
<1>1. request' \in [Requests -> Writing] /\ request'[w] = x
      /\ \A q \in Requests \ {w} : request'[q] = request[q]
    BY DEF Allocated
<1>2. \A q \in Requests :
          /\ request'[q].pc \in {"waiting", "held"} => request'[q].call \in Calls
          /\ request'[q].pc = "held" => owner' = q /\ request'[q].call.kind # "delete"
    BY <1>1 DEF Allocated, Catalogue!SyncOK
<1> QED BY <1>1, <1>2 DEF Allocated

(* The statement of a request is over.                                     *)
LEMMA StatementEnds ==
    ASSUME Allocated, NEW w \in Requests
    PROVE  \E x \in Writing : x.pc = "done" /\ Catalogue!Ends(w) = [request EXCEPT ![w] = x]
<1>1. PICK y \in Writing : y = request[w]
    BY DEF Allocated
<1>2. [y EXCEPT !.pc = "done"] \in Writing /\ [y EXCEPT !.pc = "done"].pc = "done"
    BY DEF Writing
<1> QED BY <1>1, <1>2 DEF Catalogue!Ends, Allocated

(* A request finds rows, waits for the allocator and has it.               *)
LEMMA RequestWaits ==
    ASSUME Catalogue!SyncOK, CatalogueInv, NEW w \in Requests, Catalogue!Begin(w) \/ Catalogue!Hold(w)
    PROVE  Allocated' /\ Sees(item', watermark', resource', missed', client')
<1>1. /\ item' = item /\ watermark' = watermark /\ resource' = resource /\ missed' = missed /\ client' = client
    BY DEF Catalogue!Begin, Catalogue!Hold, Catalogue!Take, Catalogue!tables
<1>2. w \in Writers /\ None \notin Requests
    BY DEF Writers, Catalogue!SyncOK
<1>3. CASE Catalogue!Begin(w)
  <2>1. PICK call \in Calls :
            request' = [request EXCEPT ![w] = [pc |-> "waiting", call |-> call, seen |-> Catalogue!Found(call)]]
      BY <1>3 DEF Catalogue!Begin
  <2>2. PICK seen \in SUBSET Catalogue!Items : seen = Catalogue!Found(call)
    <3>1. call.of \in Catalogue!Items
        BY DEF Catalogue!SyncOK, Catalogue!Items
    <3>2. Catalogue!Found(call) \subseteq Catalogue!Items
        BY <3>1 DEF Catalogue!Found, Catalogue!Rows, Catalogue!Items
    <3> QED BY <3>2
  <2>3. PICK x \in Writing : x = [pc |-> "waiting", call |-> call, seen |-> seen]
      BY DEF Writing
  <2>4. owner' = owner /\ drawn' = drawn
      BY <1>3 DEF Catalogue!Begin, Catalogue!allocator
  <2>5. Allocated'
    <3>1. x.pc = "waiting" /\ x.call = call
        BY <2>3
    <3>2. request' = [request EXCEPT ![w] = x]
        BY <2>1, <2>2, <2>3
    <3>3. item = [i \in Catalogue!Items |-> item[i]] /\ watermark \in Nat /\ drawn \in [Writers -> Nat]
        BY DEF CatalogueInv, Allocated
    <3>4. CatalogueInv => Allocated
        BY DEF CatalogueInv
    <3> QED BY <1>1, <2>4, <3>1, <3>2, <3>3, <3>4, RequestsKeep DEF Allocated
  <2> QED BY <1>1, <2>5 DEF CatalogueInv
<1>4. CASE Catalogue!Hold(w)
  <2>1. PICK x \in Writing : x = [request[w] EXCEPT !.pc = "held"] /\ x.pc = "held" /\ x.call = request[w].call
    <3>1. PICK y \in Writing : y = request[w]
        BY DEF CatalogueInv, Allocated
    <3>2. [y EXCEPT !.pc = "held"] \in Writing /\ [y EXCEPT !.pc = "held"].pc = "held"
          /\ [y EXCEPT !.pc = "held"].call = y.call
        BY DEF Writing
    <3> QED BY <3>1, <3>2
  <2>2. request' = [request EXCEPT ![w] = x]
      BY <1>4, <2>1 DEF Catalogue!Hold, CatalogueInv, Allocated
  <2>3. x.call \in Calls /\ x.call.kind # "delete"
      BY <1>4, <2>1 DEF Catalogue!Hold, CatalogueInv, Allocated
  <2>4. /\ owner = None /\ owner' = w
        /\ drawn' \in [Writers -> Nat] /\ drawn'[w] >= watermark + 2
      BY <1>2, <1>4, StampDrawn DEF Catalogue!Hold, CatalogueInv
  <2>5. Allocated'
    <3>1. /\ Allocated /\ item = [i \in Catalogue!Items |-> item[i]] /\ watermark \in Nat
          /\ \A i \in Catalogue!Items : item[i] # None => item[i].at \in Nat /\ item[i].at <= watermark
        BY DEF CatalogueInv, Allocated
    <3> QED BY <1>1, <1>2, <2>1, <2>2, <2>3, <2>4, <3>1, RequestsKeep
  <2> QED BY <1>1, <2>5 DEF CatalogueInv
<1> QED BY <1>3, <1>4

(* What a request writes are rows there are keys for; a change of the       *)
(* resource stamps all the Bibles it has found and are still there.        *)
LEMMA ChangedRows ==
    ASSUME Catalogue!SyncOK, Allocated, NEW w \in Requests, request[w].pc = "held"
    PROVE  /\ DOMAIN Catalogue!Changed(w) \subseteq Catalogue!Items
           /\ Catalogue!Touched(w) \subseteq DOMAIN Catalogue!Changed(w)
           /\ request[w].call.kind = "curate" => Catalogue!Touched(w) = Catalogue!Rows(request[w].seen)
           /\ request[w].call.kind \notin {"create", "language"} =>
                  DOMAIN Catalogue!Changed(w) \subseteq Catalogue!Rows(request[w].seen)
           /\ request[w].call.kind \in {"create", "language"} => DOMAIN Catalogue!Changed(w) = {request[w].call.of}
<1>1. PICK call \in Calls : call = request[w].call /\ call.kind # "delete"
    BY DEF Allocated
<1>2. PICK there \in SUBSET Catalogue!Items : there = Catalogue!Rows(request[w].seen)
    BY DEF Allocated, Writing, Catalogue!Rows
<1>3. call.of \in Catalogue!Items
    BY DEF Catalogue!SyncOK, Catalogue!Items
<1>4. CASE call.kind = "create"
  <2>1. DOMAIN Catalogue!Changed(w) = {call.of}
      BY <1>1, <1>4 DEF Catalogue!Changed
  <2> QED BY <1>1, <1>3, <1>4, <2>1 DEF Catalogue!Touched
<1>5. CASE call.kind = "language"
  <2>1. DOMAIN Catalogue!Changed(w) = {call.of}
      BY <1>1, <1>5 DEF Catalogue!Changed
  <2> QED BY <1>1, <1>3, <1>5, <2>1 DEF Catalogue!Touched, Catalogue!Differing
<1>6. CASE call.kind = "enrich"
  <2>1. DOMAIN Catalogue!Changed(w) = {k \in there : item[k].value = "none"}
      BY <1>1, <1>2, <1>6 DEF Catalogue!Changed
  <2> QED BY <1>1, <1>2, <1>6, <2>1 DEF Catalogue!Touched
<1>7. CASE call.kind \in {"rename", "audio", "silent", "link", "curate"}
  <2>1. DOMAIN Catalogue!Changed(w) = there
      BY <1>1, <1>2, <1>7 DEF Catalogue!Changed
  <2> QED BY <1>1, <1>2, <1>7, <2>1 DEF Catalogue!Touched
<1> QED BY <1>1, <1>4, <1>5, <1>6, <1>7 DEF Catalogue!SyncOK

(* A change of the resource concerns Bibles that are stamped with it, or    *)
(* that it could not find.                                                 *)
LEMMA FactsChange ==
    ASSUME Catalogue!SyncOK, NEW w \in Requests, Catalogue!Curated(w), NEW touched, NEW rows,
           request[w].call.kind = "curate" =>
               touched = Catalogue!Rows(request[w].seen) \cap Catalogue!Items,
           \A i \in touched : rows[i] # item[i]
    PROVE  /\ missed \subseteq missed'
           /\ \A i \in Bibles \ missed' : item[i] # None /\ rows[i] = item[i] =>
                  FactsOf(item, resource', i) = FactsOf(item, resource, i)
<1>1. CASE request[w].call.kind # "curate"
    BY <1>1 DEF Catalogue!Curated
<1>2. CASE request[w].call.kind = "curate"
  <2>1. missed' = missed \cup ({b \in Bibles : Catalogue!Linked(b)} \ request[w].seen)
      BY <1>2 DEF Catalogue!Curated
  <2>2. ASSUME NEW i \in Bibles \ missed', item[i] # None, rows[i] = item[i]
        PROVE  ~(i = Resource \/ item[i].value.link)
    <3>1. i \in Catalogue!Items
        BY DEF Catalogue!Items
    <3>2. i \notin request[w].seen
        BY <1>2, <2>2, <3>1 DEF Catalogue!Rows
    <3> QED BY <2>1, <2>2, <3>2 DEF Catalogue!Linked
  <2> QED BY <2>1, <2>2 DEF FactsOf
<1> QED BY <1>1, <1>2

(* The statement that writes a row under the watermark.                    *)
LEMMA RequestWrites ==
    ASSUME Catalogue!SyncOK, CatalogueInv, NEW w \in Requests, Catalogue!Write(w)
    PROVE  Allocated' /\ Sees(item', watermark', resource', missed', client')
<1>1. /\ w \in Writers /\ owner = w /\ request[w].pc = "held" /\ Allocated
      /\ None \notin Requests /\ client' = client /\ watermark \in Nat
    BY DEF Writers, Catalogue!SyncOK, Catalogue!Write, CatalogueInv, Allocated
<1>2. PICK to, touched : to = Catalogue!Changed(w) /\ touched = Catalogue!Touched(w)
    OBVIOUS
<1>3. DOMAIN to \subseteq Catalogue!Items /\ touched \subseteq DOMAIN to /\ Catalogue!Stores(w, to, touched)
    BY <1>1, <1>2, ChangedRows DEF Catalogue!Write
<1>4. /\ item' = [i \in Catalogue!Items |-> item'[i]]
      /\ watermark' \in Nat /\ watermark <= watermark'
      /\ \A i \in Catalogue!Items :
           IF i \in touched
           THEN item'[i].value = to[i] /\ item'[i].at \in watermark + 2 .. watermark'
           ELSE item'[i] = item[i]
      /\ owner' = None /\ drawn' \in [Writers -> Nat]
    BY <1>1, <1>3, StampedLater
<1>5. \A i \in Catalogue!Items : item[i] # None => item[i].at \in Nat /\ item[i].at <= watermark
    BY DEF CatalogueInv, Allocated
<1>6. PICK x \in Writing : x.pc = "done" /\ request' = [request EXCEPT ![w] = x]
    BY <1>1, StatementEnds DEF Catalogue!Write
<1>7. Allocated'
  <2>1. \A i \in Catalogue!Items : item'[i] # None => item'[i].at \in Nat /\ item'[i].at <= watermark'
      BY <1>1, <1>4, <1>5
  <2> QED BY <1>1, <1>4, <1>6, <2>1, RequestsKeep
<1>8. \A i \in Catalogue!Items : \/ item'[i] = None \/ item'[i] = item[i]
                                 \/ item'[i].at \in Nat /\ item'[i].at > watermark
    BY <1>1, <1>4
<1>9. Catalogue!Curated(w)
    BY DEF Catalogue!Write
<1>10. /\ missed \subseteq missed'
       /\ \A i \in Bibles \ missed' : item[i] # None /\ item'[i] = item[i] =>
              FactsOf(item, resource', i) = FactsOf(item, resource, i)
  <2>1. request[w].call.kind = "curate" => touched = Catalogue!Rows(request[w].seen) \cap Catalogue!Items
      BY ZenonT(60), <1>1, <1>2, ChangedRows DEF Allocated, Writing, Catalogue!Rows
  <2>2. \A i \in touched : i \in Catalogue!Items /\ item[i] # None => item'[i] # item[i]
      BY <1>1, <1>3, <1>4, <1>5
  <2>3. request[w].call.kind = "curate" => \A i \in touched : item'[i] # item[i]
      BY <2>1, <2>2 DEF Catalogue!Rows
  <2>4. CASE request[w].call.kind = "curate"
      BY <1>9, <2>1, <2>3, <2>4, FactsChange
  <2>5. CASE request[w].call.kind # "curate"
      BY <1>9, <2>5 DEF Catalogue!Curated
  <2> QED BY <2>4, <2>5
<1>11. Sees(item, watermark, resource, missed, client)
    BY DEF CatalogueInv
<1>12. Sees(item', watermark', resource', missed', client)
    BY <1>1, <1>4, <1>5, <1>8, <1>10, <1>11, StillSees
<1> QED BY <1>1, <1>7, <1>12

(* A request that ends without such a statement.                           *)
LEMMA RequestStops ==
    ASSUME Catalogue!SyncOK, CatalogueInv, NEW w \in Requests,
           Catalogue!Nothing(w) \/ Catalogue!Aborts(w) \/ Catalogue!Delete(w)
    PROVE  Allocated' /\ Sees(item', watermark', resource', missed', client')
<1>1. /\ w \in Writers /\ Allocated /\ None \notin Requests /\ client' = client /\ watermark \in Nat
      /\ watermark' = watermark
    BY DEF Writers, Catalogue!SyncOK, CatalogueInv, Allocated, Catalogue!Nothing, Catalogue!Aborts,
           Catalogue!Delete, Catalogue!tables
<1>2. PICK x \in Writing : x.pc = "done" /\ request' = [request EXCEPT ![w] = x]
    BY <1>1, StatementEnds DEF Catalogue!Nothing, Catalogue!Aborts, Catalogue!Delete
<1>3. \A i \in Catalogue!Items : item[i] # None => item[i].at \in Nat /\ item[i].at <= watermark
    BY <1>1 DEF Allocated
<1>4. \A i \in Catalogue!Items : item'[i] = None \/ item'[i] = item[i]
  <2>1. CASE Catalogue!Delete(w)
    <3>1. item' = item \/ item' = [item EXCEPT ![request[w].call.of] = None]
        BY <2>1 DEF Catalogue!Delete
    <3> QED BY <1>1, <3>1 DEF Allocated
  <2>2. CASE Catalogue!Nothing(w) \/ Catalogue!Aborts(w)
      BY <2>2 DEF Catalogue!Nothing, Catalogue!Aborts, Catalogue!tables
  <2> QED BY <2>1, <2>2
<1>5. item' = [i \in Catalogue!Items |-> item'[i]]
    BY <1>1 DEF Allocated, Catalogue!Nothing, Catalogue!Aborts, Catalogue!Delete, Catalogue!tables
<1>6. /\ drawn' \in [Writers -> Nat]
      /\ owner' = None \/ (owner' = owner /\ drawn' = drawn)
      /\ owner' = owner \/ owner = w
  <2>1. CASE Catalogue!Aborts(w)
      BY <1>1, <2>1 DEF Catalogue!Aborts, Catalogue!Release, Allocated
  <2>2. CASE Catalogue!Nothing(w) \/ Catalogue!Delete(w)
      BY <1>1, <2>2 DEF Catalogue!Nothing, Catalogue!Delete, Catalogue!allocator, Allocated
  <2> QED BY <2>1, <2>2
<1>7. Allocated'
  <2>1. \A i \in Catalogue!Items : item'[i] # None => item'[i].at \in Nat /\ item'[i].at <= watermark'
      BY <1>1, <1>3, <1>4
  <2>2. owner' \notin {None} => owner' \in Writers /\ drawn'[owner'] >= watermark' + 2
      BY <1>1, <1>6 DEF Allocated
  <2> QED BY <1>1, <1>2, <1>5, <1>6, <2>1, <2>2, RequestsKeep
<1>8. /\ missed \subseteq missed'
      /\ \A i \in Bibles \ missed' : item[i] # None /\ item'[i] = item[i] =>
             FactsOf(item, resource', i) = FactsOf(item, resource, i)
  <2>1. CASE Catalogue!Nothing(w)
    <3>1. request[w].call.kind = "curate" => {} = Catalogue!Rows(request[w].seen) \cap Catalogue!Items
        BY <2>1 DEF Catalogue!Nothing, Catalogue!Rows
    <3>2. Catalogue!Curated(w)
        BY <2>1 DEF Catalogue!Nothing
    <3> QED BY <3>1, <3>2, FactsChange
  <2>2. CASE Catalogue!Aborts(w) \/ Catalogue!Delete(w)
      BY <2>2 DEF Catalogue!Aborts, Catalogue!Delete, Catalogue!tables
  <2> QED BY <2>1, <2>2
<1>9. Sees(item, watermark, resource, missed, client)
    BY DEF CatalogueInv
<1>10. Sees(item', watermark', resource', missed', client)
    BY <1>1, <1>3, <1>4, <1>8, <1>9, StillSees
<1> QED BY <1>1, <1>7, <1>10

(* The job has or takes the allocator, writes and leaves it.               *)
LEMMA JobWrites ==
    ASSUME Catalogue!SyncOK, CatalogueInv,
           \/ Catalogue!Locks \/ Catalogue!EnterLanguages \/ Catalogue!UpsertBibles \/ Catalogue!Link
           \/ Catalogue!SkipsBible \/ Catalogue!JobFails
    PROVE  Allocated' /\ Sees(item', watermark', resource', missed', client')
<1>1. /\ "job" \in Writers /\ "job" \notin Requests /\ None # "job" /\ Allocated /\ JobBounded
      /\ None \notin Requests /\ watermark \in Nat
    BY DEF Writers, Catalogue!SyncOK, CatalogueInv, Allocated
<1>2. request' = request /\ client' = client /\ resource' = resource /\ missed' = missed
    BY DEF Catalogue!Locks, Catalogue!EnterLanguages, Catalogue!UpsertBibles, Catalogue!Link, Catalogue!Commits,
           Catalogue!SkipsBible, Catalogue!JobFails, Catalogue!tables
<1>3. ASSUME owner \in {None, "job"}, owner' \in {None, "job"},
             owner' # None => drawn'[owner'] >= watermark' + 2,
             item' = [i \in Catalogue!Items |-> item'[i]],
             \A i \in Catalogue!Items : item'[i] # None => item'[i].at \in Nat /\ item'[i].at <= watermark',
             watermark' \in Nat, drawn' \in [Writers -> Nat]
      PROVE  Allocated'
  <2>1. \A q \in Requests : request'[q].pc # "held"
      BY <1>1, <1>2, <1>3 DEF Allocated
  <2>2. \A q \in Requests : request'[q].pc \in {"waiting", "held"} => request'[q].call \in Calls
      BY <1>1, <1>2 DEF Allocated
  <2>3. request' \in [Requests -> Writing]
      BY <1>1, <1>2 DEF Allocated
  <2> QED BY <1>1, <1>3, <2>1, <2>2, <2>3 DEF Allocated
<1>4. CASE Catalogue!Locks
  <2>1. /\ owner = None /\ owner' = "job" /\ watermark' = watermark /\ item' = item
        /\ drawn' \in [Writers -> Nat] /\ drawn'["job"] >= watermark + 2
      BY <1>1, <1>4, StampDrawn DEF Catalogue!Locks
  <2>2. Allocated'
      BY <1>1, <1>3, <2>1 DEF Allocated
  <2> QED BY <1>2, <2>1, <2>2 DEF CatalogueInv
<1>5. CASE Catalogue!SkipsBible \/ Catalogue!JobFails
  <2>1. item' = item /\ watermark' = watermark
      BY <1>5 DEF Catalogue!SkipsBible, Catalogue!JobFails, Catalogue!tables
  <2>2. \/ owner = "job" /\ Catalogue!Release("job")
        \/ UNCHANGED <<owner, drawn>>
      BY <1>5 DEF Catalogue!SkipsBible, Catalogue!JobFails, Catalogue!allocator
  <2>3. CASE owner = "job" /\ Catalogue!Release("job")
    <3>1. owner' = None /\ drawn' \in [Writers -> Nat]
        BY <1>1, <2>3 DEF Catalogue!Release, Allocated
    <3> QED BY <1>1, <1>2, <1>3, <2>1, <2>3, <3>1 DEF Allocated, CatalogueInv
  <2>4. CASE UNCHANGED <<owner, drawn>>
    <3>1. Allocated'
        BY <1>1, <1>2, <2>1, <2>4 DEF Allocated
    <3> QED BY <1>2, <2>1, <3>1 DEF CatalogueInv
  <2> QED BY <2>2, <2>3, <2>4
<1>6. CASE Catalogue!EnterLanguages \/ Catalogue!UpsertBibles \/ Catalogue!Link
  <2>1. PICK to : /\ DOMAIN to \subseteq Catalogue!Items /\ owner = "job"
                  /\ Catalogue!Stores("job", to, Catalogue!Differing(to))
    <3>1. CASE Catalogue!EnterLanguages
      <4>1. DOMAIN Catalogue!Entered \subseteq Catalogue!Items
          BY <1>1, <3>1 DEF Catalogue!EnterLanguages, Catalogue!Entered, JobBounded, Catalogue!Items
      <4> QED BY <3>1, <4>1 DEF Catalogue!EnterLanguages, Catalogue!Commits
    <3>2. CASE Catalogue!UpsertBibles
      <4>1. DOMAIN Catalogue!Upserted \subseteq Catalogue!Items
          BY <1>1, <3>2 DEF Catalogue!UpsertBibles, Catalogue!Upserted, JobBounded, Catalogue!Items
      <4> QED BY <3>2, <4>1 DEF Catalogue!UpsertBibles, Catalogue!Commits
    <3>3. CASE Catalogue!Link
      <4>1. Catalogue!Turn \in job.left
          BY <3>3 DEF Catalogue!Link, Catalogue!Turn
      <4>2. DOMAIN Catalogue!Linking \subseteq Catalogue!Items
          BY <1>1, <3>3, <4>1 DEF Catalogue!Link, Catalogue!Linking, JobBounded, Catalogue!Items
      <4> QED BY <3>3, <4>2 DEF Catalogue!Link, Catalogue!Commits
    <3> QED BY <1>6, <3>1, <3>2, <3>3
  <2>2. PICK touched : touched = Catalogue!Differing(to) /\ touched \subseteq DOMAIN to
      BY DEF Catalogue!Differing
  <2>3. /\ item' = [i \in Catalogue!Items |-> item'[i]]
        /\ watermark' \in Nat /\ watermark <= watermark'
        /\ \A i \in Catalogue!Items :
             IF i \in touched
             THEN item'[i].value = to[i] /\ item'[i].at \in watermark + 2 .. watermark'
             ELSE item'[i] = item[i]
        /\ owner' = None /\ drawn' \in [Writers -> Nat]
      BY <1>1, <2>1, <2>2, StampedLater
  <2>4. \A i \in Catalogue!Items : item[i] # None => item[i].at \in Nat /\ item[i].at <= watermark
      BY <1>1 DEF Allocated
  <2>5. Allocated'
    <3>1. \A i \in Catalogue!Items : item'[i] # None => item'[i].at \in Nat /\ item'[i].at <= watermark'
        BY <1>1, <2>3, <2>4
    <3> QED BY <1>1, <1>3, <2>1, <2>3, <3>1
  <2>6. \A i \in Catalogue!Items : \/ item'[i] = None \/ item'[i] = item[i]
                                   \/ item'[i].at \in Nat /\ item'[i].at > watermark
      BY <1>1, <2>3
  <2>7. Sees(item, watermark, resource, missed, client)
      BY DEF CatalogueInv
  <2>8. Sees(item', watermark', resource, missed, client)
      BY <1>1, <2>3, <2>4, <2>6, <2>7, StillSees
  <2> QED BY <1>2, <2>5, <2>8
<1> QED BY <1>4, <1>5, <1>6

(* An answer shows whole milliseconds of a stamp.                          *)
LEMMA WholeStamp ==
    ASSUME NEW at \in Nat
    PROVE  Catalogue!Serialised(at) \in Nat /\ Catalogue!Serialised(at) <= at
<1>1. at % 2 \in 0 .. 1 /\ at % 2 <= at
    OBVIOUS
<1> QED BY <1>1 DEF Catalogue!Serialised

(* The cursor a client takes from an answer is not after the last of it.   *)
LEMMA CursorTaken ==
    ASSUME NEW rows, NEW last \in Nat, \A i \in DOMAIN rows : rows[i].at \in Nat /\ rows[i].at <= last,
           DOMAIN rows # {}
    PROVE  \E n \in Nat : /\ n = Catalogue!Max({Catalogue!Serialised(rows[i].at) : i \in DOMAIN rows})
                          /\ \E c \in DOMAIN rows : n <= rows[c].at
<1>1. PICK T : T = {Catalogue!Serialised(rows[i].at) : i \in DOMAIN rows}
    OBVIOUS
<1>2. \A i \in DOMAIN rows : /\ Catalogue!Serialised(rows[i].at) \in Nat
                             /\ Catalogue!Serialised(rows[i].at) <= rows[i].at
                             /\ Catalogue!Serialised(rows[i].at) <= last
  <2>1. ASSUME NEW i \in DOMAIN rows
        PROVE  /\ Catalogue!Serialised(rows[i].at) \in Nat
               /\ Catalogue!Serialised(rows[i].at) <= rows[i].at
               /\ Catalogue!Serialised(rows[i].at) <= last
    <3>1. PICK at \in Nat : at = rows[i].at /\ at <= last
        OBVIOUS
    <3> QED BY <3>1, WholeStamp
  <2> QED BY <2>1
<1>3. T \subseteq Nat /\ T # {} /\ \A x \in T : x <= last
    BY <1>1, <1>2
<1>4. Catalogue!Max(T) \in T
    BY <1>3, LargestOf
<1>5. PICK c \in DOMAIN rows : Catalogue!Max(T) = Catalogue!Serialised(rows[c].at)
    BY <1>1, <1>4
<1> QED BY <1>1, <1>2, <1>3, <1>4, <1>5

(* An answer that has all rows of a table up to its last, but those that    *)
(* the client has, leaves none out.                                        *)
LEMMA AnswerTaken ==
    ASSUME Catalogue!SyncOK, Allocated, Sees(item, watermark, resource, missed, client), NEW T \in Synchronised,
           NEW rows, DOMAIN rows \subseteq T,
           \A i \in DOMAIN rows : rows[i].at \in Nat /\ rows[i].at <= watermark,
           \A c \in DOMAIN rows, i \in T \ missed : item[i] # None /\ item[i].at <= rows[c].at =>
               IF i \in DOMAIN rows
               THEN rows[i].value = item[i].value /\ rows[i].facts = FactsOf(item, resource, i)
               ELSE item[i].at < client.cursor[T],
           NEW left, NEW has,
           has = [Catalogue!Received(T, rows) EXCEPT !.rows = left]
    PROVE  Sees(item, watermark, resource, missed, has)
<1>1. /\ client = [pc |-> client.pc, rows |-> client.rows, copy |-> client.copy, cursor |-> client.cursor]
      /\ client.cursor \in [Synchronised -> Nat] /\ \A U \in Synchronised : client.cursor[U] <= watermark
      /\ watermark \in Nat
    BY DEF Sees, Allocated
<1>2. PICK copy : copy = [i \in Catalogue!Items |-> IF i \in DOMAIN rows
                                                    THEN [value |-> rows[i].value, facts |-> rows[i].facts]
                                                    ELSE client.copy[i]]
    OBVIOUS
<1>3. PICK n \in Nat :
          /\ n = IF DOMAIN rows = {} THEN client.cursor[T]
                 ELSE Catalogue!Max({Catalogue!Serialised(rows[i].at) : i \in DOMAIN rows})
          /\ n <= watermark
          /\ DOMAIN rows # {} => \E c \in DOMAIN rows : n <= rows[c].at
  <2>1. CASE DOMAIN rows = {}
      BY <1>1, <2>1
  <2>2. CASE DOMAIN rows # {}
    <3>1. PICK m \in Nat : /\ m = Catalogue!Max({Catalogue!Serialised(rows[i].at) : i \in DOMAIN rows})
                           /\ \E c \in DOMAIN rows : m <= rows[c].at
        BY <1>1, <2>2, CursorTaken
    <3>2. m <= watermark
        BY <1>1, <3>1
    <3> QED BY <2>2, <3>1, <3>2
  <2> QED BY <2>1, <2>2
<1>4. PICK cursor \in [Synchronised -> Nat] : cursor = [client.cursor EXCEPT ![T] = n]
    BY <1>1
<1>5. has = [pc |-> "idle", rows |-> left, copy |-> copy, cursor |-> cursor]
  <2>1. Catalogue!Received(T, rows) = [client EXCEPT !.pc = "idle", !.copy = copy, !.cursor = cursor]
      BY Zenon, <1>2, <1>3, <1>4 DEF Catalogue!Received
  <2>2. Catalogue!Received(T, rows) = [pc |-> "idle", rows |-> client.rows, copy |-> copy, cursor |-> cursor]
      BY <1>1, <2>1
  <2> QED BY <2>2
<1>6. has.pc = "idle" /\ has.rows = left /\ has.copy = copy /\ has.cursor = cursor
    BY <1>5
<1>7. ASSUME NEW i \in Catalogue!Items \ missed, item[i] # None, item[i].at < cursor[Catalogue!Table(i)]
      PROVE  copy[i] = [value |-> item[i].value, facts |-> FactsOf(item, resource, i)]
  <2>1. item[i].at \in Nat
      BY <1>7 DEF Allocated
  <2>2. Catalogue!Table(i) \in Synchronised /\ i \in Catalogue!Table(i) /\ (i \in T => Catalogue!Table(i) = T)
      BY TableOf
  <2>3. CASE i \in DOMAIN rows
    <3>1. Catalogue!Table(i) = T /\ cursor[T] = n
        BY <1>4, <2>2, <2>3
    <3>2. PICK c \in DOMAIN rows : n <= rows[c].at
        BY <1>3, <2>3
    <3>3. item[i].at <= rows[c].at
        BY <1>7, <2>1, <3>1, <3>2
    <3>4. rows[i].value = item[i].value /\ rows[i].facts = FactsOf(item, resource, i)
        BY <1>7, <2>3, <3>3
    <3> QED BY <1>2, <2>3, <3>4
  <2>4. CASE i \notin DOMAIN rows
    <3>1. item[i].at < client.cursor[Catalogue!Table(i)]
      <4>1. CASE Catalogue!Table(i) # T \/ DOMAIN rows = {}
          BY <1>1, <1>3, <1>4, <1>7, <2>2, <4>1
      <4>2. CASE Catalogue!Table(i) = T /\ DOMAIN rows # {}
        <5>1. PICK c \in DOMAIN rows : n <= rows[c].at
            BY <1>3, <4>2
        <5>2. cursor[T] = n /\ i \in T
            BY <1>4, <2>2, <4>2
        <5>3. item[i].at <= rows[c].at
            BY <1>7, <2>1, <4>2, <5>1, <5>2
        <5> QED BY <1>7, <2>4, <4>2, <5>2, <5>3
      <4> QED BY <4>1, <4>2
    <3>2. client.copy[i] = [value |-> item[i].value, facts |-> FactsOf(item, resource, i)]
        BY <1>7, <3>1 DEF Sees
    <3> QED BY <1>2, <2>4, <3>2
  <2> QED BY <2>3, <2>4
<1>8. \A U \in Synchronised : cursor[U] <= watermark
    BY <1>1, <1>3, <1>4
<1>9. copy = [i \in Catalogue!Items |-> copy[i]]
    BY <1>2
<1> QED BY <1>5, <1>6, <1>7, <1>8, <1>9 DEF Sees

(* A client reads, in one statement a table, in two the Bibles and then the *)
(* facts that belong to them.                                              *)
LEMMA ClientReads ==
    ASSUME Catalogue!SyncOK, CatalogueInv, Catalogue!Reads
    PROVE  Allocated' /\ Sees(item', watermark', resource', missed', client')
<1>1. /\ UNCHANGED <<item, watermark, resource, missed, owner, drawn, request>>
      /\ Allocated /\ Sees(item, watermark, resource, missed, client)
    BY DEF Catalogue!Reads, Catalogue!Pull, Catalogue!PullBibles, Catalogue!PullFacts, Catalogue!tables,
           Catalogue!allocator, CatalogueInv
<1>2. Allocated'
    BY <1>1 DEF Allocated
<1>3. /\ client = [pc |-> client.pc, rows |-> client.rows, copy |-> client.copy, cursor |-> client.cursor]
      /\ client.cursor \in [Synchronised -> Nat] /\ \A U \in Synchronised : client.cursor[U] <= watermark
      /\ watermark \in Nat /\ \A i \in Catalogue!Items : item[i] # None => item[i].at \in Nat /\ item[i].at <= watermark
    BY <1>1 DEF Sees, Allocated
<1>4. ASSUME NEW T \in {Languages, Codes}, Catalogue!Pull(T)
      PROVE  Sees(item, watermark, resource, missed, client')
  <2>1. PICK rows : rows = [i \in Catalogue!Later(T) |-> [value |-> item[i].value, facts |-> 0, at |-> item[i].at]]
      OBVIOUS
  <2>2. T \in Synchronised /\ T \subseteq Catalogue!Items /\ T \cap Bibles = {}
      BY TableOf DEF Synchronised, Catalogue!SyncOK
  <2>3. /\ DOMAIN rows \subseteq T
        /\ \A i \in DOMAIN rows : item[i] # None /\ rows[i].at = item[i].at /\ rows[i].value = item[i].value
                                  /\ rows[i].facts = 0
        /\ \A i \in T : item[i] # None => i \in DOMAIN rows \/ ~(item[i].at >= client.cursor[T])
      BY <2>1 DEF Catalogue!Later, Catalogue!Rows
  <2>4. \A i \in DOMAIN rows : rows[i].at \in Nat /\ rows[i].at <= watermark
      BY <1>3, <2>2, <2>3
  <2>5. \A i \in T : item[i] # None => i \in DOMAIN rows \/ item[i].at < client.cursor[T]
      BY <1>3, <2>2, <2>3
  <2>6. \A i \in T : FactsOf(item, resource, i) = 0
      BY <2>2 DEF FactsOf
  <2>7. PICK has : has = [Catalogue!Received(T, rows) EXCEPT !.rows = client.rows]
      OBVIOUS
  <2>8. Sees(item, watermark, resource, missed, has)
      BY <1>1, <2>2, <2>3, <2>4, <2>5, <2>6, <2>7, AnswerTaken
  <2>9. client' = Catalogue!Received(T, rows)
      BY <1>4, <2>1 DEF Catalogue!Pull
  <2>10. Catalogue!Received(T, rows) = [Catalogue!Received(T, rows) EXCEPT !.rows = client.rows]
      BY <1>3 DEF Catalogue!Received
  <2> QED BY <2>7, <2>8, <2>9, <2>10
<1>5. ASSUME Catalogue!PullBibles
      PROVE  Sees(item, watermark, resource, missed, client')
  <2>1. PICK rows : rows = [b \in Catalogue!Later(Bibles) |-> item[b]]
      OBVIOUS
  <2>2. client' = [pc |-> "facts", rows |-> rows, copy |-> client.copy, cursor |-> client.cursor]
      BY <1>3, <1>5, <2>1 DEF Catalogue!PullBibles
  <2>3. PICK has : has = client'
      OBVIOUS
  <2>4. has.pc = "facts" /\ has.rows = rows /\ has.copy = client.copy /\ has.cursor = client.cursor
        /\ has = [pc |-> has.pc, rows |-> has.rows, copy |-> has.copy, cursor |-> has.cursor]
      BY <2>2, <2>3
  <2>5. Bibles \subseteq Catalogue!Items /\ Bibles \in Synchronised
      BY DEF Catalogue!Items, Synchronised
  <2>6. /\ DOMAIN rows \subseteq Bibles
        /\ \A i \in DOMAIN rows : item[i] # None /\ rows[i] = item[i]
        /\ \A i \in Bibles : item[i] # None => i \in DOMAIN rows \/ ~(item[i].at >= client.cursor[Bibles])
      BY <2>1 DEF Catalogue!Later, Catalogue!Rows
  <2>7. \A i \in DOMAIN rows : rows[i].at \in Nat /\ rows[i].at <= watermark
      BY <1>3, <2>5, <2>6
  <2>8. \A i \in Bibles : item[i] # None => i \in DOMAIN rows \/ item[i].at < client.cursor[Bibles]
      BY <1>3, <2>5, <2>6
  <2> QED BY <1>1, <2>3, <2>4, <2>6, <2>7, <2>8 DEF Sees
<1>6. ASSUME Catalogue!PullFacts
      PROVE  Sees(item, watermark, resource, missed, client')
  <2>1. PICK rows : rows = [b \in DOMAIN client.rows |-> [value |-> client.rows[b].value,
                                facts |-> Catalogue!Facts(client.rows[b], b), at |-> client.rows[b].at]]
      OBVIOUS
  <2>2. /\ DOMAIN client.rows \subseteq Bibles
        /\ \A c \in DOMAIN client.rows :
              /\ client.rows[c].at \in Nat /\ client.rows[c].at <= watermark
              /\ \A b \in Bibles : item[b] # None /\ item[b].at <= client.rows[c].at =>
                    IF b \in DOMAIN client.rows THEN item[b] = client.rows[b] ELSE item[b].at < client.cursor[Bibles]
      BY <1>1, <1>6 DEF Sees, Catalogue!PullFacts
  <2>3. DOMAIN rows = DOMAIN client.rows
        /\ \A b \in DOMAIN rows : /\ rows[b].value = client.rows[b].value /\ rows[b].at = client.rows[b].at
                                  /\ rows[b].facts = Catalogue!Facts(client.rows[b], b)
      BY <2>1
  <2>4. \A b \in Bibles : item[b] = client.rows[b] =>
            Catalogue!Facts(client.rows[b], b) = FactsOf(item, resource, b)
      BY DEF Catalogue!Facts, FactsOf
  <2>5. client' = [Catalogue!Received(Bibles, rows) EXCEPT !.rows = <<>>]
      BY <1>6, <2>1 DEF Catalogue!PullFacts
  <2>6. Bibles \in Synchronised
      BY DEF Synchronised
  <2>7. \A i \in DOMAIN rows : rows[i].at \in Nat /\ rows[i].at <= watermark
      BY <2>2, <2>3
  <2>8. \A c \in DOMAIN rows, i \in Bibles \ missed : item[i] # None /\ item[i].at <= rows[c].at =>
               IF i \in DOMAIN rows
               THEN rows[i].value = item[i].value /\ rows[i].facts = FactsOf(item, resource, i)
               ELSE item[i].at < client.cursor[Bibles]
      BY <2>2, <2>3, <2>4
  <2>9. PICK has : has = [Catalogue!Received(Bibles, rows) EXCEPT !.rows = <<>>]
      OBVIOUS
  <2>10. DOMAIN rows \subseteq Bibles
      BY <2>2, <2>3
  <2>11. Sees(item, watermark, resource, missed, has)
      BY <1>1, <2>6, <2>7, <2>8, <2>9, <2>10, AnswerTaken
  <2> QED BY <2>5, <2>9, <2>11
<1>7. Sees(item, watermark, resource, missed, client')
    BY <1>4, <1>5, <1>6 DEF Catalogue!Reads
<1> QED BY <1>1, <1>2, <1>7

(* Nothing is there at the start, and no cursor after anything.            *)
LEMMA CatalogueStart ==
    ASSUME Catalogue!SyncOK, Catalogue!Init
    PROVE  CatalogueInv
<1>1. Allocated
  <2>1. request \in [Requests -> Writing]
      BY DEF Catalogue!Init, Writing
  <2>2. drawn \in [Writers -> Nat]
      BY DEF Catalogue!Init, Writers
  <2>3. \A i \in Catalogue!Items : item[i] = None
      BY DEF Catalogue!Init
  <2>4. item = [i \in Catalogue!Items |-> item[i]]
      BY DEF Catalogue!Init
  <2>5. watermark \in Nat /\ owner = None /\ \A w \in Requests : request[w].pc = "idle"
      BY DEF Catalogue!Init
  <2> QED BY <2>1, <2>2, <2>3, <2>4, <2>5 DEF Allocated
<1>2. JobBounded
    BY DEF Catalogue!Init, Catalogue!Attempt, JobBounded, Catalogue!SyncOK
<1>3. Sees(item, watermark, resource, missed, client)
  <2>1. client.cursor = [T \in Synchronised |-> 0] /\ client.pc = "idle" /\ watermark = 1
      /\ client = [pc |-> client.pc, rows |-> client.rows, copy |-> client.copy, cursor |-> client.cursor]
      /\ client.copy = [i \in Catalogue!Items |-> client.copy[i]]
      BY DEF Catalogue!Init, Synchronised
  <2>2. \A i \in Catalogue!Items : item[i] = None
      BY DEF Catalogue!Init
  <2> QED BY <2>1, <2>2 DEF Sees
<1> QED BY <1>1, <1>2, <1>3 DEF CatalogueInv

(* The steps of the requests, the sync and the clients.                    *)
LEMMA CatalogueStep ==
    ASSUME Catalogue!SyncOK, CatalogueInv, [Catalogue!Next]_Catalogue!vars
    PROVE  CatalogueInv'
<1>1. JobBounded'
    BY JobStaysBounded DEF CatalogueInv
<1>2. Allocated' /\ Sees(item', watermark', resource', missed', client')
  <2>1. CASE UNCHANGED <<item, watermark, resource, missed, client, owner, drawn, request>>
      BY <2>1 DEF CatalogueInv, Allocated
  <2>2. CASE UNCHANGED Catalogue!vars
      BY <2>1, <2>2 DEF Catalogue!vars, Catalogue!tables, Catalogue!allocator
  <2>3. CASE \/ Catalogue!FetchLanguages \/ Catalogue!FetchBibles \/ Catalogue!FetchBooks \/ Catalogue!FetchAudio
             \/ Catalogue!BooksEnd \/ Catalogue!AudioEnds \/ Catalogue!Shelve \/ Catalogue!SyncAgain \/ Catalogue!Publish
      BY <2>1, <2>3 DEF Catalogue!FetchLanguages, Catalogue!FetchBibles, Catalogue!FetchBooks, Catalogue!FetchAudio,
                        Catalogue!BooksEnd, Catalogue!AudioEnds, Catalogue!StepEnds, Catalogue!Shelve,
                        Catalogue!SyncAgain, Catalogue!Publish, Catalogue!tables, Catalogue!allocator
  <2>4. CASE Catalogue!Writes
      BY <2>4, RequestWaits, RequestWrites, RequestStops DEF Catalogue!Writes
  <2>5. CASE \/ Catalogue!Locks \/ Catalogue!EnterLanguages \/ Catalogue!UpsertBibles \/ Catalogue!Link
             \/ Catalogue!SkipsBible \/ Catalogue!JobFails
      BY <2>5, JobWrites
  <2>6. CASE Catalogue!Reads
      BY <2>6, ClientReads
  <2> QED BY <2>2, <2>3, <2>4, <2>5, <2>6 DEF Catalogue!Next, Catalogue!Syncs
<1> QED BY <1>1, <1>2 DEF CatalogueInv

(* What a client will not ask for again it has as it is                    *)
(* (updated-after-query.ts, catalogue-watermark.md).                       *)
THEOREM ClientsSkipNothing ==
    ASSUME Catalogue!SyncOK
    PROVE  Catalogue!Spec => []Catalogue!NothingSkipped
<1>1. Catalogue!Init => CatalogueInv
    BY CatalogueStart
<1>2. CatalogueInv /\ [Catalogue!Next]_Catalogue!vars => CatalogueInv'
    BY CatalogueStep
<1>3. CatalogueInv => Catalogue!NothingSkipped
    BY DEF CatalogueInv, Sees, FactsOf, Catalogue!NothingSkipped, Catalogue!Shown, Catalogue!Linked
<1> QED BY <1>1, <1>2, <1>3, PTL DEF Catalogue!Spec

(* The names of the catalogue and the recordings of its books.             *)

(* What None stands for is no row.                                         *)
NoneIsNoRow == \A value, at : [value |-> value, at |-> at] # None

Editions(b, last) == {k \in 1 .. last : Published[k][b] # None}

(* What a statement has found is what its call is about.                   *)
FoundRows ==
    \A w \in Requests :
        /\ request[w].pc = "idle" => request[w].call = None
        /\ request[w].pc \in {"waiting", "held"} =>
              IF request[w].call.kind = "curate" THEN request[w].seen \subseteq Bibles
              ELSE request[w].seen \subseteq {request[w].call.of}
        /\ request[w].pc = "held" => request[w].seen # {}

(* Books with a recording are of a Bible that is there, in a version that   *)
(* listed them; if the Bible has none now, a version had none or a request  *)
(* has marked it so.                                                       *)
BibleRow(own) ==
    own.value = [name |-> own.value.name, audio |-> own.value.audio, link |-> own.value.link]
Shelved(rows, shelves, last, marked) ==
    /\ \A b \in Bibles : rows[b] # None => BibleRow(rows[b])
    /\ shelves \in [Bibles -> [Codes -> {"none", "silent", "audio"}]]
    /\ \A b \in Bibles, c \in Codes :
          /\ shelves[b][c] # "none" => rows[b] # None
          /\ shelves[b][c] = "audio" =>
                /\ \E k \in Editions(b, last) : c \in Catalogue!Listed(k, b)
                /\ ~rows[b].value.audio =>
                      b \in marked \/ \E k \in Editions(b, last) : Catalogue!Listed(k, b) = {}

(* What the job has heard and not yet written was said by a version, and    *)
(* the names it has read are those that are there, but for what a request   *)
(* has given since.                                                        *)
Answered(rows, shelves, last, given, marked, step, heard, left) ==
    /\ step = "upsert" =>
          \A b \in DOMAIN heard :
              /\ Editions(b, last) # {}
              /\ ~heard[b].audio => \E k \in Editions(b, last) : Catalogue!Listed(k, b) = {}
              /\ rows[b] # None => heard[b].name = rows[b].value.name \/ b \in given
    /\ step = "shelve" =>
          \A b \in left :
              /\ \/ \E k \in Editions(b, last) : heard[b] = Catalogue!Listed(k, b)
                 \/ heard[b] = {} /\ (b \in marked \/ \A c \in Codes : shelves[b][c] # "audio")
              /\ heard[b] # {} /\ rows[b] # None /\ (\E c \in Codes : shelves[b][c] # "none") =>
                    rows[b].value.audio \/ b \in marked

AudioInv ==
    /\ CatalogueInv /\ FoundRows /\ Shelved(item, shelf, published, hushed)
    /\ Answered(item, shelf, published, named, hushed, job.step, job.heard, job.left)

(* What a step may make of the row of a Bible.                             *)
Turned(b) ==
    \/ item'[b] = item[b] /\ (b \in hushed => b \in hushed')
    \/ /\ shelf' = shelf /\ job' = job /\ hushed \subseteq hushed' /\ named \subseteq named'
       /\ \/ item'[b] = None /\ \A c \in Codes : shelf[b][c] = "none"
          \/ item[b] = None /\ item'[b] # None /\ BibleRow(item'[b]) /\ b \in named'
          \/ /\ item[b] # None /\ item'[b] # None /\ BibleRow(item'[b])
             /\ ~item'[b].value.audio => ~item[b].value.audio \/ b \in hushed'
             /\ \/ item'[b].value.name = item[b].value.name
                \/ b \in named' /\ \E w \in Requests : Catalogue!Renames(w, b)
    \/ /\ shelf' = shelf /\ owner = "job" /\ job.step = "upsert" /\ job'.step = "books" /\ b \in DOMAIN job.heard
       /\ item'[b] # None /\ BibleRow(item'[b])
       /\ item'[b].value.name = job.heard[b].name /\ item'[b].value.audio = job.heard[b].audio

(* What a statement has found stays so.                                    *)
LEMMA CallsStay ==
    ASSUME Catalogue!SyncOK, CatalogueInv, FoundRows, [Catalogue!Next]_Catalogue!vars
    PROVE  FoundRows'
<1>1. request \in [Requests -> Writing] /\ None \notin Calls
    BY DEF CatalogueInv, Allocated, Catalogue!SyncOK
<1>2. CASE request' = request
    BY <1>2 DEF FoundRows
<1>3. ASSUME NEW w \in Requests, NEW pc, request' = [request EXCEPT ![w].pc = pc],
             \/ pc = "done"
             \/ pc = "held" /\ request[w].pc = "waiting" /\ request[w].seen # {}
      PROVE  FoundRows'
  <2>1. PICK y \in Writing : y = request[w]
      BY <1>1
  <2>2. /\ [y EXCEPT !.pc = pc].pc = pc /\ [y EXCEPT !.pc = pc].call = y.call /\ [y EXCEPT !.pc = pc].seen = y.seen
      BY DEF Writing
  <2>3. /\ request'[w].pc = pc /\ request'[w].call = request[w].call /\ request'[w].seen = request[w].seen
        /\ \A q \in Requests \ {w} : request'[q] = request[q]
      BY <1>1, <1>3, <2>1, <2>2
  <2> QED BY <1>3, <2>3 DEF FoundRows
<1>4. ASSUME NEW w \in Requests, Catalogue!Begin(w)
      PROVE  FoundRows'
  <2>1. PICK call \in Calls :
            request' = [request EXCEPT ![w] = [pc |-> "waiting", call |-> call, seen |-> Catalogue!Found(call)]]
      BY <1>4 DEF Catalogue!Begin
  <2>2. PICK seen : seen = Catalogue!Found(call)
      OBVIOUS
  <2>3. /\ request'[w].pc = "waiting" /\ request'[w].call = call /\ request'[w].seen = seen
        /\ \A q \in Requests \ {w} : request'[q] = request[q]
      BY <1>1, <2>1, <2>2
  <2>4. IF call.kind = "curate" THEN seen \subseteq Bibles ELSE seen \subseteq {call.of}
      BY <2>2 DEF Catalogue!Found, Catalogue!Rows
  <2>5. request[w].call = None
      BY <1>4 DEF Catalogue!Begin, FoundRows
  <2> QED BY <2>3, <2>4, <2>5 DEF FoundRows
<1>5. CASE Catalogue!Writes
  <2>1. PICK w \in Requests : \/ Catalogue!Begin(w) \/ Catalogue!Nothing(w) \/ Catalogue!Hold(w)
                              \/ Catalogue!Write(w) \/ Catalogue!Aborts(w) \/ Catalogue!Delete(w)
      BY <1>5 DEF Catalogue!Writes
  <2> QED BY <1>3, <1>4, <2>1 DEF Catalogue!Nothing, Catalogue!Hold, Catalogue!Write, Catalogue!Aborts,
                                  Catalogue!Delete, Catalogue!Ends
<1>6. request' = request \/ Catalogue!Writes
    BY DEF Catalogue!Next, Catalogue!Syncs, Catalogue!Reads, Catalogue!vars, Catalogue!FetchLanguages,
           Catalogue!EnterLanguages, Catalogue!FetchBibles, Catalogue!UpsertBibles, Catalogue!FetchBooks,
           Catalogue!Link, Catalogue!BooksEnd, Catalogue!FetchAudio, Catalogue!Shelve, Catalogue!AudioEnds,
           Catalogue!Locks, Catalogue!SkipsBible, Catalogue!JobFails, Catalogue!SyncAgain, Catalogue!StepEnds,
           Catalogue!Commits, Catalogue!Pull, Catalogue!PullBibles, Catalogue!PullFacts, Catalogue!Publish
<1> QED BY <1>2, <1>5, <1>6

(* The rows of a statement have what it writes, the others stay.           *)
LEMMA StampedRows ==
    ASSUME NoneIsNoRow, NEW w, NEW to, NEW touched, Catalogue!Stores(w, to, touched)
    PROVE  \A i \in Catalogue!Items : IF i \in touched THEN item'[i] # None /\ item'[i].value = to[i]
                                      ELSE item'[i] = item[i]
<1>1. ASSUME NEW i \in Catalogue!Items, i \in touched
      PROVE  item'[i] # None /\ item'[i].value = to[i]
  <2>1. PICK at : item'[i] = [value |-> to[i], at |-> at]
      BY <1>1 DEF Catalogue!Stores, Catalogue!Stamped
  <2> QED BY <2>1 DEF NoneIsNoRow
<1>2. \A i \in Catalogue!Items : i \notin touched => item'[i] = item[i]
    BY DEF Catalogue!Stores, Catalogue!Stamped
<1> QED BY <1>1, <1>2

(* A request makes of the row of a Bible what it asks for.                 *)
LEMMA RequestTurns ==
    ASSUME Catalogue!SyncOK, NoneIsNoRow, CatalogueInv, FoundRows, Shelved(item, shelf, published, hushed),
           NEW w \in Requests, Catalogue!Write(w) \/ Catalogue!Delete(w), NEW b \in Bibles
    PROVE  Turned(b)
<1>1. PICK call \in Calls : call = request[w].call /\ call # None
    BY DEF CatalogueInv, Allocated, Catalogue!Write, Catalogue!Delete, Catalogue!SyncOK
<1>2. /\ shelf' = shelf /\ job' = job /\ b \in Catalogue!Items
      /\ hushed \subseteq hushed' /\ named \subseteq named'
    BY DEF Catalogue!Write, Catalogue!Delete, Catalogue!Items
<1>3. CASE Catalogue!Delete(w)
  <2>1. CASE item' = item
      BY <1>2, <2>1 DEF Turned
  <2>2. CASE item' # item
    <3>1. item' = [item EXCEPT ![call.of] = None] /\ \A c \in Codes : shelf[call.of][c] = "none"
        BY <1>1, <1>3, <2>2 DEF Catalogue!Delete
    <3>2. CASE b = call.of
      <4>1. item'[b] = None
          BY <1>2, <3>1, <3>2 DEF CatalogueInv, Allocated
      <4> QED BY <1>2, <3>1, <3>2, <4>1 DEF Turned
    <3>3. CASE b # call.of
      <4>1. item'[b] = item[b]
          BY <1>2, <3>1, <3>3 DEF CatalogueInv, Allocated
      <4> QED BY <1>2, <4>1 DEF Turned
    <3> QED BY <3>2, <3>3
  <2> QED BY <2>1, <2>2
<1>4. CASE Catalogue!Write(w)
  <2>1. PICK to, touched : to = Catalogue!Changed(w) /\ touched = Catalogue!Touched(w)
      OBVIOUS
  <2>2. IF b \in touched THEN item'[b] # None /\ item'[b].value = to[b] ELSE item'[b] = item[b]
      BY <1>2, <1>4, <2>1, StampedRows DEF Catalogue!Write
  <2>3. CASE b \notin touched
      BY <1>2, <2>2, <2>3 DEF Turned
  <2>4. CASE b \in touched
    <3>1. touched \subseteq DOMAIN to /\ request[w].pc = "held" /\ call.kind # "delete"
        BY <1>1, <1>4, <2>1, ChangedRows DEF Catalogue!Write, CatalogueInv, Allocated
    <3>2. CASE call.kind = "create"
      <4>1. to = [a \in {call.of} |-> [name |-> call.name, audio |-> FALSE, link |-> FALSE]]
            /\ call.of \notin Catalogue!Rows(Bibles)
          BY <1>1, <1>4, <2>1, <3>2 DEF Catalogue!Changed, Catalogue!Write, Catalogue!Allowed
      <4>2. b = call.of /\ to[b] = [name |-> call.name, audio |-> FALSE, link |-> FALSE]
          BY <2>4, <3>1, <4>1
      <4>3. item[b] = None
          BY <4>1, <4>2 DEF Catalogue!Rows
      <4>4. b \in named'
          BY <1>1, <1>4, <3>2, <4>2 DEF Catalogue!Write, Catalogue!About
      <4>5. BibleRow(item'[b])
          BY <2>2, <2>4, <4>2 DEF BibleRow
      <4> QED BY <1>2, <2>2, <2>4, <4>3, <4>4, <4>5 DEF Turned
    <3>3. CASE call.kind = "language"
      <4>1. DOMAIN to = {call.of} /\ call.of \in Languages
          BY <1>1, <2>1, <3>1, <3>3, ChangedRows DEF Catalogue!SyncOK, CatalogueInv
      <4> QED BY <2>4, <3>1, <4>1 DEF Catalogue!SyncOK
    <3>4. CASE call.kind \notin {"create", "language"}
      <4>1. b \in Catalogue!Rows(request[w].seen)
          BY <1>1, <2>1, <2>4, <3>1, <3>4, ChangedRows DEF CatalogueInv
      <4>2. item[b] # None /\ b \in request[w].seen
          BY <4>1 DEF Catalogue!Rows
      <4>3. call.kind \in {"rename", "audio", "silent", "link", "curate"}
          BY <1>1, <3>1, <3>4, <4>2 DEF FoundRows, Catalogue!SyncOK
      <4>4. call.kind # "curate" => call.of = b
          BY <1>1, <3>1, <4>2 DEF FoundRows
      <4>5. PICK value : value = item[b].value /\ value = [name |-> value.name, audio |-> value.audio, link |-> value.link]
          BY <4>2 DEF Shelved, BibleRow
      <4>6. \/ call.kind = "rename" /\ to[b] = [value EXCEPT !.name = call.name]
            \/ call.kind = "audio" /\ to[b] = [value EXCEPT !.audio = TRUE]
            \/ call.kind = "silent" /\ to[b] = [value EXCEPT !.audio = FALSE]
            \/ call.kind = "link" /\ to[b] = [value EXCEPT !.link = TRUE]
            \/ call.kind = "curate" /\ to[b] = value
          BY <1>1, <2>1, <4>1, <4>3, <4>5 DEF Catalogue!Changed
      <4>7. /\ to[b] = [name |-> to[b].name, audio |-> to[b].audio, link |-> to[b].link]
            /\ to[b].name = value.name \/ (call.kind = "rename" /\ to[b].name = call.name)
            /\ to[b].audio = value.audio \/ to[b].audio = TRUE \/ call.kind = "silent"
          BY <4>5, <4>6
      <4>8. BibleRow(item'[b])
          BY <2>2, <2>4, <4>7 DEF BibleRow
      <4>9. \/ item'[b].value.name = item[b].value.name
            \/ b \in named' /\ \E v \in Requests : Catalogue!Renames(v, b)
        <5>1. CASE to[b].name = value.name
            BY <2>2, <2>4, <4>5, <5>1
        <5>2. CASE call.kind = "rename" /\ to[b].name = call.name
          <6>1. b \in named'
              BY <1>1, <1>4, <4>4, <5>2 DEF Catalogue!Write, Catalogue!About
          <6>2. request'[w].pc = "done"
              BY <1>4, StatementEnds DEF Catalogue!Write, CatalogueInv, Allocated
          <6>3. Catalogue!Renames(w, b)
              BY <1>1, <2>2, <2>4, <3>1, <4>4, <5>2, <6>2 DEF Catalogue!Renames
          <6> QED BY <6>1, <6>3
        <5> QED BY <4>7, <5>1, <5>2
      <4>10. ~item'[b].value.audio => ~item[b].value.audio \/ b \in hushed'
        <5>1. call.kind = "silent" => b \in hushed'
            BY <1>1, <1>4, <4>4 DEF Catalogue!Write, Catalogue!About
        <5> QED BY <2>2, <2>4, <4>5, <4>7, <5>1
      <4> QED BY <1>2, <2>2, <2>4, <4>2, <4>8, <4>9, <4>10 DEF Turned
    <3> QED BY <3>2, <3>3, <3>4
  <2> QED BY <2>3, <2>4
<1> QED BY <1>3, <1>4

(* The job makes of the row of a Bible what it has heard.                  *)
LEMMA JobTurns ==
    ASSUME Catalogue!SyncOK, NoneIsNoRow, CatalogueInv, Shelved(item, shelf, published, hushed), NEW b \in Bibles,
           Catalogue!EnterLanguages \/ Catalogue!UpsertBibles \/ Catalogue!Link
    PROVE  Turned(b) /\ (item'[b] = item[b] \/ Catalogue!UpsertBibles)
<1>1. b \in Catalogue!Items /\ b \notin Languages /\ b \notin Codes /\ JobBounded
    BY DEF Catalogue!Items, Catalogue!SyncOK, CatalogueInv
<1>2. CASE Catalogue!EnterLanguages
  <2>1. b \notin Catalogue!Differing(Catalogue!Entered)
      BY <1>1, <1>2 DEF Catalogue!EnterLanguages, Catalogue!Differing, Catalogue!Entered, JobBounded
  <2>2. item'[b] = item[b]
      BY <1>1, <1>2, <2>1, StampedRows DEF Catalogue!EnterLanguages, Catalogue!Commits
  <2> QED BY <1>2, <2>2 DEF Turned, Catalogue!EnterLanguages
<1>3. CASE Catalogue!Link
  <2>1. b \notin Catalogue!Differing(Catalogue!Linking)
    <3>1. Catalogue!Turn \in job.left
        BY <1>3 DEF Catalogue!Link, Catalogue!Turn
    <3>2. DOMAIN Catalogue!Linking \subseteq Codes
        BY <1>1, <1>3, <3>1 DEF Catalogue!Link, Catalogue!Linking, JobBounded
    <3> QED BY <1>1, <3>2 DEF Catalogue!Differing
  <2>2. item'[b] = item[b]
      BY <1>1, <1>3, <2>1, StampedRows DEF Catalogue!Link, Catalogue!Commits
  <2> QED BY <1>3, <2>2 DEF Turned, Catalogue!Link
<1>4. CASE Catalogue!UpsertBibles
  <2>1. PICK to, touched : to = Catalogue!Upserted /\ touched = Catalogue!Differing(to)
      OBVIOUS
  <2>2. IF b \in touched THEN item'[b] # None /\ item'[b].value = to[b] ELSE item'[b] = item[b]
      BY <1>1, <1>4, <2>1, StampedRows DEF Catalogue!UpsertBibles, Catalogue!Commits
  <2>3. CASE b \notin DOMAIN job.heard
    <3>1. b \notin touched
        BY <2>1, <2>3 DEF Catalogue!Differing, Catalogue!Upserted
    <3> QED BY <1>4, <2>2, <2>3, <3>1 DEF Turned, Catalogue!UpsertBibles
  <2>4. CASE b \in DOMAIN job.heard
    <3>1. item'[b] # None /\ item'[b].value = to[b]
        BY <2>1, <2>2, <2>4 DEF Catalogue!Differing, Catalogue!Upserted
    <3>2. PICK link : to[b] = [name |-> job.heard[b].name, audio |-> job.heard[b].audio, link |-> link]
        BY <2>1, <2>4 DEF Catalogue!Upserted
    <3>3. BibleRow(item'[b]) /\ item'[b].value.name = job.heard[b].name /\ item'[b].value.audio = job.heard[b].audio
        BY <3>1, <3>2 DEF BibleRow
    <3>4. shelf' = shelf /\ owner = "job" /\ job.step = "upsert" /\ job'.step = "books"
        BY <1>1, <1>4 DEF Catalogue!UpsertBibles, Catalogue!Commits, JobBounded
    <3> QED BY <1>4, <2>4, <3>1, <3>3, <3>4 DEF Turned
  <2> QED BY <2>3, <2>4
<1> QED BY <1>2, <1>3, <1>4

(* What the row of a Bible may become in a step.                           *)
LEMMA BiblesTurn ==
    ASSUME Catalogue!SyncOK, NoneIsNoRow, CatalogueInv, FoundRows, Shelved(item, shelf, published, hushed),
           [Catalogue!Next]_Catalogue!vars, NEW b \in Bibles
    PROVE  Turned(b)
<1>1. CASE item' = item /\ hushed' = hushed
    BY <1>1 DEF Turned
<1>2. \/ (item' = item /\ hushed' = hushed) \/ Catalogue!EnterLanguages \/ Catalogue!UpsertBibles \/ Catalogue!Link
      \/ \E w \in Requests : Catalogue!Write(w) \/ Catalogue!Delete(w)
    BY DEF Catalogue!Next, Catalogue!Syncs, Catalogue!Reads, Catalogue!Writes, Catalogue!vars, Catalogue!tables,
           Catalogue!Begin, Catalogue!Nothing, Catalogue!Hold, Catalogue!Aborts, Catalogue!FetchLanguages,
           Catalogue!FetchBibles, Catalogue!FetchBooks, Catalogue!BooksEnd, Catalogue!FetchAudio, Catalogue!Shelve,
           Catalogue!AudioEnds, Catalogue!Locks, Catalogue!SkipsBible, Catalogue!JobFails, Catalogue!SyncAgain,
           Catalogue!StepEnds, Catalogue!Pull, Catalogue!PullBibles, Catalogue!PullFacts, Catalogue!Publish
<1> QED BY <1>1, <1>2, RequestTurns, JobTurns

(* A book is linked without a recording, and gets or loses one by what has *)
(* been heard.                                                             *)
LEMMA ShelvesTurn ==
    ASSUME Catalogue!SyncOK, NoneIsNoRow, CatalogueInv, FoundRows, Shelved(item, shelf, published, hushed),
           [Catalogue!Next]_Catalogue!vars
    PROVE  /\ shelf' \in [Bibles -> [Codes -> {"none", "silent", "audio"}]]
           /\ \/ shelf' = shelf
              \/ /\ \A b \in Bibles : item'[b] = item[b]
                 /\ \A b \in Bibles, c \in Codes :
                      \/ shelf'[b][c] = shelf[b][c]
                      \/ shelf[b][c] = "none" /\ shelf'[b][c] = "silent" /\ item[b] # None
                      \/ /\ Catalogue!Shelve /\ b \in job.left /\ b = Catalogue!Turn /\ shelf[b][c] # "none"
                         /\ shelf'[b][c] = IF c \in job.heard[b] THEN "audio" ELSE "silent"
                 /\ Catalogue!Shelve \/ Catalogue!Link
<1>1. shelf \in [Bibles -> [Codes -> {"none", "silent", "audio"}]]
    BY DEF Shelved
<1>2. CASE Catalogue!Link
  <2>1. PICK turn \in Bibles : turn = Catalogue!Turn /\ turn \in job.left
    <3>1. Catalogue!Turn \in job.left
        BY <1>2 DEF Catalogue!Link, Catalogue!Turn
    <3> QED BY <1>2, <3>1 DEF Catalogue!Link, CatalogueInv, JobBounded
  <2>2. PICK books \in [Codes -> {"none", "silent", "audio"}] :
            books = [c \in Codes |-> IF shelf[turn][c] = "none" /\ c \in job.heard[turn] THEN "silent" ELSE shelf[turn][c]]
      BY <1>1
  <2>3. shelf' = [shelf EXCEPT ![turn] = books] /\ item[turn] # None
      BY <1>2, <2>1, <2>2 DEF Catalogue!Link
  <2>4. \A b \in Bibles : item'[b] = item[b]
    <3>1. ASSUME NEW b \in Bibles
          PROVE  item'[b] = item[b]
        BY <1>2, JobTurns DEF Catalogue!Link, Catalogue!UpsertBibles
    <3> QED BY <3>1
  <2>5. \A b \in Bibles, c \in Codes :
            shelf'[b][c] = shelf[b][c] \/ (shelf[b][c] = "none" /\ shelf'[b][c] = "silent" /\ item[b] # None)
      BY <1>1, <2>2, <2>3
  <2>6. shelf' \in [Bibles -> [Codes -> {"none", "silent", "audio"}]]
      BY <1>1, <2>3
  <2> QED BY <1>2, <2>4, <2>5, <2>6
<1>3. CASE Catalogue!Shelve
  <2>1. PICK turn \in Bibles : turn = Catalogue!Turn /\ turn \in job.left
    <3>1. Catalogue!Turn \in job.left
        BY <1>3 DEF Catalogue!Shelve, Catalogue!Turn
    <3> QED BY <1>3, <3>1 DEF Catalogue!Shelve, CatalogueInv, JobBounded
  <2>2. PICK books \in [Codes -> {"none", "silent", "audio"}] :
            books = [c \in Codes |-> IF shelf[turn][c] = "none" THEN "none"
                                     ELSE IF c \in job.heard[turn] THEN "audio" ELSE "silent"]
      BY <1>1
  <2>3. shelf' = [shelf EXCEPT ![turn] = books] /\ item' = item
      BY <1>3, <2>1, <2>2 DEF Catalogue!Shelve
  <2>4. \A b \in Bibles, c \in Codes :
            \/ shelf'[b][c] = shelf[b][c]
            \/ /\ b = turn /\ shelf[b][c] # "none"
               /\ shelf'[b][c] = IF c \in job.heard[b] THEN "audio" ELSE "silent"
      BY <1>1, <2>2, <2>3
  <2>5. shelf' \in [Bibles -> [Codes -> {"none", "silent", "audio"}]]
      BY <1>1, <2>3
  <2> QED BY <1>3, <2>1, <2>3, <2>4, <2>5
<1>4. shelf' = shelf \/ Catalogue!Link \/ Catalogue!Shelve
    BY DEF Catalogue!Next, Catalogue!Syncs, Catalogue!Reads, Catalogue!Writes, Catalogue!vars, Catalogue!tables,
           Catalogue!Begin, Catalogue!Nothing, Catalogue!Hold, Catalogue!Write, Catalogue!Aborts, Catalogue!Delete,
           Catalogue!FetchLanguages, Catalogue!EnterLanguages, Catalogue!FetchBibles, Catalogue!UpsertBibles,
           Catalogue!FetchBooks, Catalogue!BooksEnd, Catalogue!FetchAudio, Catalogue!AudioEnds, Catalogue!Locks,
           Catalogue!SkipsBible, Catalogue!JobFails, Catalogue!SyncAgain, Catalogue!StepEnds, Catalogue!Pull,
           Catalogue!PullBibles, Catalogue!PullFacts, Catalogue!Publish
<1> QED BY <1>1, <1>2, <1>3, <1>4

(* What is known of the requests since the job last read or wrote.          *)
LEMMA HistoriesGrow ==
    ASSUME Catalogue!SyncOK, CatalogueInv, [Catalogue!Next]_Catalogue!vars
    PROVE  /\ named \subseteq named' \/ Catalogue!FetchBibles
           /\ hushed \subseteq hushed' \/ Catalogue!UpsertBibles
<1>1. \/ (named' = named /\ hushed' = hushed) \/ Catalogue!FetchBibles \/ Catalogue!UpsertBibles
      \/ \E w \in Requests : Catalogue!Write(w)
    BY DEF Catalogue!Next, Catalogue!Syncs, Catalogue!Reads, Catalogue!Writes, Catalogue!vars, Catalogue!tables,
           Catalogue!Begin, Catalogue!Nothing, Catalogue!Hold, Catalogue!Aborts, Catalogue!Delete,
           Catalogue!FetchLanguages, Catalogue!EnterLanguages, Catalogue!FetchBooks, Catalogue!Link, Catalogue!Shelve,
           Catalogue!BooksEnd, Catalogue!FetchAudio, Catalogue!AudioEnds, Catalogue!Locks, Catalogue!SkipsBible,
           Catalogue!JobFails, Catalogue!SyncAgain, Catalogue!StepEnds, Catalogue!Commits, Catalogue!Pull,
           Catalogue!PullBibles, Catalogue!PullFacts, Catalogue!Publish
<1>2. Catalogue!UpsertBibles => named' = named
    BY DEF Catalogue!UpsertBibles, Catalogue!Commits
<1>3. Catalogue!FetchBibles => hushed' = hushed
    BY DEF Catalogue!FetchBibles
<1>4. ASSUME NEW w \in Requests, Catalogue!Write(w)
      PROVE  named \subseteq named' /\ hushed \subseteq hushed'
    BY <1>4 DEF Catalogue!Write
<1> QED BY <1>1, <1>2, <1>3, <1>4

(* Versions are only added.                                                *)
LEMMA EditionsStay ==
    ASSUME Catalogue!SyncOK, CatalogueInv, [Catalogue!Next]_Catalogue!vars
    PROVE  \A b : Editions(b, published) \subseteq Editions(b, published')
<1>1. published \in Nat
    BY DEF CatalogueInv, JobBounded, Catalogue!SyncOK
<1>2. CASE Catalogue!Syncs
    BY <1>2 DEF Catalogue!Syncs, Catalogue!FetchLanguages, Catalogue!EnterLanguages, Catalogue!FetchBibles,
                Catalogue!UpsertBibles, Catalogue!FetchBooks, Catalogue!Link, Catalogue!Shelve, Catalogue!BooksEnd,
                Catalogue!FetchAudio, Catalogue!AudioEnds, Catalogue!Locks, Catalogue!SkipsBible,
                Catalogue!JobFails, Catalogue!SyncAgain, Catalogue!StepEnds, Catalogue!Commits
<1>3. CASE Catalogue!Reads \/ Catalogue!Writes \/ UNCHANGED Catalogue!vars
    BY <1>3 DEF Catalogue!Reads, Catalogue!Writes, Catalogue!vars, Catalogue!Begin, Catalogue!Nothing,
                Catalogue!Hold, Catalogue!Write, Catalogue!Aborts, Catalogue!Delete, Catalogue!Pull,
                Catalogue!PullBibles, Catalogue!PullFacts
<1>4. CASE Catalogue!Publish
    BY <1>1, <1>4 DEF Catalogue!Publish, Editions
<1> QED BY <1>2, <1>3, <1>4 DEF Catalogue!Next

(* The shelves stay in order in every step.                                *)
LEMMA ShelvedStays ==
    ASSUME Catalogue!SyncOK, NoneIsNoRow, AudioInv, [Catalogue!Next]_Catalogue!vars
    PROVE  Shelved(item', shelf', published', hushed')
<1>1. /\ CatalogueInv /\ FoundRows /\ Shelved(item, shelf, published, hushed)
      /\ Answered(item, shelf, published, named, hushed, job.step, job.heard, job.left)
    BY DEF AudioInv
<1>2. \A b : Editions(b, published) \subseteq Editions(b, published')
    BY <1>1, EditionsStay
<1>3. ASSUME NEW b \in Bibles
      PROVE  Turned(b)
    BY <1>1, BiblesTurn
<1>4. \A b \in Bibles : item'[b] # None => BibleRow(item'[b])
    BY <1>1, <1>3 DEF Shelved, Turned
<1>5. /\ shelf' \in [Bibles -> [Codes -> {"none", "silent", "audio"}]]
      /\ \/ shelf' = shelf
         \/ /\ \A b \in Bibles : item'[b] = item[b]
            /\ \A b \in Bibles, c \in Codes :
                 \/ shelf'[b][c] = shelf[b][c]
                 \/ shelf[b][c] = "none" /\ shelf'[b][c] = "silent" /\ item[b] # None
                 \/ /\ Catalogue!Shelve /\ b \in job.left /\ b = Catalogue!Turn /\ shelf[b][c] # "none"
                    /\ shelf'[b][c] = IF c \in job.heard[b] THEN "audio" ELSE "silent"
            /\ Catalogue!Shelve \/ Catalogue!Link
    BY <1>1, ShelvesTurn
<1>6. ASSUME NEW b \in Bibles, NEW c \in Codes, shelf'[b][c] # "none"
      PROVE  item'[b] # None
  <2>1. CASE shelf' = shelf
      BY <1>1, <1>3, <1>6, <2>1 DEF Shelved, Turned
  <2>2. CASE item'[b] = item[b]
      BY <1>1, <1>5, <1>6, <2>2 DEF Shelved
  <2> QED BY <1>5, <2>1, <2>2
<1>7. ASSUME NEW b \in Bibles, NEW c \in Codes, shelf'[b][c] = "audio"
      PROVE  /\ \E k \in Editions(b, published') : c \in Catalogue!Listed(k, b)
             /\ ~item'[b].value.audio =>
                   b \in hushed' \/ \E k \in Editions(b, published') : Catalogue!Listed(k, b) = {}
  <2>1. CASE shelf[b][c] = "audio"
    <3>1. /\ item[b] # None /\ \E k \in Editions(b, published) : c \in Catalogue!Listed(k, b)
          /\ ~item[b].value.audio =>
                b \in hushed \/ \E k \in Editions(b, published) : Catalogue!Listed(k, b) = {}
        BY <1>1, <2>1 DEF Shelved
    <3>2. \E k \in Editions(b, published') : c \in Catalogue!Listed(k, b)
        BY <1>2, <3>1
    <3>3. CASE /\ b \in hushed => b \in hushed'
               /\ ~item'[b].value.audio => ~item[b].value.audio \/ b \in hushed'
        BY <1>2, <3>1, <3>2, <3>3
    <3>4. CASE /\ job.step = "upsert" /\ b \in DOMAIN job.heard
               /\ item'[b].value.audio = job.heard[b].audio
        BY <1>1, <1>2, <3>2, <3>4 DEF Answered
    <3>5. item'[b] # None
        BY <1>6, <1>7
    <3>6. \/ /\ b \in hushed => b \in hushed'
             /\ ~item'[b].value.audio => ~item[b].value.audio \/ b \in hushed'
          \/ job.step = "upsert" /\ b \in DOMAIN job.heard /\ item'[b].value.audio = job.heard[b].audio
        BY <1>3, <3>1, <3>5 DEF Turned
    <3> QED BY <3>3, <3>4, <3>6
  <2>2. CASE shelf[b][c] # "audio"
    <3>1. Catalogue!Shelve /\ b \in job.left /\ shelf[b][c] # "none" /\ c \in job.heard[b] /\ item'[b] = item[b]
        BY <1>5, <1>7, <2>2
    <3>2. job.step = "shelve" /\ item[b] # None
        BY <1>1, <3>1 DEF Catalogue!Shelve, Shelved
    <3>3. /\ item[b].value.audio \/ b \in hushed
          /\ \E k \in Editions(b, published) : job.heard[b] = Catalogue!Listed(k, b)
        BY <1>1, <3>1, <3>2 DEF Answered
    <3>4. hushed' = hushed
        BY <3>1 DEF Catalogue!Shelve
    <3> QED BY <1>2, <3>1, <3>3, <3>4
  <2> QED BY <2>1, <2>2
<1> QED BY <1>4, <1>5, <1>6, <1>7 DEF Shelved

(* The names that the job reads are those that are there.                  *)
LEMMA NamesRead ==
    ASSUME Catalogue!SyncOK, CatalogueInv, Catalogue!FetchBibles
    PROVE  /\ Answered(item, shelf, published, named', hushed, job'.step, job'.heard, job'.left)
           /\ UNCHANGED <<item, shelf, published, hushed>>
<1>1. published \in 1 .. published
    BY DEF CatalogueInv, JobBounded, Catalogue!SyncOK
<1>2. PICK theirs : theirs = {c \in Catalogue!InLibrary : Catalogue!Library(c).language \in Catalogue!Rows(Languages)}
    OBVIOUS
<1>3. PICK heard : heard = [b \in theirs |-> [name |-> Catalogue!NameOf(b),
                                              audio |-> DOMAIN Catalogue!Library(b).audios # {}]]
    OBVIOUS
<1>4. job'.step = "upsert" /\ job'.heard = heard
    BY <1>2, <1>3 DEF Catalogue!FetchBibles, CatalogueInv, JobBounded
<1>5. ASSUME NEW b \in theirs
      PROVE  /\ Editions(b, published) # {}
             /\ ~heard[b].audio => \E k \in Editions(b, published) : Catalogue!Listed(k, b) = {}
             /\ item[b] # None => heard[b].name = item[b].value.name
  <2>1. b \in Bibles /\ published \in Editions(b, published)
      BY <1>1, <1>2 DEF Catalogue!InLibrary, Catalogue!Library, Editions
  <2>2. heard[b].audio = (DOMAIN Catalogue!Library(b).audios # {})
      BY Zenon, <1>3
  <2>3. ~heard[b].audio => DOMAIN Catalogue!Library(b).audios = {}
      BY Zenon, <2>2
  <2>4. DOMAIN Catalogue!Library(b).audios = {} => Catalogue!Listed(published, b) = {}
      BY DEF Catalogue!Library, Catalogue!Listed
  <2>5. heard[b].name = Catalogue!NameOf(b)
      BY <1>3
  <2>6. item[b] # None => Catalogue!NameOf(b) = item[b].value.name
      BY <2>1 DEF Catalogue!NameOf, Catalogue!Rows
  <2> QED BY <2>1, <2>3, <2>4, <2>5, <2>6
<1>6. DOMAIN heard = theirs
    BY <1>3
<1> QED BY <1>4, <1>5, <1>6 DEF Answered, Catalogue!FetchBibles, Catalogue!tables

(* The recordings that the job hears of are those of a version.            *)
LEMMA RecordingsRead ==
    ASSUME Catalogue!SyncOK, CatalogueInv, Shelved(item, shelf, published, hushed), Catalogue!FetchAudio
    PROVE  /\ Answered(item, shelf, published, named, hushed, job'.step, job'.heard, job'.left)
           /\ UNCHANGED <<item, shelf, published, named, hushed>>
<1>1. published \in 1 .. published
    BY DEF CatalogueInv, JobBounded, Catalogue!SyncOK
<1>2. PICK failed : job' = [job EXCEPT !.step = "shelve",
                  !.left = {b \in Catalogue!External : Catalogue!Heard(b, failed).kind = "write"},
                  !.errors = Catalogue!Cardinality({b \in Catalogue!External : Catalogue!Heard(b, failed).kind = "error"}),
                  !.of = Catalogue!Cardinality(Catalogue!External),
                  !.heard = [b \in {c \in Catalogue!External : Catalogue!Heard(c, failed).kind = "write"} |->
                                Catalogue!Heard(b, failed).books]]
    BY Zenon DEF Catalogue!FetchAudio
<1>3. PICK left, heard : /\ left = {b \in Catalogue!External : Catalogue!Heard(b, failed).kind = "write"}
                         /\ heard = [b \in left |-> Catalogue!Heard(b, failed).books]
                         /\ job'.step = "shelve" /\ job'.left = left /\ job'.heard = heard
    BY <1>2 DEF CatalogueInv, JobBounded
<1>4. ASSUME NEW b \in left
      PROVE  /\ \/ \E k \in Editions(b, published) : heard[b] = Catalogue!Listed(k, b)
                \/ heard[b] = {} /\ (b \in hushed \/ \A c \in Codes : shelf[b][c] # "audio")
             /\ heard[b] # {} => item[b].value.audio
  <2>1. b \in Bibles /\ Catalogue!Heard(b, failed).kind = "write" /\ heard[b] = Catalogue!Heard(b, failed).books
      BY <1>3 DEF Catalogue!External, Catalogue!Rows
  <2>2. CASE ~item[b].value.audio
    <3>1. heard[b] = {}
        BY <2>1, <2>2 DEF Catalogue!Heard
    <3>2. (\E c \in Codes : shelf[b][c] = "audio") =>
              b \in hushed \/ \E k \in Editions(b, published) : Catalogue!Listed(k, b) = {}
        BY <2>1, <2>2 DEF Shelved
    <3> QED BY <3>1, <3>2
  <2>3. CASE item[b].value.audio
    <3>1. Catalogue!Library(b) # None
        BY <2>1, <2>3 DEF Catalogue!Heard
    <3>2. heard[b] = Catalogue!Listed(published, b)
        BY <2>1, <2>3 DEF Catalogue!Heard, Catalogue!Listed, Catalogue!Library
    <3>3. published \in Editions(b, published)
        BY <1>1, <3>1 DEF Editions, Catalogue!Library
    <3> QED BY <2>3, <3>2, <3>3
  <2> QED BY <2>2, <2>3
<1>5. Answered(item, shelf, published, named, hushed, job'.step, job'.heard, job'.left)
    BY SMTT(60), <1>3, <1>4 DEF Answered
<1>6. UNCHANGED <<item, shelf, published, named, hushed>>
    BY DEF Catalogue!FetchAudio, Catalogue!tables
<1> QED BY <1>5, <1>6

(* What the sync has heard and has left to do stays true in every step.    *)
LEMMA AnsweredStays ==
    ASSUME Catalogue!SyncOK, NoneIsNoRow, AudioInv, [Catalogue!Next]_Catalogue!vars
    PROVE  Answered(item', shelf', published', named', hushed', job'.step, job'.heard, job'.left)
<1>1. /\ CatalogueInv /\ FoundRows /\ Shelved(item, shelf, published, hushed)
      /\ Answered(item, shelf, published, named, hushed, job.step, job.heard, job.left)
    BY DEF AudioInv
<1>2. \A b : Editions(b, published) \subseteq Editions(b, published')
    BY <1>1, EditionsStay
<1>3. job' = job => (job.step = "upsert" => named \subseteq named') /\ (job.step = "shelve" => hushed \subseteq hushed')
    BY <1>1, HistoriesGrow DEF Catalogue!FetchBibles, Catalogue!UpsertBibles
<1>4. ASSUME NEW b \in Bibles
      PROVE  Turned(b)
    BY <1>1, BiblesTurn
<1>5. JobBounded
    BY <1>1 DEF CatalogueInv
<1>6. CASE job' = job /\ shelf' = shelf
  <2>1. ASSUME job.step = "upsert", NEW b \in DOMAIN job.heard
        PROVE  /\ Editions(b, published') # {}
               /\ ~job.heard[b].audio => \E k \in Editions(b, published') : Catalogue!Listed(k, b) = {}
               /\ item'[b] # None => job.heard[b].name = item'[b].value.name \/ b \in named'
    <3>1. b \in Bibles
        BY <1>5, <2>1 DEF JobBounded
    <3>2. /\ Editions(b, published) # {}
          /\ ~job.heard[b].audio => \E k \in Editions(b, published) : Catalogue!Listed(k, b) = {}
          /\ item[b] # None => job.heard[b].name = item[b].value.name \/ b \in named
        BY <1>1, <2>1 DEF Answered
    <3>3. \/ item'[b] = item[b] \/ item'[b] = None \/ b \in named'
          \/ item[b] # None /\ item'[b].value.name = item[b].value.name
        BY <1>4, <1>6, <2>1, <3>1 DEF Turned
    <3> QED BY <1>2, <1>3, <1>6, <2>1, <3>2, <3>3
  <2>2. ASSUME job.step = "shelve", NEW b \in job.left
        PROVE  /\ \/ \E k \in Editions(b, published') : job.heard[b] = Catalogue!Listed(k, b)
                  \/ job.heard[b] = {} /\ (b \in hushed' \/ \A c \in Codes : shelf[b][c] # "audio")
               /\ job.heard[b] # {} /\ item'[b] # None /\ (\E c \in Codes : shelf[b][c] # "none") =>
                    item'[b].value.audio \/ b \in hushed'
    <3>1. b \in Bibles
        BY <1>5, <2>2 DEF JobBounded
    <3>2. /\ \/ \E k \in Editions(b, published) : job.heard[b] = Catalogue!Listed(k, b)
             \/ job.heard[b] = {} /\ (b \in hushed \/ \A c \in Codes : shelf[b][c] # "audio")
          /\ job.heard[b] # {} /\ item[b] # None /\ (\E c \in Codes : shelf[b][c] # "none") =>
               item[b].value.audio \/ b \in hushed
        BY <1>1, <2>2 DEF Answered
    <3>3. (\E c \in Codes : shelf[b][c] # "none") => item[b] # None
        BY <1>1, <3>1 DEF Shelved
    <3>4. \/ item'[b] = item[b] \/ item'[b] = None \/ item[b] = None
          \/ ~item'[b].value.audio => ~item[b].value.audio \/ b \in hushed'
        BY <1>4, <1>6, <2>2, <3>1 DEF Turned
    <3> QED BY <1>2, <1>3, <1>6, <2>2, <3>2, <3>3, <3>4
  <2> QED BY <1>6, <2>1, <2>2 DEF Answered
<1>7. CASE job'.step \notin {"upsert", "shelve"}
    BY <1>7 DEF Answered
<1>8. CASE Catalogue!FetchBibles
  <2>1. item' = item /\ shelf' = shelf /\ published' = published /\ hushed' = hushed
      BY <1>1, <1>8, NamesRead
  <2> QED BY <1>1, <1>8, <2>1, NamesRead
<1>9. CASE Catalogue!FetchAudio
  <2>1. /\ item' = item /\ shelf' = shelf /\ published' = published
        /\ named' = named /\ hushed' = hushed
      BY <1>1, <1>9, RecordingsRead
  <2> QED BY <1>1, <1>9, <2>1, RecordingsRead
<1>10. CASE Catalogue!Shelve \/ (Catalogue!SkipsBible /\ job.step = "shelve")
  <2>1. /\ job'.step = "shelve" /\ job'.heard = job.heard /\ job'.left = job.left \ {Catalogue!Turn}
        /\ item' = item /\ published' = published /\ hushed' = hushed /\ job.step = "shelve"
      BY <1>5, <1>10 DEF Catalogue!Shelve, Catalogue!SkipsBible, Catalogue!Skipped, JobBounded, Catalogue!tables
  <2>2. job.left \subseteq Bibles
      BY <1>5, <2>1 DEF JobBounded
  <2>3. \A b \in job.left \ {Catalogue!Turn} : shelf'[b] = shelf[b]
      BY <1>1, <1>10, <2>2 DEF Shelved, Catalogue!Shelve, Catalogue!SkipsBible, Catalogue!tables
  <2> QED BY <1>1, <2>1, <2>3 DEF Answered
<1>11. CASE Catalogue!Syncs
  <2>1. CASE \/ Catalogue!FetchLanguages \/ Catalogue!EnterLanguages \/ Catalogue!UpsertBibles
             \/ (Catalogue!SkipsBible /\ job.step # "shelve") \/ Catalogue!Link
      BY <1>5, <1>7, <2>1 DEF Catalogue!FetchLanguages, Catalogue!EnterLanguages, Catalogue!UpsertBibles,
             Catalogue!SkipsBible, Catalogue!Link, Catalogue!Commits, Catalogue!Skipped, JobBounded
  <2>2. CASE Catalogue!FetchBooks
      BY <1>5, <1>7, <2>2 DEF Catalogue!FetchBooks, JobBounded
  <2>3. CASE Catalogue!BooksEnd \/ Catalogue!AudioEnds \/ Catalogue!JobFails \/ Catalogue!SyncAgain
      BY <1>7, <2>3 DEF Catalogue!BooksEnd, Catalogue!AudioEnds, Catalogue!JobFails, Catalogue!SyncAgain,
             Catalogue!StepEnds, Catalogue!Attempt
  <2>4. CASE Catalogue!Locks
      BY <1>6, <2>4 DEF Catalogue!Locks
  <2> QED BY <1>8, <1>9, <1>10, <1>11, <2>1, <2>2, <2>3, <2>4 DEF Catalogue!Syncs
<1>12. CASE Catalogue!Writes \/ Catalogue!Reads \/ Catalogue!Publish \/ UNCHANGED Catalogue!vars
    BY <1>6, <1>12 DEF Catalogue!Writes, Catalogue!Reads, Catalogue!Publish, Catalogue!vars, Catalogue!tables,
           Catalogue!Begin, Catalogue!Nothing, Catalogue!Hold, Catalogue!Write, Catalogue!Aborts, Catalogue!Delete,
           Catalogue!Pull, Catalogue!PullBibles, Catalogue!PullFacts
<1> QED BY <1>11, <1>12 DEF Catalogue!Next

(* A language keeps its name.                                              *)
LEMMA LanguagesStay ==
    ASSUME Catalogue!SyncOK, NoneIsNoRow, CatalogueInv, FoundRows, [Catalogue!Next]_Catalogue!vars,
           NEW l \in Languages, item[l] # None, item[l].value # "none"
    PROVE  item'[l].value = item[l].value
<1>1. /\ l \in Catalogue!Items /\ l \notin Bibles /\ l \notin Codes /\ JobBounded /\ Allocated
      /\ l \in Catalogue!Rows(Languages)
    BY DEF Catalogue!Items, Catalogue!SyncOK, CatalogueInv, Catalogue!Rows
<1>2. ASSUME NEW w, NEW to, Catalogue!Stores(w, to, Catalogue!Differing(to)),
             l \in DOMAIN to => to[l] = item[l].value
      PROVE  item'[l].value = item[l].value
  <2>1. l \notin Catalogue!Differing(to)
      BY <1>2 DEF Catalogue!Differing
  <2> QED BY <1>1, <1>2, <2>1, StampedRows
<1>3. CASE Catalogue!EnterLanguages
  <2>1. l \in DOMAIN Catalogue!Entered => Catalogue!Entered[l] = item[l].value
      BY DEF Catalogue!Entered
  <2> QED BY <1>2, <1>3, <2>1 DEF Catalogue!EnterLanguages, Catalogue!Commits
<1>4. CASE Catalogue!UpsertBibles
  <2>1. l \notin DOMAIN Catalogue!Upserted
      BY <1>1, <1>4 DEF Catalogue!UpsertBibles, Catalogue!Upserted, JobBounded
  <2> QED BY <1>2, <1>4, <2>1 DEF Catalogue!UpsertBibles, Catalogue!Commits
<1>5. CASE Catalogue!Link
  <2>1. Catalogue!Turn \in job.left
      BY <1>5 DEF Catalogue!Link, Catalogue!Turn
  <2>2. l \notin DOMAIN Catalogue!Linking
      BY <1>1, <1>5, <2>1 DEF Catalogue!Link, Catalogue!Linking, JobBounded
  <2> QED BY <1>2, <1>5, <2>2 DEF Catalogue!Link, Catalogue!Commits
<1>6. ASSUME NEW w \in Requests, Catalogue!Delete(w)
      PROVE  item'[l].value = item[l].value
  <2>1. request[w].call \in Calls /\ request[w].call.kind = "delete"
      BY <1>1, <1>6 DEF Catalogue!Delete, Allocated
  <2>2. request[w].call.of # l
      BY <1>1, <2>1 DEF Catalogue!SyncOK
  <2> QED BY <1>1, <1>6, <2>2 DEF Catalogue!Delete, Allocated
<1>7. ASSUME NEW w \in Requests, Catalogue!Write(w)
      PROVE  item'[l].value = item[l].value
  <2>1. PICK call \in Calls : call = request[w].call /\ call.kind # "delete" /\ request[w].pc = "held"
      BY <1>1, <1>7 DEF Catalogue!Write, Allocated
  <2>2. PICK to, touched : to = Catalogue!Changed(w) /\ touched = Catalogue!Touched(w)
      OBVIOUS
  <2>3. IF l \in touched THEN item'[l].value = to[l] ELSE item'[l] = item[l]
      BY <1>1, <1>7, <2>2, StampedRows DEF Catalogue!Write
  <2>4. touched \subseteq DOMAIN to
      BY <1>1, <2>1, <2>2, ChangedRows
  <2>5. CASE call.kind = "language"
    <3>1. to = [k \in {call.of} |-> IF k \in Catalogue!Rows(request[w].seen) THEN item[k].value ELSE "none"]
        BY <2>1, <2>2, <2>5 DEF Catalogue!Changed
    <3>2. call.of \in request[w].seen
        BY <2>1, <2>5 DEF FoundRows
    <3>3. l \in touched => to[l] = item[l].value
        BY <2>4, <3>1, <3>2 DEF Catalogue!Rows
    <3> QED BY <2>3, <3>3
  <2>6. CASE call.kind = "enrich"
    <3>1. l \notin DOMAIN to
        BY <2>1, <2>2, <2>6 DEF Catalogue!Changed
    <3> QED BY <2>3, <2>4, <3>1
  <2>7. CASE call.kind \notin {"language", "enrich"}
    <3>1. call.of \in Bibles
        BY <2>7 DEF Catalogue!SyncOK
    <3>2. call.kind = "create" => DOMAIN to = {call.of}
        BY <1>1, <2>1, <2>2, ChangedRows
    <3>3. call.kind # "create" => DOMAIN to \subseteq Catalogue!Rows(request[w].seen)
        BY <1>1, <2>1, <2>2, <2>7, ChangedRows
    <3>4. l \notin DOMAIN to
        BY <1>1, <2>1, <3>1, <3>2, <3>3 DEF FoundRows, Catalogue!Rows
    <3> QED BY <2>3, <2>4, <3>4
  <2> QED BY <2>5, <2>6, <2>7
<1>8. CASE item' = item
    BY <1>8
<1>9. \/ item' = item \/ Catalogue!EnterLanguages \/ Catalogue!UpsertBibles \/ Catalogue!Link
      \/ \E w \in Requests : Catalogue!Write(w) \/ Catalogue!Delete(w)
    BY DEF Catalogue!Next, Catalogue!Syncs, Catalogue!Reads, Catalogue!Writes, Catalogue!vars, Catalogue!tables,
           Catalogue!Begin, Catalogue!Nothing, Catalogue!Hold, Catalogue!Aborts, Catalogue!FetchLanguages,
           Catalogue!FetchBibles, Catalogue!FetchBooks, Catalogue!BooksEnd, Catalogue!FetchAudio, Catalogue!Shelve,
           Catalogue!AudioEnds, Catalogue!Locks, Catalogue!SkipsBible, Catalogue!JobFails, Catalogue!SyncAgain,
           Catalogue!StepEnds, Catalogue!Pull, Catalogue!PullBibles, Catalogue!PullFacts, Catalogue!Publish
<1> QED BY <1>3, <1>4, <1>5, <1>6, <1>7, <1>8, <1>9

(* A recording goes when a version has none or a request said so, and a     *)
(* name when a request gives another or the job writes the old one back.    *)
LEMMA RecordingsAndNames ==
    ASSUME Catalogue!SyncOK, NoneIsNoRow, AudioInv, [Catalogue!Next]_Catalogue!vars
    PROVE  Catalogue!AudioKept /\ Catalogue!NamesKept
<1>1. /\ CatalogueInv /\ FoundRows /\ Shelved(item, shelf, published, hushed) /\ JobBounded
      /\ Answered(item, shelf, published, named, hushed, job.step, job.heard, job.left)
    BY DEF AudioInv, CatalogueInv
<1>2. ASSUME NEW b \in Bibles, NEW c \in Codes, shelf[b][c] = "audio", shelf'[b][c] # "audio"
      PROVE  b \in hushed \/ \E k \in Editions(b, published) : c \notin Catalogue!Listed(k, b)
  <2>1. Catalogue!Shelve /\ b \in job.left /\ c \notin job.heard[b]
      BY <1>1, <1>2, ShelvesTurn
  <2>2. job.step = "shelve"
      BY <2>1 DEF Catalogue!Shelve
  <2>3. b \in hushed \/ \E k \in Editions(b, published) : job.heard[b] = Catalogue!Listed(k, b)
      BY <1>1, <1>2, <2>1, <2>2 DEF Answered
  <2> QED BY <2>1, <2>3
<1>3. ASSUME NEW b \in Bibles, item[b] # None, item'[b] # None, item'[b].value.name # item[b].value.name
      PROVE  Catalogue!WritesBack(b) \/ \E w \in Requests : Catalogue!Renames(w, b)
  <2>1. Turned(b)
      BY <1>1, BiblesTurn
  <2>2. \/ \E w \in Requests : Catalogue!Renames(w, b)
        \/ /\ job.step = "upsert" /\ owner = "job" /\ b \in DOMAIN job.heard
           /\ item'[b].value.name = job.heard[b].name
      BY <1>3, <2>1 DEF Turned
  <2> QED BY <1>1, <1>3, <2>2 DEF Answered, Catalogue!WritesBack
<1>4. Catalogue!NamesKept
  <2>1. \A b \in Catalogue!Rows(Bibles) : b \in Bibles /\ item[b] # None
      BY DEF Catalogue!Rows
  <2>2. \A l \in Catalogue!Rows(Languages) : l \in Languages /\ item[l] # None
      BY DEF Catalogue!Rows
  <2> QED BY <1>1, <1>3, <2>1, <2>2, LanguagesStay DEF Catalogue!NamesKept
<1>5. \A b \in Bibles : Catalogue!Versions(b) = Editions(b, published)
    BY DEF Catalogue!Versions, Editions
<1> QED BY <1>2, <1>4, <1>5 DEF Catalogue!AudioKept

(* Before the first request the library has no Bible.                      *)
LEMMA AudioStart ==
    ASSUME Catalogue!SyncOK, Catalogue!Init
    PROVE  AudioInv
<1>1. CatalogueInv
    BY CatalogueStart
<1>2. \A w \in Requests : request[w].pc = "idle" /\ request[w].call = None
    BY DEF Catalogue!Init
<1>3. (\A b \in Bibles : item[b] = None) /\ shelf = [b \in Bibles |-> [c \in Codes |-> "none"]]
    BY DEF Catalogue!Init, Catalogue!Items
<1>4. job.step = "languages"
    BY DEF Catalogue!Init, Catalogue!Attempt
<1> QED BY <1>1, <1>2, <1>3, <1>4 DEF AudioInv, FoundRows, Shelved, Answered

(* The invariant of the audio lists stays in every step.                   *)
LEMMA AudioStep ==
    ASSUME Catalogue!SyncOK, NoneIsNoRow, AudioInv, [Catalogue!Next]_Catalogue!vars
    PROVE  AudioInv'
<1>1. CatalogueInv' /\ FoundRows'
    BY CatalogueStep, CallsStay DEF AudioInv
<1>2. Shelved(item', shelf', published', hushed')
    BY ShelvedStays
<1>3. Answered(item', shelf', published', named', hushed', job'.step, job'.heard, job'.left)
    BY AnsweredStays
<1> QED BY <1>1, <1>2, <1>3 DEF AudioInv

(* A book is shown with a recording only if the library listed one          *)
(* (dbl-book-sync.ts).                                                     *)
THEOREM RecordingsAreListed ==
    ASSUME Catalogue!SyncOK, NoneIsNoRow
    PROVE  Catalogue!Spec => []Catalogue!AudioListed
<1>1. Catalogue!Init => AudioInv
    BY AudioStart
<1>2. AudioInv /\ [Catalogue!Next]_Catalogue!vars => AudioInv'
    BY AudioStep
<1>3. AudioInv => Catalogue!AudioListed
  <2>1. \A b : Catalogue!Versions(b) = Editions(b, published)
      BY DEF Catalogue!Versions, Editions
  <2> QED BY <2>1 DEF AudioInv, Shelved, Catalogue!AudioListed
<1> QED BY <1>1, <1>2, <1>3, PTL DEF Catalogue!Spec

(* A book loses its recording only when a version of the library has none  *)
(* for it or its Bible was marked as silent by hand (dbl-book-sync.ts); a  *)
(* Bible is renamed by the commit of who renames it, or else gets back     *)
(* from the job the name that it had read before somebody gave another     *)
(* (dbl-bible-sync.ts); a language keeps its name                          *)
(* (languages.repository.ts).                                              *)
THEOREM CatalogueStays ==
    ASSUME Catalogue!SyncOK, NoneIsNoRow
    PROVE  Catalogue!Spec => Catalogue!CatalogueSteps
<1>1. Catalogue!Init => AudioInv
    BY AudioStart
<1>2. AudioInv /\ [Catalogue!Next]_Catalogue!vars => AudioInv'
    BY AudioStep
<1>3. AudioInv /\ [Catalogue!Next]_Catalogue!vars => [Catalogue!AudioKept /\ Catalogue!NamesKept]_Catalogue!vars
    BY RecordingsAndNames
<1> QED BY <1>1, <1>2, <1>3, PTL DEF Catalogue!Spec, Catalogue!CatalogueSteps
=============================================================================
