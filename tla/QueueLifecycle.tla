--------------------------- MODULE QueueLifecycle ---------------------------
(***************************************************************************)
(* How the processes of the system come to use their queues and leave them *)
(* again.  The API opens its port first and starts pg-boss in the           *)
(* background, trying again until the database answers or it is shut down;  *)
(* the worker process starts pg-boss before it does anything, and dies and  *)
(* is restarted when that fails.  Both converge the queues, so that several *)
(* may do so at once, while an operator may migrate an old queue to the     *)
(* policy that takes one pending job of a key only.                         *)
(*                                                                         *)
(* pg-boss is modelled from how it is used: the insertion of a job is one   *)
(* statement that reads the policy of its queue and is refused by the       *)
(* unique index over the pending jobs whose own policy is "exclusive".      *)
(***************************************************************************)
EXTENDS Naturals, FiniteSets, Sequences

CONSTANTS
    Queues,       \* the queues that are converged, in their order: a sequence
    Migrated,     \* the queue whose jobs are modelled, one of them
    Jobs,         \* job ids, in the order they are given: 1 .. n
    Keys,         \* singleton keys of jobs
    Initially,    \* queues a database may hold: [queue, deadQueue, job]
    None,         \* no queue, no job
    MaxRequests,  \* bound on the jobs that are sent
    MaxFaults     \* bound on outages, failing jobs, dying workers and retries by hand

VARIABLES
    database,     \* whether PostgreSQL answers
    queue,        \* pgboss.queue: the policy and whether failed jobs are routed on
    deadQueue,    \* the dead letter queue of each: none, or how long it keeps jobs
    job,          \* pgboss.job of the migrated queue
    process,      \* the API and the worker process
    migration,    \* the operator's migration
    started,      \* jobs sent so far
    faults        \* faults so far

vars == <<database, queue, deadQueue, job, process, migration, started, faults>>

Names == {Queues[i] : i \in 1 .. Len(Queues)}
Processes == {"api", "worker"}
(* boot: what the boot chain does; boss: the instance of the process, which *)
(* is published when it has started; stop: what the shutdown does.          *)
Fresh == [boot |-> "check", boss |-> "none", left |-> <<>>, source |-> None, dead |-> None,
          ready |-> FALSE, monitor |-> "off", stop |-> "no", late |-> FALSE]

In(p, step) == process[p].boot = step /\ process[p].stop # "exited"
Goes(p, step) == [process EXCEPT ![p].boot = step]
Stopping(p) == process[p].stop # "no"

-----------------------------------------------------------------------------
(* The boot chain. *)

(* The API tries again after a while, the worker process dies.              *)
GiveUp(p) ==
    IF p = "api" THEN Goes(p, "sleep")
    ELSE [process EXCEPT ![p].stop = "exited"]

Check(p) ==
    /\ In(p, "check")
    /\ process' = IF p = "api" /\ Stopping(p) THEN Goes(p, "ended")
                  ELSE IF process[p].boss = "none" THEN [process EXCEPT ![p].boot = "starting", ![p].boss = "starting"]
                  ELSE [process EXCEPT ![p].boot = "get", ![p].left = Queues]
    /\ UNCHANGED <<database, queue, deadQueue, job, migration, started, faults>>

Start(p) ==
    /\ In(p, "starting")
    /\ process' = IF database THEN [process EXCEPT ![p].boot = "get", ![p].boss = "started", ![p].left = Queues]
                  ELSE [GiveUp(p) EXCEPT ![p].boss = "none"]
    /\ UNCHANGED <<database, queue, deadQueue, job, migration, started, faults>>

Sleep(p) ==
    /\ In(p, "sleep")
    /\ process' = Goes(p, "check")
    /\ UNCHANGED <<database, queue, deadQueue, job, migration, started, faults>>

(* ensureWorkerQueue, one statement after the other.  Each needs the        *)
(* database and an instance that has not been stopped.                      *)
Connected(p) == database /\ process[p].boss = "started"
Fails(p, step) ==
    /\ In(p, step) /\ ~Connected(p)
    /\ process' = GiveUp(p)
    /\ UNCHANGED <<database, queue, deadQueue, job, migration, started, faults>>

Name(p) == Head(process[p].left)

GetSource(p) ==
    /\ In(p, "get") /\ Connected(p)
    /\ process' = [process EXCEPT ![p].boot = "getDead", ![p].source = queue[Name(p)]]
    /\ UNCHANGED <<database, queue, deadQueue, job, migration, started, faults>>

GetDead(p) ==
    /\ In(p, "getDead") /\ Connected(p)
    /\ process' = [process EXCEPT ![p].boot = "writeDead", ![p].dead = deadQueue[Name(p)]]
    /\ UNCHANGED <<database, queue, deadQueue, job, migration, started, faults>>

(* A queue that exists in the meantime is not created a second time.        *)
WriteDead(p) ==
    LET seen == process[p].dead
        now == deadQueue[Name(p)]
    IN /\ In(p, "writeDead") /\ Connected(p)
       /\ deadQueue' = IF seen = None THEN [deadQueue EXCEPT ![Name(p)] = IF now = None THEN "long" ELSE now]
                       ELSE IF seen = "long" THEN deadQueue
                       ELSE [deadQueue EXCEPT ![Name(p)] = "long"]
       /\ process' = Goes(p, "write")
       /\ UNCHANGED <<database, queue, job, migration, started, faults>>

(* The policy of a queue that exists is kept.                               *)
Written(p) ==
    LET seen == process[p].source
        now == queue[Name(p)]
    IN IF seen = None /\ now # None THEN now
       ELSE IF now = None THEN [policy |-> "exclusive", dead |-> TRUE]
       ELSE [now EXCEPT !.dead = TRUE]

WriteSource(p) ==
    /\ In(p, "write") /\ Connected(p)
    /\ queue' = [queue EXCEPT ![Name(p)] = Written(p)]
    /\ process' = [process EXCEPT ![p].left = Tail(@), ![p].source = None, ![p].dead = None,
                      ![p].boot = IF Len(process[p].left) = 1 THEN "converged" ELSE "get"]
    /\ UNCHANGED <<database, deadQueue, job, migration, started, faults>>

(* Mutant of Announced: readiness is announced whatever has happened since. *)
AnnouncedAlways(p) == [process EXCEPT ![p].boot = "ended", ![p].ready = TRUE, ![p].monitor = "on"]

(* The API announces that its queue is ready, unless a shutdown has begun,  *)
(* and starts to watch the dead letter queues.                              *)
Announced(p) ==
    IF Stopping(p) THEN Goes(p, "ended")
    ELSE [process EXCEPT ![p].boot = "ended", ![p].ready = TRUE, ![p].monitor = "on"]

(* The worker registers its handlers. *)
Converged(p) ==
    /\ In(p, "converged")
    /\ process' = IF p = "api" THEN Announced(p) ELSE Goes(p, "listening")
    /\ UNCHANGED <<database, queue, deadQueue, job, migration, started, faults>>

-----------------------------------------------------------------------------
(* The shutdown. *)

(* A worker process that boots has no handler for the signal yet.           *)
Signal(p) ==
    /\ ~Stopping(p)
    /\ process' = [process EXCEPT ![p].stop = IF p = "api" \/ In(p, "listening") THEN "draining" ELSE "exited",
                                  ![p].monitor = IF @ = "on" THEN "stopping" ELSE @]
    /\ UNCHANGED <<database, queue, deadQueue, job, migration, started, faults>>

(* The API has drained its connections and what its monitor reads, the      *)
(* worker its jobs; both wait for so long only.  An instance that is about  *)
(* to be published is waited for.                                           *)
Mark(p) ==
    IF process[p].boss = "starting" THEN [process EXCEPT ![p].stop = "awaiting", ![p].ready = FALSE]
    ELSE [process EXCEPT ![p].stop = "stopping", ![p].ready = FALSE]

StopQueue(p) ==
    /\ process[p].stop = "draining"
    /\ process' = [Mark(p) EXCEPT ![p].monitor = IF @ = "stopping" THEN "stopped" ELSE @]
    /\ UNCHANGED <<database, queue, deadQueue, job, migration, started, faults>>

Settled(p) ==
    /\ process[p].stop = "awaiting" /\ process[p].boss # "starting"
    /\ process' = [process EXCEPT ![p].stop = "stopping"]
    /\ UNCHANGED <<database, queue, deadQueue, job, migration, started, faults>>

GraceEnds(p) ==
    /\ process[p].stop = "awaiting" /\ process[p].boss = "starting"
    /\ process' = [process EXCEPT ![p].stop = "exited", ![p].late = TRUE]
    /\ UNCHANGED <<database, queue, deadQueue, job, migration, started, faults>>

StopBoss(p) ==
    /\ process[p].stop = "stopping"
    /\ process' = IF process[p].boss = "started"
                    THEN [process EXCEPT ![p].stop = "closing", ![p].boss = "stopping"]
                    ELSE [process EXCEPT ![p].stop = "exited"]
    /\ UNCHANGED <<database, queue, deadQueue, job, migration, started, faults>>

(* Within 30 s, whatever its handlers do. *)
Closed(p) ==
    /\ process[p].stop = "closing"
    /\ process' = [process EXCEPT ![p].stop = "exited", ![p].boss = "stopped"]
    /\ UNCHANGED <<database, queue, deadQueue, job, migration, started, faults>>

-----------------------------------------------------------------------------
(* What surrounds the processes. *)

Outage ==
    /\ database /\ faults < MaxFaults
    /\ database' = FALSE /\ faults' = faults + 1
    /\ UNCHANGED <<queue, deadQueue, job, process, migration, started>>

Recovers ==
    /\ ~database /\ database' = TRUE
    /\ UNCHANGED <<queue, deadQueue, job, process, migration, started, faults>>

(* A process that has ended is started again, one that dies as well. *)
Restart(p) ==
    /\ faults < MaxFaults
    /\ process' = [process EXCEPT ![p] = Fresh]
    /\ faults' = faults + 1
    /\ UNCHANGED <<database, queue, deadQueue, job, migration, started>>

-----------------------------------------------------------------------------
(* The jobs of the migrated queue. *)

Pending(i) == job[i] # None /\ job[i].state \in {"created", "active"}
(* The unique index of pg-boss. *)
Taken(key) == \E i \in Jobs : Pending(i) /\ job[i].key = key /\ job[i].policy = "exclusive"

Send(key) ==
    LET free == {i \in Jobs : job[i] = None} IN
    /\ process["api"].ready /\ Connected("api") /\ queue[Migrated] # None
    /\ started < MaxRequests /\ started' = started + 1
    /\ IF queue[Migrated].policy = "exclusive" /\ Taken(key) THEN UNCHANGED job
       ELSE \E i \in free :
               /\ \A k \in free : i <= k
               /\ job' = [job EXCEPT ![i] = [key |-> key, policy |-> queue[Migrated].policy, state |-> "created"]]
    /\ UNCHANGED <<database, queue, deadQueue, process, migration, faults>>

Work(i) ==
    /\ In("worker", "listening") /\ Connected("worker")
    /\ job[i] # None /\ job[i].state = "created"
    /\ job' = [job EXCEPT ![i].state = "active"]
    /\ UNCHANGED <<database, queue, deadQueue, process, migration, started, faults>>

(* A job ends when its handler does, or expires when its process has died.  *)
End(i) ==
    /\ database /\ job[i] # None /\ job[i].state = "active"
    /\ \E result \in {"failed"} \cup (IF In("worker", "listening") THEN {"completed"} ELSE {}) :
          job' = [job EXCEPT ![i].state = result]
    /\ UNCHANGED <<database, queue, deadQueue, process, migration, started, faults>>

(* An operator retries a failed job, if the index allows it.                *)
RetryByHand(i) ==
    /\ database /\ job[i] # None /\ job[i].state = "failed" /\ faults < MaxFaults
    /\ ~(job[i].policy = "exclusive" /\ Taken(job[i].key))
    /\ job' = [job EXCEPT ![i].state = "created"]
    /\ faults' = faults + 1
    /\ UNCHANGED <<database, queue, deadQueue, process, migration, started>>

-----------------------------------------------------------------------------
(* migrateExclusiveWorkerQueue: it looks before it locks the tables, and    *)
(* decides again under the lock, which nobody's statement passes until it   *)
(* commits.                                                                 *)
Exclusive == queue[Migrated].policy = "exclusive"
Drained == \A i \in Jobs : ~Pending(i)

Preflight ==
    /\ database /\ migration = "idle" /\ queue[Migrated] # None
    /\ migration' = IF Exclusive THEN "done" ELSE "locking"
    /\ UNCHANGED <<database, queue, deadQueue, job, process, started, faults>>

(* Mutant of Migrate: the jobs that are kept are left as they were. *)
MigrateQueueOnly ==
    /\ database /\ migration = "locking"
    /\ migration' = "done"
    /\ queue' = IF ~Exclusive /\ Drained THEN [queue EXCEPT ![Migrated].policy = "exclusive"] ELSE queue
    /\ UNCHANGED <<database, deadQueue, job, process, started, faults>>

Migrate ==
    /\ database /\ migration = "locking"
    /\ migration' = "done"
    /\ IF ~Exclusive /\ Drained
         THEN /\ queue' = [queue EXCEPT ![Migrated].policy = "exclusive"]
              /\ job' = [i \in Jobs |-> IF job[i] = None THEN None ELSE [job[i] EXCEPT !.policy = "exclusive"]]
         ELSE UNCHANGED <<queue, job>>
    /\ UNCHANGED <<database, deadQueue, process, started, faults>>

-----------------------------------------------------------------------------
Init ==
    /\ database \in BOOLEAN
    /\ \E s \in Initially :
          /\ queue = [n \in Names |-> s.queue] /\ deadQueue = [n \in Names |-> s.deadQueue]
          /\ job = s.job
    /\ process = [p \in Processes |-> Fresh]
    /\ migration = "idle" /\ started = 0 /\ faults = 0

Ensure(p) == GetSource(p) \/ GetDead(p) \/ WriteDead(p) \/ WriteSource(p)
Booting(p) ==
    \/ Check(p) \/ Start(p) \/ Sleep(p) \/ Ensure(p) \/ Converged(p)
    \/ \E step \in {"get", "getDead", "writeDead", "write"} : Fails(p, step)
ShuttingDown(p) == StopQueue(p) \/ Settled(p) \/ GraceEnds(p) \/ StopBoss(p) \/ Closed(p)

Next ==
    \/ \E p \in Processes : Booting(p) \/ Signal(p) \/ ShuttingDown(p) \/ Restart(p)
    \/ Outage \/ Recovers
    \/ \E key \in Keys : Send(key)
    \/ \E i \in Jobs : Work(i) \/ End(i) \/ RetryByHand(i)
    \/ Preflight \/ Migrate

Spec == Init /\ [][Next]_vars

-----------------------------------------------------------------------------
(* Properties. *)

QueueRow == [policy : {"standard", "exclusive"}, dead : BOOLEAN]
DeadQueue == {None, "short", "long"}
Job == [key : Keys, policy : {"standard", "exclusive"},
        state : {"created", "active", "completed", "failed"}]
Process ==
    [boot : {"check", "starting", "sleep", "get", "getDead", "writeDead", "write", "converged",
             "listening", "ended"},
     boss : {"none", "starting", "started", "stopping", "stopped"},
     left : Seq(Names), source : QueueRow \cup {None}, dead : DeadQueue,
     ready : BOOLEAN, monitor : {"off", "on", "stopping", "stopped"},
     stop : {"no", "draining", "awaiting", "stopping", "closing", "exited"}, late : BOOLEAN]

TypeOK ==
    /\ database \in BOOLEAN
    /\ queue \in [Names -> QueueRow \cup {None}] /\ deadQueue \in [Names -> DeadQueue]
    /\ job \in [Jobs -> Job \cup {None}]
    /\ process \in [Processes -> Process]
    /\ migration \in {"idle", "locking", "done"}
    /\ started \in 0 .. MaxRequests /\ faults \in 0 .. MaxFaults

(* What may be found in a database: queues of pg-boss whose failed jobs go  *)
(* somewhere, and jobs in them that their unique index has let in.          *)
InitiallyOK ==
    /\ Queues \in Seq(Names) /\ Queues # <<>> /\ Migrated \in Names
    /\ None \notin QueueRow \cup Job \cup {"short", "long"}
    /\ MaxRequests \in Nat /\ MaxFaults \in Nat
    /\ \A s \in Initially :
          /\ s.queue \in QueueRow \cup {None} /\ s.deadQueue \in DeadQueue
          /\ s.job \in [Jobs -> Job \cup {None}]
          /\ s.queue = None => \A i \in Jobs : s.job[i] = None
          /\ s.queue # None /\ s.queue.dead => s.deadQueue # None
          /\ s.queue # None /\ s.queue.policy = "exclusive" =>
                \A i, k \in Jobs :
                    s.job[i] # None =>
                       /\ s.job[i].policy = "exclusive"
                       /\ s.job[k] # None /\ s.job[i].key = s.job[k].key
                          /\ s.job[i].state \in {"created", "active"}
                          /\ s.job[k].state \in {"created", "active"} => i = k

(* Whoever uses the queues finds them converged: they exist, and their      *)
(* failed jobs go to a queue that exists and keeps them for long enough.    *)
(* Readiness does not come back once the queue is being stopped.            *)
UsesQueues(p) == process[p].ready \/ In(p, "listening")
ReadyConverged ==
    \A p \in Processes : UsesQueues(p) =>
        /\ \A n \in Names : queue[n] # None /\ queue[n].dead /\ deadQueue[n] = "long"
        /\ process[p].ready => process[p].stop \in {"no", "draining"} /\ process[p].boss = "started"
RoutedSomewhere == \A n \in Names : queue[n] # None /\ queue[n].dead => deadQueue[n] # None

(* A process that ends in order leaves no instance behind; one that is      *)
(* still about to start is given up only after the grace period.            *)
NotOrphaned ==
    process["api"].stop = "exited" =>
        process["api"].boss \in {"none", "stopped"} \cup (IF process["api"].late THEN {"starting"} ELSE {})

(* Nobody watches the dead letter queues of a process that has shut down.   *)
MonitorEnds ==
    \A p \in Processes :
        process[p].stop \in {"awaiting", "stopping", "closing", "exited"} => process[p].monitor # "on"

(* A queue of the exclusive policy holds one pending job of a key only,     *)
(* those from before its migration included (exclusive-worker-queue-        *)
(* migration.ts: "also enforces dedupe if a job is later retried").         *)
OnePending ==
    queue[Migrated] # None /\ Exclusive =>
        \A i, k \in Jobs : Pending(i) /\ Pending(k) /\ job[i].key = job[k].key => i = k

(* What does not last: that the queue of a process is neither ready nor     *)
(* stopped.                                                                 *)
Unsettled(p) == process[p].stop # "exited" /\ ~(process[p].ready /\ ~Stopping(p))

LifecycleKept == ReadyConverged /\ RoutedSomewhere /\ NotOrphaned /\ MonitorEnds /\ OnePending
=============================================================================
