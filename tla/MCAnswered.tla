----------------------------- MODULE MCAnswered -----------------------------
(***************************************************************************)
(* Liveness of the components that keep somebody waiting: small instances  *)
(* of VerseAudio, AssistantGeneration, ChapterWorkflow, AiActivation,      *)
(* ImportPipeline, UsfmExport, QueueLifecycle and ContentFetch beside each *)
(* other.  They share nothing but the processor, so that a behaviour moves *)
(* one of them, the component, and leaves the others at rest; the shared   *)
(* variables are those of the one that moves.                              *)
(***************************************************************************)
EXTENDS Naturals, FiniteSets, Sequences, TLC

CONSTANTS r1, r2, v1, h1, h2, unitA, userA, userB, managerM, projectP, projectQ, None, Keep, Nobody, Elsewhere, briefing

VARIABLES
    component, request, history, started, sweep, job,
    recording, take, nextRecording, nextTake, agedUnits, agedTakes, surfaced,
    streaming, retiring, lookups, activeUsers, artifact, producer, shutdown, settling,
    stages, chapter, active, clock,
    draft, suggested, toggle, lock, batch, generating,
    project, holder, unit, held, import, text, complete, worker, retry, dead, rows,
    attempt, object, links, linked, now,
    database, queue, deadQueue, process, migration, faults,
    search, pool

shared == <<request, history, started, sweep, job, faults>>
audioVars == <<recording, take, nextRecording, nextTake, agedUnits, agedTakes, surfaced>>
assistantVars == <<streaming, retiring, lookups, activeUsers, artifact, producer, shutdown, settling>>
workflowVars == <<stages, chapter, active, clock>>
activationVars == <<draft, suggested, toggle, lock, batch, generating>>
importVars == <<project, holder, unit, held, import, text, complete, worker, retry, dead, rows>>
exportVars == <<attempt, object, links, linked, now>>
queueVars == <<database, queue, deadQueue, process, migration>>
contentVars == <<search, pool>>
vars == <<component, shared, audioVars, assistantVars, workflowVars, activationVars, importVars, exportVars,
          queueVars, contentVars>>

Audio == INSTANCE VerseAudio WITH
    Units <- {v1}, Anchor <- [u \in {v1} |-> [book |-> 1, ref |-> [chapter |-> 1, verse |-> 1]]],
    RangeEnds <- {[chapter |-> 1, verse |-> 2]}, Clients <- {r1, r2}, Hashes <- {h1, h2},
    Ops <- {"upload", "resolve", "deleteTake", "deleteRecording"},
    Activates <- {TRUE}, Faults <- FALSE, MaxRequests <- 3

Assistant == INSTANCE AssistantGeneration WITH
    Requests <- {r1, r2}, Users <- {userA}, Keys <- {briefing}, Briefings <- {briefing}

Item(k, drafter, checker) == [id |-> k, drafter |-> drafter, checker |-> checker]
New(drafter) == [status |-> "not_started", drafter |-> drafter, checker |-> None,
                 conflict |-> FALSE, rival |-> None]
Starts ==
    {<<[row |-> [New(userA) EXCEPT !.status = "peer_check"], past |-> <<"not_started", "draft", "peer_check">>],
       [row |-> New(None), past |-> <<"not_started">>]>>}

Workflow == INSTANCE ChapterWorkflow WITH
    Requests <- {r1, r2}, Chapters <- {1, 2}, Users <- {userA, userB, managerM}, Managers <- {managerM},
    Members <- {userA, userB}, Leavers <- {userA},
    Reviews <- <<>>, CustomStages <- {}, MaxStages <- 2, Starts <- Starts,
    Updates <- {<<Item(1, userA, userB)>>, <<Item(1, Keep, userB), Item(2, Keep, userB)>>},
    Selections <- {<<Item(2, userB, None), Item(1, None, None)>>}, MaxTransactions <- 2

Draft(v, content) == [unit |-> unitA, verse |-> v, content |-> content]

Activation == INSTANCE AiActivation WITH
    Requests <- {r1, r2}, Units <- {unitA}, Verses <- {<<1, 1>>, <<2, 1>>}, Groups <- <<<<{1}>>, <<>>>>,
    Threshold <- 1, Lookahead <- 1, Initially <- 1, Batch <- 1, Retries <- 1,
    Saves <- {Draft(<<1, 1>>, "words"), Draft(<<2, 1>>, "empty")},
    Imports <- {{Draft(<<2, 1>>, "imported")}},
    Calls <- {[kind |-> "toggle", unit |-> unitA, verse |-> <<2, 1>>, on |-> TRUE],
              [kind |-> "assign", unit |-> unitA, verse |-> <<1, 1>>, on |-> TRUE],
              [kind |-> "pericopes", unit |-> unitA, verse |-> <<1, 1>>, on |-> TRUE]},
    Drafted <- {}, Enabled <- (<<unitA, 1>> :> "on" @@ <<unitA, 2>> :> "off")

Call(k) == [kind |-> k, project |-> projectP, unit |-> 0, books |-> {1}, move |-> {}, target |-> 0,
            remove |-> {}, files |-> TRUE]
Import == INSTANCE ImportPipeline WITH
    Requests <- {r1}, Projects <- {projectP, projectQ}, Units <- {1, 2}, Books <- {1}, Chapters <- {1},
    Calls <- {Call("createProject"), Call("import")},
    Initial <- {[projects |-> {projectQ, p}, units |-> (1 :> p), links |-> <<>>,
                 ingested |-> t, jobs |-> {}] : p \in {projectP, projectQ}, t \in {{}, {1}}},
    Retries <- 1, MaxRequests <- 1, MaxFaults <- 2

Exporting == INSTANCE UsfmExport WITH
    Requests <- {r1}, Jobs <- {1}, Attempts <- {1, 2}, Books <- {1},
    Calls <- {[kind |-> "send", user |-> userA, books |-> {}, file |-> 0]},
    Retries <- 1, Ttl <- 0, LinkTtl <- 0, MaxTime <- 0, MaxRequests <- 1, MaxFaults <- 2

Queues == INSTANCE QueueLifecycle WITH
    Queues <- <<"exports">>, Migrated <- "exports", Jobs <- {1}, Keys <- {},
    Initially <- {[queue |-> None, deadQueue |-> None, job |-> [i \in {1} |-> None]]},
    MaxRequests <- 0, MaxFaults <- 1

(* Pages up to the last that is asked for, an item that two of them have,   *)
(* and the passages of a chapter.                                           *)
Gather(kind, searches) == [kind |-> kind, searches |-> searches]
Content == INSTANCE ContentFetch WITH
    Library <- [one |-> <<<<3>>>>, repeats |-> <<<<1, 2>>, <<2>>>>, long |-> <<<<1, 2>>, <<3, 4>>, <<5>>>>,
                chapter |-> <<<<0, 3, 1, 2>>>>],
    Calls <- {Gather("notes", <<"long">>), Gather("manifest", <<"repeats", "one">>),
              Gather("chapter", <<"chapter">>), Gather("bibles", <<"long">>)},
    Assets <- {3}, Verses <- {1, 2, 3}, PageSize <- 2, MaxPages <- 2, Concurrency <- 2, MaxRetries <- 2

AudioRests ==
    /\ recording = 0 /\ take = 0 /\ nextRecording = 0 /\ nextTake = 0
    /\ agedUnits = 0 /\ agedTakes = 0 /\ surfaced = 0
AssistantRests ==
    /\ streaming = 0 /\ retiring = 0 /\ lookups = 0 /\ activeUsers = 0
    /\ artifact = 0 /\ producer = 0 /\ shutdown = 0 /\ settling = 0
WorkflowRests ==
    /\ stages = 0 /\ chapter = 0 /\ active = 0 /\ clock = 0
ActivationRests ==
    /\ draft = 0 /\ suggested = 0 /\ toggle = 0 /\ lock = 0 /\ batch = 0 /\ generating = 0
ImportRests ==
    /\ project = 0 /\ holder = 0 /\ unit = 0 /\ held = 0 /\ import = 0 /\ text = 0 /\ complete = 0
    /\ worker = 0 /\ retry = 0 /\ dead = 0 /\ rows = 0
ExportRests ==
    /\ attempt = 0 /\ object = 0 /\ links = 0 /\ linked = 0 /\ now = 0
QueuesRest ==
    /\ database = 0 /\ queue = 0 /\ deadQueue = 0 /\ process = 0 /\ migration = 0
ContentRests == search = 0 /\ pool = 0

(* The shared variables that a component does not use rest as well. *)
Requesting == {"audio", "assistant", "workflow", "activation", "import", "export", "content"}
History == {"workflow", "activation"}
Starting == {"audio", "import", "export", "queues"}
Sweeping == {"audio", "import", "export"}
Queueing == {"activation", "import", "export", "queues"}
Failing == {"import", "export", "queues"}

Init ==
    /\ \/ component = "audio" /\ Audio!Init
       \/ component = "assistant" /\ Assistant!Init
       \/ component = "workflow" /\ Workflow!Init
       \/ component = "activation" /\ Activation!Init
       \/ component = "import" /\ Import!Init
       \/ component = "export" /\ Exporting!Init
       \/ component = "queues" /\ Queues!Init
       \/ component = "content" /\ Content!Init
    /\ IF component = "audio" THEN TRUE ELSE AudioRests
    /\ IF component = "assistant" THEN TRUE ELSE AssistantRests
    /\ IF component = "workflow" THEN TRUE ELSE WorkflowRests
    /\ IF component = "activation" THEN TRUE ELSE ActivationRests
    /\ IF component = "import" THEN TRUE ELSE ImportRests
    /\ IF component = "export" THEN TRUE ELSE ExportRests
    /\ IF component = "queues" THEN TRUE ELSE QueuesRest
    /\ IF component = "content" THEN TRUE ELSE ContentRests
    /\ IF component \in Requesting THEN TRUE ELSE request = 0
    /\ IF component \in History THEN TRUE ELSE history = 0
    /\ IF component \in Starting THEN TRUE ELSE started = 0
    /\ IF component \in Sweeping THEN TRUE ELSE sweep = 0
    /\ IF component \in Queueing THEN TRUE ELSE job = 0
    /\ IF component \in Failing THEN TRUE ELSE faults = 0

Moves(c, A) ==
    /\ component = c /\ A /\ UNCHANGED component
    /\ IF c = "audio" THEN TRUE ELSE UNCHANGED audioVars
    /\ IF c = "assistant" THEN TRUE ELSE UNCHANGED assistantVars
    /\ IF c = "workflow" THEN TRUE ELSE UNCHANGED workflowVars
    /\ IF c = "activation" THEN TRUE ELSE UNCHANGED activationVars
    /\ IF c = "import" THEN TRUE ELSE UNCHANGED importVars
    /\ IF c = "export" THEN TRUE ELSE UNCHANGED exportVars
    /\ IF c = "queues" THEN TRUE ELSE UNCHANGED queueVars
    /\ IF c = "content" THEN TRUE ELSE UNCHANGED contentVars
    /\ IF c \in Requesting THEN TRUE ELSE UNCHANGED request
    /\ IF c \in History THEN TRUE ELSE UNCHANGED history
    /\ IF c \in Starting THEN TRUE ELSE UNCHANGED started
    /\ IF c \in Sweeping THEN TRUE ELSE UNCHANGED sweep
    /\ IF c \in Queueing THEN TRUE ELSE UNCHANGED job
    /\ IF c \in Failing THEN TRUE ELSE UNCHANGED faults

AudioStep(A) == Moves("audio", A)
AssistantStep(A) == Moves("assistant", A)
WorkflowStep(A) == Moves("workflow", A)
ActivationStep(A) == Moves("activation", A)
ImportStep(A) == Moves("import", A)
ExportStep(A) == Moves("export", A)
QueuesStep(A) == Moves("queues", A)
ContentStep(A) == Moves("content", A)

Next ==
    \/ AudioStep(Audio!Next)
    \/ AssistantStep(Assistant!Next)
    \/ AssistantStep(Assistant!OtherWrite(briefing))   \* by another process
    \/ WorkflowStep(Workflow!Next)
    \/ ActivationStep(Activation!Next)
    \/ ImportStep(Import!Next)
    \/ ExportStep(Exporting!Next)
    \/ QueuesStep(Queues!Next)
    \/ ContentStep(Content!Next)

(* Fairness while the component is the one that moves: node runs the       *)
(* continuations that are ready, PostgreSQL the statements of a            *)
(* transaction, and its deadlock detector wakes up; the source of a        *)
(* generation ends within totalMs of the engine client.  An advisory lock  *)
(* is granted in the order of the requests for it.  pg-boss polls its      *)
(* queues and fails the jobs that are active for too long, and the         *)
(* recovery sweep runs every minute.  An outage of the database ends, and  *)
(* a provider answers within the 30 seconds it is given, or is given up.   *)
Fairness ==
    /\ WF_vars(ImportStep(Import!Proceed(r1)))
    /\ \A o \in {r1, "ingest", "retry"} : WF_vars(ImportStep(Import!Materialize(o)))
    /\ WF_vars(ImportStep(Import!Ingestion))
    /\ WF_vars(ImportStep(Import!Retrying(1)))
    /\ WF_vars(ImportStep(Import!Sweep))
    /\ WF_vars(ExportStep(Exporting!Fetching(1)))
    /\ WF_vars(ExportStep(Exporting!Expire(1)))
    /\ \A a \in {1, 2} : WF_vars(ExportStep(Exporting!Handle(a)))
    /\ WF_vars(QueuesStep(Queues!Booting("api")))
    /\ WF_vars(QueuesStep(Queues!ShuttingDown("api")))
    /\ WF_vars(QueuesStep(Queues!Recovers))
    /\ WF_vars(ContentStep(Content!Proceed))
    /\ \A r \in {r1, r2} :
          /\ WF_vars(AudioStep(Audio!Proceed(r)))
          /\ WF_vars(AssistantStep(Assistant!Serving(r)))
          /\ WF_vars(AssistantStep(Assistant!Producing(r)))
          /\ WF_vars(WorkflowStep(Workflow!Proceed(r)))
          /\ WF_vars(WorkflowStep(Workflow!BreakDeadlock(r)))
          /\ SF_vars(ActivationStep(Activation!Handle(r)))

Spec == Init /\ [][Next]_vars /\ Fairness

-----------------------------------------------------------------------------
(* The two requests of an instance are interchangeable: what is shown of   *)
(* one holds of the other.                                                 *)

(* What each component keeps of its own variables. *)
TypeOK ==
    CASE component = "audio" -> Audio!TypeOK
      [] component = "assistant" -> Assistant!TypeOK
      [] component = "workflow" -> Workflow!TypeOK
      [] component = "activation" -> Activation!TypeOK
      [] component = "import" -> Import!TypeOK
      [] component = "export" -> Exporting!TypeOK
      [] component = "queues" -> Queues!TypeOK
      [] component = "content" -> Content!TypeOK

(* Who waits, and when they do not any more: component never changes. *)
Asking == request[r1].pc \notin {"idle", "answered", "done"}
Waiting ==
    CASE component \in {"audio", "assistant", "workflow", "activation"} -> Asking
      [] component = "import" -> Import!Waits(<<2, 1>>)
      [] component = "export" -> Exporting!Pending(1)
      [] component = "queues" -> Queues!Unsettled("api")
      [] component = "content" -> Content!Gathering
Served ==
    CASE component \in {"audio", "assistant", "workflow", "activation"} -> ~Asking
      [] component = "import" -> Import!Settled(<<2, 1>>)
      [] component = "export" -> Exporting!JobEnds(1)
      [] component = "queues" -> ~Queues!Unsettled("api")
      [] component = "content" -> ~Content!Gathering

(* Every request is answered.  For verse audio, also the first upload that *)
(* finds the recording of another one and goes round again; for a          *)
(* generation, whatever becomes of the producer the request has joined; to *)
(* the workflow, although a reset and a submission lock the project before *)
(* the rows and an update or a claim the other way round, and removals     *)
(* take their rows in any order; for suggestions,                          *)
(* because the advisory lock of the family is given back whatever happens  *)
(* to its holder.  An import that has been committed does not wait for its *)
(* verses for ever, though statements fail and processes die: the          *)
(* ingestion, the retries or the sweep write them, unless the book is      *)
(* given up to its dead letter queue.  A job that exports ends although    *)
(* its handlers die or wait for ever, so that the same export can be asked *)
(* for again; the queue of an API that is not shut down gets ready         *)
(* although the database is away for a while, and a shutdown ends whatever *)
(* it falls into.  What is gathered from a provider ends although pages     *)
(* follow pages and every fetch is throttled.                              *)
RequestsAnswered == Waiting ~> Served

(* A producer that has ended leaves the map: its answer is not served past *)
(* its time to live.                                                       *)
EntriesRemoved ==
    (component = "assistant" /\ streaming[briefing] = r1 /\ producer[r1].pc = "done")
    ~> (component = "assistant" /\ streaming[briefing] # r1)
=============================================================================
