------------------------ MODULE AssistantGeneration ------------------------
(***************************************************************************)
(* The passage assistant of one API process: requests for the same content *)
(* share one generation.  A request joins the producer in flight, replays  *)
(* a completed answer from the database, or installs a producer whose      *)
(* generation goes on when its client leaves.  Requests that bypass the    *)
(* cache generate privately.  domains/assistant: turn.service, service,    *)
(* cache, generation and cache/assistant-cache.repository.                 *)
(*                                                                         *)
(* Node runs one continuation at a time: a step is what happens between    *)
(* two awaits.  A producer is named by the request that installed it.      *)
(***************************************************************************)
EXTENDS Naturals, FiniteSets

CONSTANTS
    Requests,   \* the requests of a behaviour; each is served once
    Nobody,     \* no producer
    Elsewhere,  \* the author of an answer no producer here knows to be stored
    Users,
    Keys,       \* what is asked for: the cache keys
    Briefings   \* the keys that are passage briefings; the others are turns

ASSUME NobodyAssumption == Nobody \notin Requests /\ Elsewhere \notin Requests
ASSUME BriefingsAssumption == Briefings \subseteq Keys

VARIABLES
    streaming,   \* [Keys -> the producer in flight, or Nobody]
    retiring,    \* keys whose producer goes when no lookup is pending
    lookups,     \* [Keys -> how many cache lookups hold a lease]
    activeUsers, \* users with a generation admitted
    artifact,    \* [Keys -> the author of the unexpired answer, or Nobody]
    producer,    \* [Requests -> the producer the request has installed]
    request,     \* [Requests -> where the request is]
    shutdown,    \* "no", "settling" or "over"
    settling     \* the producers the shutdown waits for

vars == <<streaming, retiring, lookups, activeUsers, artifact, producer, request,
          shutdown, settling>>

(* A production reads the source, writes the answer to the database, and   *)
(* cleans up when the source has been closed.                              *)
Producer ==
    [pc : {"off", "source", "write", "written", "ending", "done"},
     terminal : {"none", "complete", "error", "busy"},
     aborted : BOOLEAN,   \* upstreamSignal
     writing : BOOLEAN,   \* completionWrite
     late : BOOLEAN]      \* nobody waits for the upsert, which may still commit

NoProducer == [pc |-> "off", terminal |-> "none", aborted |-> FALSE, writing |-> FALSE, late |-> FALSE]

Request ==
    [pc : {"idle", "lookup", "waiting", "private", "closing", "answered"},
     user : Users, key : Keys,
     private : BOOLEAN,   \* dont_cache, ignore_cache
     aborted : BOOLEAN,   \* the client has gone
     found : {"none", "hit", "miss", "failed"},
     from : Requests \cup {Nobody},
     answer : {"none", "complete", "error", "busy", "left"}]

TypeOK ==
    /\ streaming \in [Keys -> Requests \cup {Nobody}]
    /\ retiring \subseteq Keys
    /\ lookups \in [Keys -> Nat]
    /\ activeUsers \subseteq Users
    /\ artifact \in [Keys -> Requests \cup {Nobody, Elsewhere}]
    /\ producer \in [Requests -> Producer]
    /\ request \in [Requests -> Request]
    /\ shutdown \in {"no", "settling", "over"}
    /\ settling \subseteq Requests

-----------------------------------------------------------------------------
(* Helpers *)

Move(c, r) == request' = [request EXCEPT ![c] = r]

(* Nothing of what a request has found matters once it is answered.        *)
Answer(c, answer) ==
    Move(c, [request[c] EXCEPT !.pc = "answered", !.answer = answer, !.found = "none", !.from = Nobody])

(* Mutant of Accepting: only the end of a shutdown closes the door.        *)
AcceptingUntilOver == shutdown # "over"

Accepting == shutdown = "no"

(* publish: the first terminal event stands. *)
Published(p, terminal) ==
    IF p.terminal = "none" THEN [p EXCEPT !.terminal = terminal] ELSE p

(* A private request takes no lease, nor does a briefing that reads        *)
(* nothing.                                                                *)
Leased(c) == ~request[c].private

(* Mutants of Release: the lease is not counted to zero; a producer that   *)
(* was kept for the last lookup stays.                                     *)
ReleaseBlindly(k, entries) ==
    /\ lookups' = [lookups EXCEPT ![k] = @ - 1]
    /\ IF lookups[k] = 1 /\ k \in retiring
       THEN streaming' = [entries EXCEPT ![k] = Nobody] /\ retiring' = retiring \ {k}
       ELSE streaming' = entries /\ UNCHANGED retiring

ReleaseKeeping(k, entries) ==
    /\ lookups' = [lookups EXCEPT ![k] = IF @ > 1 THEN @ - 1 ELSE 0]
    /\ streaming' = entries
    /\ UNCHANGED retiring

(* The lease of a lookup ends; the last one takes a retained producer away. *)
Release(k, entries) ==
    /\ lookups' = [lookups EXCEPT ![k] = IF @ > 1 THEN @ - 1 ELSE 0]
    /\ IF lookups[k] <= 1 /\ k \in retiring
       THEN streaming' = [entries EXCEPT ![k] = Nobody] /\ retiring' = retiring \ {k}
       ELSE streaming' = entries /\ UNCHANGED retiring

EndLookup(c, entries) ==
    IF Leased(c) THEN Release(request[c].key, entries)
    ELSE streaming' = entries /\ UNCHANGED <<lookups, retiring>>

(* Mutant of Leave: pending lookups do not keep the producer.              *)
LeaveAtOnce(p) ==
    LET k == request[p].key IN
    IF streaming[k] = p
    THEN streaming' = [streaming EXCEPT ![k] = Nobody] /\ retiring' = retiring \ {k}
    ELSE UNCHANGED <<streaming, retiring>>

(* A producer that has ended stays visible to the lookups that began before *)
(* its answer was stored: their reads may have missed it.                   *)
Leave(p) ==
    LET k == request[p].key IN
    IF streaming[k] # p THEN UNCHANGED <<streaming, retiring>>
    ELSE IF lookups[k] > 0 THEN retiring' = retiring \cup {k} /\ UNCHANGED streaming
    ELSE streaming' = [streaming EXCEPT ![k] = Nobody] /\ UNCHANGED retiring

-----------------------------------------------------------------------------
(* Serving a request *)

(* A producer in flight is joined, otherwise the database is asked.  A      *)
(* briefing that ignores the cache does not ask.                            *)
Ask(c) ==
    LET r == request[c]
        k == r.key
    IN
    /\ r.pc = "idle"
    /\ \/ /\ ~r.private /\ streaming[k] # Nobody
          /\ Move(c, [r EXCEPT !.pc = "waiting", !.from = streaming[k]])
          /\ UNCHANGED lookups
       \/ /\ r.private \/ streaming[k] = Nobody
          /\ Move(c, [r EXCEPT !.pc = "lookup",
                               !.found = IF r.private /\ k \in Briefings THEN "miss" ELSE "none"])
          /\ lookups' = IF r.private THEN lookups ELSE [lookups EXCEPT ![k] = @ + 1]
    /\ UNCHANGED <<streaming, retiring, activeUsers, artifact, producer, shutdown, settling>>

(* The query runs, or fails: timeout, both connections busy, an answer that *)
(* does not fit the present contract.  A turn whose client has gone has     *)
(* aborted its query.                                                       *)
Read(c) ==
    LET r == request[c] IN
    /\ r.pc = "lookup" /\ r.found = "none"
    /\ \/ Move(c, [r EXCEPT !.found = "failed"])
       \/ /\ ~r.aborted \/ r.key \in Briefings
          /\ Move(c, [r EXCEPT !.found = IF artifact[r.key] = Nobody THEN "miss" ELSE "hit"])
    /\ UNCHANGED <<streaming, retiring, lookups, activeUsers, artifact, producer, shutdown, settling>>

Replay(c) ==
    /\ request[c].pc = "lookup" /\ request[c].found = "hit"
    /\ Answer(c, "complete")
    /\ EndLookup(c, streaming)
    /\ UNCHANGED <<activeUsers, artifact, producer, shutdown, settling>>

(* A turn whose client has left starts nothing. *)
GiveUp(c) ==
    LET r == request[c] IN
    /\ r.pc = "lookup" /\ r.found \in {"miss", "failed"}
    /\ r.aborted /\ r.key \notin Briefings
    /\ Answer(c, "left")
    /\ EndLookup(c, streaming)
    /\ UNCHANGED <<activeUsers, artifact, producer, shutdown, settling>>

(* A briefing whose client has gone installs or joins, and reads nothing.  *)
Subscribed(r, p) ==
    [r EXCEPT !.pc = IF r.aborted THEN "closing" ELSE "waiting", !.from = p]

(* After the read the request joins or installs, and releases its lease,   *)
(* without an await in between.                                            *)
Settles(c) ==
    LET r == request[c] IN
    /\ r.pc = "lookup" /\ r.found \in {"miss", "failed"} /\ ~r.private
    /\ ~r.aborted \/ r.key \in Briefings

Join(c) ==
    LET k == request[c].key IN
    /\ Settles(c)
    /\ streaming[k] # Nobody
    /\ Move(c, Subscribed(request[c], streaming[k]))
    /\ EndLookup(c, streaming)
    /\ UNCHANGED <<activeUsers, artifact, producer, shutdown, settling>>

(* During the shutdown a new producer is shut down at once.                *)
Refuse(c) ==
    /\ Settles(c)
    /\ streaming[request[c].key] = Nobody /\ ~Accepting
    /\ Answer(c, "error")
    /\ EndLookup(c, streaming)
    /\ UNCHANGED <<activeUsers, artifact, producer, shutdown, settling>>

(* Mutant of Install: a producer in flight is not looked for again.        *)
InstallOver(c) ==
    LET r == request[c] IN
    /\ Settles(c)
    /\ Accepting /\ r.user \notin activeUsers
    /\ Move(c, Subscribed(r, c))
    /\ producer' = [producer EXCEPT ![c].pc = "source"]
    /\ activeUsers' = activeUsers \cup {r.user}
    /\ EndLookup(c, [streaming EXCEPT ![r.key] = c])
    /\ UNCHANGED <<artifact, shutdown, settling>>

Install(c) ==
    LET r == request[c] IN
    /\ Settles(c)
    /\ streaming[r.key] = Nobody /\ Accepting /\ r.user \notin activeUsers
    /\ Move(c, Subscribed(r, c))
    /\ producer' = [producer EXCEPT ![c].pc = "source"]
    /\ activeUsers' = activeUsers \cup {r.user}
    /\ EndLookup(c, [streaming EXCEPT ![r.key] = c])
    /\ UNCHANGED <<artifact, shutdown, settling>>

(* Mutant of InstallBusy: the dead producer stays for pending lookups.     *)
BusyVisible(c) ==
    LET r == request[c] IN
    /\ Settles(c)
    /\ streaming[r.key] = Nobody /\ Accepting /\ r.user \in activeUsers
    /\ producer' = [producer EXCEPT ![c].pc = "done", ![c].terminal = "busy"]
    /\ Answer(c, "busy")
    /\ lookups' = [lookups EXCEPT ![r.key] = IF @ > 1 THEN @ - 1 ELSE 0]
    /\ IF lookups[r.key] > 1
       THEN streaming' = [streaming EXCEPT ![r.key] = c] /\ retiring' = retiring \cup {r.key}
       ELSE UNCHANGED <<streaming, retiring>>
    /\ UNCHANGED <<activeUsers, artifact, shutdown, settling>>

(* A user who has a generation already is turned away, and the producer    *)
(* just installed is taken out again before anybody can see it.            *)
InstallBusy(c) ==
    LET r == request[c] IN
    /\ Settles(c)
    /\ streaming[r.key] = Nobody /\ Accepting /\ r.user \in activeUsers
    /\ producer' = [producer EXCEPT ![c].pc = "done", ![c].terminal = "busy"]
    /\ Answer(c, "busy")
    /\ EndLookup(c, streaming)
    /\ UNCHANGED <<activeUsers, artifact, shutdown, settling>>

(* A request that bypasses the cache; one whose client has gone gives its  *)
(* admission back at once.                                                 *)
StartPrivate(c) ==
    LET r == request[c] IN
    /\ r.pc = "lookup" /\ r.found \in {"miss", "failed"} /\ r.private
    /\ ~r.aborted \/ r.key \in Briefings
    /\ \/ r.user \in activeUsers /\ Answer(c, "busy") /\ UNCHANGED activeUsers
       \/ /\ r.user \notin activeUsers
          /\ IF r.aborted
             THEN Answer(c, "left") /\ UNCHANGED activeUsers
             ELSE /\ Move(c, [r EXCEPT !.pc = "private"])
                  /\ activeUsers' = activeUsers \cup {r.user}
    /\ UNCHANGED <<streaming, retiring, lookups, artifact, producer, shutdown, settling>>

(* The private source ends, with an answer or an error. *)
EndPrivate(c) ==
    /\ request[c].pc = "private"
    /\ \E answer \in {"complete", "error"} : Answer(c, answer)
    /\ activeUsers' = activeUsers \ {request[c].user}
    /\ UNCHANGED <<streaming, retiring, lookups, artifact, producer, shutdown, settling>>

(* Mutant of Close: the lease is released a second time. *)
CloseAgain(c) ==
    /\ request[c].pc = "closing"
    /\ Answer(c, "left")
    /\ activeUsers' = activeUsers \ {request[c].user}
    /\ UNCHANGED <<streaming, retiring, lookups, artifact, producer, shutdown, settling>>

(* The stream of a client that has left is closed; its lease was released  *)
(* when the client left, and is not released again.                        *)
Close(c) ==
    /\ request[c].pc = "closing"
    /\ Answer(c, "left")
    /\ UNCHANGED <<streaming, retiring, lookups, activeUsers, artifact, producer, shutdown, settling>>

(* A subscriber has read every event up to the terminal one. *)
Receive(c) ==
    /\ request[c].pc = "waiting"
    /\ producer[request[c].from].terminal # "none"
    /\ Answer(c, producer[request[c].from].terminal)
    /\ UNCHANGED <<streaming, retiring, lookups, activeUsers, artifact, producer, shutdown, settling>>

(* The client disconnects.  A private generation ends with it, a retained  *)
(* one does not, a lookup goes on.                                         *)
Disconnect(c) ==
    LET r == request[c] IN
    /\ r.pc \in {"lookup", "waiting", "private"} /\ ~r.aborted
    /\ Move(c, [r EXCEPT !.aborted = TRUE,
                         !.pc = IF @ = "lookup" THEN "lookup" ELSE "closing"])
    /\ activeUsers' = IF r.pc = "private" THEN activeUsers \ {r.user} ELSE activeUsers
    /\ UNCHANGED <<streaming, retiring, lookups, artifact, producer, shutdown, settling>>

-----------------------------------------------------------------------------
(* A production *)

(* The answer is complete and about to be stored.  A query whose signal is *)
(* aborted already is not sent.                                            *)
BeginWrite(p) ==
    /\ producer[p].pc = "source"
    /\ producer' = IF producer[p].aborted
                   THEN [producer EXCEPT ![p] = [Published(@, "complete") EXCEPT !.pc = "ending"]]
                   ELSE [producer EXCEPT ![p].pc = "write", ![p].writing = TRUE]
    /\ UNCHANGED <<streaming, retiring, lookups, activeUsers, artifact, request, shutdown, settling>>

(* Mutant of FailSource: a source that stops short publishes nothing.      *)
StopShort(p) ==
    /\ producer[p].pc = "source"
    /\ producer' = [producer EXCEPT ![p].pc = "ending"]
    /\ UNCHANGED <<streaming, retiring, lookups, activeUsers, artifact, request, shutdown, settling>>

(* An error, a timeout, an answer that breaks the contract, or the end of  *)
(* the stream without an answer.                                           *)
FailSource(p) ==
    /\ producer[p].pc = "source"
    /\ producer' = [producer EXCEPT ![p] = [Published(@, "error") EXCEPT !.pc = "ending"]]
    /\ UNCHANGED <<streaming, retiring, lookups, activeUsers, artifact, request, shutdown, settling>>

(* The upsert commits: an unexpired answer is not overwritten.             *)
CommitWrite(p) ==
    LET k == request[p].key IN
    /\ producer[p].pc = "write"
    /\ producer' = [producer EXCEPT ![p].pc = "written"]
    /\ artifact' = IF artifact[k] = Nobody THEN [artifact EXCEPT ![k] = p] ELSE artifact
    /\ UNCHANGED <<streaming, retiring, lookups, activeUsers, request, shutdown, settling>>

(* The write returns or fails; either way the answer goes out.  A timeout   *)
(* or an abort closes the connection, not the statement at its other end.  *)
FinishWrite(p) ==
    /\ producer[p].pc \in {"write", "written"}
    /\ producer' = [producer EXCEPT ![p] =
                       [Published(@, "complete") EXCEPT !.pc = "ending", !.writing = FALSE,
                                                        !.late = (producer[p].pc = "write")]]
    /\ UNCHANGED <<streaming, retiring, lookups, activeUsers, artifact, request, shutdown, settling>>

(* The source is closed: the entry goes or retires, and the user is free.  *)
End(p) ==
    /\ producer[p].pc = "ending"
    /\ producer' = [producer EXCEPT ![p].pc = "done"]
    /\ activeUsers' = activeUsers \ {request[p].user}
    /\ Leave(p)
    /\ UNCHANGED <<lookups, artifact, request, shutdown, settling>>

-----------------------------------------------------------------------------
(* The database and the process *)

(* The answer's time to live is over. *)
Expire(k) ==
    /\ artifact[k] # Nobody
    /\ artifact' = [artifact EXCEPT ![k] = Nobody]
    /\ UNCHANGED <<streaming, retiring, lookups, activeUsers, producer, request, shutdown, settling>>

(* The database commits an upsert that was given up.  Whether it does,     *)
(* nobody here learns.                                                     *)
LateWrite(p) ==
    LET k == request[p].key IN
    /\ producer[p].late
    /\ producer' = [producer EXCEPT ![p].late = FALSE]
    /\ artifact' = IF artifact[k] = Nobody THEN [artifact EXCEPT ![k] = Elsewhere] ELSE artifact
    /\ UNCHANGED <<streaming, retiring, lookups, activeUsers, request, shutdown, settling>>

(* Another API process stores an answer.  Next is what one process does:    *)
(* MCAnswered puts other processes beside it.                               *)
OtherWrite(k) ==
    /\ artifact[k] = Nobody
    /\ artifact' = [artifact EXCEPT ![k] = Elsewhere]
    /\ UNCHANGED <<streaming, retiring, lookups, activeUsers, producer, request, shutdown, settling>>

InFlight == {p \in Requests : \E k \in Keys : streaming[k] = p}

(* Mutant of ShutDown: a write that is under way is not noticed.           *)
ShutDownAnyway(p) == [Published(p, "error") EXCEPT !.aborted = TRUE]

(* shutdown of one producer: the source and the write are aborted, and     *)
(* subscribers are told, unless the answer is being written.               *)
ShutDown(p) ==
    IF p.writing THEN [p EXCEPT !.aborted = TRUE]
    ELSE [Published(p, "error") EXCEPT !.aborted = TRUE]

(* gracefulShutdown: no producer is installed from here on. *)
BeginShutdown ==
    /\ shutdown = "no"
    /\ shutdown' = "settling"
    /\ settling' = InFlight
    /\ producer' = [p \in Requests |->
                       IF p \in InFlight THEN ShutDown(producer[p]) ELSE producer[p]]
    /\ UNCHANGED <<streaming, retiring, lookups, activeUsers, artifact, request>>

(* Mutant of EndShutdown: the productions are not awaited.                 *)
EndShutdownAtOnce ==
    /\ shutdown = "settling"
    /\ shutdown' = "over"
    /\ streaming' = [k \in Keys |-> Nobody] /\ retiring' = {}
    /\ lookups' = [k \in Keys |-> 0]
    /\ UNCHANGED <<activeUsers, artifact, producer, request, settling>>

(* Once every production has ended the maps are cleared, the leases of     *)
(* lookups still pending included.                                         *)
EndShutdown ==
    /\ shutdown = "settling"
    /\ \A p \in settling : producer[p].pc = "done"
    /\ shutdown' = "over"
    /\ streaming' = [k \in Keys |-> Nobody] /\ retiring' = {}
    /\ lookups' = [k \in Keys |-> 0]
    /\ UNCHANGED <<activeUsers, artifact, producer, request, settling>>

-----------------------------------------------------------------------------
(* Specification *)

Init ==
    /\ streaming = [k \in Keys |-> Nobody]
    /\ retiring = {}
    /\ lookups = [k \in Keys |-> 0]
    /\ activeUsers = {}
    /\ artifact = [k \in Keys |-> Nobody]
    /\ producer = [p \in Requests |-> NoProducer]
    /\ request \in
          [Requests -> [pc : {"idle"}, user : Users, key : Keys, private : BOOLEAN,
                        aborted : {FALSE}, found : {"none"}, from : {Nobody}, answer : {"none"}]]
    /\ shutdown = "no"
    /\ settling = {}

Serving(c) ==
    \/ Read(c) \/ Replay(c) \/ GiveUp(c) \/ Join(c) \/ Refuse(c)
    \/ Install(c) \/ InstallBusy(c) \/ StartPrivate(c) \/ EndPrivate(c)
    \/ Receive(c) \/ Close(c)

Producing(p) ==
    BeginWrite(p) \/ FailSource(p) \/ CommitWrite(p) \/ FinishWrite(p) \/ End(p)

Next ==
    \/ \E c \in Requests : Ask(c) \/ Serving(c) \/ Producing(c) \/ Disconnect(c) \/ LateWrite(c)
    \/ \E k \in Keys : Expire(k)
    \/ BeginShutdown
    \/ EndShutdown

Spec == Init /\ [][Next]_vars

-----------------------------------------------------------------------------
(* Properties *)

Running(p) == producer[p].pc \notin {"off", "done"}

(* Requests for one key never pay for two retained generations at once     *)
(* (installOrJoinGeneration: "No await may separate this check and         *)
(* install").                                                              *)
SingleFlight ==
    \A p, q \in Requests :
        Running(p) /\ Running(q) /\ request[p].key = request[q].key => p = q

(* A user holds an admission exactly while a generation of theirs runs, and *)
(* has at most one, retained or private: the lease is neither lost nor kept *)
(* when a production ends, a client leaves, or a shutdown aborts it         *)
(* (acquireGeneration).                                                     *)
Generating(c) == Running(c) \/ request[c].pc = "private"
AdmissionExact ==
    /\ activeUsers = {request[c].user : c \in {d \in Requests : Generating(d)}}
    /\ \A p, q \in Requests :
          Generating(p) /\ Generating(q) /\ request[p].user = request[q].user => p = q

(* "busy" is said to the user it is true of, never to one who joined       *)
(* (removeInFlightGeneration without retention).                           *)
BusyIsOwn ==
    \A c \in Requests :
        request[c].pc = "waiting" => producer[request[c].from].terminal # "busy"

(* An answer that is in the database, or may still come there, is the      *)
(* answer its subscribers get: the shutdown does not come between the      *)
(* write and the terminal event (finishCompletionWrite: "shutdown cannot   *)
(* interleave the two").                                                   *)
CommittedIsDelivered ==
    \A p \in Requests :
        /\ producer[p].pc = "written" => producer[p].terminal = "none"
        /\ producer[p].late => producer[p].terminal = "complete"
        /\ \A k \in Keys : artifact[k] = p => producer[p].terminal \in {"none", "complete"}

(* When the shutdown is over no retained generation runs, and none can be  *)
(* installed.                                                              *)
ShutdownFinal == shutdown = "over" => \A p \in Requests : ~Running(p)

(* A request that was told the answer is not stored never starts a second  *)
(* generation of an answer this process has stored meanwhile, and has been *)
(* told so: the lease of its lookup keeps the producer that did            *)
(* (beginGenerationCacheLookup).  Of an upsert that commits after it was   *)
(* given up it does start one.                                             *)
NoWastedGeneration ==
    [][\A c \in Requests :
          /\ request[c].found = "miss"
          /\ producer[c].pc = "off" /\ producer'[c].pc = "source"
          => artifact[request[c].key] \notin Requests]_vars
=============================================================================
