--------------------- MODULE AssistantGenerationProofs ---------------------
(***************************************************************************)
(* Safety of AssistantGeneration for any requests, users and keys: one     *)
(* generation for a key, exact admission, no busy answer for one who has   *)
(* joined, no answer lost by a shutdown, a shutdown that is final, and no  *)
(* generation of an answer that is stored already.                         *)
(*                                                                         *)
(* The inductive invariant IInv says what the entries of the map of        *)
(* producers mean (Entries), what a producer is at each of its steps       *)
(* (Productions), whom an admission belongs to (AdmissionExact), and that  *)
(* the leases are counted (LeasesCounted): a lookup that has missed keeps  *)
(* the producer that has stored its answer meanwhile (MissesKeep).         *)
(***************************************************************************)
EXTENDS AssistantGeneration, FiniteSetTheorems, TLAPS

(* A producer that has been installed, and did not turn its user away.     *)
Shared(p) == producer[p].pc # "off" /\ producer[p].terminal # "busy"

(* A request installs a producer when its lookup ends.                     *)
Installed(c) ==
    producer[c].pc # "off" =>
        /\ request[c].pc \in {"waiting", "closing", "answered"}
        /\ ~request[c].private

(* A producer that runs is in the map.  What is in the map is of its key,  *)
(* and runs or is kept for lookups.                                        *)
Entries ==
    /\ \A p \in Requests : Running(p) => streaming[request[p].key] = p
    /\ \A k \in Keys :
          /\ streaming[k] # Nobody =>
                /\ request[streaming[k]].key = k
                /\ Shared(streaming[k])
                /\ Running(streaming[k]) \/ k \in retiring
          /\ k \in retiring => streaming[k] # Nobody /\ producer[streaming[k]].pc = "done"

(* A production and its write.                                             *)
Production(p) ==
    LET q == producer[p] IN
    /\ q.pc = "off" => q = NoProducer
    /\ q.writing <=> q.pc \in {"write", "written"}
    /\ q.pc \in {"write", "written"} => q.terminal = "none"
    /\ q.pc = "source" => q.terminal # "busy" /\ (~q.aborted => q.terminal = "none")
    /\ q.pc = "ending" => q.terminal # "busy"
    /\ q.late => q.pc \in {"ending", "done"} /\ q.terminal = "complete"

(* The producer of an answer that is stored here has published it, or      *)
(* still waits for its write to return.                                    *)
Stored ==
    \A k \in Keys : artifact[k] \in Requests =>
        LET q == producer[artifact[k]] IN
        \/ q.pc = "written" /\ q.terminal = "none"
        \/ q.pc \in {"ending", "done"} /\ q.terminal = "complete"

Subscription(c) ==
    request[c].pc = "waiting" => request[c].from \in Requests /\ Shared(request[c].from)

(* The lookups that hold a lease. *)
Leases(k) == {c \in Requests : request[c].pc = "lookup" /\ Leased(c) /\ request[c].key = k}

LeasesCounted ==
    shutdown # "over" =>
        \A k \in Keys : IsFiniteSet(Leases(k)) /\ lookups[k] = Cardinality(Leases(k))

MissesKeep ==
    shutdown # "over" =>
        \A c \in Requests :
            /\ request[c].pc = "lookup" /\ request[c].found = "miss" /\ Leased(c)
            /\ artifact[request[c].key] \in Requests
            => streaming[request[c].key] = artifact[request[c].key]

Stopping ==
    /\ shutdown = "settling" => \A p \in Requests : Running(p) => p \in settling
    /\ ShutdownFinal

IInv ==
    /\ TypeOK
    /\ Entries
    /\ \A c \in Requests : Installed(c) /\ Production(c) /\ Subscription(c)
    /\ AdmissionExact
    /\ Stored
    /\ LeasesCounted
    /\ MissesKeep
    /\ Stopping
-----------------------------------------------------------------------------
(* Type correctness.                                                       *)

(* The end of a lease changes nothing for other keys; it takes the entry   *)
(* of its own key away when it was the last lease and the producer retires. *)
LEMMA EndLookupEffect ==
    ASSUME TypeOK, NEW c \in Requests, NEW entries \in [Keys -> Requests \cup {Nobody}],
           EndLookup(c, entries)
    PROVE  /\ streaming' \in [Keys -> Requests \cup {Nobody}]
           /\ retiring' \subseteq Keys
           /\ lookups' \in [Keys -> Nat]
           /\ \A k \in Keys :
                \/ /\ streaming'[k] = entries[k]
                   /\ k \in retiring' <=> k \in retiring
                \/ /\ Leased(c) /\ k = request[c].key /\ lookups[k] <= 1 /\ k \in retiring
                   /\ streaming'[k] = Nobody /\ k \notin retiring'
           /\ \A k \in Keys :
                lookups'[k] = IF Leased(c) /\ k = request[c].key
                              THEN IF lookups[k] > 1 THEN lookups[k] - 1 ELSE 0 ELSE lookups[k]
<1>1. request[c].key \in Keys
    BY DEF TypeOK, Request
<1>2. CASE ~Leased(c)
    BY <1>2 DEF EndLookup, TypeOK
<1>3. CASE Leased(c)
  <2>1. Release(request[c].key, entries)
      BY <1>3 DEF EndLookup
  <2>2. lookups' \in [Keys -> Nat]
      BY <1>1, <2>1 DEF Release, TypeOK
  <2>3. \A k \in Keys :
          lookups'[k] = IF k = request[c].key
                        THEN IF lookups[k] > 1 THEN lookups[k] - 1 ELSE 0 ELSE lookups[k]
      BY <1>1, <2>1 DEF Release, TypeOK
  <2>4. CASE lookups[request[c].key] <= 1 /\ request[c].key \in retiring
      BY <1>1, <1>3, <2>1, <2>2, <2>3, <2>4 DEF Release, TypeOK
  <2>5. CASE ~(lookups[request[c].key] <= 1 /\ request[c].key \in retiring)
      BY <1>1, <1>3, <2>1, <2>2, <2>3, <2>5 DEF Release, TypeOK
  <2> QED BY <2>4, <2>5
<1> QED BY <1>2, <1>3

(* Publishing a terminal event leaves a producer, keeps its step, and only *)
(* the first terminal event counts.                                        *)
LEMMA PublishedType ==
    ASSUME NEW q \in Producer, NEW terminal \in {"complete", "error"}
    PROVE  /\ Published(q, terminal) \in Producer
           /\ Published(q, terminal).pc = q.pc
           /\ Published(q, terminal).aborted = q.aborted
           /\ Published(q, terminal).writing = q.writing
           /\ Published(q, terminal).late = q.late
           /\ Published(q, terminal).terminal =
                 IF q.terminal = "none" THEN terminal ELSE q.terminal
BY DEF Published, Producer

(* A producer that is shut down is aborted, and fails its subscribers      *)
(* unless it is writing or has ended.                                      *)
LEMMA ShutDownType ==
    ASSUME NEW q \in Producer
    PROVE  /\ ShutDown(q) \in Producer
           /\ ShutDown(q).pc = q.pc
           /\ ShutDown(q).aborted
           /\ ShutDown(q).writing = q.writing
           /\ ShutDown(q).late = q.late
           /\ ShutDown(q).terminal =
                 IF q.terminal = "none" /\ ~q.writing THEN "error" ELSE q.terminal
BY DEF ShutDown, Published, Producer
(* A request keeps its user, its key and its way.                          *)
SameAsk(r, q) == r.user = q.user /\ r.key = q.key /\ r.private = q.private
Asks == \A d \in Requests : SameAsk(request'[d], request[d])

(* A step of one request keeps what every request asked for, and leaves    *)
(* the others alone.                                                       *)
LEMMA MoveEffect ==
    ASSUME TypeOK, NEW c \in Requests, NEW r \in Request, SameAsk(r, request[c]), Move(c, r)
    PROVE  /\ request' \in [Requests -> Request] /\ Asks
           /\ request'[c] = r
           /\ \A d \in Requests \ {c} : request'[d] = request[d]
BY DEF Move, TypeOK, SameAsk, Asks

(* So does its answer.                                                     *)
LEMMA AnswerEffect ==
    ASSUME TypeOK, NEW c \in Requests, NEW answer \in {"complete", "error", "busy", "left"},
           Answer(c, answer)
    PROVE  /\ request' \in [Requests -> Request] /\ Asks
           /\ request'[c].pc = "answered"
           /\ \A d \in Requests \ {c} : request'[d] = request[d]
<1> DEFINE r == [request[c] EXCEPT !.pc = "answered", !.answer = answer, !.found = "none", !.from = Nobody]
<1>1. r \in Request /\ r.pc = "answered" /\ SameAsk(r, request[c])
  <2>1. PICK q \in Request : q = request[c]
      BY DEF TypeOK
  <2>2. PICK s \in Request : s = [q EXCEPT !.pc = "answered", !.answer = answer]
      BY DEF Request
  <2>3. r = [s EXCEPT !.found = "none", !.from = Nobody]
      BY <2>1, <2>2 DEF Request
  <2>4. r \in Request
      BY <2>3 DEF Request
  <2>5. r.pc = "answered" /\ r.key = q.key /\ r.user = q.user /\ r.private = q.private
      BY <2>1 DEF Request
  <2> QED BY <2>1, <2>4, <2>5 DEF SameAsk
<1>2. Move(c, r)
    BY DEF Answer
<1> HIDE DEF r
<1> QED BY <1>1, <1>2, MoveEffect

(* One who subscribes to a producer waits for it, unless it has left       *)
(* meanwhile.                                                              *)
LEMMA SubscribedType ==
    ASSUME NEW r \in Request, NEW p \in Requests
    PROVE  /\ Subscribed(r, p) \in Request
           /\ SameAsk(Subscribed(r, p), r)
           /\ Subscribed(r, p).pc \in {"waiting", "closing"}
           /\ Subscribed(r, p).from = p
           /\ Subscribed(r, p).found = r.found
BY DEF Subscribed, Request, SameAsk

(* A request joins the producer of its key, or begins a lookup: with a     *)
(* lease unless it bypasses the cache.                                     *)
LEMMA AskEffect ==
    ASSUME TypeOK, NEW c \in Requests, Ask(c)
    PROVE  /\ request' \in [Requests -> Request] /\ Asks
           /\ \A d \in Requests \ {c} : request'[d] = request[d]
           /\ \/ /\ streaming[request[c].key] # Nobody /\ ~request[c].private
                 /\ request'[c].pc = "waiting" /\ request'[c].from = streaming[request[c].key]
                 /\ UNCHANGED lookups
              \/ /\ streaming[request[c].key] = Nobody \/ request[c].private
                 /\ request'[c].pc = "lookup" /\ (request'[c].found = "miss" => request[c].private)
                 /\ lookups' = IF request[c].private THEN lookups
                               ELSE [lookups EXCEPT ![request[c].key] = @ + 1]
<1> DEFINE r == request[c]
           k == r.key
           joined == [r EXCEPT !.pc = "waiting", !.from = streaming[k]]
           asking == [r EXCEPT !.pc = "lookup",
                               !.found = IF r.private /\ k \in Briefings THEN "miss" ELSE "none"]
<1>1. r \in Request /\ k \in Keys /\ streaming[k] \in Requests \cup {Nobody}
    BY DEF TypeOK, Request
<1>2. CASE Move(c, joined) /\ ~r.private /\ streaming[k] # Nobody /\ UNCHANGED lookups
  <2>1. /\ joined \in Request /\ SameAsk(joined, r)
        /\ joined.pc = "waiting" /\ joined.from = streaming[k]
      BY <1>1 DEF Request, SameAsk
  <2> HIDE DEF joined
  <2> QED BY <1>2, <2>1, MoveEffect
<1>3. CASE /\ Move(c, asking) /\ (r.private \/ streaming[k] = Nobody)
           /\ lookups' = IF r.private THEN lookups ELSE [lookups EXCEPT ![k] = @ + 1]
  <2>1. /\ asking \in Request /\ SameAsk(asking, r)
        /\ asking.pc = "lookup" /\ (asking.found = "miss" => r.private)
      BY <1>1 DEF Request, SameAsk
  <2> HIDE DEF asking
  <2> QED BY <1>3, <2>1, MoveEffect
<1> QED BY <1>2, <1>3 DEF Ask

(* One who leaves during its lookup only notes it; any other closes its    *)
(* stream.                                                                 *)
LEMMA DisconnectEffect ==
    ASSUME TypeOK, NEW c \in Requests, Disconnect(c)
    PROVE  /\ request' \in [Requests -> Request] /\ Asks
           /\ \A d \in Requests \ {c} : request'[d] = request[d]
           /\ request[c].pc \in {"lookup", "waiting", "private"}
           /\ request'[c].pc = IF request[c].pc = "lookup" THEN "lookup" ELSE "closing"
           /\ request'[c].found = request[c].found
           /\ request'[c].from = request[c].from
<1> DEFINE r == [request[c] EXCEPT !.aborted = TRUE, !.pc = IF @ = "lookup" THEN "lookup" ELSE "closing"]
<1>1. /\ r \in Request /\ SameAsk(r, request[c]) /\ r.found = request[c].found /\ r.from = request[c].from
      /\ r.pc = IF request[c].pc = "lookup" THEN "lookup" ELSE "closing"
  <2>1. PICK q \in Request : q = request[c]
      BY DEF TypeOK
  <2>2. r \in Request
    <3>1. [q EXCEPT !.aborted = TRUE, !.pc = "closing"] \in Request
        BY DEF Request
    <3>2. q.pc = "lookup" => [q EXCEPT !.aborted = TRUE, !.pc = "lookup"] \in Request
        BY DEF Request
    <3> QED BY <2>1, <3>1, <3>2
  <2>3. /\ r.key = q.key /\ r.user = q.user /\ r.private = q.private
        /\ r.found = q.found /\ r.from = q.from
        /\ r.pc = IF q.pc = "lookup" THEN "lookup" ELSE "closing"
      BY <2>1 DEF Request
  <2> QED BY <2>1, <2>2, <2>3 DEF SameAsk
<1>2. Move(c, r) /\ request[c].pc \in {"lookup", "waiting", "private"}
    BY DEF Disconnect
<1> HIDE DEF r
<1> QED BY <1>1, <1>2, MoveEffect

(* A lookup that misses has read that nothing is stored.                   *)
LEMMA ReadEffect ==
    ASSUME TypeOK, NEW c \in Requests, Read(c)
    PROVE  /\ request' \in [Requests -> Request] /\ Asks
           /\ \A d \in Requests \ {c} : request'[d] = request[d]
           /\ request[c].pc = "lookup" /\ request'[c].pc = "lookup"
           /\ request'[c].found = "miss" => artifact[request[c].key] = Nobody
<1>1. PICK found \in {"failed", "miss", "hit"} :
         /\ found = "miss" => artifact[request[c].key] = Nobody
         /\ Move(c, [request[c] EXCEPT !.found = found])
    BY DEF Read
<1> DEFINE r == [request[c] EXCEPT !.found = found]
<1>2. r \in Request /\ SameAsk(r, request[c]) /\ r.found = found /\ r.pc = request[c].pc
    BY DEF TypeOK, Request, SameAsk
<1>3. request[c].pc = "lookup"
    BY DEF Read
<1> HIDE DEF r
<1> QED BY <1>1, <1>2, <1>3, MoveEffect DEF r

(* A request that bypasses the cache is turned away or admitted, and       *)
(* touches no shared entry.                                                *)
LEMMA StartPrivateEffect ==
    ASSUME TypeOK, NEW c \in Requests, StartPrivate(c)
    PROVE  /\ request' \in [Requests -> Request] /\ Asks
           /\ \A d \in Requests \ {c} : request'[d] = request[d]
           /\ request[c].pc = "lookup" /\ request[c].private
           /\ \/ request'[c].pc = "answered" /\ UNCHANGED activeUsers
              \/ /\ request'[c].pc = "private" /\ request[c].user \notin activeUsers
                 /\ activeUsers' = activeUsers \cup {request[c].user}
<1>1. request[c].pc = "lookup" /\ request[c].private
    BY DEF StartPrivate
<1>2. CASE \E answer \in {"busy", "left"} : Answer(c, answer) /\ UNCHANGED activeUsers
    BY <1>1, <1>2, AnswerEffect
<1>3. CASE /\ Move(c, [request[c] EXCEPT !.pc = "private"]) /\ request[c].user \notin activeUsers
           /\ activeUsers' = activeUsers \cup {request[c].user}
  <2> DEFINE r == [request[c] EXCEPT !.pc = "private"]
  <2>1. r \in Request /\ SameAsk(r, request[c]) /\ r.pc = "private"
      BY DEF TypeOK, Request, SameAsk
  <2> HIDE DEF r
  <2> QED BY <1>1, <1>3, <2>1, MoveEffect DEF r
<1> QED BY <1>2, <1>3 DEF StartPrivate

(* A lookup that ends while a producer streams subscribes to it.           *)
LEMMA JoinEffect ==
    ASSUME TypeOK, NEW c \in Requests, Join(c)
    PROVE  /\ request' \in [Requests -> Request] /\ Asks
           /\ \A d \in Requests \ {c} : request'[d] = request[d]
           /\ streaming[request[c].key] # Nobody
           /\ request'[c].pc \in {"waiting", "closing"}
           /\ request'[c].from = streaming[request[c].key]
<1>1. request[c] \in Request /\ request[c].key \in Keys /\ streaming[request[c].key] \in Requests
    BY DEF Join, TypeOK, Request
<1>2. Move(c, Subscribed(request[c], streaming[request[c].key])) /\ streaming[request[c].key] # Nobody
    BY DEF Join
<1> QED BY <1>1, <1>2, SubscribedType, MoveEffect

(* The one who installs a producer subscribes to its own.                  *)
LEMMA InstallRequest ==
    ASSUME TypeOK, NEW c \in Requests, Install(c)
    PROVE  /\ request' \in [Requests -> Request] /\ Asks
           /\ \A d \in Requests \ {c} : request'[d] = request[d]
           /\ request'[c].pc \in {"waiting", "closing"}
           /\ request'[c].from = c
<1>1. request[c] \in Request
    BY DEF TypeOK
<1>2. Move(c, Subscribed(request[c], c))
    BY DEF Install
<1> QED BY <1>1, <1>2, SubscribedType, MoveEffect

(* An installed producer starts at its source; no other one changes.       *)
LEMMA InstallProducer ==
    ASSUME TypeOK, NEW c \in Requests, Install(c)
    PROVE  /\ producer' \in [Requests -> Producer]
           /\ \A d \in Requests \ {c} : producer'[d] = producer[d]
           /\ producer'[c].pc = "source" /\ producer'[c].terminal = producer[c].terminal
           /\ producer'[c].aborted = producer[c].aborted
           /\ producer'[c].writing = producer[c].writing /\ producer'[c].late = producer[c].late
BY DEF Install, TypeOK, Producer

(* It is entered in the map before the lease of its lookup ends.           *)
LEMMA InstallMaps ==
    ASSUME TypeOK, NEW c \in Requests, Install(c)
    PROVE  /\ [streaming EXCEPT ![request[c].key] = c] \in [Keys -> Requests \cup {Nobody}]
           /\ EndLookup(c, [streaming EXCEPT ![request[c].key] = c])
<1>1. request[c].key \in Keys
    BY DEF TypeOK, Request
<1> QED BY <1>1 DEF Install, TypeOK

(* Install finds no producer and an idle user, and admits that user.       *)
LEMMA InstallEffect ==
    ASSUME TypeOK, NEW c \in Requests, Install(c)
    PROVE  /\ request[c].key \in Keys /\ request[c].user \in Users
           /\ Settles(c) /\ streaming[request[c].key] = Nobody /\ shutdown = "no"
           /\ request[c].user \notin activeUsers
           /\ activeUsers' = activeUsers \cup {request[c].user}
           /\ UNCHANGED <<artifact, shutdown, settling>>
<1>1. request[c].key \in Keys /\ request[c].user \in Users
    BY DEF TypeOK, Request
<1> QED BY <1>1 DEF Install, Accepting

(* What a step of a production makes of it.                                *)
LEMMA ProducingEffect ==
    ASSUME TypeOK, NEW p \in Requests, Producing(p)
    PROVE  /\ producer' \in [Requests -> Producer]
           /\ \A q \in Requests \ {p} : producer'[q] = producer[q]
           /\ producer'[p].late = producer[p].late \/ producer'[p].late = (producer[p].pc = "write")
           /\ producer'[p].pc \notin {"ending", "done"} => producer'[p].late = producer[p].late
           /\ UNCHANGED <<lookups, request, shutdown, settling>>
           /\ \/ /\ producer[p].pc = "source" /\ producer'[p].pc = "write" /\ producer'[p].writing
                 /\ ~producer[p].aborted
                 /\ producer'[p].terminal = producer[p].terminal
                 /\ UNCHANGED <<streaming, retiring, activeUsers, artifact>>
              \/ /\ producer[p].pc = "source" /\ producer'[p].pc = "ending"
                 /\ producer'[p].writing = producer[p].writing
                 /\ producer'[p].terminal # "none"
                 /\ producer'[p].terminal = "busy" => producer[p].terminal = "busy"
                 /\ UNCHANGED <<streaming, retiring, activeUsers, artifact>>
              \/ /\ producer[p].pc = "write" /\ producer'[p].pc = "written"
                 /\ producer'[p].writing = producer[p].writing
                 /\ producer'[p].terminal = producer[p].terminal
                 /\ artifact' = IF artifact[request[p].key] = Nobody
                                THEN [artifact EXCEPT ![request[p].key] = p] ELSE artifact
                 /\ UNCHANGED <<streaming, retiring, activeUsers>>
              \/ /\ producer[p].pc \in {"write", "written"} /\ producer'[p].pc = "ending"
                 /\ ~producer'[p].writing
                 /\ producer'[p].terminal = IF producer[p].terminal = "none" THEN "complete"
                                            ELSE producer[p].terminal
                 /\ UNCHANGED <<streaming, retiring, activeUsers, artifact>>
              \/ /\ producer[p].pc = "ending" /\ producer'[p].pc = "done"
                 /\ producer'[p].writing = producer[p].writing
                 /\ producer'[p].terminal = producer[p].terminal
                 /\ activeUsers' = activeUsers \ {request[p].user}
                 /\ Leave(p)
                 /\ UNCHANGED artifact
<1>1. producer[p] \in Producer
    BY DEF TypeOK
<1>2. CASE BeginWrite(p) /\ producer[p].aborted
  <2>1. [Published(producer[p], "complete") EXCEPT !.pc = "ending"] \in Producer
      BY <1>1 DEF Published, Producer
  <2> QED BY <1>1, <1>2, <2>1, PublishedType DEF BeginWrite, TypeOK, Producer
<1>3. CASE BeginWrite(p) /\ ~producer[p].aborted
    BY <1>1, <1>3 DEF BeginWrite, TypeOK, Producer
<1>4. CASE FailSource(p)
  <2>1. [Published(producer[p], "error") EXCEPT !.pc = "ending"] \in Producer
      BY <1>1 DEF Published, Producer
  <2> QED BY <1>1, <1>4, <2>1, PublishedType DEF FailSource, TypeOK, Producer
<1>5. CASE CommitWrite(p)
    BY <1>1, <1>5 DEF CommitWrite, TypeOK, Producer
<1>6. CASE FinishWrite(p)
  <2>1. [Published(producer[p], "complete") EXCEPT !.pc = "ending", !.writing = FALSE,
                                                   !.late = (producer[p].pc = "write")] \in Producer
      BY <1>1 DEF Published, Producer
  <2>2. PICK new \in Producer :
           new = [Published(producer[p], "complete") EXCEPT !.pc = "ending", !.writing = FALSE,
                                                            !.late = (producer[p].pc = "write")]
      BY <2>1
  <2>3. /\ new.pc = "ending" /\ ~new.writing /\ new.late = (producer[p].pc = "write")
        /\ new.terminal = IF producer[p].terminal = "none" THEN "complete"
                          ELSE producer[p].terminal
      BY <1>1, <2>2 DEF Published, Producer
  <2>4. producer' = [producer EXCEPT ![p] = new]
      BY <1>6, <2>2 DEF FinishWrite
  <2>5. producer[p].pc \in {"write", "written"} /\ UNCHANGED <<streaming, retiring, activeUsers, artifact>>
      BY <1>6 DEF FinishWrite
  <2> QED BY <1>6, <2>3, <2>4, <2>5 DEF FinishWrite, TypeOK
<1>7. CASE End(p)
    BY <1>1, <1>7 DEF End, TypeOK, Producer
<1> QED BY <1>2, <1>3, <1>4, <1>5, <1>6, <1>7 DEF Producing

(* An upsert that was given up may leave an answer that nobody knows of.   *)
LEMMA LateEffect ==
    ASSUME TypeOK, NEW p \in Requests, LateWrite(p)
    PROVE  /\ producer' \in [Requests -> Producer]
           /\ \A q \in Requests \ {p} : producer'[q] = producer[q]
           /\ /\ producer'[p].pc = producer[p].pc /\ producer'[p].terminal = producer[p].terminal
              /\ producer'[p].aborted = producer[p].aborted /\ producer'[p].writing = producer[p].writing
           /\ producer[p].late /\ ~producer'[p].late
           /\ artifact' \in [Keys -> Requests \cup {Nobody, Elsewhere}]
           /\ \A k \in Keys : artifact'[k] \in Requests => artifact'[k] = artifact[k]
           /\ UNCHANGED <<streaming, retiring, lookups, activeUsers, request, shutdown, settling>>
<1>1. PICK q \in Producer : q = producer[p] /\ producer' = [producer EXCEPT ![p] = [q EXCEPT !.late = FALSE]]
    BY DEF LateWrite, TypeOK
<1>2. [q EXCEPT !.late = FALSE] \in Producer
    BY DEF Producer
<1>3. /\ artifact' \in [Keys -> Requests \cup {Nobody, Elsewhere}]
      /\ \A k \in Keys : artifact'[k] \in Requests => artifact'[k] = artifact[k]
    BY NobodyAssumption DEF LateWrite, TypeOK, Request
<1> QED BY <1>1, <1>2, <1>3 DEF LateWrite, TypeOK, Producer

-----------------------------------------------------------------------------
(* The invariant is kept, conjunct by conjunct.                            *)

(* Every step keeps the types, and what a request asked for does not       *)
(* change.                                                                 *)
LEMMA TypeKept ==
    ASSUME IInv, Next
    PROVE  TypeOK' /\ Asks
<1>0. TypeOK
    BY DEF IInv
<1> DEFINE Rest == /\ activeUsers' \subseteq Users
                   /\ artifact' \in [Keys -> Requests \cup {Nobody, Elsewhere}]
                   /\ producer' \in [Requests -> Producer]
                   /\ shutdown' \in {"no", "settling", "over"}
                   /\ settling' \subseteq Requests
           Maps == /\ streaming' \in [Keys -> Requests \cup {Nobody}]
                   /\ retiring' \subseteq Keys
                   /\ lookups' \in [Keys -> Nat]
<1>1. ASSUME NEW c \in Requests, Ask(c) PROVE TypeOK' /\ Asks
  <2>1. lookups' \in [Keys -> Nat]
      BY <1>0, <1>1, AskEffect DEF TypeOK, Request
  <2> QED BY <1>0, <1>1, <2>1, AskEffect DEF Ask, TypeOK
<1>2. ASSUME NEW c \in Requests, Read(c) PROVE TypeOK' /\ Asks
    BY <1>0, <1>2, ReadEffect DEF Read, TypeOK
<1>3. ASSUME NEW c \in Requests, Replay(c) \/ GiveUp(c) \/ Refuse(c) \/ InstallBusy(c)
      PROVE  TypeOK' /\ Asks
  <2>1. Maps /\ Rest
      BY <1>0, <1>3, EndLookupEffect DEF Replay, GiveUp, Refuse, InstallBusy, TypeOK, Producer
  <2>2. request' \in [Requests -> Request] /\ Asks
      BY <1>0, <1>3, AnswerEffect DEF Replay, GiveUp, Refuse, InstallBusy
  <2> QED BY <2>1, <2>2 DEF TypeOK
<1>4. ASSUME NEW c \in Requests, Join(c) PROVE TypeOK' /\ Asks
  <2>1. Maps /\ Rest
      BY <1>0, <1>4, EndLookupEffect DEF Join, TypeOK
  <2> QED BY <1>0, <1>4, <2>1, JoinEffect DEF TypeOK
<1>5. ASSUME NEW c \in Requests, Install(c) PROVE TypeOK' /\ Asks
  <2>1. Maps
      BY <1>0, <1>5, EndLookupEffect, InstallMaps
  <2>2. Rest
      BY <1>0, <1>5, InstallEffect, InstallProducer DEF TypeOK
  <2> QED BY <1>0, <1>5, <2>1, <2>2, InstallRequest DEF TypeOK
<1>6. ASSUME NEW c \in Requests, StartPrivate(c) PROVE TypeOK' /\ Asks
  <2>1. activeUsers' \subseteq Users
      BY <1>0, <1>6, StartPrivateEffect DEF TypeOK, Request
  <2> QED BY <1>0, <1>6, <2>1, StartPrivateEffect DEF StartPrivate, TypeOK
<1>7. ASSUME NEW c \in Requests, EndPrivate(c) \/ Close(c) PROVE TypeOK' /\ Asks
    BY <1>0, <1>7, AnswerEffect DEF EndPrivate, Close, TypeOK
<1>8. ASSUME NEW c \in Requests, Receive(c) PROVE TypeOK' /\ Asks
  <2>1. producer[request[c].from].terminal \in {"complete", "error", "busy"}
      BY <1>0, <1>8 DEF Receive, IInv, Subscription, TypeOK, Producer
  <2> QED BY <1>0, <1>8, <2>1, AnswerEffect DEF Receive, TypeOK
<1>9. ASSUME NEW c \in Requests, Disconnect(c) PROVE TypeOK' /\ Asks
  <2>1. activeUsers' \subseteq Users
      BY <1>0, <1>9 DEF Disconnect, TypeOK
  <2> QED BY <1>0, <1>9, <2>1, DisconnectEffect DEF Disconnect, TypeOK
<1>10. ASSUME NEW p \in Requests, Producing(p) PROVE TypeOK' /\ Asks
  <2>1. request[p].key \in Keys
      BY <1>0 DEF TypeOK, Request
  <2>2. Maps /\ Rest
      BY <1>0, <1>10, <2>1, ProducingEffect DEF Leave, TypeOK
  <2>3. request' \in [Requests -> Request] /\ Asks
      BY <1>0, <1>10, ProducingEffect DEF TypeOK, Asks, SameAsk
  <2> QED BY <2>2, <2>3 DEF TypeOK
<1>11. ASSUME NEW k \in Keys, Expire(k) PROVE TypeOK' /\ Asks
    BY <1>0, <1>11 DEF Expire, TypeOK, Asks, SameAsk
<1>14. ASSUME NEW p \in Requests, LateWrite(p) PROVE TypeOK' /\ Asks
    BY <1>0, <1>14, LateEffect DEF TypeOK, Asks, SameAsk
<1>12. CASE BeginShutdown
  <2>1. producer' \in [Requests -> Producer]
      BY <1>0, <1>12, ShutDownType DEF BeginShutdown, TypeOK
  <2> QED BY <1>0, <1>12, <2>1 DEF BeginShutdown, InFlight, TypeOK, Asks, SameAsk
<1>13. CASE EndShutdown
    BY <1>0, <1>13 DEF EndShutdown, TypeOK, Asks, SameAsk
<1> QED
    BY <1>1, <1>2, <1>3, <1>4, <1>5, <1>6, <1>7, <1>8, <1>9, <1>10, <1>11, <1>12, <1>13, <1>14
       DEF Next, Serving

(* What a step of a request does that installs no producer: where the      *)
(* request goes, ...                                                       *)
Goes(c) ==
    LET from == request[c].pc
        to == request'[c].pc
    IN
    /\ \A d \in Requests \ {c} : request'[d] = request[d]
    /\ from \in {"idle", "lookup", "private"} \/ to \in {"closing", "answered"}
    /\ to = "waiting" => /\ from # "waiting"
                         /\ request'[c].from = streaming[request[c].key]
                         /\ streaming[request[c].key] # Nobody
    /\ to = "lookup" /\ request'[c].found = "miss" /\ ~request[c].private =>
          \/ from = "lookup" /\ request[c].found = "miss"
          \/ artifact[request[c].key] = Nobody

(* ... its admission, ...                                                  *)
Admits(c) ==
    LET from == request[c].pc
        to == request'[c].pc
    IN
    \/ from # "private" /\ to # "private" /\ UNCHANGED activeUsers
    \/ /\ from = "lookup" /\ to = "private" /\ request[c].user \notin activeUsers
       /\ activeUsers' = activeUsers \cup {request[c].user}
    \/ /\ from = "private" /\ to # "private"
       /\ activeUsers' = activeUsers \ {request[c].user}

(* ... and its lease.                                                      *)
Leasing(c) ==
    LET from == request[c].pc
        to == request'[c].pc
    IN
    \/ /\ from = "lookup" <=> to = "lookup"
       /\ UNCHANGED <<streaming, retiring, lookups>>
    \/ /\ request[c].private
       /\ UNCHANGED <<streaming, retiring, lookups>>
    \/ /\ from = "idle" /\ to = "lookup" /\ ~request[c].private
       /\ UNCHANGED <<streaming, retiring>>
       /\ lookups' = [lookups EXCEPT ![request[c].key] = @ + 1]
    \/ from = "lookup" /\ to # "lookup" /\ EndLookup(c, streaming)

QuietStep(c) ==
    /\ Goes(c) /\ Admits(c) /\ Leasing(c)
    /\ UNCHANGED <<artifact, producer, shutdown, settling>>

Quiet(c) ==
    \/ Ask(c) \/ Read(c) \/ Replay(c) \/ GiveUp(c) \/ Refuse(c) \/ Join(c)
    \/ StartPrivate(c) \/ EndPrivate(c) \/ Close(c) \/ Receive(c) \/ Disconnect(c)

(* The steps of a request that install nothing leave producers, artifacts  *)
(* and the shutdown alone.                                                 *)
LEMMA QuietEffect ==
    ASSUME IInv, NEW c \in Requests, Quiet(c)
    PROVE  QuietStep(c)
<1>0. TypeOK
    BY DEF IInv
<1> USE DEF Goes, Admits, Leasing, QuietStep
<1>1. CASE Ask(c)
    BY <1>0, <1>1, AskEffect DEF Ask
<1>2. CASE Read(c)
    BY <1>0, <1>2, ReadEffect DEF Read
<1>3. CASE Replay(c) \/ GiveUp(c) \/ Refuse(c)
    BY <1>0, <1>3, AnswerEffect DEF Replay, GiveUp, Refuse, Settles
<1>4. CASE Join(c)
    BY <1>0, <1>4, JoinEffect DEF Join, Settles
<1>5. CASE StartPrivate(c)
    BY <1>0, <1>5, StartPrivateEffect DEF StartPrivate
<1>6. CASE EndPrivate(c) \/ Close(c)
    BY <1>0, <1>6, AnswerEffect DEF EndPrivate, Close
<1>7. CASE Receive(c)
  <2>1. producer[request[c].from].terminal \in {"complete", "error", "busy"}
      BY <1>0, <1>7 DEF Receive, IInv, Subscription, TypeOK, Producer
  <2> QED BY <1>0, <1>7, <2>1, AnswerEffect DEF Receive
<1>8. CASE Disconnect(c)
    BY <1>0, <1>8, DisconnectEffect DEF Disconnect
<1> QED BY <1>1, <1>2, <1>3, <1>4, <1>5, <1>6, <1>7, <1>8 DEF Quiet

(* An install that finds its user busy answers so, and leaves its producer *)
(* out of the map.                                                         *)
LEMMA InstallBusyEffect ==
    ASSUME TypeOK, NEW c \in Requests, InstallBusy(c)
    PROVE  /\ \A d \in Requests \ {c} : request'[d] = request[d] /\ producer'[d] = producer[d]
           /\ request'[c].pc = "answered"
           /\ producer'[c].pc = "done" /\ producer'[c].terminal = "busy"
           /\ producer'[c].writing = producer[c].writing /\ producer'[c].late = producer[c].late
           /\ Settles(c) /\ streaming[request[c].key] = Nobody
           /\ EndLookup(c, streaming)
           /\ UNCHANGED <<activeUsers, artifact, shutdown, settling>>
<1>1. request'[c].pc = "answered" /\ \A d \in Requests \ {c} : request'[d] = request[d]
    BY AnswerEffect DEF InstallBusy
<1>2. /\ producer'[c].pc = "done" /\ producer'[c].terminal = "busy"
      /\ producer'[c].writing = producer[c].writing /\ producer'[c].late = producer[c].late
      /\ \A d \in Requests \ {c} : producer'[d] = producer[d]
    BY DEF InstallBusy, TypeOK, Producer
<1> QED BY <1>1, <1>2 DEF InstallBusy

(* The shutdown aborts the generations in flight, and fails those that are *)
(* not writing and have not ended.                                         *)
LEMMA BeginShutdownEffect ==
    ASSUME TypeOK, BeginShutdown
    PROVE  /\ \A p \in Requests :
                /\ producer'[p].pc = producer[p].pc
                /\ producer'[p].writing = producer[p].writing
                /\ producer'[p].late = producer[p].late
                /\ producer'[p] = producer[p] \/ (p \in InFlight /\ producer'[p].aborted)
                /\ producer'[p].terminal = producer[p].terminal
                   \/ /\ p \in InFlight /\ producer[p].terminal = "none" /\ ~producer[p].writing
                      /\ producer'[p].terminal = "error"
           /\ shutdown = "no" /\ shutdown' = "settling" /\ settling' = InFlight
           /\ UNCHANGED <<streaming, retiring, lookups, activeUsers, artifact, request>>
<1>1. ASSUME NEW p \in Requests
      PROVE  /\ producer'[p].pc = producer[p].pc
             /\ producer'[p].writing = producer[p].writing
             /\ producer'[p].late = producer[p].late
             /\ producer'[p] = producer[p] \/ (p \in InFlight /\ producer'[p].aborted)
             /\ producer'[p].terminal = producer[p].terminal
                \/ /\ p \in InFlight /\ producer[p].terminal = "none" /\ ~producer[p].writing
                   /\ producer'[p].terminal = "error"
  <2>1. producer[p] \in Producer
      BY DEF TypeOK
  <2>2. producer'[p] = IF p \in InFlight THEN ShutDown(producer[p]) ELSE producer[p]
      BY DEF BeginShutdown
  <2> QED BY <2>1, <2>2, ShutDownType
<1> QED BY <1>1 DEF BeginShutdown

(* The steps there are. *)
LEMMA Steps ==
    ASSUME Next
    PROVE  \/ \E c \in Requests : Quiet(c) \/ Install(c) \/ InstallBusy(c) \/ Producing(c) \/ LateWrite(c)
           \/ \E k \in Keys : Expire(k)
           \/ BeginShutdown
           \/ EndShutdown
BY DEF Next, Serving, Quiet

(* One producer a request, which it installs when its lookup ends. *)
LEMMA InstalledKept ==
    ASSUME IInv, Next
    PROVE  \A c \in Requests : Installed(c)'
<1>0. TypeOK /\ \A c \in Requests : Installed(c)
    BY DEF IInv
<1>1. Asks
    BY TypeKept
<1>2. ASSUME NEW c \in Requests, Quiet(c) PROVE \A d \in Requests : Installed(d)'
    BY <1>0, <1>1, <1>2, QuietEffect DEF QuietStep, Goes, Installed, Asks, SameAsk
<1>3. ASSUME NEW c \in Requests, Install(c) PROVE \A d \in Requests : Installed(d)'
  <2>1. ~request[c].private
      BY <1>0, <1>3, InstallEffect DEF Settles
  <2> QED BY <1>0, <1>1, <1>3, <2>1, InstallRequest, InstallProducer DEF Installed, Asks, SameAsk
<1>4. ASSUME NEW c \in Requests, InstallBusy(c) PROVE \A d \in Requests : Installed(d)'
    BY <1>0, <1>1, <1>4, InstallBusyEffect DEF Installed, Settles, Asks, SameAsk
<1>5. ASSUME NEW p \in Requests, Producing(p) PROVE \A d \in Requests : Installed(d)'
    BY <1>0, <1>5, ProducingEffect DEF Installed
<1>6. CASE BeginShutdown
    BY <1>0, <1>6, BeginShutdownEffect DEF Installed
<1>7. CASE EndShutdown \/ \E k \in Keys : Expire(k)
    BY <1>0, <1>7 DEF EndShutdown, Expire, Installed
<1>8. ASSUME NEW p \in Requests, LateWrite(p) PROVE \A d \in Requests : Installed(d)'
    BY <1>0, <1>8, LateEffect DEF Installed
<1> QED BY <1>2, <1>3, <1>4, <1>5, <1>6, <1>7, <1>8, Steps

(* Every step keeps what a producer is at each of its steps.               *)
LEMMA ProductionKept ==
    ASSUME IInv, Next
    PROVE  \A p \in Requests : Production(p)'
<1>0. TypeOK /\ \A p \in Requests : Production(p) /\ Installed(p)
    BY DEF IInv
<1>1. ASSUME NEW c \in Requests, Quiet(c) PROVE \A p \in Requests : Production(p)'
    BY <1>0, <1>1, QuietEffect DEF QuietStep, Production
<1>2. ASSUME NEW c \in Requests, Install(c) PROVE \A p \in Requests : Production(p)'
  <2>1. producer[c] = NoProducer
      BY <1>0, <1>2, InstallEffect DEF Settles, Installed, Production
  <2> QED BY <1>0, <1>2, <2>1, InstallProducer DEF Production, NoProducer
<1>3. ASSUME NEW c \in Requests, InstallBusy(c) PROVE \A p \in Requests : Production(p)'
  <2>1. ~producer[c].writing /\ ~producer[c].late
      BY <1>0, <1>3, InstallBusyEffect DEF Settles, Installed, Production, NoProducer
  <2> QED BY <1>0, <1>3, <2>1, InstallBusyEffect DEF Production
<1>4. ASSUME NEW p \in Requests, Producing(p) PROVE \A q \in Requests : Production(q)'
  <2>1. Production(p)'
      BY <1>0, <1>4, ProducingEffect DEF Production
  <2> QED BY <1>0, <1>4, <2>1, ProducingEffect DEF Production
<1>5. CASE BeginShutdown
  <2>1. \A p \in InFlight : producer[p].pc # "off"
      BY NobodyAssumption DEF InFlight, IInv, Entries, Shared
  <2> QED BY <1>0, <1>5, <2>1, BeginShutdownEffect DEF Production
<1>6. CASE EndShutdown \/ \E k \in Keys : Expire(k)
    BY <1>0, <1>6 DEF EndShutdown, Expire, Production
<1>7. ASSUME NEW p \in Requests, LateWrite(p) PROVE \A q \in Requests : Production(q)'
  <2>1. producer[p].pc # "off"
      BY <1>0, <1>7, LateEffect DEF Production
  <2> QED BY <1>0, <1>7, <2>1, LateEffect DEF Production
<1> QED BY <1>1, <1>2, <1>3, <1>4, <1>5, <1>6, <1>7, Steps

(* A producer that is shared stays so.                                     *)
LEMMA SharedStays ==
    ASSUME IInv, Next
    PROVE  \A p \in Requests : Shared(p) => Shared(p)'
<1>0. TypeOK /\ \A p \in Requests : Installed(p)
    BY DEF IInv
<1>1. ASSUME NEW c \in Requests, Quiet(c) PROVE \A p \in Requests : Shared(p) => Shared(p)'
    BY <1>1, QuietEffect DEF QuietStep, Shared
<1>2. ASSUME NEW c \in Requests, Install(c) PROVE \A p \in Requests : Shared(p) => Shared(p)'
    BY <1>0, <1>2, InstallProducer DEF Shared
<1>3. ASSUME NEW c \in Requests, InstallBusy(c) PROVE \A p \in Requests : Shared(p) => Shared(p)'
    BY <1>0, <1>3, InstallBusyEffect DEF Shared, Installed, Settles
<1>4. ASSUME NEW p \in Requests, Producing(p) PROVE \A q \in Requests : Shared(q) => Shared(q)'
  <2>1. Shared(p) => Shared(p)'
      BY <1>0, <1>4, ProducingEffect DEF Shared
  <2> QED BY <1>0, <1>4, <2>1, ProducingEffect DEF Shared
<1>5. CASE BeginShutdown
    BY <1>0, <1>5, BeginShutdownEffect DEF Shared
<1>6. CASE EndShutdown \/ \E k \in Keys : Expire(k)
    BY <1>6 DEF EndShutdown, Expire, Shared
<1>7. ASSUME NEW p \in Requests, LateWrite(p) PROVE \A q \in Requests : Shared(q) => Shared(q)'
    BY <1>0, <1>7, LateEffect DEF Shared
<1> QED BY <1>1, <1>2, <1>3, <1>4, <1>5, <1>6, <1>7, Steps

(* Whoever waits, waits for a producer that is shared.                     *)
LEMMA SubscriptionKept ==
    ASSUME IInv, Next
    PROVE  \A c \in Requests : Subscription(c)'
<1>0. /\ TypeOK
      /\ \A c \in Requests : Subscription(c) /\ Installed(c) /\ Production(c)
      /\ \A p \in Requests : Shared(p) => Shared(p)'
    BY SharedStays DEF IInv
<1>1. ASSUME NEW c \in Requests, Quiet(c) PROVE \A d \in Requests : Subscription(d)'
  <2>1. \A d \in Requests \ {c} : Subscription(d)'
      BY <1>0, <1>1, QuietEffect DEF QuietStep, Goes, Subscription
  <2>2. request[c].key \in Keys
      BY <1>0 DEF TypeOK, Request
  <2>3. streaming[request[c].key] # Nobody =>
            streaming[request[c].key] \in Requests /\ Shared(streaming[request[c].key])
      BY <1>0, <2>2 DEF IInv, Entries, TypeOK
  <2>4. Subscription(c)'
      BY <1>0, <1>1, <2>3, QuietEffect DEF QuietStep, Goes, Subscription
  <2> QED BY <2>1, <2>4
<1>2. ASSUME NEW c \in Requests, Install(c) PROVE \A d \in Requests : Subscription(d)'
  <2>1. producer[c] = NoProducer
      BY <1>0, <1>2, InstallEffect DEF Settles, Installed, Production
  <2>2. Shared(c)'
      BY <1>0, <1>2, <2>1, InstallProducer DEF Shared, NoProducer
  <2> QED BY <1>0, <1>2, <2>2, InstallRequest DEF Subscription
<1>3. ASSUME NEW c \in Requests, InstallBusy(c) PROVE \A d \in Requests : Subscription(d)'
    BY <1>0, <1>3, InstallBusyEffect DEF Subscription
<1>4. ASSUME NEW p \in Requests, Producing(p) PROVE \A d \in Requests : Subscription(d)'
    BY <1>0, <1>4, ProducingEffect DEF Subscription
<1>5. CASE BeginShutdown
    BY <1>0, <1>5, BeginShutdownEffect DEF Subscription
<1>6. CASE EndShutdown \/ \E k \in Keys : Expire(k)
    BY <1>0, <1>6 DEF EndShutdown, Expire, Subscription
<1>7. ASSUME NEW p \in Requests, LateWrite(p) PROVE \A d \in Requests : Subscription(d)'
    BY <1>0, <1>7, LateEffect DEF Subscription
<1> QED BY <1>1, <1>2, <1>3, <1>4, <1>5, <1>6, <1>7, Steps

(* Entries, stated of the producers instead of the keys.                   *)
LEMMA EntriesFrom ==
    ASSUME TypeOK',
           \A p \in Requests : Running(p)' => streaming'[request'[p].key] = p,
           \A k \in Keys, p \in Requests :
               streaming'[k] = p =>
                   request'[p].key = k /\ Shared(p)' /\ (Running(p)' \/ k \in retiring'),
           \A k \in Keys :
               k \in retiring' => streaming'[k] # Nobody /\ producer'[streaming'[k]].pc = "done"
    PROVE  Entries'
BY DEF Entries, Running, Shared, TypeOK

(* The end of a lookup takes away only what has ended.                     *)
LEMMA EndLookupKeepsEntries ==
    ASSUME IInv, TypeOK', Asks, NEW c \in Requests, EndLookup(c, streaming),
           \A p \in Requests : Running(p)' = Running(p),
           \A p \in Requests : Shared(p) => Shared(p)' /\ producer'[p].pc = producer[p].pc
    PROVE  Entries'
<1>1. TypeOK /\ Entries /\ streaming \in [Keys -> Requests \cup {Nobody}]
    BY DEF IInv, TypeOK
<1>2. \A k \in Keys :
        \/ streaming'[k] = streaming[k] /\ (k \in retiring' <=> k \in retiring)
        \/ k \in retiring /\ streaming'[k] = Nobody /\ k \notin retiring'
    BY <1>1, EndLookupEffect
<1>3. \A p \in Requests : request'[p].key = request[p].key /\ request[p].key \in Keys
    BY <1>1 DEF Asks, SameAsk, TypeOK, Request
<1>4. ASSUME NEW p \in Requests, Running(p)'
      PROVE  streaming'[request'[p].key] = p
    BY <1>1, <1>2, <1>3, <1>4 DEF Entries, Running
<1>5. ASSUME NEW k \in Keys, NEW p \in Requests, streaming'[k] = p
      PROVE  request'[p].key = k /\ Shared(p)' /\ (Running(p)' \/ k \in retiring')
  <2>1. streaming[k] = p /\ (k \in retiring' <=> k \in retiring) /\ p # Nobody
      BY <1>2, <1>5, NobodyAssumption
  <2>2. request[p].key = k /\ Shared(p) /\ (Running(p) \/ k \in retiring)
      BY <1>1, <2>1 DEF Entries
  <2> QED BY <1>3, <2>1, <2>2
<1>6. ASSUME NEW k \in Keys, k \in retiring'
      PROVE  streaming'[k] # Nobody /\ producer'[streaming'[k]].pc = "done"
  <2>1. streaming'[k] = streaming[k] /\ k \in retiring
      BY <1>2, <1>6
  <2>2. streaming[k] \in Requests /\ streaming[k] # Nobody /\ Shared(streaming[k]) /\ producer[streaming[k]].pc = "done"
      BY <1>1, <2>1 DEF Entries
  <2> QED BY <2>1, <2>2
<1> QED BY <1>4, <1>5, <1>6, EntriesFrom

(* An installation puts its producer at the free place of its key; the end *)
(* of its own lookup does not take it away.                                *)
LEMMA InstallPlaces ==
    ASSUME IInv, NEW c \in Requests, Install(c)
    PROVE  /\ request[c].key \notin retiring
           /\ \A k \in Keys : /\ streaming'[k] = IF k = request[c].key THEN c ELSE streaming[k]
                              /\ k \in retiring' <=> k \in retiring
<1>1. TypeOK /\ Entries
    BY DEF IInv
<1>2. request[c].key \in Keys /\ streaming[request[c].key] = Nobody
    BY <1>1, InstallEffect
<1>3. request[c].key \notin retiring
    BY <1>1, <1>2 DEF Entries
<1> DEFINE entries == [streaming EXCEPT ![request[c].key] = c]
<1>4. entries \in [Keys -> Requests \cup {Nobody}] /\ EndLookup(c, entries)
    BY <1>1, InstallMaps
<1>5. \A k \in Keys : entries[k] = IF k = request[c].key THEN c ELSE streaming[k]
    BY <1>1, <1>2 DEF TypeOK
<1> HIDE DEF entries
<1>6. \A k \in Keys : streaming'[k] = entries[k] /\ (k \in retiring' <=> k \in retiring)
    BY <1>1, <1>3, <1>4, EndLookupEffect
<1> QED BY <1>3, <1>5, <1>6

(* The end of a production takes its own entry away, or lets it retire.    *)
LEMMA LeaveEffect ==
    ASSUME IInv, NEW p \in Requests, producer[p].pc = "ending", Leave(p)
    PROVE  /\ request[p].key \in Keys /\ streaming[request[p].key] = p
           /\ request[p].key \notin retiring
           /\ \A k \in Keys \ {request[p].key} :
                 streaming'[k] = streaming[k] /\ (k \in retiring' <=> k \in retiring)
           /\ \/ /\ lookups[request[p].key] > 0
                 /\ streaming'[request[p].key] = p /\ request[p].key \in retiring'
              \/ /\ ~(lookups[request[p].key] > 0)
                 /\ streaming'[request[p].key] = Nobody /\ request[p].key \notin retiring'
<1>1. TypeOK /\ Entries
    BY DEF IInv
<1>2. request[p].key \in Keys
    BY <1>1 DEF TypeOK, Request
<1>3. streaming[request[p].key] = p
    BY <1>1 DEF Entries, Running
<1>4. request[p].key \notin retiring
    BY <1>1, <1>2, <1>3 DEF Entries
<1> QED BY <1>1, <1>2, <1>3, <1>4 DEF Leave, TypeOK

(* The entries of the map keep their meaning. *)
LEMMA EntriesKept ==
    ASSUME IInv, Next
    PROVE  Entries'
<1>0. /\ TypeOK /\ Entries /\ TypeOK' /\ Asks
      /\ \A c \in Requests : Installed(c) /\ Production(c)
      /\ \A p \in Requests : Shared(p) => Shared(p)'
    BY TypeKept, SharedStays DEF IInv
<1>a. \A p \in Requests : request'[p].key = request[p].key /\ request[p].key \in Keys
    BY <1>0 DEF Asks, SameAsk, TypeOK, Request
<1>1. ASSUME NEW c \in Requests, Quiet(c) PROVE Entries'
  <2>1. QuietStep(c)
      BY <1>1, QuietEffect
  <2>2. CASE EndLookup(c, streaming)
      BY <1>0, <2>1, <2>2, EndLookupKeepsEntries DEF QuietStep, Running
  <2>3. CASE UNCHANGED <<streaming, retiring>>
      BY <1>0, <1>a, <2>1, <2>3 DEF QuietStep, Entries, Running, Shared, TypeOK
  <2> QED BY <2>1, <2>2, <2>3 DEF QuietStep, Leasing
<1>2. ASSUME NEW c \in Requests, Install(c) PROVE Entries'
  <2>1. producer[c] = NoProducer
      BY <1>0, <1>2, InstallEffect DEF Settles, Installed, Production
  <2>2. Shared(c)' /\ Running(c)'
      BY <1>0, <1>2, <2>1, InstallProducer DEF Shared, Running, NoProducer
  <2>3. \A p \in Requests \ {c} : Running(p)' = Running(p)
      BY <1>0, <1>2, InstallProducer DEF Running
  <2>4. request[c].key \in Keys /\ streaming[request[c].key] = Nobody
      BY <1>0, <1>2, InstallEffect
  <2>5. /\ request[c].key \notin retiring
        /\ \A k \in Keys : /\ streaming'[k] = IF k = request[c].key THEN c ELSE streaming[k]
                           /\ k \in retiring' <=> k \in retiring
      BY <1>2, InstallPlaces
  <2>6. ASSUME NEW p \in Requests, Running(p)' PROVE streaming'[request'[p].key] = p
    <3>1. CASE p = c
        BY <1>a, <2>4, <2>5, <3>1
    <3>2. CASE p # c
      <4>1. streaming[request[p].key] = p
          BY <1>0, <2>3, <2>6, <3>2 DEF Entries
      <4> QED BY <1>a, <2>4, <2>5, <4>1, NobodyAssumption
    <3> QED BY <3>1, <3>2
  <2>7. ASSUME NEW k \in Keys, NEW p \in Requests, streaming'[k] = p
        PROVE  request'[p].key = k /\ Shared(p)' /\ (Running(p)' \/ k \in retiring')
    <3>1. CASE k = request[c].key
        BY <1>a, <2>2, <2>5, <2>7, <3>1
    <3>2. CASE k # request[c].key
      <4>1. streaming[k] = p /\ p # Nobody
          BY <2>5, <2>7, <3>2, NobodyAssumption
      <4>2. request[p].key = k /\ Shared(p) /\ (Running(p) \/ k \in retiring)
          BY <1>0, <4>1 DEF Entries
      <4> QED BY <1>0, <1>a, <2>3, <2>5, <3>2, <4>2
    <3> QED BY <3>1, <3>2
  <2>8. ASSUME NEW k \in Keys, k \in retiring'
        PROVE  streaming'[k] # Nobody /\ producer'[streaming'[k]].pc = "done"
    <3>1. k # request[c].key /\ k \in retiring /\ streaming'[k] = streaming[k]
        BY <2>5, <2>8
    <3>2. streaming[k] # Nobody /\ streaming[k] \in Requests /\ producer[streaming[k]].pc = "done"
        BY <1>0, <3>1 DEF Entries, TypeOK
    <3>3. streaming[k] # c
        BY <2>1, <3>2 DEF NoProducer
    <3> QED BY <1>0, <1>2, <3>1, <3>2, <3>3, InstallProducer
  <2> QED BY <1>0, <2>6, <2>7, <2>8, EntriesFrom
<1>3. ASSUME NEW c \in Requests, InstallBusy(c) PROVE Entries'
  <2>1. producer[c] = NoProducer
      BY <1>0, <1>3, InstallBusyEffect DEF Settles, Installed, Production
  <2>2. \A p \in Requests : Running(p)' = Running(p)
      BY <1>0, <1>3, <2>1, InstallBusyEffect DEF Running, NoProducer
  <2>3. \A p \in Requests : Shared(p) => Shared(p)' /\ producer'[p].pc = producer[p].pc
      BY <1>0, <1>3, <2>1, InstallBusyEffect DEF Shared, NoProducer
  <2> QED BY <1>0, <1>3, <2>2, <2>3, InstallBusyEffect, EndLookupKeepsEntries
<1>4. ASSUME NEW p \in Requests, Producing(p) PROVE Entries'
  <2>1. \A q \in Requests \ {p} : producer'[q] = producer[q]
      BY <1>0, <1>4, ProducingEffect
  <2>2. CASE producer[p].pc = "ending" /\ producer'[p].pc = "done" /\ Leave(p)
    <3>1. /\ request[p].key \in Keys /\ streaming[request[p].key] = p
          /\ request[p].key \notin retiring
          /\ \A k \in Keys \ {request[p].key} :
                streaming'[k] = streaming[k] /\ (k \in retiring' <=> k \in retiring)
          /\ \/ streaming'[request[p].key] = p /\ request[p].key \in retiring'
             \/ streaming'[request[p].key] = Nobody /\ request[p].key \notin retiring'
        BY <2>2, LeaveEffect
    <3>2. ~Running(p)' /\ \A q \in Requests \ {p} : Running(q)' = Running(q)
        BY <2>1, <2>2 DEF Running
    <3>3. ASSUME NEW q \in Requests, Running(q)' PROVE streaming'[request'[q].key] = q
      <4>1. q # p /\ streaming[request[q].key] = q
          BY <1>0, <3>2, <3>3 DEF Entries
      <4>2. request[q].key # request[p].key
          BY <3>1, <4>1
      <4> QED BY <1>a, <3>1, <4>1, <4>2
    <3>4. ASSUME NEW k \in Keys, NEW q \in Requests, streaming'[k] = q
          PROVE  request'[q].key = k /\ Shared(q)' /\ (Running(q)' \/ k \in retiring')
      <4>1. CASE k = request[p].key
        <5>1. q = p /\ k \in retiring'
            BY <3>1, <3>4, <4>1, NobodyAssumption
        <5>2. Shared(p)
            BY <1>0, <3>1, NobodyAssumption DEF Entries
        <5> QED BY <1>0, <1>a, <4>1, <5>1, <5>2
      <4>2. CASE k # request[p].key
        <5>1. streaming[k] = q /\ q # Nobody
            BY <3>1, <3>4, <4>2, NobodyAssumption
        <5>2. request[q].key = k /\ Shared(q) /\ (Running(q) \/ k \in retiring)
            BY <1>0, <5>1 DEF Entries
        <5>3. q # p
            BY <4>2, <5>2
        <5> QED BY <1>0, <1>a, <3>1, <3>2, <4>2, <5>2, <5>3
      <4> QED BY <4>1, <4>2
    <3>5. ASSUME NEW k \in Keys, k \in retiring'
          PROVE  streaming'[k] # Nobody /\ producer'[streaming'[k]].pc = "done"
      <4>1. CASE k = request[p].key
          BY <2>2, <3>1, <3>5, <4>1, NobodyAssumption
      <4>2. CASE k # request[p].key
        <5>1. streaming'[k] = streaming[k] /\ streaming[k] \in Requests
              /\ streaming[k] # Nobody /\ producer[streaming[k]].pc = "done"
            BY <1>0, <3>1, <3>5, <4>2 DEF Entries, TypeOK
        <5> QED BY <2>1, <2>2, <5>1
      <4> QED BY <4>1, <4>2
    <3> QED BY <1>0, <3>3, <3>4, <3>5, EntriesFrom
  <2>3. CASE /\ Running(p) /\ Running(p)' /\ UNCHANGED <<streaming, retiring, request>>
    <3>1. \A q \in Requests : Running(q)' = Running(q)
        BY <2>1, <2>3 DEF Running
    <3>2. \A k \in Keys : k \in retiring => streaming[k] # p
        BY <1>0, <2>3 DEF Entries, Running
    <3>3. ASSUME NEW k \in Keys, k \in retiring'
          PROVE  streaming'[k] # Nobody /\ producer'[streaming'[k]].pc = "done"
      <4>1. /\ streaming'[k] = streaming[k] /\ streaming[k] # p /\ streaming[k] # Nobody
            /\ producer[streaming[k]].pc = "done" /\ streaming[k] \in Requests
          BY <1>0, <2>3, <3>2, <3>3 DEF Entries, TypeOK
      <4> QED BY <2>1, <4>1
    <3>4. ASSUME NEW q \in Requests, Running(q)' PROVE streaming'[request'[q].key] = q
        BY <1>0, <2>3, <3>1, <3>4 DEF Entries
    <3>5. ASSUME NEW k \in Keys, NEW q \in Requests, streaming'[k] = q
          PROVE  request'[q].key = k /\ Shared(q)' /\ (Running(q)' \/ k \in retiring')
      <4>1. q # Nobody /\ streaming[k] = q
          BY <2>3, <3>5, NobodyAssumption
      <4>2. request[q].key = k /\ Shared(q) /\ (Running(q) \/ k \in retiring)
          BY <1>0, <4>1 DEF Entries
      <4> QED BY <1>0, <2>3, <3>1, <4>2
    <3> QED BY <1>0, <3>3, <3>4, <3>5, EntriesFrom
  <2> QED BY <1>0, <1>4, <2>2, <2>3, ProducingEffect DEF Running
<1>5. CASE BeginShutdown
  <2>1. /\ \A p \in Requests : producer'[p].pc = producer[p].pc
        /\ UNCHANGED <<streaming, retiring, request>>
      BY <1>0, <1>5, BeginShutdownEffect
  <2>2. \A p \in Requests : Running(p)' = Running(p)
      BY <2>1 DEF Running
  <2> QED BY <1>0, <2>1, <2>2 DEF Entries, TypeOK
<1>6. CASE EndShutdown
  <2>1. \A p \in Requests : ~Running(p)
      BY <1>6 DEF EndShutdown, IInv, Stopping, Running
  <2> QED BY <1>6, <2>1 DEF EndShutdown, Entries, Running
<1>7. CASE \E k \in Keys : Expire(k)
    BY <1>0, <1>7 DEF Expire, Entries, Running, Shared
<1>8. ASSUME NEW p \in Requests, LateWrite(p) PROVE Entries'
  <2>1. /\ \A q \in Requests : producer'[q].pc = producer[q].pc /\ producer'[q].terminal = producer[q].terminal
        /\ UNCHANGED <<streaming, retiring, request>>
      BY <1>0, <1>8, LateEffect
  <2>2. \A q \in Requests : Running(q)' = Running(q) /\ Shared(q)' = Shared(q)
      BY <2>1 DEF Running, Shared
  <2> QED BY <1>0, <2>1, <2>2 DEF Entries, TypeOK
<1> QED BY <1>1, <1>2, <1>3, <1>4, <1>5, <1>6, <1>7, <1>8, Steps

(* An admission is taken and given back by the generation it stands for.   *)
LEMMA AdmissionFrom ==
    ASSUME AdmissionExact, Asks, NEW c \in Requests,
           \A d \in Requests \ {c} : Generating(d)' = Generating(d),
           \/ Generating(c)' = Generating(c) /\ UNCHANGED activeUsers
           \/ /\ ~Generating(c) /\ Generating(c)' /\ request[c].user \notin activeUsers
              /\ activeUsers' = activeUsers \cup {request[c].user}
           \/ /\ Generating(c) /\ ~Generating(c)'
              /\ activeUsers' = activeUsers \ {request[c].user}
    PROVE  AdmissionExact'
<1> DEFINE gen(d) == Generating(d)
           genAfter(d) == Generating(d)'
           user(d) == request[d].user
           userAfter(d) == request'[d].user
<1>1. /\ activeUsers = {user(d) : d \in {e \in Requests : gen(e)}}
      /\ \A p, q \in Requests : gen(p) /\ gen(q) /\ user(p) = user(q) => p = q
    BY DEF AdmissionExact
<1>2. \A d \in Requests : userAfter(d) = user(d)
    BY DEF Asks, SameAsk
<1>3. \A d \in Requests \ {c} : genAfter(d) = gen(d)
    OBVIOUS
<1>4. \/ genAfter(c) = gen(c) /\ activeUsers' = activeUsers
      \/ ~gen(c) /\ genAfter(c) /\ user(c) \notin activeUsers /\ activeUsers' = activeUsers \cup {user(c)}
      \/ gen(c) /\ ~genAfter(c) /\ activeUsers' = activeUsers \ {user(c)}
    OBVIOUS
<1>5. SUFFICES /\ activeUsers' = {userAfter(d) : d \in {e \in Requests : genAfter(e)}}
               /\ \A p, q \in Requests :
                     genAfter(p) /\ genAfter(q) /\ userAfter(p) = userAfter(q) => p = q
    BY DEF AdmissionExact
<1> HIDE DEF gen, genAfter, user, userAfter
<1>6. CASE genAfter(c) = gen(c) /\ activeUsers' = activeUsers
    BY <1>1, <1>2, <1>3, <1>6
<1>7. CASE ~gen(c) /\ genAfter(c) /\ user(c) \notin activeUsers /\ activeUsers' = activeUsers \cup {user(c)}
    BY <1>1, <1>2, <1>3, <1>7
<1>8. CASE gen(c) /\ ~genAfter(c) /\ activeUsers' = activeUsers \ {user(c)}
    BY <1>1, <1>2, <1>3, <1>8
<1> QED BY <1>4, <1>6, <1>7, <1>8

(* A user is admitted exactly while a generation of theirs runs. *)
LEMMA AdmissionKept ==
    ASSUME IInv, Next
    PROVE  AdmissionExact'
<1>0. /\ TypeOK /\ AdmissionExact /\ Asks
      /\ \A c \in Requests : Installed(c) /\ Production(c)
    BY TypeKept DEF IInv
<1>1. ASSUME NEW c \in Requests, Quiet(c) PROVE AdmissionExact'
  <2>1. QuietStep(c)
      BY <1>1, QuietEffect
  <2>2. \A d \in Requests \ {c} : Generating(d)' = Generating(d)
      BY <2>1 DEF QuietStep, Goes, Generating, Running
  <2>3. Running(c)' = Running(c)
      BY <2>1 DEF QuietStep, Running
  <2>4. request[c].pc \in {"lookup", "private"} => ~Running(c)
      BY <1>0 DEF Installed, Running
  <2>5. \/ Generating(c)' = Generating(c) /\ UNCHANGED activeUsers
        \/ /\ ~Generating(c) /\ Generating(c)' /\ request[c].user \notin activeUsers
           /\ activeUsers' = activeUsers \cup {request[c].user}
        \/ /\ Generating(c) /\ ~Generating(c)'
           /\ activeUsers' = activeUsers \ {request[c].user}
      BY <2>1, <2>3, <2>4 DEF QuietStep, Admits, Generating
  <2> QED BY <1>0, <2>2, <2>5, AdmissionFrom
<1>2. ASSUME NEW c \in Requests, Install(c) PROVE AdmissionExact'
  <2>1. producer[c].pc = "off" /\ request[c].pc = "lookup"
      BY <1>0, <1>2, InstallEffect DEF Settles, Installed
  <2>2. ~Generating(c) /\ Generating(c)'
      BY <1>0, <1>2, <2>1, InstallProducer DEF Generating, Running
  <2>3. \A d \in Requests \ {c} : Generating(d)' = Generating(d)
      BY <1>0, <1>2, InstallProducer, InstallRequest DEF Generating, Running
  <2> QED BY <1>0, <1>2, <2>2, <2>3, InstallEffect, AdmissionFrom
<1>3. ASSUME NEW c \in Requests, InstallBusy(c) PROVE AdmissionExact'
  <2>1. producer[c].pc = "off" /\ request[c].pc = "lookup"
      BY <1>0, <1>3, InstallBusyEffect DEF Settles, Installed
  <2>2. Generating(c)' = Generating(c)
      BY <1>0, <1>3, <2>1, InstallBusyEffect DEF Generating, Running
  <2>3. \A d \in Requests \ {c} : Generating(d)' = Generating(d)
      BY <1>0, <1>3, InstallBusyEffect DEF Generating, Running
  <2>4. UNCHANGED activeUsers
      BY <1>0, <1>3, InstallBusyEffect
  <2> QED BY <1>0, <2>2, <2>3, <2>4, AdmissionFrom
<1>4. ASSUME NEW p \in Requests, Producing(p) PROVE AdmissionExact'
  <2>1. \A d \in Requests \ {p} : Generating(d)' = Generating(d)
      BY <1>0, <1>4, ProducingEffect DEF Generating, Running
  <2>2. request[p].pc # "private" /\ request'[p].pc # "private" /\ Running(p)
      BY <1>0, <1>4, ProducingEffect DEF Installed, Running
  <2>3. \/ Running(p)' /\ UNCHANGED activeUsers
        \/ ~Running(p)' /\ activeUsers' = activeUsers \ {request[p].user}
      BY <1>0, <1>4, ProducingEffect DEF Running
  <2> QED BY <1>0, <2>1, <2>2, <2>3, AdmissionFrom DEF Generating
<1>5. CASE BeginShutdown
  <2>1. \A d \in Requests : Generating(d)' = Generating(d)
      BY <1>0, <1>5, BeginShutdownEffect DEF Generating, Running
  <2> QED BY <1>0, <1>5, <2>1, BeginShutdownEffect DEF AdmissionExact
<1>6. CASE EndShutdown \/ \E k \in Keys : Expire(k)
    BY <1>0, <1>6 DEF EndShutdown, Expire, AdmissionExact, Generating, Running
<1>7. ASSUME NEW p \in Requests, LateWrite(p) PROVE AdmissionExact'
  <2>1. \A d \in Requests : Generating(d)' = Generating(d)
      BY <1>0, <1>7, LateEffect DEF Generating, Running
  <2> QED BY <1>0, <1>7, <2>1, LateEffect DEF AdmissionExact
<1> QED BY <1>1, <1>2, <1>3, <1>4, <1>5, <1>6, <1>7, Steps

(* What is stored is what is told. *)
LEMMA StoredKept ==
    ASSUME IInv, Next
    PROVE  Stored'
<1>0. /\ TypeOK /\ Stored /\ Asks
      /\ \A c \in Requests : Installed(c) /\ Production(c)
    BY TypeKept DEF IInv
<1> DEFINE Told(q) == \/ q.pc = "written" /\ q.terminal = "none"
                      \/ q.pc \in {"ending", "done"} /\ q.terminal = "complete"
<1>1. ASSUME NEW c \in Requests, Quiet(c) PROVE Stored'
    BY <1>0, <1>1, QuietEffect DEF QuietStep, Stored
<1>2. ASSUME NEW c \in Requests, Install(c) \/ InstallBusy(c) PROVE Stored'
  <2>1. producer[c].pc = "off"
      BY <1>0, <1>2, InstallEffect, InstallBusyEffect DEF Settles, Installed
  <2>2. UNCHANGED artifact /\ \A d \in Requests \ {c} : producer'[d] = producer[d]
      BY <1>0, <1>2, InstallEffect, InstallProducer, InstallBusyEffect
  <2> QED BY <1>0, <2>1, <2>2 DEF Stored
<1>3. ASSUME NEW p \in Requests, Producing(p) PROVE Stored'
  <2>1. \A q \in Requests \ {p} : producer'[q] = producer[q]
      BY <1>0, <1>3, ProducingEffect
  <2>2. CASE producer[p].pc = "write" /\ producer'[p].pc = "written"
    <3>1. Told(producer'[p])
        BY <1>0, <1>3, <2>2, ProducingEffect DEF Production
    <3>2. ASSUME NEW k \in Keys, artifact'[k] \in Requests
          PROVE  artifact'[k] = p \/ artifact'[k] = artifact[k]
        BY <1>0, <1>3, <2>2, ProducingEffect DEF TypeOK
    <3> QED BY <1>0, <2>1, <3>1, <3>2 DEF Stored
  <2>3. CASE UNCHANGED artifact
    <3>1. Told(producer[p]) => Told(producer'[p])
        BY <1>0, <1>3, ProducingEffect
    <3> QED BY <1>0, <2>1, <2>3, <3>1 DEF Stored
  <2> QED BY <1>0, <1>3, <2>2, <2>3, ProducingEffect
<1>4. CASE BeginShutdown
  <2>1. \A p \in Requests : Told(producer[p]) => Told(producer'[p])
      BY <1>0, <1>4, BeginShutdownEffect DEF Production
  <2> QED BY <1>0, <1>4, <2>1, BeginShutdownEffect DEF Stored
<1>5. CASE EndShutdown
    BY <1>0, <1>5 DEF EndShutdown, Stored
<1>6. ASSUME NEW k \in Keys, Expire(k) PROVE Stored'
  <2>1. \A j \in Keys : artifact'[j] \in Requests => artifact'[j] = artifact[j]
      BY <1>0, <1>6, NobodyAssumption DEF Expire, TypeOK
  <2> QED BY <1>0, <1>6, <2>1 DEF Expire, Stored
<1>7. ASSUME NEW p \in Requests, LateWrite(p) PROVE Stored'
  <2>1. \A q \in Requests : Told(producer[q]) => Told(producer'[q])
      BY <1>0, <1>7, LateEffect
  <2> QED BY <1>0, <1>7, <2>1, LateEffect DEF Stored
<1> QED BY <1>1, <1>2, <1>3, <1>4, <1>5, <1>6, <1>7, Steps

(* The lookups of a key that hold a lease are counted.                     *)
Counted(k) == IsFiniteSet(Leases(k)) /\ lookups[k] = Cardinality(Leases(k))

(* A lookup that ends gives its own lease back, once.                      *)
LEMMA LeaseEnds ==
    ASSUME TypeOK, Asks, NEW c \in Requests, NEW entries \in [Keys -> Requests \cup {Nobody}],
           \A k \in Keys : Counted(k),
           request[c].pc = "lookup", request'[c].pc # "lookup",
           \A d \in Requests \ {c} : request'[d] = request[d],
           EndLookup(c, entries)
    PROVE  \A k \in Keys : Counted(k)'
<1> SUFFICES ASSUME NEW k \in Keys PROVE Counted(k)'
    OBVIOUS
<1>1. \A d \in Requests : Leased(d)' = Leased(d) /\ request'[d].key = request[d].key
    BY DEF Asks, SameAsk, Leased
<1>2. lookups'[k] = IF Leased(c) /\ k = request[c].key
                    THEN IF lookups[k] > 1 THEN lookups[k] - 1 ELSE 0 ELSE lookups[k]
    BY EndLookupEffect
<1>3. CASE Leased(c) /\ k = request[c].key
  <2>1. Leases(k)' = Leases(k) \ {c} /\ c \in Leases(k)
      BY <1>1, <1>3 DEF Leases
  <2>2. /\ IsFiniteSet(Leases(k)')
        /\ Cardinality(Leases(k)') = Cardinality(Leases(k)) - 1
      BY <2>1, FS_RemoveElement DEF Counted
  <2>3. lookups[k] = Cardinality(Leases(k)) /\ lookups[k] \in Nat /\ Cardinality(Leases(k)') \in Nat
      BY <2>2, FS_CardinalityType DEF Counted, TypeOK
  <2> QED BY <1>2, <1>3, <2>2, <2>3 DEF Counted
<1>4. CASE ~(Leased(c) /\ k = request[c].key)
  <2>1. Leases(k)' = Leases(k)
      BY <1>1, <1>4 DEF Leases
  <2> QED BY <1>2, <1>4, <2>1 DEF Counted
<1> QED BY <1>3, <1>4

(* The leases counted for a key are the lookups that hold one.             *)
LEMMA LeasesKept ==
    ASSUME IInv, Next
    PROVE  LeasesCounted'
<1>0. TypeOK /\ Asks
    BY TypeKept DEF IInv
<1> SUFFICES ASSUME shutdown' # "over" PROVE \A k \in Keys : Counted(k)'
    BY DEF LeasesCounted, Counted
<1>a. \A d \in Requests : Leased(d)' = Leased(d) /\ request'[d].key = request[d].key
    BY <1>0 DEF Asks, SameAsk, Leased
<1>1. ASSUME NEW c \in Requests, Quiet(c) PROVE \A k \in Keys : Counted(k)'
  <2>1. QuietStep(c)
      BY <1>1, QuietEffect
  <2>2. \A k \in Keys : Counted(k)
      BY <2>1 DEF IInv, LeasesCounted, Counted, QuietStep
  <2>3. \A d \in Requests \ {c} : request'[d] = request[d]
      BY <2>1 DEF QuietStep, Goes
  <2>4. CASE /\ (request[c].pc = "lookup" <=> request'[c].pc = "lookup") \/ request[c].private
             /\ UNCHANGED lookups
    <3>1. \A k \in Keys : Leases(k)' = Leases(k)
        BY <1>a, <2>3, <2>4 DEF Leases, Leased
    <3> QED BY <2>2, <2>4, <3>1 DEF Counted
  <2>5. CASE /\ request[c].pc = "idle" /\ request'[c].pc = "lookup" /\ ~request[c].private
             /\ lookups' = [lookups EXCEPT ![request[c].key] = @ + 1]
    <3> SUFFICES ASSUME NEW k \in Keys PROVE Counted(k)'
        OBVIOUS
    <3>1. CASE k = request[c].key
      <4>1. Leases(k)' = Leases(k) \cup {c} /\ c \notin Leases(k)
          BY <1>a, <2>3, <2>5, <3>1 DEF Leases, Leased
      <4>2. lookups'[k] = lookups[k] + 1
          BY <1>0, <2>5, <3>1 DEF TypeOK
      <4> QED BY <2>2, <4>1, <4>2, FS_AddElement DEF Counted
    <3>2. CASE k # request[c].key
      <4>1. Leases(k)' = Leases(k)
          BY <1>a, <2>3, <3>2 DEF Leases
      <4>2. lookups'[k] = lookups[k]
          BY <1>0, <2>5, <3>2 DEF TypeOK
      <4> QED BY <2>2, <4>1, <4>2 DEF Counted
    <3> QED BY <3>1, <3>2
  <2>6. CASE request[c].pc = "lookup" /\ request'[c].pc # "lookup" /\ EndLookup(c, streaming)
      BY <1>0, <2>2, <2>3, <2>6, LeaseEnds DEF TypeOK
  <2> QED BY <2>1, <2>4, <2>5, <2>6 DEF QuietStep, Leasing
<1>2. ASSUME NEW c \in Requests, Install(c) PROVE \A k \in Keys : Counted(k)'
  <2>1. request[c].pc = "lookup" /\ \A k \in Keys : Counted(k)
      BY <1>0, <1>2, InstallEffect DEF Settles, IInv, LeasesCounted, Counted
  <2>2. PICK entries \in [Keys -> Requests \cup {Nobody}] : EndLookup(c, entries)
      BY <1>0, <1>2, InstallMaps
  <2>3. request'[c].pc # "lookup" /\ \A d \in Requests \ {c} : request'[d] = request[d]
      BY <1>0, <1>2, InstallRequest
  <2> QED BY <1>0, <2>1, <2>2, <2>3, LeaseEnds
<1>3. ASSUME NEW c \in Requests, InstallBusy(c) PROVE \A k \in Keys : Counted(k)'
  <2>1. request[c].pc = "lookup" /\ \A k \in Keys : Counted(k)
      BY <1>0, <1>3, InstallBusyEffect DEF Settles, IInv, LeasesCounted, Counted
  <2>2. streaming \in [Keys -> Requests \cup {Nobody}] /\ EndLookup(c, streaming)
      BY <1>0, <1>3, InstallBusyEffect DEF TypeOK
  <2>3. request'[c].pc # "lookup" /\ \A d \in Requests \ {c} : request'[d] = request[d]
      BY <1>0, <1>3, InstallBusyEffect
  <2> QED BY <1>0, <2>1, <2>2, <2>3, LeaseEnds
<1>4. CASE UNCHANGED <<lookups, request, shutdown>>
  <2>1. \A k \in Keys : Counted(k) /\ Leases(k)' = Leases(k)
      BY <1>4 DEF IInv, LeasesCounted, Counted, Leases, Leased
  <2> QED BY <1>4, <2>1 DEF Counted
<1>5. ASSUME NEW p \in Requests, Producing(p) PROVE UNCHANGED <<lookups, request, shutdown>>
    BY <1>0, <1>5, ProducingEffect
<1>6. CASE BeginShutdown
  <2>1. UNCHANGED <<lookups, request>> /\ shutdown # "over"
      BY <1>0, <1>6, BeginShutdownEffect
  <2>2. \A k \in Keys : Counted(k) /\ Leases(k)' = Leases(k)
      BY <2>1 DEF IInv, LeasesCounted, Counted, Leases, Leased
  <2> QED BY <2>1, <2>2 DEF Counted
<1>7. ASSUME NEW k \in Keys, Expire(k) PROVE UNCHANGED <<lookups, request, shutdown>>
    BY <1>7 DEF Expire
<1>8. ~EndShutdown
    BY DEF EndShutdown
<1>9. ASSUME NEW p \in Requests, LateWrite(p) PROVE UNCHANGED <<lookups, request, shutdown>>
    BY <1>0, <1>9, LateEffect
<1> QED BY <1>1, <1>2, <1>3, <1>4, <1>5, <1>6, <1>7, <1>8, <1>9, Steps

(* Two lookups of one key are two leases. *)
LEMMA TwoLeases ==
    ASSUME IInv, shutdown # "over", NEW k \in Keys,
           NEW c \in Leases(k), NEW d \in Leases(k), c # d
    PROVE  lookups[k] > 1
<1>1. IsFiniteSet(Leases(k)) /\ lookups[k] = Cardinality(Leases(k))
    BY DEF IInv, LeasesCounted
<1> DEFINE one == {c}
<1>2. IsFiniteSet(one) /\ Cardinality(one) = 1
    BY FS_Singleton
<1>3. one \cup {d} \in SUBSET Leases(k) /\ d \notin one
    OBVIOUS
<1> HIDE DEF one
<1>4. Cardinality(one \cup {d}) = 2
  <2>1. Cardinality(one \cup {d}) = Cardinality(one) + 1
      BY <1>2, <1>3, FS_AddElement
  <2> QED BY <1>2, <2>1
<1>5. 2 <= Cardinality(Leases(k)) /\ Cardinality(Leases(k)) \in Nat
    BY <1>1, <1>3, <1>4, FS_Subset, FS_CardinalityType
<1> QED BY <1>1, <1>5

(* The end of a lookup leaves the producers that others need.              *)
LEMMA OthersKeepTheirProducer ==
    ASSUME IInv, shutdown # "over", NEW c \in Requests, NEW d \in Requests, c # d,
           request[c].pc = "lookup", EndLookup(c, streaming),
           request[d].pc = "lookup", Leased(d)
    PROVE  streaming'[request[d].key] = streaming[request[d].key]
<1>0. TypeOK /\ streaming \in [Keys -> Requests \cup {Nobody}] /\ request[d].key \in Keys
    BY DEF IInv, TypeOK, Request
<1>1. Leased(c) /\ request[c].key = request[d].key => lookups[request[d].key] > 1
    BY <1>0, TwoLeases DEF Leases
<1>2. ~(lookups[request[d].key] > 1 /\ lookups[request[d].key] <= 1)
    BY <1>0 DEF TypeOK
<1> QED BY <1>0, <1>1, <1>2, EndLookupEffect

(* A lookup that has missed keeps the producer that stored the answer. *)
LEMMA MissesKept ==
    ASSUME IInv, Next
    PROVE  MissesKeep'
<1>0. TypeOK /\ Asks /\ MissesKeep /\ Entries
    BY TypeKept DEF IInv
<1> DEFINE Missed(d) == request[d].pc = "lookup" /\ request[d].found = "miss" /\ Leased(d)
<1>a. \A d \in Requests : /\ Leased(d)' = Leased(d) /\ request'[d].key = request[d].key
                          /\ request[d].key \in Keys
    BY <1>0 DEF Asks, SameAsk, Leased, TypeOK, Request
<1> SUFFICES ASSUME shutdown' # "over", NEW d \in Requests, Missed(d)',
                    artifact'[request[d].key] \in Requests
             PROVE  streaming'[request[d].key] = artifact'[request[d].key]
    BY <1>a DEF MissesKeep
<1>k. shutdown # "over" /\ Missed(d) /\ artifact[request[d].key] \in Requests =>
          streaming[request[d].key] = artifact[request[d].key]
    BY <1>0 DEF MissesKeep
<1> DEFINE Goal == streaming'[request[d].key] = artifact'[request[d].key]
<1>1. ASSUME NEW c \in Requests, Quiet(c) PROVE Goal
  <2>1. QuietStep(c)
      BY <1>1, QuietEffect
  <2>2. shutdown # "over" /\ UNCHANGED artifact
      BY <2>1 DEF QuietStep
  <2>3. Missed(d)
      BY <1>a, <2>1, <2>2, NobodyAssumption DEF QuietStep, Goes, Leased
  <2>4. streaming[request[d].key] = artifact[request[d].key]
      BY <1>k, <2>2, <2>3
  <2>5. CASE request[c].pc = "lookup" /\ request'[c].pc # "lookup" /\ EndLookup(c, streaming)
      BY <2>2, <2>3, <2>4, <2>5, OthersKeepTheirProducer
  <2>6. CASE UNCHANGED streaming
      BY <2>2, <2>4, <2>6
  <2> QED BY <2>1, <2>5, <2>6 DEF QuietStep, Leasing
<1>2. ASSUME NEW c \in Requests, Install(c) PROVE Goal
  <2>1. request'[c].pc # "lookup" /\ \A e \in Requests \ {c} : request'[e] = request[e]
      BY <1>0, <1>2, InstallRequest
  <2>2. UNCHANGED <<artifact, shutdown>> /\ streaming[request[c].key] = Nobody
      BY <1>0, <1>2, InstallEffect
  <2>3. Missed(d)
      BY <1>a, <2>1
  <2>4. streaming[request[d].key] = artifact[request[d].key] /\ request[d].key # request[c].key
      BY <1>k, <2>2, <2>3, NobodyAssumption
  <2> QED BY <1>2, <1>a, <2>2, <2>4, InstallPlaces
<1>3. ASSUME NEW c \in Requests, InstallBusy(c) PROVE Goal
  <2>1. /\ request[c].pc = "lookup" /\ request'[c].pc # "lookup"
        /\ \A e \in Requests \ {c} : request'[e] = request[e]
        /\ UNCHANGED <<artifact, shutdown>> /\ EndLookup(c, streaming)
      BY <1>0, <1>3, InstallBusyEffect DEF Settles
  <2>2. c # d /\ Missed(d)
      BY <1>a, <2>1
  <2> QED BY <1>k, <2>1, <2>2, OthersKeepTheirProducer
<1>4. ASSUME NEW p \in Requests, Producing(p) PROVE Goal
  <2>1. Missed(d) /\ shutdown # "over"
      BY <1>0, <1>4, <1>a, ProducingEffect DEF Leased
  <2>2. CASE producer[p].pc = "write" /\ producer'[p].pc = "written"
    <3>1. /\ UNCHANGED streaming
          /\ artifact' = IF artifact[request[p].key] = Nobody
                         THEN [artifact EXCEPT ![request[p].key] = p] ELSE artifact
        BY <1>0, <1>4, <2>2, ProducingEffect
    <3>2. streaming[request[p].key] = p
        BY <1>0, <2>2 DEF Entries, Running
    <3> QED BY <1>0, <1>a, <1>k, <2>1, <3>1, <3>2 DEF TypeOK
  <2>3. CASE producer[p].pc = "ending" /\ Leave(p) /\ UNCHANGED artifact
    <3>1. CASE request[d].key = request[p].key
      <4>1. lookups[request[d].key] > 0
        <5>1. d \in Leases(request[d].key)
            BY <2>1 DEF Leases
        <5>2. /\ IsFiniteSet(Leases(request[d].key))
              /\ lookups[request[d].key] = Cardinality(Leases(request[d].key))
            BY <1>a, <2>1 DEF IInv, LeasesCounted
        <5> QED BY <5>1, <5>2, FS_EmptySet, FS_CardinalityType
      <4>2. streaming'[request[d].key] = streaming[request[d].key]
          BY <2>3, <3>1, <4>1, LeaveEffect
      <4> QED BY <1>k, <2>1, <2>3, <4>2
    <3>2. CASE request[d].key # request[p].key
        BY <1>a, <1>k, <2>1, <2>3, <3>2, LeaveEffect
    <3> QED BY <3>1, <3>2
  <2>4. CASE UNCHANGED <<artifact, streaming>>
      BY <1>k, <2>1, <2>4
  <2> QED BY <1>0, <1>4, <2>2, <2>3, <2>4, ProducingEffect
<1>5. CASE BeginShutdown
    BY <1>0, <1>5, <1>k, BeginShutdownEffect DEF Leased
<1>6. ASSUME NEW k \in Keys, Expire(k) PROVE Goal
  <2>1. artifact'[request[d].key] = artifact[request[d].key]
      BY <1>0, <1>6, <1>a, NobodyAssumption DEF Expire, TypeOK
  <2> QED BY <1>6, <1>k, <2>1 DEF Expire, Leased
<1>7. ~EndShutdown
    BY DEF EndShutdown
<1>8. ASSUME NEW p \in Requests, LateWrite(p) PROVE Goal
    BY <1>0, <1>8, <1>a, <1>k, LateEffect DEF Leased
<1> QED BY <1>1, <1>2, <1>3, <1>4, <1>5, <1>6, <1>7, <1>8, Steps

(* The shutdown waits for every generation there is. *)
LEMMA StoppingKept ==
    ASSUME IInv, Next
    PROVE  Stopping'
<1>0. TypeOK /\ Stopping /\ Entries
    BY DEF IInv
<1> USE DEF Stopping, ShutdownFinal
<1>1. ASSUME NEW c \in Requests, Quiet(c) PROVE Stopping'
    BY <1>0, <1>1, QuietEffect DEF QuietStep, Running
<1>2. ASSUME NEW c \in Requests, Install(c) PROVE Stopping'
    BY <1>0, <1>2, InstallEffect
<1>3. ASSUME NEW c \in Requests, InstallBusy(c) PROVE Stopping'
    BY <1>3 DEF InstallBusy, Accepting
<1>4. ASSUME NEW p \in Requests, Producing(p) PROVE Stopping'
  <2>1. \A q \in Requests : Running(q)' => Running(q)
      BY <1>0, <1>4, ProducingEffect DEF Running
  <2> QED BY <1>0, <1>4, <2>1, ProducingEffect
<1>5. CASE BeginShutdown
  <2>1. \A p \in Requests : Running(p) => p \in InFlight
      BY <1>0 DEF InFlight, Entries, TypeOK, Request
  <2> QED BY <1>0, <1>5, <2>1, BeginShutdownEffect DEF Running
<1>6. CASE EndShutdown
    BY <1>0, <1>6 DEF EndShutdown, Running
<1>7. ASSUME NEW k \in Keys, Expire(k) PROVE Stopping'
    BY <1>0, <1>7 DEF Expire, Running
<1>8. ASSUME NEW p \in Requests, LateWrite(p) PROVE Stopping'
    BY <1>0, <1>8, LateEffect DEF Running
<1> QED BY <1>1, <1>2, <1>3, <1>4, <1>5, <1>6, <1>7, <1>8, Steps

-----------------------------------------------------------------------------
(* The theorems.                                                           *)

(* What every process starts from. *)
LEMMA InitIInv == Init => IInv
<1> SUFFICES ASSUME Init PROVE IInv
    OBVIOUS
<1>1. /\ \A p \in Requests : producer[p] = NoProducer /\ ~Running(p)
      /\ \A c \in Requests : request[c].pc = "idle"
      /\ shutdown = "no"
    BY DEF Init, NoProducer, Running
<1>2. TypeOK
  <2>1. NoProducer \in Producer
      BY DEF NoProducer, Producer
  <2>2. request \in [Requests -> Request]
      BY DEF Init, Request
  <2> HIDE DEF NoProducer
  <2> QED BY <2>1, <2>2 DEF Init, TypeOK
<1>3. Entries
    BY <1>1 DEF Init, Entries
<1>4. \A c \in Requests : Installed(c) /\ Production(c) /\ Subscription(c)
    BY <1>1 DEF Installed, Production, Subscription, NoProducer
<1>5. AdmissionExact
  <2>1. \A c \in Requests : ~Generating(c)
      BY <1>1 DEF Generating
  <2> QED BY <2>1 DEF Init, AdmissionExact
<1>6. Stored
    BY NobodyAssumption DEF Init, Stored
<1>7. LeasesCounted
  <2>1. \A k \in Keys : Leases(k) = {}
      BY <1>1 DEF Leases
  <2> QED BY <2>1, FS_EmptySet DEF Init, LeasesCounted
<1>8. MissesKeep
    BY <1>1 DEF MissesKeep
<1>9. Stopping
    BY <1>1 DEF Stopping, ShutdownFinal
<1> QED BY <1>2, <1>3, <1>4, <1>5, <1>6, <1>7, <1>8, <1>9 DEF IInv

(* Every step keeps the invariant. *)
LEMMA StepIInv == IInv /\ [Next]_vars => IInv'
<1> SUFFICES ASSUME IInv, [Next]_vars PROVE IInv'
    OBVIOUS
<1>1. CASE Next
    BY <1>1, TypeKept, EntriesKept, InstalledKept, ProductionKept, SubscriptionKept,
       AdmissionKept, StoredKept, LeasesKept, MissesKept, StoppingKept DEF IInv
<1>2. CASE UNCHANGED vars
  <2>1. TypeOK' /\ Entries' /\ Stopping'
      BY <1>2 DEF vars, IInv, TypeOK, Entries, Stopping, ShutdownFinal, Running, Shared
  <2>2. \A c \in Requests : Installed(c)' /\ Production(c)' /\ Subscription(c)'
      BY <1>2 DEF vars, IInv, Installed, Production, Subscription, Shared
  <2>3. AdmissionExact' /\ Stored' /\ LeasesCounted' /\ MissesKeep'
      BY <1>2 DEF vars, IInv, AdmissionExact, Generating, Running, Stored, LeasesCounted,
                  Leases, Leased, MissesKeep
  <2> QED BY <2>1, <2>2, <2>3 DEF IInv
<1> QED BY <1>1, <1>2

(* The invariant holds of every process. *)
THEOREM Invariance == Spec => []IInv
BY InitIInv, StepIInv, PTL DEF Spec

(* The state of the assistant is of its types: leases are natural numbers, *)
(* entries are producers.                                                  *)
THEOREM TypeCorrect == Spec => []TypeOK
<1>1. IInv => TypeOK
    BY DEF IInv
<1> QED BY <1>1, Invariance, PTL

(* Requests for one key never pay for two retained generations at once,    *)
(* whatever joins, leaves, fails or is shut down meanwhile.                *)
THEOREM OneFlight == Spec => []SingleFlight
<1>1. IInv => SingleFlight
    BY DEF IInv, Entries, SingleFlight
<1> QED BY <1>1, Invariance, PTL

(* The users with an admission are the users with a generation, one each.  *)
THEOREM Admission == Spec => []AdmissionExact
<1>1. IInv => AdmissionExact
    BY DEF IInv
<1> QED BY <1>1, Invariance, PTL

(* Nobody who joined a generation is told that another one is busy.        *)
THEOREM Busy == Spec => []BusyIsOwn
<1>1. IInv => BusyIsOwn
    BY DEF IInv, Subscription, Shared, BusyIsOwn
<1> QED BY <1>1, Invariance, PTL

(* An answer in the database has been told, or will be: neither a          *)
(* disconnect nor the shutdown puts an error in its place.                 *)
THEOREM Delivery == Spec => []CommittedIsDelivered
<1>1. IInv => CommittedIsDelivered
    BY DEF IInv, Production, Stored, CommittedIsDelivered
<1> QED BY <1>1, Invariance, PTL

(* When the shutdown is over no retained generation runs. *)
THEOREM Shutdown == Spec => []ShutdownFinal
<1>1. IInv => ShutdownFinal
    BY DEF IInv, Stopping
<1> QED BY <1>1, Invariance, PTL

(* A request that has missed does not generate what has been stored since: *)
(* its lease keeps the producer, so it joins.                              *)
THEOREM NoWaste == Spec => NoWastedGeneration
<1> DEFINE Wasteless ==
      \A c \in Requests :
          /\ request[c].found = "miss"
          /\ producer[c].pc = "off" /\ producer'[c].pc = "source"
          => artifact[request[c].key] \notin Requests
<1>1. IInv /\ [Next]_vars => [Wasteless]_vars
  <2> SUFFICES ASSUME IInv, Next, NEW c \in Requests, request[c].found = "miss",
                      producer[c].pc = "off", producer'[c].pc = "source"
               PROVE  artifact[request[c].key] \notin Requests
      OBVIOUS
  <2>0. TypeOK
      BY DEF IInv
  <2>1. Install(c)
    <3>1. \A d \in Requests : ~Quiet(d)
        BY QuietEffect DEF QuietStep
    <3>2. \A d \in Requests : ~InstallBusy(d)
        BY <2>0, InstallBusyEffect
    <3>3. \A d \in Requests : ~Producing(d)
        BY <2>0, ProducingEffect
    <3>4. ~BeginShutdown
        BY <2>0, BeginShutdownEffect
    <3>5. ~EndShutdown /\ \A k \in Keys : ~Expire(k)
        BY DEF EndShutdown, Expire
    <3>6. \A d \in Requests : Install(d) => d = c
        BY <2>0, InstallProducer
    <3>7. \A d \in Requests : ~LateWrite(d)
        BY <2>0, LateEffect
    <3> QED BY <3>1, <3>2, <3>3, <3>4, <3>5, <3>6, <3>7, Steps
  <2>2. /\ request[c].pc = "lookup" /\ Leased(c) /\ shutdown # "over"
        /\ streaming[request[c].key] = Nobody
      BY <2>0, <2>1, InstallEffect DEF Settles, Leased
  <2> QED BY <2>2, NobodyAssumption DEF IInv, MissesKeep
<1> QED BY <1>1, Invariance, PTL DEF Spec, NoWastedGeneration
=============================================================================
