---------------------------- MODULE CatalogueSync ----------------------------
(***************************************************************************)
(* The catalogue of languages, Bibles and books: a job brings it in line    *)
(* with the Digital Bible Library, administrators and scripts change it     *)
(* beside the job, and clients keep a copy of it that they bring up to date *)
(* by asking for the rows that are stamped at or after the last stamp they  *)
(* saw.  The stamps come from a row that a transaction locks until it ends. *)
(*                                                                         *)
(* Stamps count half milliseconds, of which an answer shows whole ones.     *)
(* The library is modelled from how the client uses it: a request answers   *)
(* from the version that is published, or fails.                            *)
(***************************************************************************)
EXTENDS Naturals, FiniteSets, FiniteSetsExt, SequencesExt

CONSTANTS
    Languages, Bibles, Codes,  \* keys of the three tables, which are disjoint
    Published,    \* versions of the library: a sequence of functions from Bibles to None or
                  \* [language, name, books, audios], audios being the books of each recording
    Resource,     \* the Bible that has the provider resource as its text
    Calls,        \* what requests ask: [kind, of, name]
    Requests,     \* the writers beside the job
    Clocks,       \* what the clock may show, in half milliseconds
    None,         \* no row, no transaction
    MaxStarted,   \* bound on the passes of the client
    MaxFaults     \* bound on failing requests, dying transactions and retries

VARIABLES
    item,         \* the rows of the tables: None or [value, at]
    watermark,    \* catalogue_watermark
    owner,        \* the transaction that has locked it
    drawn,        \* the first stamp of each transaction
    resource,     \* how often the facts of the provider resource have changed
    missed,       \* history: Bibles that a change of the resource could not see
    named,        \* history: Bibles that a request has named since the job last read the names
    hushed,       \* history: Bibles that a request has marked as silent since the job last marked them
    shelf,        \* bible_books: none, silent or audio, for each Bible and book
    published,    \* the version of the library
    request,      \* the writers
    job,          \* the job
    client,       \* the copy of a client and its pass
    started,      \* passes so far
    faults        \* faults so far

tables == <<item, watermark, resource, missed, named, hushed, shelf>>
allocator == <<owner, drawn>>
vars == <<tables, allocator, published, request, job, client, started, faults>>

Items == Languages \cup Bibles \cup Codes
Table(i) == IF i \in Languages THEN Languages ELSE IF i \in Bibles THEN Bibles ELSE Codes
Rows(T) == {i \in T : item[i] # None}
Library(b) == Published[published][b]

(* A Bible has the facts of the resource as its text or as its recording.   *)
Linked(b) == item[b] # None /\ (b = Resource \/ item[b].value.link)
Shown(b) == IF b \in Bibles /\ Linked(b) THEN resource ELSE 0

-----------------------------------------------------------------------------
(* The allocator. *)

(* A stamp is after the last one, and not before the clock.                 *)
Stamp(last, clock) == IF clock > last + 2 THEN clock ELSE last + 2

(* Taking it draws the first stamp of the transaction; the row is locked    *)
(* until the transaction ends, and a rollback gives the stamps back.        *)
Draws(w) == \E clock \in Clocks : drawn' = [drawn EXCEPT ![w] = Stamp(watermark, clock)]
(* Mutant of Take: the stamp comes from a sequence.                         *)
TakeUnlocked(w) == owner' = w /\ Draws(w) /\ watermark' = watermark + 4
Take(w) == owner = None /\ owner' = w /\ Draws(w) /\ UNCHANGED watermark
Release(w) == owner' = None /\ drawn' = [drawn EXCEPT ![w] = 0]

(* The rows of a statement are stamped one after the other, those that it   *)
(* does not touch included.                                                 *)
Stamped(w, to, touched) ==
    LET order == SetToSeq(DOMAIN to)
        at(i) == drawn[w] + 2 * (CHOOSE n \in 1 .. Len(order) : order[n] = i) - 2
    IN [i \in Items |-> IF i \in touched THEN [value |-> to[i], at |-> at(i)] ELSE item[i]]
Stores(w, to, touched) ==
    /\ item' = Stamped(w, to, touched)
    /\ watermark' = Max({watermark, drawn[w]} \cup {drawn[w] + 2 * Cardinality(DOMAIN to) - 2})
    /\ Release(w)
Differing(to) == {i \in DOMAIN to : item[i] = None \/ item[i].value # to[i]}

-----------------------------------------------------------------------------
(* Administrators and scripts.  seen is what the statement finds when it    *)
(* begins; it waits for the allocator when it has a row to write.           *)
Found(call) ==
    CASE call.kind = "curate" -> {b \in Bibles : Linked(b)}
      [] call.kind = "create" -> {call.of}
      [] call.kind = "language" -> {call.of} \ Rows(Languages)
      [] call.kind = "enrich" -> {l \in Rows({call.of}) : item[l].value = "none"}
      [] OTHER -> Rows({call.of})

Begin(w) ==
    /\ request[w].pc = "idle"
    /\ \E call \in Calls :
        /\ \A v \in Requests : request[v].call # call
        /\ request' = [request EXCEPT ![w] = [pc |-> "waiting", call |-> call, seen |-> Found(call)]]
    /\ UNCHANGED <<tables, allocator, published, job, client, started, faults>>

Ends(w) == [request EXCEPT ![w].pc = "done"]

(* The change of the resource is committed with the stamps of the Bibles    *)
(* that its trigger found.                                                  *)
Curated(w) ==
    IF request[w].call.kind = "curate"
    THEN /\ resource' = resource + 1
         /\ missed' = missed \cup ({b \in Bibles : Linked(b)} \ request[w].seen)
    ELSE UNCHANGED <<resource, missed>>

About(w, kinds) == IF request[w].call.kind \in kinds THEN {request[w].call.of} ELSE {}

(* A statement that found no row to stamp is over.                          *)
Nothing(w) ==
    /\ request[w].pc = "waiting" /\ request[w].seen = {}
    /\ Curated(w)
    /\ request' = Ends(w)
    /\ UNCHANGED <<item, watermark, named, hushed, shelf, allocator, published, job, client, started, faults>>

Hold(w) ==
    /\ request[w].pc = "waiting" /\ request[w].seen # {} /\ request[w].call.kind # "delete"
    /\ Take(w)
    /\ request' = [request EXCEPT ![w].pc = "held"]
    /\ UNCHANGED <<item, resource, missed, named, hushed, shelf, published, job, client, started, faults>>

(* What the statement writes, to the rows that are still there.             *)
Changed(w) ==
    LET call == request[w].call
        there == Rows(request[w].seen)
    IN CASE call.kind = "create" -> [b \in {call.of} |-> [name |-> call.name, audio |-> FALSE, link |-> FALSE]]
         [] call.kind = "language" -> [l \in {call.of} |-> IF l \in there THEN item[l].value ELSE "none"]
         [] call.kind = "enrich" -> [l \in {k \in there : item[k].value = "none"} |-> "csv"]
         [] call.kind = "rename" -> [b \in there |-> [item[b].value EXCEPT !.name = call.name]]
         [] call.kind \in {"audio", "silent"} -> [b \in there |-> [item[b].value EXCEPT !.audio = call.kind = "audio"]]
         [] call.kind = "link" -> [b \in there |-> [item[b].value EXCEPT !.link = TRUE]]
         [] call.kind = "curate" -> [b \in there |-> item[b].value]
Touched(w) ==
    IF request[w].call.kind = "language" THEN Differing(Changed(w)) ELSE DOMAIN Changed(w)

Allowed(w) ==
    LET call == request[w].call IN
    /\ call.kind = "create" => call.of \notin Rows(Bibles)
    /\ call.kind \in {"create", "rename"} => \A b \in Rows(Bibles) \ {call.of} : item[b].value.name # call.name

Write(w) ==
    /\ request[w].pc = "held" /\ Allowed(w)
    /\ Stores(w, Changed(w), Touched(w))
    /\ Curated(w)
    /\ named' = named \cup About(w, {"create", "rename"})
    /\ hushed' = hushed \cup About(w, {"silent"})
    /\ request' = Ends(w)
    /\ UNCHANGED <<shelf, published, job, client, started, faults>>

(* A name that is taken, a deadlock or a dying process: nothing is written, *)
(* and the stamps are given back.                                           *)
Aborts(w) ==
    /\ request[w].pc = "held"
    /\ \/ ~Allowed(w) /\ UNCHANGED faults
       \/ faults < MaxFaults /\ faults' = faults + 1
    /\ Release(w)
    /\ request' = Ends(w)
    /\ UNCHANGED <<tables, published, job, client, started>>

(* A deletion is not stamped, and is refused while books are linked.        *)
Delete(w) ==
    LET b == request[w].call.of IN
    /\ request[w].pc = "waiting" /\ request[w].call.kind = "delete" /\ request[w].seen # {}
    /\ item' = IF \A c \in Codes : shelf[b][c] = "none" THEN [item EXCEPT ![b] = None] ELSE item
    /\ request' = Ends(w)
    /\ UNCHANGED <<watermark, resource, missed, named, hushed, shelf, allocator, published, job, client, started, faults>>

-----------------------------------------------------------------------------
(* The job.  A step that fails ends the attempt, and the queue starts the   *)
(* next one from the first step.                                            *)
Attempt == [step |-> "languages", heard |-> <<>>, left |-> {}, errors |-> 0, of |-> 0]
InLibrary == {b \in Bibles : Library(b) # None}
(* Bibles of the table that came from the library once.                     *)
External == {b \in Rows(Bibles) : \E k \in 1 .. Len(Published) : Published[k][b] # None}

(* The library names a language for each Bible, by a code that may be none  *)
(* that is known.  Nothing that is there is replaced.                       *)
FetchLanguages ==
    /\ job.step = "languages"
    /\ job' = [job EXCEPT !.step = "enter", !.left = {Library(b).language : b \in InLibrary} \cap Languages]
    /\ UNCHANGED <<tables, allocator, published, request, client, started, faults>>

Entered == [l \in job.left |-> IF item[l] = None \/ item[l].value = "none" THEN "dbl" ELSE item[l].value]

(* Existing Bibles keep the name that is read here; a new one has its own   *)
(* name, or one with its key if that is taken.                              *)
Candidate(b, n) ==
    LET base == Library(b).name IN IF n = 0 THEN <<base>> ELSE IF n = 1 THEN <<base, b>> ELSE <<base, b, n>>
NameOf(b) ==
    LET order == SetToSeq(InLibrary \ Rows(Bibles))
        nth == CHOOSE n \in 1 .. Len(order) : order[n] = b
        taken == {item[c].value.name : c \in Rows(Bibles)} \cup {Candidate(order[k], 0) : k \in 1 .. (nth - 1)}
    IN IF b \in Rows(Bibles) THEN item[b].value.name
       ELSE Candidate(b, Min({k \in 0 .. Cardinality(taken) + 1 : Candidate(b, k) \notin taken}))

FetchBibles ==
    /\ job.step = "bibles"
    /\ job' = [job EXCEPT !.step = "upsert",
                  !.heard = [b \in {c \in InLibrary : Library(c).language \in Rows(Languages)} |->
                                [name |-> NameOf(b), audio |-> DOMAIN Library(b).audios # {}]]]
    /\ named' = {}
    /\ UNCHANGED <<item, watermark, resource, missed, hushed, shelf, allocator, published, request, client, started, faults>>

Upserted ==
    [b \in DOMAIN job.heard |->
        [name |-> job.heard[b].name, audio |-> job.heard[b].audio, link |-> item[b] # None /\ item[b].value.link]]
UniqueNames ==
    \A b \in DOMAIN job.heard, c \in Rows(Bibles) :
        b # c => job.heard[b].name # (IF c \in DOMAIN job.heard THEN job.heard[c] ELSE item[c].value).name

(* The books of each Bible are fetched, then linked one Bible after the     *)
(* other; an error skips its Bible, errors for all of them fail the step.   *)
FetchBooks ==
    /\ job.step = "books"
    /\ \E failed \in SUBSET External :
        /\ External \ InLibrary \subseteq failed
        /\ faults' = faults + IF failed \subseteq External \ InLibrary THEN 0 ELSE 1
        /\ faults' <= MaxFaults
        /\ job' = [job EXCEPT !.step = "link", !.left = External \ failed, !.errors = Cardinality(failed),
                      !.of = Cardinality(External), !.heard = [b \in External \ failed |-> Library(b).books]]
    /\ UNCHANGED <<tables, allocator, published, request, client, started>>

Turn == CHOOSE b \in job.left : TRUE
Linking == [c \in job.heard[Turn] |-> "book"]
Over(step) == job.step = step /\ job.left = {}
StepEnds(step, then) ==
    /\ Over(step)
    /\ job' = IF job.errors > 0 /\ job.errors = job.of THEN Attempt ELSE [Attempt EXCEPT !.step = then]
    /\ UNCHANGED <<tables, allocator, published, request, client, started, faults>>
BooksEnd == StepEnds("link", "audio")
AudioEnds == StepEnds("shelve", "done")
Skipped(n) == [job EXCEPT !.left = @ \ {Turn}, !.errors = @ + n]

(* Mutant of Heard: what has been fetched is written.                       *)
HeardPartly(b, failed) ==
    IF ~item[b].value.audio \/ Library(b) = None THEN [kind |-> "write", books |-> {}]
    ELSE [kind |-> "write", books |-> UNION {Library(b).audios[r] : r \in DOMAIN Library(b).audios \ failed}]

(* A Bible without recordings is cleared without a request.  The books of   *)
(* its recordings are fetched one after the other, and nothing is written   *)
(* when one of them fails.                                                  *)
Heard(b, failed) ==
    IF ~item[b].value.audio THEN [kind |-> "write", books |-> {}]
    ELSE IF Library(b) = None THEN [kind |-> "error", books |-> {}]
    ELSE IF DOMAIN Library(b).audios = {} THEN [kind |-> "nothing", books |-> {}]
    ELSE IF failed \cap DOMAIN Library(b).audios # {} THEN [kind |-> "error", books |-> {}]
    ELSE [kind |-> "write", books |-> UNION {Library(b).audios[r] : r \in DOMAIN Library(b).audios}]
Recordings == UNION {DOMAIN Library(b).audios : b \in InLibrary}
FetchAudio ==
    /\ job.step = "audio"
    /\ \E failed \in SUBSET Recordings :
        LET of(kind) == {b \in External : Heard(b, failed).kind = kind} IN
        /\ faults' = faults + IF failed = {} THEN 0 ELSE 1
        /\ faults' <= MaxFaults
        /\ job' = [job EXCEPT !.step = "shelve", !.left = of("write"), !.errors = Cardinality(of("error")),
                      !.of = Cardinality(External), !.heard = [b \in of("write") |-> Heard(b, failed).books]]
    /\ UNCHANGED <<tables, allocator, published, request, client, started>>

Shelve ==
    /\ job.step = "shelve" /\ job.left # {}
    /\ shelf' = [shelf EXCEPT ![Turn] =
                    [c \in Codes |-> IF @[c] = "none" THEN "none"
                                     ELSE IF c \in job.heard[Turn] THEN "audio" ELSE "silent"]]
    /\ job' = Skipped(0)
    /\ UNCHANGED <<item, watermark, resource, missed, named, hushed, allocator, published, request, client, started, faults>>

(* The transactions of the job that stamp.                                  *)
Locks ==
    /\ job.step \in {"enter", "upsert", "link"} /\ (job.step = "link" => job.left # {})
    /\ Take("job")
    /\ UNCHANGED <<item, resource, missed, named, hushed, shelf, published, request, job, client, started, faults>>

Commits(to, then) ==
    /\ owner = "job"
    /\ Stores("job", to, Differing(to))
    /\ job' = then
    /\ UNCHANGED <<resource, missed, named, published, request, client, started, faults>>

EnterLanguages ==
    /\ job.step = "enter"
    /\ Commits(Entered, [job EXCEPT !.step = "bibles"])
    /\ UNCHANGED <<hushed, shelf>>

UpsertBibles ==
    /\ job.step = "upsert" /\ UniqueNames
    /\ Commits(Upserted, [job EXCEPT !.step = "books"])
    /\ hushed' = hushed \ DOMAIN job.heard
    /\ UNCHANGED shelf

Link ==
    /\ job.step = "link" /\ job.left # {} /\ item[Turn] # None
    /\ Commits(Linking, Skipped(0))
    /\ shelf' = [shelf EXCEPT ![Turn] = [c \in Codes |-> IF @[c] = "none" /\ c \in job.heard[Turn] THEN "silent" ELSE @[c]]]
    /\ UNCHANGED hushed

(* A Bible that is gone, or a transaction that dies, skips the Bible.       *)
SkipsBible ==
    /\ job.step \in {"link", "shelve"} /\ (job.step = "link" => owner = "job")
    /\ job.left # {}
    /\ \/ job.step = "link" /\ item[Turn] = None /\ UNCHANGED faults
       \/ faults < MaxFaults /\ faults' = faults + 1
    /\ IF owner = "job" THEN Release("job") ELSE UNCHANGED allocator
    /\ job' = Skipped(1)
    /\ UNCHANGED <<tables, published, request, client, started>>

(* A name that somebody else was given, a request of the library or a       *)
(* transaction that fails, a worker that dies.                              *)
JobFails ==
    /\ job.step # "done"
    /\ \/ job.step = "upsert" /\ owner = "job" /\ ~UniqueNames /\ UNCHANGED faults
       \/ faults < MaxFaults /\ faults' = faults + 1
    /\ IF owner = "job" THEN Release("job") ELSE UNCHANGED allocator
    /\ job' = Attempt
    /\ UNCHANGED <<tables, published, request, client, started>>

Publish ==
    /\ published < Len(Published)
    /\ published' = published + 1
    /\ UNCHANGED <<tables, allocator, request, job, client, started, faults>>

SyncAgain ==
    /\ job.step = "done" /\ started < MaxStarted
    /\ started' = started + 1
    /\ job' = Attempt
    /\ UNCHANGED <<tables, allocator, published, request, client, faults>>

-----------------------------------------------------------------------------
(* A client.  Its copy of a table takes the rows of an answer, and the      *)
(* cursor the last stamp among them.                                        *)
Serialised(at) == at - (at % 2)

Received(T, rows) ==
    [client EXCEPT !.pc = "idle",
        !.copy = [i \in Items |-> IF i \in DOMAIN rows THEN [value |-> rows[i].value, facts |-> rows[i].facts] ELSE @[i]],
        !.cursor = [client.cursor EXCEPT ![T] =
                       IF DOMAIN rows = {} THEN client.cursor[T] ELSE Max({Serialised(rows[i].at) : i \in DOMAIN rows})]]
Later(T) == {i \in Rows(T) : item[i].at >= client.cursor[T]}

Pull(T) ==
    /\ client.pc = "idle" /\ started < MaxStarted
    /\ started' = started + 1
    /\ client' = Received(T, [i \in Later(T) |-> [value |-> item[i].value, facts |-> 0, at |-> item[i].at]])
    /\ UNCHANGED <<tables, allocator, published, request, job, faults>>

(* The facts of the resources are read after the Bibles they belong to.     *)
PullBibles ==
    /\ client.pc = "idle" /\ started < MaxStarted
    /\ started' = started + 1
    /\ client' = [client EXCEPT !.pc = "facts", !.rows = [b \in Later(Bibles) |-> item[b]]]
    /\ UNCHANGED <<tables, allocator, published, request, job, faults>>

Facts(row, b) == IF b = Resource \/ row.value.link THEN resource ELSE 0
PullFacts ==
    /\ client.pc = "facts"
    /\ client' = [Received(Bibles, [b \in DOMAIN client.rows |->
                      [value |-> client.rows[b].value, facts |-> Facts(client.rows[b], b), at |-> client.rows[b].at]])
                  EXCEPT !.rows = <<>>]
    /\ UNCHANGED <<tables, allocator, published, request, job, started, faults>>

-----------------------------------------------------------------------------
Init ==
    /\ item = [i \in Items |-> None]
    /\ watermark = 1 /\ owner = None /\ drawn = [w \in Requests \cup {"job"} |-> 0]
    /\ resource = 0 /\ missed = {} /\ named = {} /\ hushed = {}
    /\ shelf = [b \in Bibles |-> [c \in Codes |-> "none"]]
    /\ published = 1
    /\ request = [w \in Requests |-> [pc |-> "idle", call |-> None, seen |-> {}]]
    /\ job = Attempt
    /\ client = [pc |-> "idle", rows |-> <<>>, copy |-> [i \in Items |-> None],
                 cursor |-> [T \in {Languages, Bibles, Codes} |-> 0]]
    /\ started = 0 /\ faults = 0

Writes == \E w \in Requests : Begin(w) \/ Nothing(w) \/ Hold(w) \/ Write(w) \/ Aborts(w) \/ Delete(w)
Syncs ==
    \/ FetchLanguages \/ EnterLanguages \/ FetchBibles \/ UpsertBibles
    \/ FetchBooks \/ Link \/ BooksEnd \/ FetchAudio \/ Shelve \/ AudioEnds
    \/ Locks \/ SkipsBible \/ JobFails \/ SyncAgain
Reads == Pull(Languages) \/ Pull(Codes) \/ PullBibles \/ PullFacts

Next == Writes \/ Syncs \/ Reads \/ Publish

Spec == Init /\ [][Next]_vars

-----------------------------------------------------------------------------
(* What the theorems assume of the constants: the kinds of calls, and that  *)
(* the books of the library are known ones.                                 *)
SyncOK ==
    /\ IsFiniteSet(Items) /\ Clocks \subseteq Nat
    /\ Languages \cap Bibles = {} /\ Languages \cap Codes = {} /\ Bibles \cap Codes = {}
    /\ None \notin Requests /\ None \notin Calls /\ None # "job" /\ "job" \notin Requests
    /\ \A call \in Calls :
          \/ call.kind \in {"language", "enrich"} /\ call.of \in Languages
          \/ call.kind \in {"curate", "create", "rename", "audio", "silent", "link", "delete"} /\ call.of \in Bibles
    /\ Len(Published) \in Nat \ {0}
    /\ \A k \in 1 .. Len(Published), b \in Bibles :
          Published[k][b] # None => Published[k][b].books \subseteq Codes

TypeOK ==
    /\ \A i \in Items : item[i] = None \/ item[i].at \in 1 .. watermark
    /\ owner \in Requests \cup {"job", None}
    /\ \A b \in Bibles : shelf[b] \in [Codes -> {"none", "silent", "audio"}]
    /\ \A w \in Requests : request[w].pc \in {"idle", "waiting", "held", "done"}
    /\ job.left \subseteq Items /\ job.errors \in 0 .. Cardinality(Bibles)
    /\ client.pc \in {"idle", "facts"} /\ started \in 0 .. MaxStarted /\ faults \in 0 .. MaxFaults

(* What a client will not ask for again it has as it is: whoever writes     *)
(* meanwhile, and in whichever order the transactions end, its cursor never *)
(* passes a row that it has not seen (updated-after-query.ts,               *)
(* catalogue-watermark.md).  A change of the provider resource cannot stamp *)
(* a Bible whose insertion or link is not committed yet.                    *)
NothingSkipped ==
    \A i \in Items \ missed :
        item[i] # None /\ item[i].at < client.cursor[Table(i)] =>
            client.copy[i] = [value |-> item[i].value, facts |-> Shown(i)]

(* A book is shown with a recording only if the library listed one, and     *)
(* loses it only when a version of the library has none for it, or when the *)
(* Bible was marked as silent by hand, which the job takes as said by the   *)
(* library: an answer that was fetched in part clears nothing               *)
(* (dbl-book-sync.ts).                                                      *)
Listed(k, b) == UNION {Published[k][b].audios[r] : r \in DOMAIN Published[k][b].audios}
Versions(b) == {k \in 1 .. published : Published[k][b] # None}
AudioListed ==
    \A b \in Bibles, c \in Codes : shelf[b][c] = "audio" => \E k \in Versions(b) : c \in Listed(k, b)
AudioKept ==
    \A b \in Bibles, c \in Codes :
        shelf[b][c] = "audio" /\ shelf'[b][c] # "audio" =>
            b \in hushed \/ \E k \in Versions(b) : c \notin Listed(k, b)

(* What a Bible is named is changed by the request that renames it, in the  *)
(* step that commits this, and else only by the job, which writes back what *)
(* it has read over a name that a request has given since (a lost update:   *)
(* dbl-bible-sync.ts reads, bibles.repository.ts sets excluded.name).  A    *)
(* language keeps the name it has (languages.repository.ts).                *)
Renames(w, b) ==
    /\ request[w].pc = "held" /\ request'[w].pc = "done"
    /\ request[w].call.kind = "rename" /\ request[w].call.of = b /\ item'[b].value.name = request[w].call.name
WritesBack(b) ==
    /\ job.step = "upsert" /\ owner = "job" /\ b \in DOMAIN job.heard /\ b \in named
    /\ item'[b].value.name = job.heard[b].name
NamesKept ==
    /\ \A b \in Rows(Bibles) :
        item'[b] # None /\ item'[b].value.name # item[b].value.name =>
            WritesBack(b) \/ \E w \in Requests : Renames(w, b)
    /\ \A l \in Rows(Languages) : item[l].value # "none" => item'[l].value = item[l].value

CatalogueKept == NothingSkipped /\ AudioListed
CatalogueSteps == [][AudioKept /\ NamesKept]_vars
=============================================================================
