------------------------------ MODULE MCServer ------------------------------
(***************************************************************************)
(* Safety of the components that are small enough to be checked beside     *)
(* each other.  As in MCAnswered a behaviour moves one of them, the        *)
(* component, and the variables of the others rest at 0; request, started, *)
(* sweep, job, faults, now, project, grant, assignment, one and two are    *)
(* the variables of the one that moves.                                    *)
(***************************************************************************)
EXTENDS Naturals, FiniteSets, Sequences, TLC

CONSTANTS r1, r2, v1, v2, h1, h2, unitA, unitB, projectP, projectQ, None, Nobody,
          manager, lead, drafter, guest, Org

VARIABLES
    component, request, history, started, sweep, job,
    one, two,
    recording, take, nextRecording, nextTake, agedUnits, agedTakes, surfaced,
    draft, suggested, toggle, lock, batch, generating,
    project, holder, unit, held, import, text, complete, worker, retry, dead, rows, faults,
    grant, account, assignment,
    attempt, object, links, linked, now,
    database, queue, deadQueue, process, migration,
    item, watermark, owner, drawn, resource, missed, named, hushed, shelf, published, client,
    search, pool,
    bible, license, local, during, changes,
    buckets, evicted, admitted, editor, session, lastActive, settings, resources, log,
    row, writing, member, device, late,
    choice, headed, prompt, saved, usage, shown, accepted, edits

shared == <<request, started, sweep, job, faults, now, project, grant, account, assignment>>
rangeVars == <<one, two>>
audioVars == <<recording, take, nextRecording, nextTake, agedUnits, agedTakes, surfaced>>
activationVars == <<history, draft, suggested, toggle, lock, batch, generating>>
importVars == <<holder, unit, held, import, text, complete, worker, retry, dead, rows>>
exportVars == <<attempt, object, links, linked>>
queueVars == <<database, queue, deadQueue, process, migration>>
catalogueVars == <<item, watermark, owner, drawn, resource, missed, named, hushed, shelf, published, client>>
contentVars == <<search, pool>>
mediaVars == <<bible, license, local, during, changes>>
limitVars == <<buckets, evicted, admitted>>
sessionVars == <<session, lastActive>>
settingVars == <<settings, resources, log>>
feedVars == <<row, writing, member, device, late>>
headingVars == <<choice, headed, prompt, saved, usage, shown, accepted, edits>>
vars == <<component, shared, rangeVars, audioVars, activationVars, importVars,
          exportVars, queueVars, catalogueVars, contentVars, mediaVars, limitVars, editor,
          sessionVars, settingVars, feedVars, headingVars>>

-----------------------------------------------------------------------------
(* The instances. *)

(* One request or two, projectP beside another. *)
One == {r1}
Two == {r1, r2}
Both == {projectP, projectQ}
Four == 1 .. 4

(* Two units of a book, with every shape their recordings may have.        *)
Ranges == INSTANCE MCVerseAudioCoverage WITH Chapters <- 2, Verses <- 3

(* Two neighbouring verses: a pericope that starts at v1 can reach v2.     *)
Verse(n) == [chapter |-> 1, verse |-> n]
Audio == INSTANCE VerseAudio WITH
    Units <- {v1, v2}, Anchor <- [u \in {v1, v2} |-> [book |-> 1, ref |-> Verse(IF u = v1 THEN 1 ELSE 2)]],
    RangeEnds <- {Verse(2)}, Clients <- Two, Hashes <- {h1, h2},
    Ops <- {"upload", "resolve"}, Activates <- {TRUE}, Faults <- FALSE, MaxRequests <- 3

(* unitA has two chapters, the first with a pericope for each verse, the  *)
(* second with none; unitB is in the same family and only drafts.         *)
Draft(u, v, content) == [unit |-> u, verse |-> v, content |-> content]
Asked(kind, v) == [kind |-> kind, unit |-> unitA, verse |-> v, on |-> TRUE]
Activation == INSTANCE AiActivation WITH
    Requests <- Two, Units <- {unitA, unitB}, Verses <- {<<1, 1>>, <<1, 2>>, <<2, 1>>},
    Groups <- <<<<{1}, {2}>>, <<>>>>, Threshold <- 2, Lookahead <- 1, Initially <- 1, Batch <- 2, Retries <- 1,
    Saves <- {Draft(unitA, <<1, 1>>, "words"), Draft(unitB, <<1, 2>>, "words"), Draft(unitB, <<1, 1>>, "empty")},
    Imports <- {{Draft(unitB, <<2, 1>>, "imported"), Draft(unitA, <<1, 1>>, "imported")}},
    Calls <- {Asked("toggle", <<2, 1>>), Asked("navigate", <<1, 1>>), Asked("pericopes", <<1, 2>>)},
    Drafted <- {<<unitB, <<1, 1>>>>},
    Enabled <- (<<unitA, 1>> :> "on" @@ <<unitA, 2>> :> "off" @@ <<unitB, 1>> :> "none" @@ <<unitB, 2>> :> "none")
ASSUME ActivationAssumption == Activation!AskedOK

(* Requests change projectP, while the text of the same books is fetched   *)
(* for projectQ.  The first milestone a request makes is 3, or 2 if the    *)
(* project has none; in the last database milestone 2 had the book and lost *)
(* it.                                                                      *)
Call(k) == [kind |-> k, project |-> projectP, unit |-> 0, books |-> {}, move |-> {}, target |-> 0,
            remove |-> {}, files |-> FALSE]
Calls ==
    {[Call("createProject") EXCEPT !.books = {1}, !.files = TRUE],
     [Call("createProject") EXCEPT !.books = {1}],
     [Call("import") EXCEPT !.books = {1}, !.files = TRUE],
     [Call("createMilestone") EXCEPT !.books = {1}],
     [Call("update") EXCEPT !.unit = 2, !.books = {1}],
     [Call("update") EXCEPT !.unit = 3, !.move = {1}, !.target = 2],
     [Call("update") EXCEPT !.unit = 3, !.remove = {1}],
     [Call("deleteMilestone") EXCEPT !.unit = 3],
     Call("deleteProject"), Call("cascade")}
Fetch(books, left) == [books |-> books, project |-> None, unit |-> 1, left |-> left]
Initial ==
    {[projects |-> {projectP, projectQ}, units |-> (1 :> projectQ @@ 2 :> projectP), links |-> (<<1, 1>> :> "active"), ingested |-> {}, jobs |-> {Fetch({1}, 0)}],
     [projects |-> {projectP, projectQ}, units |-> (1 :> projectQ), links |-> (<<1, 1>> :> "active"), ingested |-> {1}, jobs |-> {}],
     [projects |-> {projectP, projectQ}, units |-> (1 :> projectQ @@ 2 :> projectP), links |-> (<<2, 1>> :> "removed"), ingested |-> {1}, jobs |-> {}]}
Import == INSTANCE ImportPipeline WITH
    Requests <- Two, Projects <- Both, Units <- Four, Books <- {1}, Chapters <- {1},
    Calls <- Calls, Initial <- Initial, Retries <- 0, MaxRequests <- 2, MaxFaults <- 0

ASSUME ImportsAssumption == Import!AskedOK

(* One request after another, and a fault. *)
Faulty == INSTANCE ImportPipeline WITH
    Requests <- One, Projects <- Both, Units <- Four, Books <- {1}, Chapters <- {1},
    Calls <- {c \in Calls : c.kind \in {"createProject", "createMilestone", "import"}}, Initial <- Initial,
    Retries <- 0, MaxRequests <- 2, MaxFaults <- 1

(* One request with two books of two chapters. *)
TwoBooks == INSTANCE ImportPipeline WITH
    Requests <- One, Projects <- Both, Units <- 1 .. 2, Books <- {1, 2}, Chapters <- {1, 2},
    Calls <- {[Call("createProject") EXCEPT !.books = {1, 2}, !.files = TRUE]},
    Initial <- {[projects |-> {projectQ}, units |-> (1 :> projectQ), links |-> (<<1, 1>> :> "active" @@ <<1, 2>> :> "active"),
                 ingested |-> {1}, jobs |-> {}]},
    Retries <- 0, MaxRequests <- 1, MaxFaults <- 1

(* A manager of the organization, the manager of a project, its drafter and *)
(* an address that has no account.                                          *)
Ask(kind, caller, u, role) ==
    [kind |-> kind, caller |-> caller, user |-> u, project |-> projectP, role |-> role]
Grant(u, org, at, role) == [user |-> u, org |-> org, project |-> at, role |-> role]
Members == INSTANCE Memberships WITH
    Requests <- Two, Users <- {manager, lead, drafter, guest}, Chapters <- {1}, Project <- projectP,
    Calls <- {Ask("remove", manager, drafter, None), Ask("remove", lead, manager, None),
              Ask("role", manager, drafter, "Org Manager"), Ask("role", lead, drafter, "Org Manager"),
              Ask("add", lead, drafter, "Project Observer"),
              Ask("removeMember", lead, drafter, None), Ask("memberRole", lead, drafter, "Project Observer"),
              Ask("memberRole", manager, lead, "Project Translator"),
              Ask("invite", lead, guest, "Project Translator"), Ask("invite", lead, guest, "Org Manager"),
              [Ask("create", manager, guest, "Org Member") EXCEPT !.project = None],
              Ask("assign", lead, guest, None), Ask("submit", drafter, drafter, None),
              Ask("delete", manager, guest, None)},
    Initially <- {{Grant(u, Org, None, "Org Member") : u \in {manager, lead, drafter}} \cup
                  {Grant(manager, Org, None, "Org Manager"), Grant(manager, None, None, "SuperAdmin"),
                   Grant(lead, Org, projectP, "Project Manager"),
                   Grant(drafter, Org, projectP, "Project Translator")}},
    MaxRequests <- 3, MaxFaults <- 1
ASSUME MembersAssumption == Members!MembersOK

(* Two members export a milestone; each knows the name of the  *)
(* other one's file.                                                        *)
Export(kind, u, books, file) == [kind |-> kind, user |-> u, books |-> books, file |-> file]
Exporting == INSTANCE UsfmExport WITH
    Requests <- Two, Jobs <- {1, 2}, Attempts <- {1, 2}, Books <- {1},
    Calls <- {Export("export", lead, {}, 0), Export("send", lead, {}, 0)} \cup
             {Export("download", u, {}, j) : u \in {lead, drafter}, j \in {1, 2}},
    Retries <- 1, Ttl <- 1, LinkTtl <- 1, MaxTime <- 2, MaxRequests <- 2, MaxFaults <- 1
ASSUME ExportsAssumption == Exporting!CallsOK

(* The queues are there, are those of a release that had no dead letter    *)
(* queues, or have not been made.                                          *)
Pending(key) == [key |-> key, policy |-> "standard", state |-> "created"]
Queues == INSTANCE QueueLifecycle WITH
    Queues <- <<"exports">>, Migrated <- "exports", Jobs <- 1 .. 2, Keys <- {1},
    Initially <- {[queue |-> None, deadQueue |-> None, job |-> [i \in 1 .. 2 |-> None]],
                  [queue |-> [policy |-> "standard", dead |-> FALSE], deadQueue |-> "short",
                   job |-> [i \in 1 .. 2 |-> IF i = 1 THEN Pending(1) ELSE None]]},
    MaxRequests <- 1, MaxFaults <- 1
ASSUME QueuesAssumption == Queues!InitiallyOK

(* Two writers beside the job: a change of the resource that b1 has as its  *)
(* text and the link of b2 to it.                                           *)
Change(kind, of, name) == [kind |-> kind, of |-> of, name |-> name]
Bible(books, audios) == [language |-> "hin", name |-> "n", books |-> books, audios |-> audios]
Silent == [r \in {} |-> {}]
Catalogue == INSTANCE CatalogueSync WITH
    Languages <- {"hin"}, Bibles <- {"b1", "b2"}, Codes <- {"GEN"}, Resource <- "b1",
    Published <- <<[b \in {"b1", "b2"} |-> Bible({"GEN"}, Silent)]>>,
    Requests <- Two, Calls <- {Change("curate", "b1", <<>>), Change("link", "b2", <<>>)},
    Clocks <- {0}, MaxStarted <- 2, MaxFaults <- 0

(* One writer beside the job, and a second version of the library without   *)
(* the first recording of b1 and without b2.                                *)
Synced == INSTANCE CatalogueSync WITH
    Languages <- {"hin"}, Bibles <- {"b1", "b2", "own"}, Codes <- {"GEN"}, Resource <- "b1",
    Published <- <<("b1" :> Bible({"GEN"}, 1 :> {"GEN"} @@ 2 :> {}) @@ "b2" :> Bible({"GEN"}, Silent) @@ "own" :> None),
                   ("b1" :> Bible({"GEN"}, 2 :> {}) @@ "b2" :> None @@ "own" :> None)>>,
    Requests <- One,
    Calls <- {Change("rename", "b1", <<"n", "b2">>), Change("create", "own", <<"n">>), Change("delete", "b2", <<>>),
              Change("silent", "b1", <<>>), Change("audio", "b2", <<>>),
              Change("language", "hin", <<>>), Change("enrich", "hin", <<>>)},
    Clocks <- {0}, MaxStarted <- 1, MaxFaults <- 1
ASSUME CatalogueAssumption == Catalogue!SyncOK /\ Synced!SyncOK

(* Searches of one page, of several with an item on two of them, of more    *)
(* than may be asked for, and one that is cut short; and a chapter of which *)
(* the passages are an introduction and three verses.                       *)
Gather(kind, searches) == [kind |-> kind, searches |-> searches]
Content == INSTANCE ContentFetch WITH
    Library <- [empty |-> <<<<>>>>, one |-> <<<<3>>>>, short |-> <<<<1>>, <<2, 3>>>>,
                repeats |-> <<<<1, 2>>, <<2, 3>>, <<4>>>>, long |-> <<<<1, 2>>, <<3, 4>>, <<5, 6>>, <<7>>>>,
                chapter |-> <<<<0, 3, 1, 2>>>>],
    Calls <- {Gather("notes", <<"empty">>), Gather("notes", <<"repeats">>), Gather("notes", <<"long">>),
              Gather("images", <<"repeats">>), Gather("manifest", <<"repeats", "one">>),
              Gather("manifest", <<"one", "long">>), Gather("chapter", <<"chapter">>),
              Gather("bibles", <<"short">>), Gather("bibles", <<"repeats">>), Gather("bibles", <<"long">>)},
    Assets <- {3}, Verses <- {1, 2, 3}, PageSize <- 2, MaxPages <- 3, Concurrency <- 2, MaxRetries <- 2

(* A text of the Digital Bible Library, with two recordings, another one of *)
(* Aquifer, which may also be what is selected, and a Bible with neither.   *)
Media == INSTANCE SourceMedia WITH
    Resources <- {"text", "other", "first", "second"},
    Provider <- [r \in {"text", "other", "first", "second"} |-> IF r = "other" THEN "aquifer" ELSE "dbl"],
    Texts <- {"text", "other", None}, Recordings <- {"first", "other"}, Listed <- {<<>>, <<"first", "second">>},
    Verses <- {1, 2}, MaxChanges <- 1

(* Four addresses, of which the table of a route has room for three. *)
Limits == INSTANCE RateLimiter WITH
    Clients <- {"w", "x", "y", "z"}, Limit <- 1, Window <- 2, MaxBuckets <- 3, MaxTime <- 3
ASSUME LimitsAssumption == Limits!LimitsOK

Presence == INSTANCE EditorPresence WITH
    Requests <- Two, Editors <- {1, 2}, Stale <- 1, MaxTime <- 3
ASSUME PresenceAssumption == Presence!EditorsOK

(* A mobile device that comes and goes, and two devices that are switched   *)
(* to the organizations 1 and 2 of the user, and to one that is not.        *)
Stay == INSTANCE Sessions WITH
    Requests <- One, Devices <- {"phone"}, Mobile <- {"phone"}, Member <- {}, Calls <- {<<"phone", None>>, <<"phone", 3>>},
    Life <- 5, Threshold <- 4, Interval <- 1, Expiry <- 2, UpdateAge <- 1, MaxTime <- 8, MaxFaults <- 1
Switching == INSTANCE Sessions WITH
    Requests <- Two, Devices <- {"web", "phone"}, Mobile <- {}, Member <- {1, 2},
    Calls <- {<<"web", None>>, <<"web", 1>>, <<"phone", 2>>},
    Life <- 5, Threshold <- 4, Interval <- 1, Expiry <- 2, UpdateAge <- 1, MaxTime <- 0, MaxFaults <- 0
ASSUME SessionsAssumption == Stay!SessionsOK /\ Switching!SessionsOK

Settings == INSTANCE Preferences WITH
    Requests <- Two, Editors <- {"verses"}, MaxWrites <- 3,
    Patches <- {[displayMode |-> "verse"], [displayMode |-> "null"], [checkIgnoredWordPairs |-> "x"],
                [displayMode |-> "null", checkIgnoredWordPairs |-> "y"]}
ASSUME SettingsAssumption == Settings!PatchesOK

(* The assignments of one of two projects change. *)
Feed == INSTANCE AssignmentFeed WITH
    Projects <- Both, Changing <- {projectP}, MaxTime <- 3, MaxWrites <- 2
ASSUME FeedAssumption == Feed!FeedOK

(* The verses that have the number of the pericope in four pericope sets;   *)
(* in the last it started in the chapter before.  A title of the first may  *)
(* be shown when the project takes another set.                             *)
Headings == INSTANCE PericopeHeadings WITH
    Requests <- Two, Sets <- {"long", "short", "second", "tail"}, Starting <- {"long", "short", "second"},
    Layout <- [long |-> {1, 2}, short |-> {1}, second |-> {2}, tail |-> {1}], Chosen <- {"long", "tail", None},
    Initially <- {[set |-> "short", job |-> {"short"}, saved |-> <<>>],
                  [set |-> "short", job |-> {"short"}, saved |-> <<"second">>],
                  [set |-> "short", job |-> {}, saved |-> <<"long">>],
                  [set |-> "long", job |-> {}, saved |-> <<"second", "long">>]},
    MaxRequests <- 2, MaxChanges <- 1
ASSUME HeadingsAssumption == Headings!HeadingsOK

(* Every grant a member may have beside what is fixed: in the organization, *)
(* in one of its projects, everywhere, or in a project without the          *)
(* membership.                                                              *)
Granted(u, role) ==
    CASE role = "nothing" -> {}
      [] role = "SuperAdmin" -> {Grant(u, None, None, role)}
      [] role = "loose" -> {Grant(u, 1, 1, "Project Translator")}
      [] OTHER -> {Grant(u, 1, None, "Org Member")} \cup
            (CASE role = "Org Member" -> {}
               [] role = "Org Manager" -> {Grant(u, 1, None, role)}
               [] role = "neighbour" -> {Grant(u, 1, 2, "Project Translator")}
               [] OTHER -> {Grant(u, 1, 1, role)})
Roles == {"nothing", "SuperAdmin", "loose", "Org Member", "Org Manager", "neighbour",
          "Project Manager", "Project Translator", "Project Observer"}

(* A user of whom the grants change beside the manager and a translator of  *)
(* a project, and one chapter on its way.                                   *)
Access == INSTANCE AccessRules WITH
    Requests <- {}, Users <- {lead, drafter, guest}, Projects <- (1 :> 1 @@ 2 :> 1), Changing <- {drafter},
    Tables <- {[u \in {drafter} |-> Granted(u, role)] : role \in Roles},
    Initially <- Granted(lead, "Project Manager") \cup Granted(guest, "Project Translator"),
    Workflow <- <<"not_started", "draft", "peer_check", "community_review", "complete">>, MaxFaults <- 0

(* Two requests to create a project, of the manager of one in one of two    *)
(* organizations and of a user who has none.                                *)
Founding == INSTANCE AccessRules WITH
    Requests <- Two, Users <- {lead, guest}, Projects <- (1 :> 1 @@ 2 :> 2), Changing <- {},
    Tables <- {}, Initially <- {Grant(lead, 1, None, "Org Member"), Grant(lead, 1, 1, "Project Manager")},
    Workflow <- <<"not_started", "draft", "peer_check", "complete">>, MaxFaults <- 2
ASSUME AccessAssumption == Access!AccessOK /\ Founding!AccessOK

(* Two verses of a book, with paragraphs that open before them and within;  *)
(* the second begins a chapter or has headings, one of them from a time     *)
(* when a division could have words.  And files of three nodes in a         *)
(* chapter, as others write them.                                           *)
Opens(marker, at) == [marker |-> marker, at |-> at]
TextRows(c, v, lengths, headings) ==
    {[chapter |-> c, verse |-> v, headings |-> h, words |-> [i \in 1 .. n |-> 10 * v + i], paragraphs |-> p] :
        n \in lengths, h \in headings,
        p \in {<<>>, <<Opens("p", 0)>>, <<Opens("q1", 0)>>, <<Opens("p", 0), Opens("q1", 0)>>,
              <<Opens("q1", 1)>>, <<Opens("p", 0), Opens("q1", 1)>>, <<Opens("q1", 1), Opens("p", 2)>>}}
TextHeadings == {<<>>, <<[marker |-> "s1", text |-> 9]>>, <<[marker |-> "sd", text |-> 9]>>}
TextShapes ==
    [p |-> {<<>>, <<"verse", "word">>, <<"word">>}, q1 |-> {<<"verse", "word">>, <<"word", "verse", "word">>},
     s1 |-> {<<"word">>, <<"word", "verse">>}, sd |-> {<<>>}, b |-> {<<>>}, tr |-> {<<"word", "verse", "word">>}]
TextNodes(i) ==
    {[type |-> "chapter", number |-> i]} \cup
    UNION {{[type |-> "para", marker |-> marker, content |-> [j \in DOMAIN c |-> [kind |-> c[j], n |-> 10 * i + j]]] :
              c \in TextShapes[marker]} : marker \in DOMAIN TextShapes}
Converting == INSTANCE UsfmConversion WITH
    stored <- one, file <- two, MaxParagraphs <- 2,
    Stored <- {<<x, y>> : x \in TextRows(1, 1, {3}, {<<>>}),
                          y \in UNION {TextRows(c, 2, {0, 1, 3}, TextHeadings) : c \in {1, 2}}},
    Files <- {<<[type |-> "chapter", number |-> 1], x, y, z>> :
                x \in TextNodes(2), y \in TextNodes(3), z \in TextNodes(4)}

-----------------------------------------------------------------------------
(* The variables of a component belong to it, the shared ones to those that *)
(* use them; the others rest.                                               *)
Imports == {"import", "failing", "books"}
Catalogues == {"catalogue", "sync"}
Devices == {"stay", "switch"}
Permitting == {"access", "founding"}
Texts == {"ranges", "usfm"}
Requesting == Imports \cup Catalogues \cup Devices \cup Permitting \cup
              {"audio", "activation", "members", "export", "content", "media", "presence", "settings", "feed", "headings"}
Starting == Imports \cup Catalogues \cup {"audio", "members", "export", "queues", "headings"}
Sweeping == Imports \cup {"audio", "export"}
Queueing == Imports \cup Catalogues \cup {"activation", "export", "queues", "headings"}
Failing == Imports \cup Catalogues \cup Devices \cup Permitting \cup {"members", "export", "queues"}
Projecting == Imports \cup Permitting
Granting == Permitting \cup {"members"}
Timed == Devices \cup {"export", "limits", "presence", "feed"}

Init ==
    /\ \/ component = "ranges" /\ Ranges!Init
       \/ component = "audio" /\ Audio!Init
       \/ component = "activation" /\ Activation!Init
       \/ component = "import" /\ Import!Init
       \/ component = "failing" /\ Faulty!Init
       \/ component = "books" /\ TwoBooks!Init
       \/ component = "members" /\ Members!Init
       \/ component = "export" /\ Exporting!Init
       \/ component = "queues" /\ Queues!Init
       \/ component = "catalogue" /\ Catalogue!Init
       \/ component = "sync" /\ Synced!Init
       \/ component = "content" /\ Content!Init
       \/ component = "media" /\ Media!Init
       \/ component = "limits" /\ Limits!Init
       \/ component = "presence" /\ Presence!Init
       \/ component = "stay" /\ Stay!Init
       \/ component = "switch" /\ Switching!Init
       \/ component = "settings" /\ Settings!Init
       \/ component = "feed" /\ Feed!Init
       \/ component = "headings" /\ Headings!Init
       \/ component = "access" /\ Access!Init
       \/ component = "founding" /\ Founding!Init
       \/ component = "usfm" /\ Converting!Init
    /\ IF component \in Requesting THEN TRUE ELSE request = 0
    /\ IF component \in Starting THEN TRUE ELSE started = 0
    /\ IF component \in Sweeping THEN TRUE ELSE sweep = 0
    /\ IF component \in Queueing THEN TRUE ELSE job = 0
    /\ IF component \in Failing THEN TRUE ELSE faults = 0
    /\ IF component \in Timed THEN TRUE ELSE now = 0
    /\ IF component \in Projecting THEN TRUE ELSE project = 0
    /\ IF component \in Granting THEN TRUE ELSE grant = 0 /\ assignment = 0
    /\ IF component = "members" THEN TRUE ELSE account = 0
    /\ IF component \in Texts THEN TRUE ELSE one = 0 /\ two = 0
    /\ IF component = "audio" THEN TRUE
       ELSE /\ recording = 0 /\ take = 0 /\ nextRecording = 0 /\ nextTake = 0
            /\ agedUnits = 0 /\ agedTakes = 0 /\ surfaced = 0
    /\ IF component = "activation" THEN TRUE
       ELSE /\ history = 0 /\ draft = 0 /\ suggested = 0 /\ toggle = 0 /\ lock = 0
            /\ batch = 0 /\ generating = 0
    /\ IF component \in Imports THEN TRUE
       ELSE /\ holder = 0 /\ unit = 0 /\ held = 0 /\ import = 0 /\ text = 0
            /\ complete = 0 /\ worker = 0 /\ retry = 0 /\ dead = 0 /\ rows = 0
    /\ IF component = "export" THEN TRUE
       ELSE attempt = 0 /\ object = 0 /\ links = 0 /\ linked = 0
    /\ IF component = "queues" THEN TRUE
       ELSE database = 0 /\ queue = 0 /\ deadQueue = 0 /\ process = 0 /\ migration = 0
    /\ IF component \in Catalogues THEN TRUE
       ELSE /\ item = 0 /\ watermark = 0 /\ owner = 0 /\ drawn = 0 /\ resource = 0 /\ missed = 0 /\ named = 0 /\ hushed = 0
            /\ shelf = 0 /\ published = 0 /\ client = 0
    /\ IF component = "content" THEN TRUE ELSE search = 0 /\ pool = 0
    /\ IF component = "media" THEN TRUE
       ELSE bible = 0 /\ license = 0 /\ local = 0 /\ during = 0 /\ changes = 0
    /\ IF component = "limits" THEN TRUE ELSE buckets = 0 /\ evicted = 0 /\ admitted = 0
    /\ IF component = "presence" THEN TRUE ELSE editor = 0
    /\ IF component \in Devices THEN TRUE ELSE session = 0 /\ lastActive = 0
    /\ IF component = "settings" THEN TRUE ELSE settings = 0 /\ resources = 0 /\ log = 0
    /\ IF component = "feed" THEN TRUE
       ELSE row = 0 /\ writing = 0 /\ member = 0 /\ device = 0 /\ late = 0
    /\ IF component = "headings" THEN TRUE
       ELSE /\ choice = 0 /\ headed = 0 /\ prompt = 0 /\ saved = 0 /\ usage = 0 /\ shown = 0
            /\ accepted = 0 /\ edits = 0

Next ==
    /\ \/ component = "ranges" /\ Ranges!Next
       \/ component = "audio" /\ Audio!Next
       \/ component = "activation" /\ Activation!Next
       \/ component = "import" /\ Import!Next
       \/ component = "failing" /\ Faulty!Next
       \/ component = "books" /\ TwoBooks!Next
       \/ component = "members" /\ Members!Next
       \/ component = "export" /\ Exporting!Next
       \/ component = "queues" /\ Queues!Next
       \/ component = "catalogue" /\ Catalogue!Next
       \/ component = "sync" /\ Synced!Next
       \/ component = "content" /\ Content!Next
       \/ component = "media" /\ Media!Next
       \/ component = "limits" /\ Limits!Next
       \/ component = "presence" /\ Presence!Next
       \/ component = "stay" /\ Stay!Next
       \/ component = "switch" /\ Switching!Next
       \/ component = "settings" /\ Settings!Next
       \/ component = "feed" /\ Feed!Next
       \/ component = "headings" /\ Headings!Next
       \/ component = "access" /\ Access!Next
       \/ component = "founding" /\ Founding!Next
       \/ component = "usfm" /\ Converting!Next
    /\ IF component \in Requesting THEN TRUE ELSE UNCHANGED request
    /\ IF component \in Starting THEN TRUE ELSE UNCHANGED started
    /\ IF component \in Sweeping THEN TRUE ELSE UNCHANGED sweep
    /\ IF component \in Queueing THEN TRUE ELSE UNCHANGED job
    /\ IF component \in Failing THEN TRUE ELSE UNCHANGED faults
    /\ IF component \in Timed THEN TRUE ELSE UNCHANGED now
    /\ IF component \in Projecting THEN TRUE ELSE UNCHANGED project
    /\ IF component \in Granting THEN TRUE ELSE UNCHANGED <<grant, assignment>>
    /\ IF component = "members" THEN TRUE ELSE UNCHANGED account
    /\ IF component \in Texts THEN TRUE ELSE UNCHANGED rangeVars
    /\ IF component = "audio" THEN TRUE ELSE UNCHANGED audioVars
    /\ IF component = "activation" THEN TRUE ELSE UNCHANGED activationVars
    /\ IF component \in Imports THEN TRUE ELSE UNCHANGED importVars
    /\ IF component = "export" THEN TRUE ELSE UNCHANGED exportVars
    /\ IF component = "queues" THEN TRUE ELSE UNCHANGED queueVars
    /\ IF component \in Catalogues THEN TRUE ELSE UNCHANGED catalogueVars
    /\ IF component = "content" THEN TRUE ELSE UNCHANGED contentVars
    /\ IF component = "media" THEN TRUE ELSE UNCHANGED mediaVars
    /\ IF component = "limits" THEN TRUE ELSE UNCHANGED limitVars
    /\ IF component = "presence" THEN TRUE ELSE UNCHANGED editor
    /\ IF component \in Devices THEN TRUE ELSE UNCHANGED sessionVars
    /\ IF component = "settings" THEN TRUE ELSE UNCHANGED settingVars
    /\ IF component = "feed" THEN TRUE ELSE UNCHANGED feedVars
    /\ IF component = "headings" THEN TRUE ELSE UNCHANGED headingVars
    /\ UNCHANGED component

Spec == Init /\ [][Next]_vars

(* The two requests of every instance are interchangeable. *)
RequestSymmetry == Permutations({r1, r2})

-----------------------------------------------------------------------------
(* The properties of the components, each for its own.                     *)

(* What each component keeps of its own variables. *)
TypeOK ==
    CASE component = "ranges" -> {one, two} \subseteq Ranges!Recordings
      [] component = "audio" -> Audio!TypeOK
      [] component = "activation" -> Activation!TypeOK
      [] component = "import" -> Import!TypeOK
      [] component = "failing" -> Faulty!TypeOK
      [] component = "books" -> TwoBooks!TypeOK
      [] component = "members" -> Members!TypeOK
      [] component = "export" -> Exporting!TypeOK
      [] component = "queues" -> Queues!TypeOK
      [] component = "catalogue" -> Catalogue!TypeOK
      [] component = "sync" -> Synced!TypeOK
      [] component = "content" -> Content!TypeOK
      [] component = "media" -> Media!TypeOK
      [] component = "limits" -> Limits!TypeOK
      [] component = "presence" -> Presence!TypeOK
      [] component = "stay" -> Stay!TypeOK
      [] component = "switch" -> Switching!TypeOK
      [] component = "settings" -> Settings!TypeOK
      [] component = "feed" -> Feed!TypeOK
      [] component = "headings" -> Headings!TypeOK
      [] component = "access" -> Access!TypeOK
      [] component = "founding" -> Founding!TypeOK
      [] component = "usfm" -> Converting!TypeOK

(* The ranges the service compares mean what a listener hears: two          *)
(* recordings contend exactly when some verse is covered by both, equal     *)
(* ranges cover the same verses, and a recording covers its own unit's      *)
(* verse and none before it (verse-audio.coverage.ts); and no overlap of    *)
(* two recordings stays unflagged, and no take out of sight, once the       *)
(* uploads are answered.                                                    *)
OverlapsFound ==
    /\ component = "ranges" => Ranges!RangesMeanVerses
    /\ component = "audio" => Audio!AllSurfaced

(* A family does not cross its activation threshold unobserved, and nothing *)
(* is asked for before; the crossing is claimed by one save only; the       *)
(* backfill of the claimant covers its pericope and the next, and a chapter *)
(* that is switched on meanwhile; an import replaces no edit.  A title is   *)
(* made of its whole pericope, its acceptance is known whatever set the     *)
(* project takes, and what is shown was right when it was asked for.        *)
SuggestionsKept ==
    /\ component = "activation" =>
        Activation!NoneUnobserved /\ Activation!BackfillComplete /\ Activation!NextChapterNoticed
    /\ component = "headings" => Headings!HeadingsKept
ActivationSteps ==
    [][/\ component = "activation" => Activation!ClaimedOnce /\ Activation!ImportKeepsEdits
       /\ component = "headings" => Headings!ShownWasRight]_vars

(* A book is in one milestone of a project only, whichever requests place   *)
(* it at once, and an import that waits for its text has somebody who       *)
(* fetches it.                                                             *)
ImportsPlaced ==
    /\ component = "import" => Import!OnePlacement /\ Import!ImportsHaveJobs
    /\ component = "failing" => Faulty!OnePlacement /\ Faulty!ImportsHaveJobs
    /\ component = "books" => TwoBooks!OnePlacement /\ TwoBooks!ImportsHaveJobs

(* The deletion of a project without milestones deletes none.               *)
(* Only who manages the organization makes and unmakes its managers; a      *)
(* failed invitation leaves no identity without an account; the removal of  *)
(* a member from a project leaves the chapters that have been submitted.    *)
ProjectSteps ==
    [][/\ component = "import" => Import!DeletesNoMilestone
       /\ component = "members" =>
            Members!ManagersDecide /\ Members!InvitationWhole /\ Members!SubmittedKept]_vars

(* What is offered for download is a whole archive, stays for as long as    *)
(* the job that made it said, whatever the sweep deletes meanwhile, and the *)
(* URLs that are signed for it end with it.  A file that is imported again  *)
(* gives the verses it was written of, and each verse has its own words.    *)
ExportsKept ==
    /\ component = "export" => Exporting!ExportsKept
    /\ component = "usfm" => Converting!ConversionKept

(* The queues that are used are converged, and their failed jobs kept; an   *)
(* instance of pg-boss is not left behind; an exclusive queue has one       *)
(* pending job of a key.                                                    *)
LifecycleKept == component = "queues" => Queues!LifecycleKept

(* A client that asks for what is stamped after its cursor misses nothing,  *)
(* and a book has a recording only if the library listed one.  A device     *)
(* misses no assignment of the projects it has.                             *)
CatalogueKept ==
    /\ component = "catalogue" => Catalogue!CatalogueKept
    /\ component = "sync" => Synced!CatalogueKept
    /\ component = "feed" => Feed!NothingSkipped

(* A partial answer clears no recording; a Bible is renamed by who renames  *)
(* it, or gets back the name that the job read before.                      *)
CatalogueSteps ==
    [][/\ component = "catalogue" => Catalogue!AudioKept /\ Catalogue!NamesKept
       /\ component = "sync" => Synced!AudioKept /\ Synced!NamesKept]_vars

(* Neither failures nor the order in which the workers end make an answer   *)
(* say what is not so: what is called whole is, and nothing is empty that   *)
(* only could not be fetched.  What is played is the recording that was     *)
(* selected, or one of the text, with the licence of the text; verses are   *)
(* sought only in a track that has exactly those of the text.               *)
AnswersMeanIt ==
    /\ component = "content" => Content!AnswersMeanIt
    /\ component = "media" => Media!SoundMeansIt

(* What the server keeps for a user: no client gets more through in a       *)
(* window than the limit allows; of the editors of a chapter one is told    *)
(* that nobody came before; a mobile session whose absences are below 24    *)
(* days lasts, and each setting is as its last writer left it; the guards   *)
(* of the routes let whoever may do one half of a task do the other, and a  *)
(* creator manages his project.                                             *)
UsersKept ==
    /\ component = "limits" => Limits!Limited
    /\ component = "presence" => Presence!OneFirst
    /\ component = "stay" => Stay!MobileStays
    /\ component = "settings" => Settings!EachKeyAsLastWritten
    /\ component = "access" => Access!AccessKept
    /\ component = "founding" => Founding!AccessKept

(* A bucket gives way only to as many live ones as the table holds; who     *)
(* came first to a chapter stays first; who claims one can work on it; a    *)
(* device that has an organization is moved to another by its own switch,   *)
(* or by a request of its own that set out before it had one.               *)
UserSteps ==
    [][/\ component = "limits" => Limits!EvictsWhenFull
       /\ component = "presence" => Presence!FirstStays
       /\ component = "switch" => Switching!SwitchHolds
       /\ component = "access" => Access!ClaimGivesWork]_vars
=============================================================================
