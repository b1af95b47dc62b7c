-------------------------- MODULE PericopeHeadings --------------------------
(***************************************************************************)
(* Suggested titles of a pericope.  The project's pericope set, the switch  *)
(* of the chapter and the translator's own headings change while a title is *)
(* queued, made by the worker outside the server, saved, shown and          *)
(* accepted; each request reads them one after the other.  The pericope is  *)
(* one number of one chapter: what verses it has there, and whether it      *)
(* starts there, depends on the set.                                        *)
(***************************************************************************)
EXTENDS Naturals, Sequences, FiniteSets, SequencesExt

CONSTANTS
    Requests, Sets,
    Chosen,                  \* those a project may have
    Initially,               \* [set, job, saved]: a database at the start
    Layout,                  \* of each set, the verses of the chapter that have the number
    Starting,                \* the sets in which it starts there, and has a source title
    MaxRequests, MaxChanges, \* of the check
    None

VARIABLES
    choice,   \* [set, enabled]: projects.pericopeSetId, chapter_assignments.isAiEnabled
    headed,    \* verses with a heading of the translator
    job,       \* the sets a title is queued for
    prompt,    \* what the worker makes titles from: [set, verses]
    saved,     \* ai_pericope_suggestions, in the order of createdAt
    usage,     \* of each set, what is logged of its title: None, "seen" or "used"
    shown,     \* the set of the title the editor shows
    accepted,  \* first verses of the titles the translator accepted, and was answered
    request,   \* [pc, kind, ...]
    started, edits

vars == <<choice, headed, job, prompt, saved, usage, shown, accepted, request, started, edits>>

Usage == {None, "seen", "used"}
Titles(titles) == titles \in Seq(Sets) /\ IsInjective(titles)

First(set) == CHOOSE v \in Layout[set] : \A w \in Layout[set] : v <= w

(* sets, off and always are of the check, of a request for what to show:    *)
(* the sets the project had, that the switch was off, and the verses that   *)
(* had a heading, since it began.                                           *)
Idle == [pc |-> "idle", kind |-> None, for |-> None, verse |-> 0, accepts |-> FALSE, set |-> None,
         enabled |-> FALSE, bare |-> FALSE, sets |-> {}, off |-> FALSE, always |-> {}]

-----------------------------------------------------------------------------
(* A member chooses another pericope set, or switches the suggestions of    *)
(* the chapter; the translator adds or takes away a heading.                *)
Change(set, enabled) ==
    /\ edits < MaxChanges /\ edits' = edits + 1
    /\ choice' = [set |-> set, enabled |-> enabled] /\ choice' # choice
    /\ request' = [r \in Requests |-> [request[r] EXCEPT !.sets = IF @ = {} THEN @ ELSE @ \cup {set}, !.off = @ /\ ~enabled]]
    /\ UNCHANGED <<headed, job, prompt, saved, usage, shown, accepted, started>>

Heading(v) ==
    /\ edits < MaxChanges /\ edits' = edits + 1
    /\ headed' = IF v \in headed THEN headed \ {v} ELSE headed \cup {v}
    /\ request' = [r \in Requests |-> [request[r] EXCEPT !.always = @ \ {v}]]
    /\ UNCHANGED <<choice, job, prompt, saved, usage, shown, accepted, started>>

-----------------------------------------------------------------------------
(* The editor asks that a title be made, or for the one to show; it tells   *)
(* that the one it shows was seen, or accepted.  The worker asks what to    *)
(* make a job's title from, and posts a title, also a second time.          *)
Begin(r, kind, for, accepts) ==
    /\ request[r].pc = "idle" /\ started < MaxRequests
    /\ started' = started + 1
    /\ request' = [request EXCEPT ![r] =
        [Idle EXCEPT !.kind = kind, !.for = for, !.accepts = accepts,
                     !.pc = IF kind = "use" THEN "select" ELSE "context",
                     !.verse = IF kind = "use" THEN First(for) ELSE 0,
                     !.sets = IF kind = "show" THEN {choice.set} ELSE {},
                     !.off = kind = "show" /\ ~choice.enabled,
                     !.always = IF kind = "show" THEN headed ELSE {}]]
    /\ UNCHANGED <<choice, headed, job, prompt, saved, usage, shown, accepted, edits>>
Ask(r) ==
    \/ Begin(r, "queue", None, FALSE) \/ Begin(r, "show", None, FALSE)
    \/ shown # None /\ \E accepts \in BOOLEAN : Begin(r, "use", shown, accepts)
Work(r) ==
    \/ \E s \in job : Begin(r, "prompt", s, FALSE)
    \/ \E p \in prompt : Begin(r, "save", p.set, FALSE)

(* A visible title of an old set can still be accepted: the usage is logged *)
(* of the current set's title, or else of the newest one.                   *)
Saved(set) == set \in Range(saved)
Selected == IF Saved(choice.set) THEN choice.set ELSE IF saved = <<>> THEN None ELSE Last(saved)
Select(r) ==
    /\ request[r].pc = "select"
    /\ request' = [request EXCEPT ![r].pc = "context", ![r].set = Selected]
    /\ UNCHANGED <<choice, headed, job, prompt, saved, usage, shown, accepted, started, edits>>

(* resolvePericopes: the set is the one that is given, or the project's,    *)
Given(r) == IF request[r].kind = "save" THEN request[r].for ELSE request[r].set
Context(r) ==
    /\ request[r].pc = "context"
    /\ LET set == IF Given(r) # None THEN Given(r) ELSE choice.set
       IN  request' = [request EXCEPT ![r] =
               IF set = None THEN Idle ELSE [@ EXCEPT !.pc = "verses", !.set = set, !.enabled = choice.enabled]]
    /\ job' = IF request'[r].pc = "idle" /\ request[r].kind = "prompt" THEN job \ {request[r].for} ELSE job
    /\ UNCHANGED <<choice, headed, prompt, saved, usage, shown, accepted, started, edits>>

(* then what is drafted of its verses, and at last the title itself. *)
Verses(r) ==
    /\ request[r].pc = "verses"
    /\ request' = [request EXCEPT ![r].pc = request[r].kind, ![r].bare = First(request[r].set) \notin headed]
    /\ UNCHANGED <<choice, headed, job, prompt, saved, usage, shown, accepted, started, edits>>

(* Mutant of CanSuggest: the heading of the translator is not asked for.    *)
CanSuggestOver(r) == request[r].enabled /\ request[r].set \in Starting
CanSuggest(r) == request[r].enabled /\ request[r].set \in Starting /\ request[r].bare
Close(r) == request' = [request EXCEPT ![r] = Idle]

(* The queue is exclusive: a job that is there is not queued again. *)
Queue(r) ==
    /\ request[r].pc = "queue"
    /\ job' = IF CanSuggest(r) /\ ~Saved(request[r].set) THEN job \cup {request[r].set} ELSE job
    /\ Close(r)
    /\ UNCHANGED <<choice, headed, prompt, saved, usage, shown, accepted, started, edits>>

Show(r) ==
    /\ request[r].pc = "show"
    /\ shown' = IF CanSuggest(r) /\ Saved(request[r].set) THEN request[r].set ELSE None
    /\ Close(r)
    /\ UNCHANGED <<choice, headed, job, prompt, saved, usage, accepted, started, edits>>

(* Mutant of StillCurrent: a job of another set is answered as well.        *)
AnyCurrent(r) == TRUE

(* The job names its set and its verses; if they are not those the project  *)
(* has now there is nothing to make.  The worker is done with the job when  *)
(* it is told so, or has saved the title.                                   *)
StillCurrent(r) == request[r].for = request[r].set
Prompt(r) ==
    /\ request[r].pc = "prompt"
    /\ IF CanSuggest(r) /\ StillCurrent(r)
       THEN /\ prompt' = prompt \cup {[set |-> request[r].set, verses |-> Layout[request[r].set] \cap Layout[request[r].for]]}
            /\ job' = job
       ELSE prompt' = prompt /\ job' = job \ {request[r].for}
    /\ Close(r)
    /\ UNCHANGED <<choice, headed, saved, usage, shown, accepted, started, edits>>

(* What was found is acted on in a statement of its own. *)
Check(r) ==
    /\ request[r].pc = "save"
    /\ request' = [request EXCEPT ![r] = IF CanSuggest(r) THEN [@ EXCEPT !.pc = "insert"] ELSE Idle]
    /\ UNCHANGED <<choice, headed, job, prompt, saved, usage, shown, accepted, started, edits>>
Insert(r) ==
    /\ request[r].pc = "insert"
    /\ saved' = IF Saved(request[r].for) THEN saved ELSE Append(saved, request[r].for)
    /\ job' = job \ {request[r].for}
    /\ Close(r)
    /\ UNCHANGED <<choice, headed, prompt, usage, shown, accepted, started, edits>>

(* Mutant of Names: whatever verse the title that is found stands before.   *)
NamesAny(r) == request[r].set \in Starting
Names(r) == request[r].set \in Starting /\ First(request[r].set) = request[r].verse
Find(r) ==
    /\ request[r].pc = "use"
    /\ request' = [request EXCEPT ![r] = IF Names(r) /\ Saved(request[r].set) THEN [@ EXCEPT !.pc = "log"] ELSE Idle]
    /\ UNCHANGED <<choice, headed, job, prompt, saved, usage, shown, accepted, started, edits>>

(* Mutant of Logged: as the usage of a verse's suggestion is logged.        *)
LoggedLast(before, accepts) == IF accepts THEN "used" ELSE "seen"

(* A late exposure never downgrades a title that was accepted. *)
Logged(before, accepts) == IF accepts \/ before = "used" THEN "used" ELSE "seen"
Log(r) ==
    /\ request[r].pc = "log"
    /\ usage' = [usage EXCEPT ![request[r].set] = Logged(@, request[r].accepts)]
    /\ accepted' = IF request[r].accepts THEN accepted \cup {request[r].verse} ELSE accepted
    /\ Close(r)
    /\ UNCHANGED <<choice, headed, job, prompt, saved, shown, started, edits>>

(* A request fails; the worker's come again. *)
Fail(r) ==
    /\ request[r].pc # "idle"
    /\ Close(r)
    /\ UNCHANGED <<choice, headed, job, prompt, saved, usage, shown, accepted, started, edits>>

Whole(set) == [set |-> set, verses |-> Layout[set]]

Init ==
    /\ \E d \in Initially :
        /\ choice = [set |-> d.set, enabled |-> TRUE]
        /\ job = d.job /\ prompt = {Whole(s) : s \in d.job}
        /\ saved = d.saved /\ shown \in Range(d.saved) \cup {None}
    /\ headed = {}
    /\ usage = [s \in Sets |-> None]
    /\ accepted = {}
    /\ request = [r \in Requests |-> Idle]
    /\ started = 0 /\ edits = 0

Next ==
    \/ \E set \in Chosen, enabled \in BOOLEAN : Change(set, enabled)
    \/ \E v \in {First(s) : s \in Chosen \ {None}} : Heading(v)
    \/ \E r \in Requests :
        \/ Ask(r) \/ Work(r) \/ Select(r) \/ Context(r) \/ Verses(r) \/ Queue(r) \/ Show(r)
        \/ Prompt(r) \/ Check(r) \/ Insert(r) \/ Find(r) \/ Log(r) \/ Fail(r)

Spec == Init /\ [][Next]_vars

-----------------------------------------------------------------------------
(* What the theorems assume of the constants: at first titles are queued    *)
(* for, and saved of, pericopes that start in the chapter.                  *)
HeadingsOK ==
    /\ None \notin Sets /\ Starting \subseteq Sets /\ Chosen \subseteq Sets \cup {None}
    /\ \A d \in Initially :
          /\ d.set \in Sets \cup {None} /\ d.job \subseteq Starting
          /\ d.saved \in Seq(Starting)

TypeOK ==
    /\ choice \in [set : Sets \cup {None}, enabled : BOOLEAN]
    /\ job \subseteq Sets /\ Titles(saved)
    /\ prompt \subseteq [set : Sets, verses : SUBSET UNION Range(Layout)]
    /\ usage \in [Sets -> Usage]
    /\ shown \in Sets \cup {None}
    /\ \A r \in Requests : request[r].pc \in {"idle", "select", "context", "verses", "queue", "show", "prompt",
                                              "save", "insert", "use", "log"}

(* A title that was accepted is known to have been: some title that stands  *)
(* before the same verse is logged as used, whichever set the project has   *)
(* when the acceptance arrives, and whatever is logged after it.            *)
AcceptanceCounts == \A v \in accepted : \E s \in Starting : usage[s] = "used" /\ First(s) = v

(* A title is made from all the verses of its pericope and of no other, and *)
(* is saved only of a pericope that starts in the chapter.                  *)
TitlesMeanTheirPericope ==
    /\ prompt \subseteq {Whole(s) : s \in Starting}
    /\ Range(saved) \subseteq Starting
    /\ \A s \in Sets : usage[s] # None => Saved(s)

HeadingsKept == AcceptanceCounts /\ TitlesMeanTheirPericope

(* What a request is answered to show was right at some moment of it: a     *)
(* title of a set the project had then, while the switch was on and the     *)
(* verse had no heading.                                                    *)
ShownWasRight ==
    shown' \notin {shown, None} =>
        \E r \in Requests :
            /\ request[r].pc = "show" /\ request'[r].pc = "idle"
            /\ shown' \in request[r].sets /\ ~request[r].off /\ First(shown') \notin request[r].always
=============================================================================
