----------------------------- MODULE SourceMedia -----------------------------
(***************************************************************************)
(* The sound of a chapter: the recording of a source text or of a reference *)
(* for playback, with its verses when the recording has them exactly, the   *)
(* sound shown beside a draft, and the manifest of what to take offline.    *)
(*                                                                         *)
(* A request reads the database and asks the providers in turn, while       *)
(* curators and the ingestion of texts change what it has read already.     *)
(* The providers are modelled from how their clients are used.              *)
(***************************************************************************)
EXTENDS Naturals, FiniteSets, Sequences, SequencesExt

CONSTANTS
    Resources,    \* identities of the provider resources
    Provider,     \* the provider of each: "dbl", "aquifer" or another
    Texts,        \* the identities a Bible, or a reference, may have
    Recordings,   \* the resources that a curator may select for the Bible
    Listed,       \* the recordings the library may list with a text: sequences
    Verses,       \* the verses of the chapter in the provider's text
    MaxChanges,   \* changes beside the request
    None

VARIABLES
    bible,        \* [text, audio]: the identity of the Bible, audioResourceId
    license,      \* ttsLicenseStatus of each resource
    local,        \* verses of the chapter in bible_texts
    request,      \* [pc, kind, text, selected, tts, todo, windows, items, addressable, answer]
    during,       \* what the request could have seen, and if it was refused anything
    changes

vars == <<bible, license, local, request, during, changes>>

(* A row of timecodes that the parser drops: it is malformed, or of another *)
(* chapter.  The verses of the others have a start.                         *)
Dropped == 0
Starts(rows) == rows \ {Dropped}

Seen == [audio |-> {bible.audio}, license |-> {license}, local |-> {local}, refused |-> FALSE]
Idle == [pc |-> "idle", kind |-> None, text |-> None, selected |-> None, tts |-> "unknown", todo |-> <<>>,
         windows |-> <<>>, items |-> <<>>, addressable |-> FALSE, answer |-> None]

At(pc) == request.pc = pc
Goes(pc) == request' = [request EXCEPT !.pc = pc]
Ends(with) == [request EXCEPT !.pc = "answered", !.answer = with]
Reads == UNCHANGED <<bible, license, local, during, changes>>

-----------------------------------------------------------------------------
(* The routes.  A reference has no Bible of ours.                           *)
Begins(kind, text, pc) ==
    /\ At("idle")
    /\ request' = [Idle EXCEPT !.pc = pc, !.kind = kind, !.text = text]
    /\ during' = Seen
    /\ UNCHANGED <<bible, license, local, changes>>
AskReference == \E text \in Texts \ {None} : Begins("reference", text, "facts")
AskSource == Begins("source", None, "linked")
AskBeside == \E kind \in {"drafting", "manifest"} : Begins(kind, None, "linked")

(* The Bible and the book must be of a milestone of the project.            *)
Linked ==
    /\ At("linked")
    /\ Goes("bible") \/ request' = Ends("error")
    /\ Reads

ReadBible ==
    /\ At("bible")
    /\ request' = [request EXCEPT
          !.text = bible.text, !.selected = IF request.kind = "source" THEN bible.audio ELSE None,
          !.pc = CASE request.kind = "manifest" -> "catalogue"
                   [] request.kind = "source" -> IF bible.audio = None THEN "facts" ELSE "selected"
                   [] OTHER -> IF bible.text = None THEN "catalogue" ELSE "list"]
    /\ Reads

ReadSelected == At("selected") /\ Goes("facts") /\ Reads

(* The licence to read a text aloud is the text's, whichever recording.     *)
(* Mutant of Licensed: the one of what will be played.                      *)
LicensedAsPlayed == IF request.selected # None THEN request.selected ELSE request.text
Licensed == request.text

Recording == IF request.selected # None THEN request.selected ELSE request.text
By(recording) == IF recording = None THEN None ELSE Provider[recording]

Facts(identity) == IF identity = None THEN "unknown" ELSE license[identity]
ReadFacts ==
    /\ At("facts")
    /\ LET known == [request EXCEPT !.tts = Facts(Licensed)] IN
       request' = CASE By(Recording) = "aquifer" -> [known EXCEPT !.pc = "catalogue"]
                    [] By(Recording) = "dbl" /\ request.selected = None -> [known EXCEPT !.pc = "list"]
                    [] By(Recording) = "dbl" /\ request.selected # None ->
                          [known EXCEPT !.pc = "tracks", !.todo = <<request.selected>>]
                    [] OTHER -> [known EXCEPT !.pc = "answered", !.answer = "ok"]
    /\ Reads

-----------------------------------------------------------------------------
(* The Digital Bible Library: the recordings it lists with a text, then the *)
(* chapter of each.  Playback asks for one after the other, beside a draft  *)
(* all are asked for at once.                                               *)
Drafting == request.kind = "drafting"

List ==
    /\ At("list")
    /\ \E tracks \in Listed : request' = [request EXCEPT !.pc = "tracks", !.todo = tracks]
    /\ Reads

With(of, rows) ==
    [request EXCEPT !.todo = Tail(@), !.items = Append(@, of),
                    !.windows = Append(@, [of |-> of, starts |-> Starts(rows)])]

(* The library has no such chapter in this recording, or it is this.        *)
Track ==
    /\ At("tracks") /\ request.todo # <<>>
    /\ \/ request' = [request EXCEPT !.todo = Tail(@)]
       \/ \E rows \in SUBSET (Verses \cup {Dropped}) :
            request' = With(Head(request.todo), rows)
    /\ Reads

Timecoded == SelectSeq(request.windows, LAMBDA w : w.starts # {})
NoMoreTracks ==
    /\ At("tracks") /\ request.todo = <<>>
    /\ request' = CASE Drafting -> IF request.items = <<>> THEN [request EXCEPT !.pc = "catalogue"] ELSE Ends("ok")
                    [] ~Drafting /\ Timecoded = <<>> -> Ends("ok")
                    [] OTHER -> [request EXCEPT !.pc = "verses"]
    /\ Reads

(* Beside a draft, Aquifer is asked when the library is not there.          *)
Unavailable ==
    /\ Drafting
    /\ At("list") \/ (At("tracks") /\ request.todo # <<>>)
    /\ request' = [request EXCEPT !.pc = "catalogue", !.todo = <<>>, !.windows = <<>>, !.items = <<>>]
    /\ during' = [during EXCEPT !.refused = TRUE]
    /\ UNCHANGED <<bible, license, local, changes>>

-----------------------------------------------------------------------------
(* Aquifer: its catalogue, where a Bible for playback must be found by its  *)
(* identity and another is matched by its names, and the chapter with its   *)
(* files, of which not all have a size, and timestamps.                     *)
Playing == request.kind \in {"source", "reference"}

Catalogue ==
    /\ At("catalogue")
    /\ \/ request' = Ends("ok")
       \/ Playing /\ request' = Ends("error")
       \/ Goes("chapter")
    /\ Reads

Files == {"sized", "unsized"}
Offline(files) == files \cap {"sized"}
Items(files) ==
    LET some == IF request.kind = "manifest" THEN Offline(files) ELSE files
        played == IF Playing THEN Recording ELSE "matched"
    IN [k \in 1 .. Cardinality(some) |-> played]

Chapter ==
    /\ At("chapter")
    /\ \/ request' = Ends("ok")
       \/ \E files \in SUBSET Files, rows \in SUBSET (Verses \cup {Dropped}) :
            LET items == Items(files)
                windows == IF items = <<>> THEN <<>> ELSE <<[of |-> items[1], starts |-> Starts(rows)]>>
                timed == items # <<>> /\ Starts(rows) # {}
            IN request' = [request EXCEPT !.items = items, !.windows = windows,
                              !.pc = IF Playing /\ timed THEN "verses" ELSE "answered",
                              !.answer = IF Playing /\ timed THEN None ELSE "ok"]
    /\ Reads

-----------------------------------------------------------------------------
(* Does the track that a browser plays have exactly the verses of the text? *)
(* It plays the only one with timecodes, or else the first.                 *)
(* Mutant of Chosen: all tracks together.                                   *)
ChosenTogether == UNION {w.starts : w \in ToSet(request.windows)}
Chosen == (IF Len(Timecoded) = 1 THEN Timecoded[1] ELSE request.windows[1]).starts
Exactly(expected) == expected # {} /\ Chosen = expected

(* The text that is drafted from is ours; the verses of a reference are     *)
(* those of the provider, of which one that is no verse spoils the list.    *)
CompareVerses ==
    /\ At("verses")
    /\ \/ request.kind = "source" /\ request' = [Ends("ok") EXCEPT !.addressable = Exactly(local)]
       \/ request.kind = "reference" /\ request' = [Ends("ok") EXCEPT !.addressable = Exactly(Verses)]
       \/ request.kind = "reference" /\ By(Recording) = "dbl" /\ request' = Ends("ok")
    /\ Reads

(* Any other read that fails, and any provider that is out, is an error.    *)
Fails ==
    /\ request.pc \notin {"idle", "answered"}
    /\ request' = Ends("error")
    /\ during' = [during EXCEPT !.refused = TRUE]
    /\ UNCHANGED <<bible, license, local, changes>>

-----------------------------------------------------------------------------
(* Beside it: a curator selects a recording or decides on a licence, and    *)
(* the text of the chapter is ingested.                                     *)
Noted == [during EXCEPT !.audio = @ \cup {bible'.audio}, !.license = @ \cup {license'}, !.local = @ \cup {local'}]
MayChange == request.pc # "answered" /\ changes < MaxChanges
Changed == changes' = changes + 1 /\ during' = Noted /\ UNCHANGED request

Curate ==
    /\ MayChange
    /\ \/ \E r \in Recordings \cup {None} : bible' = [bible EXCEPT !.audio = r] /\ UNCHANGED license
       \/ \E r \in Resources, to \in {"unknown", "allowed"} :
            license' = [license EXCEPT ![r] = to] /\ UNCHANGED bible
    /\ UNCHANGED local
    /\ Changed

Ingest ==
    /\ MayChange /\ local # Verses
    /\ local' = Verses
    /\ UNCHANGED <<bible, license>>
    /\ Changed

-----------------------------------------------------------------------------
Init ==
    /\ bible \in [text : Texts, audio : Recordings \cup {None}]
    /\ license = [r \in Resources |-> "unknown"]
    /\ local \in {{}, {1}}
    /\ request = Idle /\ during = Seen /\ changes = 0

Proceed ==
    \/ Linked \/ ReadBible \/ ReadSelected \/ ReadFacts \/ List \/ Track \/ NoMoreTracks \/ Unavailable
    \/ Catalogue \/ Chapter \/ CompareVerses \/ Fails
Next == AskReference \/ AskSource \/ AskBeside \/ Proceed \/ Curate \/ Ingest

Spec == Init /\ [][Next]_vars

-----------------------------------------------------------------------------
TypeOK ==
    /\ bible.audio \in Recordings \cup {None} /\ license \in [Resources -> {"unknown", "allowed"}]
    /\ local \subseteq Verses
    /\ request.answer \in {None, "ok", "error"}
    /\ ToSet(request.items) \subseteq Resources \cup {"matched"}

(* What is played has the licence its text had while it was asked for, and  *)
(* is the recording that was selected then, or else one of the text; the    *)
(* browser may seek by verses only in a track with exactly the verses of    *)
(* the text; and nothing is said to be silent that could not be asked       *)
(* (playback-audio.service.ts; only beside a draft the library may be out). *)
Answered == request.pc = "answered" /\ request.answer = "ok"
BrowserPlays ==
    LET timed == {w \in ToSet(request.windows) : w.starts # {}}
    IN IF Cardinality(timed) = 1 THEN CHOOSE w \in timed : TRUE ELSE request.windows[1]
SoundMeansIt ==
    /\ Answered /\ Playing =>
        /\ request.tts # "unknown" =>
            request.text # None /\ \E facts \in during.license : request.tts = facts[request.text]
        /\ ~during.refused
    /\ Answered /\ request.kind = "source" =>
        /\ request.selected \in during.audio
        /\ request.selected # None => ToSet(request.items) \subseteq {request.selected}
    /\ Answered /\ request.addressable =>
        /\ request.items # <<>>
        /\ BrowserPlays.starts \in (IF request.kind = "source" THEN during.local ELSE {Verses})
    /\ Answered /\ request.items = <<>> => ~during.refused \/ Drafting
=============================================================================
