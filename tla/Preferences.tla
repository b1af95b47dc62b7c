----------------------------- MODULE Preferences -----------------------------
(***************************************************************************)
(* What a user's devices keep on the server: settings, of which a device    *)
(* sends the keys it changes, and the state of the editor of a chapter,     *)
(* which it sends whole.  Each write is one statement, the first of which   *)
(* makes the row.                                                           *)
(***************************************************************************)
EXTENDS Naturals, Sequences

CONSTANTS
    Requests,
    Patches,      \* the bodies of PUT /self/settings: a key, null or a value
    Editors,      \* the states of the editor
    MaxWrites, None

VARIABLES
    settings,     \* user_settings.settings, None without a row
    resources,    \* of user_chapter_assignment_editor_state, None without a row
    request,      \* [pc, kind, body]
    log           \* what has been written, in order

vars == <<settings, resources, request, log>>

Settings == UNION {DOMAIN patch : patch \in Patches}
EditorState == Editors \cup {None}

Null == "null"
Idle == [pc |-> "idle", kind |-> None, body |-> None]
(* Two blobs as one: the first wins.                                        *)
Over(patch, blob) ==
    [k \in DOMAIN patch \cup DOMAIN blob |-> IF k \in DOMAIN patch THEN patch[k] ELSE blob[k]]
Stripped(blob) == [k \in {x \in DOMAIN blob : blob[x] # Null} |-> blob[k]]

(* userSettingsWriteSchema: only displayMode may be deleted.  A body that   *)
(* changes nothing is answered with what there is.                          *)
Accepts(patch) == \A k \in DOMAIN patch : patch[k] = Null => k = "displayMode"
PutSettings(r, patch) ==
    /\ request[r].pc = "idle" /\ Len(log) < MaxWrites
    /\ Accepts(patch) /\ DOMAIN patch # {}
    /\ request' = [request EXCEPT ![r] = [pc |-> "write", kind |-> "settings", body |-> patch]]
    /\ UNCHANGED <<settings, resources, log>>
PutEditorState(r, state) ==
    /\ request[r].pc = "idle" /\ Len(log) < MaxWrites
    /\ request' = [request EXCEPT ![r] = [pc |-> "write", kind |-> "editor", body |-> state]]
    /\ UNCHANGED <<settings, resources, log>>

(* The row is made without the nulls of the patch; a row that is there is   *)
(* merged with the patch, whose nulls delete.                               *)
(* Mutant of Merged: merges what would have been inserted.                  *)
MergedStripped(blob, patch) == Over(Stripped(patch), IF blob = None THEN <<>> ELSE blob)
Merged(blob, patch) == IF blob = None THEN Stripped(patch) ELSE Stripped(Over(patch, blob))

Write(r) ==
    /\ request[r].pc = "write"
    /\ IF request[r].kind = "settings"
       THEN settings' = Merged(settings, request[r].body) /\ UNCHANGED resources
       ELSE resources' = request[r].body /\ UNCHANGED settings
    /\ log' = Append(log, request[r])
    /\ request' = [request EXCEPT ![r] = Idle]

Init ==
    /\ settings = None /\ resources = None
    /\ request = [r \in Requests |-> Idle]
    /\ log = <<>>

Next ==
    \E r \in Requests :
        \/ Write(r)
        \/ \E patch \in Patches : PutSettings(r, patch)
        \/ \E state \in Editors : PutEditorState(r, state)

Spec == Init /\ [][Next]_vars

-----------------------------------------------------------------------------
(* What the theorems assume of the constants: a body has some of the keys,  *)
(* and the absence of a row is no row.                                      *)
Values == UNION {{patch[k] : k \in DOMAIN patch} : patch \in Patches}
PatchesOK ==
    /\ \A patch \in Patches : patch \in [DOMAIN patch -> Values]
    /\ \A keys \in SUBSET Settings : None \notin [keys -> Values]

TypeOK ==
    /\ settings # None => DOMAIN settings \subseteq Settings
    /\ resources \in EditorState
    /\ \A r \in Requests : request[r].pc \in {"idle", "write"}

(* Each key is as its last writer left it, whatever other devices wrote to  *)
(* the other keys and whoever made the row: "concurrent different-key       *)
(* writers retain each other's keys and an explicit JSON null deletes that  *)
(* key" (self-settings.repository.ts).  No null is kept.                    *)
Last(kind, k) ==
    LET of == {i \in DOMAIN log : log[i].kind = kind /\ k \in DOMAIN log[i].body}
    IN IF of = {} THEN Null ELSE log[CHOOSE i \in of : \A j \in of : j <= i].body[k]
EachKeyAsLastWritten ==
    \A k \in Settings :
        IF settings # None /\ k \in DOMAIN settings
        THEN settings[k] = Last("settings", k) /\ settings[k] # Null
        ELSE Last("settings", k) = Null
=============================================================================
