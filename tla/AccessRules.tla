---------------------------- MODULE AccessRules ----------------------------
(***************************************************************************)
(* What the routes of a project and of a chapter let a user do.  Each      *)
(* route asks its guards one after the other: requirePermission, which     *)
(* looks for a permission in any scope, then the middleware of its domain, *)
(* which asks a policy about the project or the chapter.  The rules are    *)
(* written in nine files, so what they say together follows from none.     *)
(*                                                                         *)
(* The rules are asked while roles change and a chapter goes its way;      *)
(* Memberships and ChapterWorkflow have those steps statement by           *)
(* statement, here they are whole.  POST /projects is a request of several *)
(* statements of its own: for a user without an organization it founds     *)
(* one.                                                                    *)
(***************************************************************************)
EXTENDS Naturals, FiniteSets, Sequences

CONSTANTS
    Requests,     \* the requests to create a project
    Users, None,
    Projects,     \* the projects there are at first: id -> organization
    Tables,       \* the grants a user may have, as functions of the user
    Changing,     \* the users whose grants change
    Initially,    \* the grants of the others, a set of rows
    Workflow,     \* the stages of the projects, in order
    MaxFaults     \* bound on the statements that fail

VARIABLES
    grant,        \* the rows of user_roles
    project,      \* the projects: id -> organization
    assignment,   \* a chapter of project 1
    request,      \* what each request does
    faults        \* statements failed so far

vars == <<grant, project, assignment, request, faults>>

Row(u, org, p, role) == [user |-> u, org |-> org, project |-> p, role |-> role]

Works == {"project:view", "content:view", "content:update", "user:view", "user:update"}
Manages ==
    Works \cup {"project:create", "project:update", "project:delete", "content:assign",
                "membership:revoke", "role:assign:project", "user:create"}

(* ROLE_PERMISSION_MAP; 'Org Member' has no permission, it is a membership. *)
RolePermissions(role) ==
    CASE role = "SuperAdmin" -> Manages \cup {"role:assign:org_manager", "user:delete", "org:view", "org:create"}
      [] role = "Org Manager" -> Manages \cup {"role:assign:org_manager"}
      [] role = "Project Manager" -> Manages
      [] role = "Project Translator" -> Works
      [] role = "Project Observer" -> {"project:view", "content:view", "user:view"}
      [] role = "Org Member" -> {}

-----------------------------------------------------------------------------
(* What a user holds. *)

GrantsOf(u) == {g \in grant : g.user = u}
Global(g) == g.org = None /\ g.project = None

(* A grant applies to a project when it is the project's own or its         *)
(* organization's, or global.                                               *)
Applies(g, p) == Global(g) \/ (g.org = project[p] /\ g.project \in {p, None})

May(u, permission, p) ==
    \E g \in GrantsOf(u) : Applies(g, p) /\ permission \in RolePermissions(g.role)

(* requirePermission: the permission in any scope. *)
Somewhere(grants, permission) == \E g \in grants : permission \in RolePermissions(g.role)

(* Any row of the project, or of its organization as a whole.               *)
IsProjectMember(u, p) == \E g \in GrantsOf(u) : g.project = p \/ (g.project = None /\ g.org = project[p])

-----------------------------------------------------------------------------
(* The policies. *)

ProjectRead(u, p) == May(u, "project:view", p) \/ IsProjectMember(u, p)
ProjectUpdate(u, p) == May(u, "project:update", p)
ProjectDelete(u, p) == May(u, "project:delete", p)

Position(stage) == CHOOSE n \in DOMAIN Workflow : Workflow[n] = stage
PostPeer(stage) == Position("peer_check") < Position(stage) /\ Position(stage) < Position("complete")

(* Mutant of ChapterEdit: the position in the workflow is enough.           *)
ChapterEditByPosition(u) ==
    LET c == assignment IN
    IF May(u, "content:assign", 1) THEN PostPeer(c.status)
    ELSE \/ c.status = "draft" /\ c.drafter = u
         \/ c.status = "peer_check" /\ c.checker = u
         \/ c.status = "peer_check" /\ c.checker = None /\ IsProjectMember(u, 1) /\ c.drafter \notin {None, u}
         \/ PostPeer(c.status) /\ IsProjectMember(u, 1)

ChapterEdit(u) ==
    LET c == assignment IN
    IF May(u, "content:assign", 1) THEN PostPeer(c.status)
    ELSE /\ May(u, "content:update", 1)
         /\ \/ c.status = "draft" /\ c.drafter = u
            \/ c.status = "peer_check" /\ c.checker = u
            \/ /\ c.status = "peer_check" /\ c.checker = None
               /\ IsProjectMember(u, 1) /\ c.drafter \notin {None, u}
            \/ PostPeer(c.status) /\ IsProjectMember(u, 1)

ChapterAssign(u) == May(u, "content:assign", 1)
ChapterView(u) == May(u, "content:view", 1) \/ IsProjectMember(u, 1)

ChapterToggleAi(u) ==
    \/ May(u, "content:assign", 1)
    \/ May(u, "content:update", 1) /\ assignment.status = "draft" /\ assignment.drafter = u

ChapterClaim(u) ==
    LET c == assignment IN
    /\ ~May(u, "content:assign", 1) /\ May(u, "content:update", 1)
    /\ CASE c.drafter = u -> c.status = "draft"
         [] c.drafter = None -> c.status = "not_started"
         [] OTHER -> c.status # "complete"

SuggestionAccess(u) == May(u, "project:view", 1) \/ May(u, "content:update", 1)

-----------------------------------------------------------------------------
(* The middlewares: which policy each action of a domain asks.  They take   *)
(* the chapter or the project from the path, the query or the body.         *)

ChapterAssignmentAccess(u, action) ==
    CASE action = "read" -> ChapterView(u)
      [] action \in {"submit", "participant"} -> ChapterEdit(u)
      [] action \in {"update", "delete"} -> ChapterAssign(u)
      [] action = "toggleAi" -> ChapterToggleAi(u)
      [] action = "claim" -> ChapterClaim(u)

ProjectAccess(u, action) ==
    CASE action = "read" -> ProjectRead(u, 1)
      [] action = "update" -> ProjectUpdate(u, 1)
      [] action = "delete" -> ProjectDelete(u, 1)

TranslatedVerseAccess(u, action) == IF action = "edit" THEN ChapterEdit(u) ELSE ProjectRead(u, 1)

VerseAudioAccess(u, action) ==
    CASE action = "edit" -> ChapterEdit(u)
      [] action = "read" -> ProjectRead(u, 1)
      [] action = "resolve" -> ChapterAssign(u)

(* Three middlewares of other domains ask for the project of a unit too.    *)
AiToolsAccess(u) == ProjectRead(u, 1)
BookDetailsAccess(u) == ProjectRead(u, 1)
ExportAccess(u) == ProjectRead(u, 1)

(* A route: the permission it requires in any scope, or None, then the      *)
(* middleware of its domain and the action it is asked for.                 *)
Route(name, gate, domain, action) == [name |-> name, gate |-> gate, domain |-> domain, action |-> action]

Allowed(u, route) ==
    /\ route.gate = None \/ Somewhere(GrantsOf(u), route.gate)
    /\ CASE route.domain = "chapter" -> ChapterAssignmentAccess(u, route.action)
         [] route.domain = "project" -> ProjectAccess(u, route.action)
         [] route.domain = "verse" -> TranslatedVerseAccess(u, route.action)
         [] route.domain = "audio" -> VerseAudioAccess(u, route.action)
         [] route.domain = "suggestions" -> SuggestionAccess(u)
         [] route.domain = "tools" -> AiToolsAccess(u)
         [] route.domain = "books" -> BookDetailsAccess(u)
         [] route.domain = "export" -> ExportAccess(u)
         [] route.domain = "any" -> TRUE

Reads(names) == {Route(n, "project:view", "project", "read") : n \in names}
Updates(names) == {Route(n, "project:update", "project", "update") : n \in names}

-----------------------------------------------------------------------------
(* The routes of a chapter's editor.                                        *)

ChapterRoutes ==
    {Route("getChapterAssignment", None, "chapter", "read"),
     Route("submitChapterAssignment", None, "chapter", "submit")}
claimRoute == Route("claimChapterAssignment", None, "chapter", "claim")
aiStatusRoute == Route("updateAiStatus", "content:update", "chapter", "toggleAi")
EditorStateRoutes ==
    {Route(n, None, "chapter", "participant") : n \in {"getEditorState", "saveEditorState"}}
PresenceRoutes ==
    {Route(n, None, "chapter", "participant") : n \in {"registerPresence", "removePresence"}}

VerseReads == {Route(n, "project:view", "verse", "read") : n \in {"getTranslatedVerse", "listTranslatedVerses"}}
upsertTranslatedVerseRoute == Route("upsertTranslatedVerse", "content:update", "verse", "edit")

uploadVerseAudioRoute == Route("uploadVerseAudio", None, "audio", "edit")
uploadRangeVerseAudioRoute == Route("uploadRangeVerseAudio", None, "audio", "edit")
RecordingReads == {Route(n, None, "audio", "read") : n \in {"getVerseAudio", "listVerseAudio"}}
RecordingDeletes ==
    {Route("deleteVerseAudio", None, "audio", "edit"), Route("deleteVerseAudioTake", None, "audio", "read")}
resolveVerseAudioRoute == Route("resolveVerseAudio", None, "audio", "resolve")

SuggestionRoutes ==
    {Route(n, "project:view", "suggestions", "access") :
        n \in {"getAiSuggestions", "queueNextVerses", "trackUsage", "queuePericopes",
               "getPericopeSuggestions", "trackPericopeUsage"}}
repeatedWordsRoute == Route("repeatedWords", "content:update", "tools", "access")
SpeechRoutes == {Route(n, "project:view", "any", "use") : n \in {"ttsGenerate", "ttsAudio", "ttsAudioHead"}}
BookDetailRoutes ==
    {Route("listBookDetails", "project:view", "books", "access"),
     Route("updateBookDetails", "content:update", "books", "access")}

(* What is shown beside the text is read as the project is.                 *)
ResourceRoutes ==
    Reads({"getNotes", "getQuestions", "getImages", "getNotesRange", "getQuestionsRange", "getImagesRange",
           "getManifest"})
PlaybackRoutes == Reads({"bibleResources", "playbackAudio", "referenceAudio"})
chapterPericopesRoute == Reads({"getChapterPericopes"})
AssistantRoutes == Reads({"languages", "briefing", "turn"})

EditorRoutes ==
    ChapterRoutes \cup EditorStateRoutes \cup PresenceRoutes \cup VerseReads
        \cup {uploadVerseAudioRoute, uploadRangeVerseAudioRoute, repeatedWordsRoute}
        \cup RecordingReads \cup RecordingDeletes \cup SuggestionRoutes \cup SpeechRoutes \cup BookDetailRoutes
        \cup ResourceRoutes \cup PlaybackRoutes \cup chapterPericopesRoute \cup AssistantRoutes

(* The routes of who manages the project. *)
AssignRoutes ==
    {Route("createChapterAssignment", "content:assign", "chapter", "update"),
     Route("updateChapterAssignment", "content:assign", "chapter", "update")}
deleteChapterAssignmentRoute == Route("deleteChapterAssignment", "content:assign", "chapter", "delete")
ProjectChapterRoutes ==
    Reads({"getProjectChapterAssignments", "getChapterAssignmentProgress"})
        \cup {Route("deleteProjectChapterAssignments", "content:assign", "project", "update")}
AssignManyRoutes == {Route(n, "content:assign", "project", "update") : n \in {"assignAll", "assignSelected"}}
resetSelectedRoute == Route("resetSelected", "content:assign", "project", "update")
StageRoutes ==
    Reads({"getWorkflowStages"})
        \cup Updates({"addWorkflowStage", "renameWorkflowStage", "deleteWorkflowStage", "reorderWorkflowStages"})
MilestoneRoutes ==
    Reads({"listMilestones", "getMilestone"})
        \cup Updates({"createMilestone", "updateMilestone", "deleteMilestone"})
checkUsfmFilesRoute == Updates({"checkUsfmFiles"})
MemberRoutes ==
    Reads({"getProjectUsers"}) \cup Updates({"addProjectUsers", "removeProjectUser", "updateProjectUserRole"})
ExportRoutes ==
    {Route(n, None, "export", "access") : n \in {"getExportableBooks", "exportProjectUSFM", "exportProjectUSFMAsync"}}
getProjectRoute == Route("getProject", "project:view", "project", "read")
updateProjectRoute == Route("updateProject", "project:update", "project", "update")
deleteProjectRoute == Route("deleteProject", "project:delete", "project", "delete")

ManagerRoutes ==
    AssignRoutes \cup ProjectChapterRoutes \cup AssignManyRoutes \cup StageRoutes \cup MilestoneRoutes
        \cup checkUsfmFilesRoute \cup MemberRoutes \cup ExportRoutes
        \cup {deleteChapterAssignmentRoute, resetSelectedRoute, getProjectRoute, deleteProjectRoute,
              resolveVerseAudioRoute, aiStatusRoute}

-----------------------------------------------------------------------------
(* The lists of projects: GET /projects goes by the grants with             *)
(* project:view, the lists of a user's own by the rows, whatever role but   *)
(* the membership of the organization.  Both may be of one organization.    *)

(* Mutant of ListedProjects: a grant in a project lists its organization.   *)
ListedProjectsOfOrg(u, active) ==
    LET grants == {g \in GrantsOf(u) : /\ "project:view" \in RolePermissions(g.role)
                                       /\ active = None \/ g.org \in {active, None}}
    IN {p \in DOMAIN project : \E g \in grants : Global(g) \/ g.org = project[p]}

ListedProjects(u, active) ==
    LET grants == {g \in GrantsOf(u) : /\ "project:view" \in RolePermissions(g.role)
                                       /\ active = None \/ g.org \in {active, None}}
    IN {p \in DOMAIN project : \E g \in grants : Global(g) \/ g.project = p \/ (g.project = None /\ g.org = project[p])}

ProjectsOfUser(u, active) ==
    {p \in DOMAIN project :
        /\ active = None \/ project[p] = active
        /\ \E g \in GrantsOf(u) :
              g.project = p \/ (g.project = None /\ g.org = project[p] /\ g.role # "Org Member")}

-----------------------------------------------------------------------------
(* POST /projects. *)

Idle == [step |-> "idle", user |-> None, org |-> None, project |-> None, answer |-> None]
At(r, step) == request[r].step = step
Answered(r, answer) == [request EXCEPT ![r].step = "answered", ![r].answer = answer]

HasOrg(grants) == \E g \in grants : g.org # None

(* The route's own guard, for the organization the body is asked for: its   *)
(* orgId, or else its organization.  Who has no organization passes; a      *)
(* grant in any project of it is enough for who has one ("TEMP").           *)
MayCreate(grants, org) ==
    \/ ~HasOrg(grants)
    \/ \E g \in grants : /\ org # None /\ g.org = org
                         /\ "project:create" \in RolePermissions(g.role)
    \/ \E g \in grants : /\ Global(g) \/ (org # None /\ g.org = org /\ g.project = None)
                         /\ "project:create" \in RolePermissions(g.role)

NextProject == Cardinality(DOMAIN Projects) + Cardinality({r \in Requests : ~At(r, "idle")}) + 1

(* A body may have both an orgId and an organization: the guard looks at    *)
(* the first (asked), the project is created in the second (org).           *)
CreateProject(r) ==
    /\ At(r, "idle")
    /\ \E u \in Users, asked, org \in {None} \cup {Projects[p] : p \in DOMAIN Projects} :
           LET begun == [Idle EXCEPT !.user = u, !.org = org, !.project = NextProject]
               may == MayCreate(GrantsOf(u), asked)
           IN
           request' = [request EXCEPT ![r] =
               CASE ~may -> [begun EXCEPT !.step = "answered", !.answer = "forbidden"]
                 [] may /\ ~HasOrg(GrantsOf(u)) -> [begun EXCEPT !.step = "provision"]
                 [] may /\ HasOrg(GrantsOf(u)) /\ org = None ->
                        [begun EXCEPT !.step = "answered", !.answer = "invalid"]
                 [] OTHER -> [begun EXCEPT !.step = "create"]]
    /\ UNCHANGED <<grant, project, assignment, faults>>

(* Mutant of Provision: the membership without the role.                    *)
ProvisionMembership(r) ==
    LET q == request[r]
        org == 10 + q.project
    IN /\ At(r, "provision")
       /\ grant' = grant \cup {Row(q.user, org, None, "Org Member")}
       /\ request' = [request EXCEPT ![r].step = "create", ![r].org = org]
       /\ UNCHANGED <<project, assignment, faults>>

(* A personal organization, its membership and its manager in one           *)
(* transaction; the organization that was asked for is not looked at.       *)
Provision(r) ==
    LET q == request[r]
        org == 10 + q.project
    IN /\ At(r, "provision")
       /\ grant' = grant \cup {Row(q.user, org, None, role) : role \in {"Org Member", "Org Manager"}}
       /\ request' = [request EXCEPT ![r].step = "create", ![r].org = org]
       /\ UNCHANGED <<project, assignment, faults>>

Create(r) ==
    LET q == request[r] IN
    /\ At(r, "create")
    /\ project' = [p \in DOMAIN project \cup {q.project} |-> IF p = q.project THEN q.org ELSE project[p]]
    /\ request' = [request EXCEPT ![r].step = "grant"]
    /\ UNCHANGED <<grant, assignment, faults>>

GrantCreator(r) ==
    LET q == request[r] IN
    /\ At(r, "grant")
    /\ grant' = grant \cup {Row(q.user, q.org, q.project, "Project Manager")}
    /\ request' = Answered(r, "created")
    /\ UNCHANGED <<project, assignment, faults>>

(* deleteProject with cascadeUnits: the grants of the project go with it.   *)
TakeBack(r) ==
    LET gone == request[r].project IN
    /\ At(r, "takeBack")
    /\ project' = [p \in DOMAIN project \ {gone} |-> project[p]]
    /\ grant' = {g \in grant : g.project # gone}
    /\ request' = Answered(r, "error")
    /\ UNCHANGED <<assignment, faults>>

(* Mutant of Fails: the project stays when its creator gets no role.        *)
FailsWithout(r) == Answered(r, "error")

(* A statement fails: the role of the creator is what is taken back.        *)
Fails(r) ==
    CASE At(r, "grant") -> [request EXCEPT ![r].step = "takeBack"]
      [] At(r, "takeBack") -> Answered(r, "leftOver")
      [] OTHER -> Answered(r, "error")

Fail(r) ==
    /\ request[r].step \notin {"idle", "answered"} /\ faults < MaxFaults
    /\ faults' = faults + 1
    /\ request' = Fails(r)
    /\ UNCHANGED <<grant, project, assignment>>

-----------------------------------------------------------------------------
(* What happens to the chapter and to the grants, as wholes.                *)

NextStage == Workflow[Position(assignment.status) + 1]

(* Mutant of Claim: the chapter is taken but not begun.                     *)
ClaimUnbegun(u) ==
    /\ Allowed(u, claimRoute) /\ assignment.drafter = None
    /\ assignment' = [assignment EXCEPT !.drafter = u]
    /\ UNCHANGED <<grant, project, request, faults>>

(* A claim of a chapter that is held changes none of this.                  *)
Claim(u) ==
    /\ Allowed(u, claimRoute) /\ assignment.drafter = None
    /\ assignment' = [assignment EXCEPT !.drafter = u, !.status = "draft"]
    /\ UNCHANGED <<grant, project, request, faults>>

(* The peer check is taken by who submits it, unless that is the drafter,   *)
(* whose submission is answered and changes nothing.                        *)
Submit(u) ==
    LET c == assignment
        checks == c.status = "peer_check"
    IN /\ \A route \in ChapterRoutes : Allowed(u, route)
       /\ c.status # "complete"
       /\ checks => c.drafter \notin {None, u} /\ c.checker \in {None, u}
       /\ assignment' = [c EXCEPT !.status = NextStage, !.checker = IF checks THEN u ELSE @]
       /\ UNCHANGED <<grant, project, request, faults>>

(* A user who is assigned begins the chapter, even one who is taken away.   *)
Assigned(d, k) ==
    /\ assignment' = [assignment EXCEPT !.drafter = d, !.checker = k,
                                        !.status = IF @ = "not_started" THEN "draft" ELSE @]
    /\ UNCHANGED <<grant, project, request, faults>>

(* PATCH of the assignment takes any two users, and one as both.            *)
Update ==
    /\ \E u \in Users : \A route \in AssignRoutes : Allowed(u, route)
    /\ \E d, k \in Users : Assigned(d, k)

InOrg(u) == \E g \in GrantsOf(u) : g.org = project[1]

(* assign-all takes members of the organization, one or both.               *)
AssignAll ==
    LET members == {u \in Users : InOrg(u)} IN
    /\ \E u \in Users : \A route \in AssignManyRoutes : Allowed(u, route)
    /\ \/ \E d, k \in members : Assigned(d, k)
       \/ \E u \in members : Assigned(u, assignment.checker) \/ Assigned(assignment.drafter, u)

(* assign-selected takes two of them, or nobody.                            *)
AssignSelected ==
    /\ \E u \in Users : \A route \in AssignManyRoutes : Allowed(u, route)
    /\ \E d, k \in {u \in Users : InOrg(u)} \cup {None} : (d = k => d = None) /\ Assigned(d, k)

Reset ==
    /\ \E u \in Users : Allowed(u, resetSelectedRoute)
    /\ assignment.status \in {"draft", "peer_check"}
    /\ assignment' = [status |-> "not_started", drafter |-> None, checker |-> None]
    /\ UNCHANGED <<grant, project, request, faults>>

(* Memberships: a user gets other roles, or leaves and loses the work that  *)
(* has not been submitted; the draft begins anew if it has no words.        *)
Regrant(u) ==
    LET c == assignment
        drafting == c.drafter = u /\ c.status \in {"not_started", "draft"}
        checking == c.checker = u /\ c.status \in {"not_started", "draft", "peer_check"}
    IN /\ u \in Changing
       /\ \E table \in Tables :
              /\ grant' = (grant \ GrantsOf(u)) \cup table[u]
              /\ IF \E g \in table[u] : g.project = 1 \/ g.org = project[1] THEN UNCHANGED assignment
                 ELSE \E status \in {c.status} \cup (IF drafting THEN {"not_started"} ELSE {}) :
                          assignment' = [status |-> status,
                                         drafter |-> IF drafting THEN None ELSE c.drafter,
                                         checker |-> IF checking THEN None ELSE c.checker]
       /\ UNCHANGED <<project, request, faults>>

Init ==
    /\ grant = Initially \/ \E table \in Tables, u \in Changing : grant = Initially \cup table[u]
    /\ project = Projects
    /\ assignment = [status |-> "not_started", drafter |-> None, checker |-> None]
    /\ request = [r \in Requests |-> Idle]
    /\ faults = 0

Next ==
    \/ \E r \in Requests : CreateProject(r) \/ Provision(r) \/ Create(r) \/ GrantCreator(r) \/ TakeBack(r) \/ Fail(r)
    \/ \E u \in Users : Claim(u) \/ Submit(u) \/ Regrant(u)
    \/ Update \/ AssignAll \/ AssignSelected \/ Reset

Spec == Init /\ [][Next]_vars

-----------------------------------------------------------------------------
(* What the theorems assume of the constants: grants have one of the roles, *)
(* a chapter is drafted before its peer check, and there are finitely many  *)
(* projects and requests.                                                   *)
GrantsOK ==
    LET known(g) == g.role \in {"SuperAdmin", "Org Manager", "Project Manager", "Project Translator",
                                "Project Observer", "Org Member"}
    IN /\ \A g \in Initially : known(g)
       /\ \A table \in Tables, u \in Changing : \A g \in table[u] : known(g)
WorkflowOK ==
    /\ DOMAIN Workflow \subseteq Nat
    /\ \A m, n \in DOMAIN Workflow : Workflow[m] = Workflow[n] => m = n
    /\ \E m, n \in DOMAIN Workflow : m < n /\ Workflow[m] = "draft" /\ Workflow[n] = "peer_check"
ProjectsOK ==
    /\ IsFiniteSet(DOMAIN Projects) /\ IsFiniteSet(Requests)
    /\ None \notin Nat /\ None \notin {"created", "leftOver"}
AccessOK == GrantsOK /\ WorkflowOK /\ ProjectsOK

(* Properties. *)

Orgs == {project[p] : p \in DOMAIN project} \cup {q.org : q \in {request[r] : r \in Requests}} \cup {None}

(* What the variables hold. *)
TypeOK ==
    /\ \A g \in grant : g.user \in Users /\ (g.project # None => g.org # None)
    /\ DOMAIN Projects \subseteq DOMAIN project
    /\ assignment.status \in {Workflow[n] : n \in DOMAIN Workflow}
    /\ {assignment.drafter, assignment.checker} \subseteq Users \cup {None}
    /\ \A r \in Requests :
          /\ request[r].step \in {"idle", "provision", "create", "grant", "takeBack", "answered"}
          /\ request[r].answer \in {None, "created", "forbidden", "invalid", "error", "leftOver"}
    /\ faults \in 0 .. MaxFaults

(* Who may save a verse may do everything else the editor does, so that no  *)
(* half of the page answers 403: hear and record, see the suggestions, keep *)
(* the position, submit, and in draft switch the AI; and words and sound    *)
(* are written by the same users (the guards of translated verses and of    *)
(* verse audio).                                                            *)
EditorOpensWhole ==
    \A u \in Users :
        /\ Allowed(u, upsertTranslatedVerseRoute) =>
              /\ \A route \in EditorRoutes : Allowed(u, route)
              /\ assignment.status = "draft" => Allowed(u, aiStatusRoute)
        /\ Allowed(u, upsertTranslatedVerseRoute) <=> Allowed(u, uploadVerseAudioRoute)

(* Who may change the project may do everything its managers do, stages,    *)
(* members, milestones and assignments (requirePermission asks for other    *)
(* permissions in other domains).                                           *)
ManagerPageWhole ==
    \A u \in Users : Allowed(u, updateProjectRoute) => \A route \in ManagerRoutes : Allowed(u, route)

(* A list shows only projects that open, and every project one may change   *)
(* (findByScope and findByUserMembership beside ProjectPolicy).             *)
ListedIsReadable ==
    \A u \in Users :
        /\ \A active \in Orgs, p \in DOMAIN project :
              p \in ListedProjects(u, active) \cup ProjectsOfUser(u, active) => ProjectRead(u, p)
        /\ {p \in DOMAIN project : ProjectUpdate(u, p)} \subseteq ListedProjects(u, None)

(* Nobody who drafted a chapter edits it in the peer check, unless somebody *)
(* made him its checker too.                                                *)
DraftHandedOver ==
    \A u \in Users :
        assignment.status = "peer_check" /\ assignment.drafter = u /\ ChapterEdit(u) => assignment.checker = u

(* A project that was made has its creator as its manager, or is taken back *)
(* (unless that fails too), and an organization that was founded for it has *)
(* its founder as member and as manager (POST /projects).                   *)
CreatorManages ==
    /\ \A p \in DOMAIN project \ DOMAIN Projects : \E r \in Requests :
          LET q == request[r] IN
          /\ q.project = p
          /\ \/ q.step \in {"grant", "takeBack"} \/ q.answer = "leftOver"
             \/ q.answer = "created" /\ ProjectUpdate(q.user, p) /\ ProjectDelete(q.user, p)
    /\ \A r \in Requests : LET q == request[r] IN
          /\ q.answer = "created" => q.project \in ListedProjects(q.user, q.org)
          /\ q.org \notin {None} \cup {Projects[p] : p \in DOMAIN Projects} =>
                {Row(q.user, q.org, None, role) : role \in {"Org Member", "Org Manager"}} \subseteq grant

AccessKept == EditorOpensWhole /\ ManagerPageWhole /\ ListedIsReadable /\ DraftHandedOver /\ CreatorManages

(* Who takes a chapter can work on it at once: save, and switch the AI      *)
(* (claimChapterAssignment beside the policy of the editor).                *)
ClaimGivesWork ==
    \A u \in Users :
        Claim(u) => Allowed(u, upsertTranslatedVerseRoute)' /\ Allowed(u, aiStatusRoute)'
=============================================================================
