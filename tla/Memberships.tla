---------------------------- MODULE Memberships ----------------------------
(***************************************************************************)
(* Who belongs to an organization and to its projects, and who may say so: *)
(* the grants of user_roles, the requests that give, change and revoke     *)
(* them, the invitation of users and the chapters a removal takes away.    *)
(*                                                                         *)
(* A request is authorised on the grants its caller had when it was        *)
(* authenticated and works on the database afterwards, statement by        *)
(* statement; a transaction is READ COMMITTED, as the server's are.  What  *)
(* it changes is seen when it commits, and the rows it has locked make the *)
(* writers of those rows wait.  History rows, which are only appended, and *)
(* projects.updated_at are left out; of a chapter's workflow the model     *)
(* keeps how far it is.                                                    *)
(***************************************************************************)
EXTENDS Naturals, FiniteSets

CONSTANTS
    Requests,     \* the requests the server handles at a time
    Users,        \* user accounts and, before there is one, e-mail addresses
    Chapters,     \* chapter assignments, all of project Project
    Org, Project, \* the organization of the project and the project
    None,         \* NULL
    Calls,        \* what may be requested: [kind, caller, user, project, role]
    Initially,    \* the grants there may be at first, a set of sets of rows
    MaxRequests,  \* bound on the requests that are made
    MaxFaults     \* bound on the statements that fail

VARIABLES
    request,      \* what each request does
    grant,        \* the rows of user_roles
    account,      \* of each user, which of "identity" (auth_user) and "user" (users) exists
    assignment,   \* the chapter assignments
    started,      \* requests made so far
    faults        \* statements failed so far

vars == <<request, grant, account, assignment, started, faults>>

Row(u, org, project, role) == [user |-> u, org |-> org, project |-> project, role |-> role]
Member(u) == Row(u, Org, None, "Org Member")
Manager(u) == Row(u, Org, None, "Org Manager")

ProjectRoles == {"Project Manager", "Project Translator", "Project Observer"}
OrgRoles == {"Org Manager", "Org Member"}

PermissionsOf(role) ==
    CASE role = "SuperAdmin" ->
            {"project:update", "content:assign", "membership:revoke", "role:assign:project",
             "role:assign:org_manager", "user:create", "user:update", "user:delete"}
      [] role = "Org Manager" ->
            {"project:update", "content:assign", "membership:revoke", "role:assign:project",
             "role:assign:org_manager", "user:create", "user:update"}
      [] role = "Project Manager" ->
            {"project:update", "content:assign", "membership:revoke", "role:assign:project",
             "user:create", "user:update"}
      [] role = "Project Translator" -> {"user:update"}
      [] OTHER -> {}

-----------------------------------------------------------------------------
(* Authorisation. *)

GrantsOf(u) == {g \in grant : g.user = u}

(* Mutant of IsGrantApplicable: a grant in a project counts for the org.   *)
IsGrantApplicableAnywhere(g, org, project) ==
    \/ g.org = None /\ g.project = None
    \/ org # None /\ g.org = org /\ (project # None => g.project \in {project, None})

IsGrantApplicable(g, org, project) ==
    \/ g.org = None /\ g.project = None
    \/ project # None /\ g.org = org /\ g.project \in {project, None}
    \/ project = None /\ org # None /\ g.org = org /\ g.project = None

CollectPermissions(grants, org, project) ==
    UNION {PermissionsOf(g.role) : g \in {h \in grants : IsGrantApplicable(h, org, project)}}

Authorize(grants, permission, org, project) == permission \in CollectPermissions(grants, org, project)

CanAssignRole(grants, role, project) ==
    LET may(permission) == Authorize(grants, permission, Org, project) IN
    \/ role = "Org Manager" /\ may("role:assign:org_manager")
    \/ role = "Org Member" /\ (may("user:create") \/ may("role:assign:project") \/ may("role:assign:org_manager"))
    \/ role \in ProjectRoles /\ project # None /\ may("role:assign:project")

(* requirePermission without a scope asks for the permission in any scope;  *)
(* the policies of users and projects then ask for it in theirs.            *)
Somewhere(grants, permission) == \E g \in grants : permission \in PermissionsOf(g.role)

Permitted(call, grants) ==
    LET may(permission, project) == Authorize(grants, permission, Org, project)
        updates(permission) == Somewhere(grants, permission) /\ may("project:update", call.project)
    IN CASE call.kind = "remove" -> may("membership:revoke", None) /\ call.caller # call.user
         [] call.kind = "role" ->
                may("user:update", None) /\ CanAssignRole(grants, call.role, None) /\ call.caller # call.user
         [] call.kind \in {"add", "removeMember"} -> updates("project:update")
         [] call.kind = "memberRole" -> updates("project:update") /\ call.caller # call.user
         [] call.kind = "assign" -> updates("content:assign")
         [] call.kind \in {"invite", "create"} ->
                may("user:create", call.project) /\ CanAssignRole(grants, call.role, call.project)
         [] call.kind = "delete" -> Authorize(grants, "user:delete", None, None)
         [] call.kind = "submit" -> TRUE

-----------------------------------------------------------------------------
(* A request. *)

Idle == [step |-> "idle", call |-> None, grants |-> {}, seen |-> {}, locks |-> {}, answer |-> None]

Moved(r, step) == [request EXCEPT ![r].step = step]
Answered(r, answer) ==
    [request EXCEPT ![r].step = "answered", ![r].answer = answer, ![r].locks = {}, ![r].seen = {}]

At(r, step) == request[r].step = step
CallOf(r) == request[r].call
InOrg(u) == {g \in grant : g.user = u /\ g.org = Org}
InProject(u) == {g \in InOrg(u) : g.project = Project}
Free(r, rows) == \A s \in Requests \ {r} : request[s].locks \cap rows = {}

FirstStep(call) ==
    CASE call.kind \in {"role", "add", "assign"} -> "check"
      [] call.kind = "remove" -> "find"
      [] call.kind = "removeMember" -> "revoke"
      [] call.kind = "memberRole" -> "change"
      [] call.kind = "invite" -> "lookup"
      [] call.kind = "create" -> "user"
      [] call.kind = "delete" -> "delete"
      [] call.kind = "submit" -> "submit"

(* authenticate.ts loads the grants of the caller; everything that is       *)
(* decided from them is decided on what it found.                           *)
Authenticate(r) ==
    /\ request[r].step \in {"idle", "answered"} /\ started < MaxRequests
    /\ started' = started + 1
    /\ \E call \in Calls :
           /\ "user" \in account[call.caller]
           /\ request' =
                [request EXCEPT ![r] =
                    IF Permitted(call, GrantsOf(call.caller))
                      THEN [Idle EXCEPT !.step = FirstStep(call), !.call = call, !.grants = GrantsOf(call.caller)]
                      ELSE [Idle EXCEPT !.step = "answered", !.answer = "forbidden", !.call = call]]
    /\ UNCHANGED <<grant, account, assignment, faults>>

(* findUserIdsInOrg: any grant in the organization makes a member.          *)
Check(r) ==
    /\ At(r, "check")
    /\ request' = IF InOrg(CallOf(r).user) = {} THEN Answered(r, "notMember")
                  ELSE Moved(r, CASE CallOf(r).kind = "role" -> "lock"
                                  [] CallOf(r).kind = "add" -> "insert"
                                  [] CallOf(r).kind = "assign" -> "assign")
    /\ UNCHANGED <<grant, account, assignment, started, faults>>

-----------------------------------------------------------------------------
(* The role of a member in the organization: the membership row is locked,  *)
(* the functional rows are replaced by the wanted one, or deleted.          *)

LockAnchor(r) ==
    LET anchor == Member(CallOf(r).user) IN
    /\ At(r, "lock")
    /\ Free(r, {anchor})
    /\ request' = IF anchor \in grant THEN [request EXCEPT ![r].step = "replace", ![r].locks = {anchor}]
                  ELSE Answered(r, "notMember")
    /\ UNCHANGED <<grant, account, assignment, started, faults>>

Replace(r) ==
    LET u == CallOf(r).user
        role == Row(u, Org, None, CallOf(r).role)
        others == {g \in InOrg(u) : g.project = None} \ {Member(u)}
    IN /\ At(r, "replace")
       /\ Free(r, others)
       /\ grant' = (grant \ others) \cup {role}
       /\ request' = Answered(r, "ok")
       /\ UNCHANGED <<account, assignment, started, faults>>

(* The removal of a user from the organization.  The chapters are found,    *)
(* then taken away; the statement that deletes the grants sees those that   *)
(* are committed when it begins and waits for the ones another transaction  *)
(* has locked.  The transaction commits with it.                            *)
HeldBy(u) == {c \in Chapters : u \in {assignment[c].drafter, assignment[c].checker}}

Find(r) ==
    /\ At(r, "find")
    /\ request' = [request EXCEPT ![r].step = "clear", ![r].seen = HeldBy(CallOf(r).user)]
    /\ UNCHANGED <<grant, account, assignment, started, faults>>

Without(u, v) == IF u = v THEN None ELSE u
Cleared(u, chapters) ==
    [c \in Chapters |-> IF c \in chapters
        THEN [assignment[c] EXCEPT !.drafter = Without(@, u), !.checker = Without(@, u)]
        ELSE assignment[c]]

DeleteBegins(r) ==
    /\ At(r, "clear")
    /\ request' = [request EXCEPT ![r].step = "commit",
                                  ![r].seen = [chapters |-> @, rows |-> InOrg(CallOf(r).user)]]
    /\ UNCHANGED <<grant, account, assignment, started, faults>>

DeleteEnds(r) ==
    LET seen == request[r].seen
        gone == seen.rows \cap grant
    IN /\ At(r, "commit")
       /\ Free(r, seen.rows)
       /\ IF gone = {} THEN request' = Answered(r, "notMember") /\ UNCHANGED <<grant, assignment>>
          ELSE /\ grant' = grant \ gone
               /\ assignment' = Cleared(CallOf(r).user, seen.chapters)
               /\ request' = Answered(r, "ok")
       /\ UNCHANGED <<account, started, faults>>

-----------------------------------------------------------------------------
(* The members of a project. *)

(* One plain insert: it fails on the unique key, or when the account has    *)
(* gone; that the user belongs to the organization was asked before.        *)
Insert(r) ==
    LET row == Row(CallOf(r).user, Org, Project, CallOf(r).role) IN
    /\ At(r, "insert")
    /\ Free(r, {row})
    /\ IF row \in grant \/ "user" \notin account[row.user]
         THEN request' = Answered(r, "refused") /\ UNCHANGED grant
         ELSE request' = Answered(r, "ok") /\ grant' = grant \cup {row}
    /\ UNCHANGED <<account, assignment, started, faults>>

(* Both the removal from a project and a new role as an observer take away  *)
(* the work of the user that is not under way any more: the chapters are    *)
(* read first, and the two updates decide again by what a chapter then is.  *)
Revoke(r) ==
    LET rows == InProject(CallOf(r).user) IN
    /\ At(r, "revoke")
    /\ Free(r, rows)
    /\ request' = IF rows = {} THEN Answered(r, "notInProject")
                  ELSE [request EXCEPT ![r].step = "affected", ![r].locks = rows]
    /\ UNCHANGED <<grant, account, assignment, started, faults>>

Change(r) ==
    LET rows == InProject(CallOf(r).user)
        new == Row(CallOf(r).user, Org, Project, CallOf(r).role)
    IN /\ At(r, "change")
       /\ Free(r, rows)
       /\ IF rows = {} THEN request' = Answered(r, "notInProject") /\ UNCHANGED grant
          ELSE IF Cardinality(rows) > 1 THEN request' = Answered(r, "error") /\ UNCHANGED grant
          ELSE IF CallOf(r).role = "Project Observer"
                 THEN request' = [request EXCEPT ![r].step = "affected", ![r].locks = rows] /\ UNCHANGED grant
                 ELSE request' = Answered(r, "ok") /\ grant' = (grant \ rows) \cup {new}
       /\ UNCHANGED <<account, assignment, started, faults>>

Affected(r) ==
    /\ At(r, "affected")
    /\ request' = [request EXCEPT ![r].step = "unassign", ![r].seen = HeldBy(CallOf(r).user)]
    /\ UNCHANGED <<grant, account, assignment, started, faults>>

Unstarted(c) == IF c.drafted THEN c.status ELSE "not_started"
(* Mutant of Unassigned: the chapters that were read are cleared.          *)
UnassignedAsRead(c, u) ==
    [c EXCEPT !.drafter = Without(@, u), !.status = Unstarted(c), !.checker = Without(@, u)]

Unassigned(c, u) ==
    LET drafts == c.drafter = u /\ c.status \in {"not_started", "draft"}
        checks == c.checker = u /\ c.status \in {"not_started", "draft", "peer_check"}
    IN [c EXCEPT !.drafter = IF drafts THEN None ELSE @,
                 !.status = IF drafts THEN Unstarted(c) ELSE @,
                 !.checker = IF checks THEN None ELSE @]

Unassign(r) ==
    LET u == CallOf(r).user
        rows == request[r].locks
    IN /\ At(r, "unassign")
       /\ assignment' = IF request[r].seen = {} THEN assignment
                        ELSE [c \in Chapters |-> Unassigned(assignment[c], u)]
       /\ grant' = (grant \ rows) \cup
                   (IF CallOf(r).kind = "removeMember" THEN {} ELSE {Row(u, Org, Project, CallOf(r).role)})
       /\ request' = Answered(r, "ok")
       /\ UNCHANGED <<account, started, faults>>

-----------------------------------------------------------------------------
(* Accounts. *)

(* The invitation of an address that has an account only grants; another    *)
(* one gets an identity, an account, its grants and a mail, one statement   *)
(* after the other, and what was made is deleted when one of them fails.    *)
IsNew(r) == request[r].seen = {"new"}

Lookup(r) ==
    /\ At(r, "lookup")
    /\ request' = IF "user" \in account[CallOf(r).user] THEN Moved(r, "anchor") ELSE Moved(r, "identity")
    /\ UNCHANGED <<grant, account, assignment, started, faults>>

Identity(r) ==
    LET u == CallOf(r).user IN
    /\ At(r, "identity")
    /\ IF "identity" \in account[u] THEN request' = Answered(r, "refused") /\ UNCHANGED account
       ELSE request' = Moved(r, "user") /\ account' = [account EXCEPT ![u] = @ \cup {"identity"}]
    /\ UNCHANGED <<grant, assignment, started, faults>>

CreateUser(r) ==
    LET u == CallOf(r).user IN
    /\ At(r, "user")
    /\ IF "user" \notin account[u]
         THEN /\ account' = [account EXCEPT ![u] = @ \cup {"user"}]
              /\ request' = [request EXCEPT ![r].step = IF CallOf(r).kind = "invite" THEN "anchor" ELSE "grant",
                                            ![r].seen = {"new"}]
         ELSE /\ request' = IF CallOf(r).kind = "invite" THEN Moved(r, "dropIdentity") ELSE Answered(r, "refused")
              /\ UNCHANGED account
    /\ UNCHANGED <<grant, assignment, started, faults>>

Undo(r) ==
    IF ~IsNew(r) THEN Answered(r, "error")
    ELSE IF At(r, "mail") THEN Moved(r, "dropInvited") ELSE Moved(r, "dropUser")

(* grantRole, for the membership row and for the role: on a conflict        *)
(* nothing, and an error when the account has gone.                         *)
GrantRow(r) ==
    IF At(r, "anchor") THEN Member(CallOf(r).user)
    ELSE Row(CallOf(r).user, Org, CallOf(r).project, CallOf(r).role)

GrantRole(r) ==
    /\ At(r, "anchor") \/ At(r, "grant")
    /\ Free(r, {GrantRow(r)})
    /\ IF "user" \in account[CallOf(r).user]
         THEN /\ grant' = grant \cup {GrantRow(r)}
              /\ request' = IF At(r, "anchor") THEN Moved(r, "grant")
                            ELSE IF CallOf(r).kind = "invite" THEN Moved(r, "mail") ELSE Answered(r, "ok")
         ELSE request' = Undo(r) /\ UNCHANGED grant
    /\ UNCHANGED <<account, assignment, started, faults>>

Mail(r) ==
    /\ At(r, "mail")
    /\ request' = Answered(r, "ok")
    /\ UNCHANGED <<grant, account, assignment, started, faults>>

(* A statement fails: a transaction is rolled back, an invitation undone;   *)
(* when that fails for its grants, it is tried a second time.               *)
Fail(r) ==
    /\ faults < MaxFaults
    /\ request[r].step \notin {"idle", "answered"}
    /\ faults' = faults + 1
    /\ request' = CASE request[r].step \in {"anchor", "grant", "mail"} -> Undo(r)
                    [] At(r, "lookup") -> Moved(r, "identity")
                    [] At(r, "user") /\ CallOf(r).kind = "invite" -> Moved(r, "dropIdentity")
                    [] request[r].step \in {"dropUser", "dropIdentity"} /\ CallOf(r).kind = "invite" /\ IsNew(r) ->
                           Moved(r, "dropAgain")
                    [] At(r, "dropInvited") -> Moved(r, "dropIdentity")
                    [] OTHER -> Answered(r, "error")
    /\ UNCHANGED <<grant, account, assignment, started>>

(* An account goes with its grants, unless a chapter refers to it.          *)
Referred(u) == \E c \in Chapters : u \in {assignment[c].drafter, assignment[c].checker}

(* Mutant of Dropped: a failed mail takes back the account only.           *)
DroppedOnly(r) ==
    IF At(r, "dropUser") THEN Moved(r, IF Referred(CallOf(r).user) THEN "dropAgain" ELSE "dropIdentity")
    ELSE Answered(r, "error")

Dropped(r) ==
    IF CallOf(r).kind = "create" THEN Answered(r, "error")
    ELSE CASE At(r, "dropUser") -> Moved(r, IF Referred(CallOf(r).user) THEN "dropAgain" ELSE "dropIdentity")
           [] At(r, "dropAgain") /\ Referred(CallOf(r).user) -> Answered(r, "error")
           [] OTHER -> [request EXCEPT ![r].step = "dropIdentity", ![r].seen = {}]

DropUser(r) ==
    LET u == CallOf(r).user IN
    /\ request[r].step \in {"dropUser", "dropAgain", "dropInvited"}
    /\ Free(r, GrantsOf(u))
    /\ IF Referred(u) THEN UNCHANGED <<grant, account>>
       ELSE /\ grant' = grant \ GrantsOf(u)
            /\ account' = [account EXCEPT ![u] = @ \ {"user"}]
    /\ request' = Dropped(r)
    /\ UNCHANGED <<assignment, started, faults>>

DropIdentity(r) ==
    /\ At(r, "dropIdentity")
    /\ account' = [account EXCEPT ![CallOf(r).user] = @ \ {"identity"}]
    /\ request' = Answered(r, "error")
    /\ UNCHANGED <<grant, assignment, started, faults>>

(* It is refused as well to somebody who has made a grant or an account.    *)
DeleteAccount(r) ==
    LET u == CallOf(r).user IN
    /\ At(r, "delete")
    /\ Free(r, GrantsOf(u))
    /\ \/ request' = Answered(r, "refused") /\ UNCHANGED <<grant, account>>
       \/ /\ "user" \in account[u] /\ ~Referred(u)
          /\ grant' = grant \ GrantsOf(u)
          /\ account' = [account EXCEPT ![u] = @ \ {"user"}]
          /\ request' = Answered(r, "ok")
    /\ UNCHANGED <<assignment, started, faults>>

-----------------------------------------------------------------------------
(* What the workflow does with the chapters meanwhile (see                 *)
(* ChapterWorkflow).                                                       *)

AssignChapter(r) ==
    /\ At(r, "assign")
    /\ IF "user" \notin account[CallOf(r).user]
         THEN request' = Answered(r, "error") /\ UNCHANGED assignment
         ELSE /\ \E c \in Chapters :
                     assignment' = [assignment EXCEPT ![c].drafter = CallOf(r).user,
                                                      ![c].status = IF @ = "not_started" THEN "draft" ELSE @]
              /\ request' = Answered(r, "ok")
    /\ UNCHANGED <<grant, account, started, faults>>

SubmitChapter(r) ==
    /\ At(r, "submit")
    /\ \/ \E c \in Chapters :
              /\ assignment[c].status \in {"draft", "peer_check"}
              /\ assignment' = [assignment EXCEPT ![c].status = IF @ = "draft" THEN "peer_check" ELSE "complete",
                                                  ![c].drafted = TRUE]
              /\ request' = Answered(r, "ok")
       \/ request' = Answered(r, "refused") /\ UNCHANGED assignment
    /\ UNCHANGED <<grant, account, started, faults>>

-----------------------------------------------------------------------------
Init ==
    /\ request = [r \in Requests |-> Idle]
    /\ grant \in Initially
    /\ account = [u \in Users |-> IF \E g \in grant : g.user = u THEN {"identity", "user"} ELSE {}]
    /\ assignment \in
          [Chapters -> {[drafter |-> None, checker |-> None, status |-> "not_started", drafted |-> FALSE]} \cup
                       {[drafter |-> g.user, checker |-> None, status |-> "draft", drafted |-> FALSE] :
                           g \in {h \in grant : h.project = Project}}]
    /\ started = 0 /\ faults = 0

Step(r) ==
    \/ Check(r)
    \/ LockAnchor(r) \/ Replace(r)
    \/ Find(r) \/ DeleteBegins(r) \/ DeleteEnds(r)
    \/ Insert(r) \/ Revoke(r) \/ Change(r) \/ Affected(r) \/ Unassign(r)
    \/ Lookup(r) \/ Identity(r) \/ CreateUser(r) \/ GrantRole(r) \/ Mail(r)
    \/ DropUser(r) \/ DropIdentity(r) \/ DeleteAccount(r)
    \/ AssignChapter(r) \/ SubmitChapter(r)

Next == \E r \in Requests : Authenticate(r) \/ Step(r) \/ Fail(r)

Spec == Init /\ [][Next]_vars

-----------------------------------------------------------------------------
(* What the theorems assume of the constants: the requests are about users *)
(* and the project, and at first a role in the organization is one of it   *)
(* or of the whole system.                                                 *)
MembersOK ==
    LET roles == ProjectRoles \cup OrgRoles \cup {"SuperAdmin", None} IN
    /\ Calls \subseteq [kind : {"remove", "role", "add", "removeMember", "memberRole", "assign", "invite",
                                "create", "delete", "submit"},
                        caller : Users, user : Users, project : {Project, None}, role : roles]
    /\ \A rows \in Initially :
          /\ rows \subseteq [user : Users, org : {Org, None}, project : {Project, None}, role : roles]
          /\ \A g \in rows : g.project = None => g.role \in OrgRoles \cup {"SuperAdmin"}
    /\ None \notin Users /\ None \notin Calls /\ None # Project /\ None # "error"

(* Properties. *)

Statuses == {"not_started", "draft", "peer_check", "complete"}
Rows == {Row(u, Org, None, role) : u \in Users, role \in OrgRoles}
            \cup {Row(u, Org, Project, role) : u \in Users, role \in ProjectRoles}
            \cup {Row(u, None, None, "SuperAdmin") : u \in Users}

TypeOK ==
    /\ grant \subseteq Rows
    /\ account \in [Users -> SUBSET {"identity", "user"}]
    /\ \A g \in grant : "user" \in account[g.user]
    /\ \A c \in Chapters :
           /\ {assignment[c].drafter, assignment[c].checker} \subseteq Users \cup {None}
           /\ assignment[c].status \in Statuses
    /\ \A r \in Requests : request[r].locks \subseteq Rows /\ request[r].grants \subseteq Rows
    /\ started \in 0 .. MaxRequests /\ faults \in 0 .. MaxFaults

Acts(r) == request'[r] # request[r]
ManagesOrg(grants) == \E g \in grants : g.project = None /\ g.role \in {"Org Manager", "SuperAdmin"}

(* Nobody becomes a manager of the organization, or stops being one, but by *)
(* a request of somebody who managed it when authenticated: a chain of      *)
(* requests of project managers and members cannot get there, whatever      *)
(* grants they hold in which scope (authorize.ts).  Only the account may    *)
(* go, when the invitation that made it fails.                              *)
ManagersDecide ==
    \A u \in Users : (Manager(u) \in grant) # (Manager(u) \in grant') /\ "user" \in account'[u] =>
        \E r \in Requests : Acts(r) /\ ManagesOrg(request[r].grants)

(* An invitation that fails at some step takes back what it has made: it    *)
(* leaves no identity without an account, on which every later invitation   *)
(* of the address would fail, unless the roll-back fails as well            *)
(* (auth.service.ts).                                                       *)
Made(r) ==
    /\ CallOf(r) # None /\ CallOf(r).kind = "invite"
    /\ \/ request[r].step \in {"user", "dropUser", "dropAgain", "dropInvited", "dropIdentity"}
       \/ request[r].step \in {"anchor", "grant", "mail"} /\ IsNew(r)
InvitationWhole ==
    \A r \in Requests :
        Acts(r) /\ Made(r) /\ request'[r].answer = "error" /\ faults' = faults
        => account'[CallOf(r).user] # {"identity"}

(* A removal from the project, or a new role as its observer, does not take *)
(* a chapter that has been submitted from its drafter, even one that was    *)
(* submitted after the chapters were read.                                  *)
SubmittedKept ==
    \A c \in Chapters, r \in Requests :
        /\ Acts(r) /\ CallOf(r) # None /\ CallOf(r).kind \in {"removeMember", "memberRole"}
        /\ assignment[c].status \in {"peer_check", "complete"}
        => assignment'[c].drafter = assignment[c].drafter

(* "An Org Manager can only be demoted by a different Org Manager, which   *)
(* guarantees the org always retains at least one": an organization that   *)
(* has a manager keeps one (org-users.service.ts).                         *)
ManagerRemains == \E u \in Users : Manager(u) \in grant

(* "Either we hold the anchor before removal deletes it, or removal already *)
(* committed and we bail out": who has a role in the organization is a      *)
(* member of it (org-users.repository.ts).                                  *)
RoleNeedsMembership == \A u \in Users : Manager(u) \in grant => Member(u) \in grant

=============================================================================
