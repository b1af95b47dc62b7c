------------------------------ MODULE Sessions ------------------------------
(***************************************************************************)
(* The sessions of one user's devices: how long they last and in which      *)
(* organization they work.  A session is made, renewed and deleted by       *)
(* BetterAuth; the server adds the longer life of mobile sessions and the   *)
(* organization.  Days pass between requests, not during one.               *)
(***************************************************************************)
EXTENDS Naturals, FiniteSets

CONSTANTS
    Requests, Devices,
    Mobile,       \* the devices whose client says it is the mobile one
    Member,       \* the organizations the user has a grant in
    Calls,        \* what is asked: <<device, organization to switch to or None>>
    Life,         \* MOBILE_SESSION_MS and MOBILE_ROLLING_MS, in days
    Threshold,    \* MOBILE_ROLL_THRESHOLD_MS
    Interval,     \* MOBILE_CHECK_INTERVAL_MS
    Expiry,       \* expiresIn of BetterAuth's sessions
    UpdateAge,    \* updateAge of them
    MaxTime, MaxFaults, None

VARIABLES
    session,      \* auth_session of each device: [mobile, expires, updated, active, used, away]
    lastActive,   \* users.lastActiveOrgId
    request,      \* [pc, device, active, last, org, had]
    now, faults

vars == <<session, lastActive, request, now, faults>>

(* Histories.  Of a session, used: when it was last of use to its device;   *)
(* away: whether it came back, since it was last given its days, after more *)
(* than the Absence that MobileStays is about.  Of a request, had: the      *)
(* organization its session had when it set out.                            *)
Made == [mobile |-> FALSE, expires |-> now + Expiry, updated |-> now, active |-> None, used |-> now, away |-> FALSE]
Alive(d) == session[d] # None /\ session[d].expires > now

Idle == [pc |-> "idle", device |-> None, active |-> None, last |-> None, org |-> None, had |-> None]
At(r, pc) == request[r].pc = pc
Goes(r, pc) == request' = [request EXCEPT ![r].pc = pc]
Ends(r) == request' = [request EXCEPT ![r] = Idle]
Of(r) == session[request[r].device]
Writes(r, row) == session' = IF Of(r) = None THEN session ELSE [session EXCEPT ![request[r].device] = row]

-----------------------------------------------------------------------------
(* Signing in: BetterAuth makes the session, and a hook then gives it its   *)
(* longer life.  A hook that fails is logged; the session is the web's.  A  *)
(* device signs in again when the requests of its last session are over.    *)
SignIn(r, d) ==
    /\ ~Alive(d) /\ \A q \in Requests : q = r \/ request[q].device = d => At(q, "idle")
    /\ session' = [session EXCEPT ![d] = Made]
    /\ IF d \in Mobile
       THEN request' = [request EXCEPT ![r] = [Idle EXCEPT !.pc = "hook", !.device = d]]
       ELSE Ends(r)
    /\ UNCHANGED <<lastActive, now, faults>>

ExtendMobile(r) ==
    /\ At(r, "hook")
    /\ \/ Writes(r, [Of(r) EXCEPT !.mobile = TRUE, !.expires = now + Life]) /\ UNCHANGED faults
       \/ faults < MaxFaults /\ faults' = faults + 1 /\ UNCHANGED session
    /\ Ends(r)
    /\ UNCHANGED <<lastActive, now>>

SignOut(d) ==
    /\ Alive(d) /\ \A r \in Requests : ~(At(r, "hook") /\ request[r].device = d)
    /\ session' = [session EXCEPT ![d] = None]
    /\ UNCHANGED <<lastActive, request, now, faults>>

(* getSession: a session that is due is renewed, for the time of the web's, *)
(* mobile or not.  Renewed each day from then on, it is never old enough    *)
(* again for the check below.                                               *)
Absence == Threshold + UpdateAge - Expiry - 1
Due(s) == s.expires + UpdateAge <= now + Expiry
GetSession(r, d, org) ==
    /\ At(r, "idle")
    /\ LET own == [session[d] EXCEPT !.away = @ \/ now > session[d].used + Absence]
           s == IF Due(session[d]) THEN [own EXCEPT !.expires = now + Expiry, !.updated = now] ELSE own
       IN IF ~Alive(d) THEN Ends(r) /\ UNCHANGED session
          ELSE /\ session' = [session EXCEPT ![d] = s]
               /\ request' = [request EXCEPT ![r] = [Idle EXCEPT
                     !.pc = IF now > s.updated + Interval THEN "check" ELSE "session",
                     !.device = d, !.org = org, !.had = s.active]]
    /\ UNCHANGED <<lastActive, now, faults>>

(* authenticate: the roll of a mobile session. *)
(* Mutant of CheckMobile: each check counts as an update.                   *)
CheckMobileOnce(r) ==
    /\ At(r, "check")
    /\ Goes(r, IF Of(r) # None /\ Of(r).mobile /\ Of(r).expires < now + Threshold THEN "roll" ELSE "session")
    /\ Writes(r, [Of(r) EXCEPT !.updated = now])
    /\ UNCHANGED <<lastActive, now, faults>>
CheckMobile(r) ==
    /\ At(r, "check")
    /\ Goes(r, IF Of(r) # None /\ Of(r).mobile /\ Of(r).expires < now + Threshold THEN "roll" ELSE "session")
    /\ UNCHANGED <<session, lastActive, now, faults>>

Roll(r) ==
    /\ At(r, "roll")
    /\ Writes(r, [Of(r) EXCEPT !.expires = now + Life, !.updated = now, !.away = FALSE])
    /\ Goes(r, "session")
    /\ UNCHANGED <<lastActive, now, faults>>

(* The session and the user are read side by side, in either order. *)
ReadSession(r) ==
    /\ At(r, "session") \/ At(r, "session2")
    /\ request' = [request EXCEPT ![r].pc = IF At(r, "session") THEN "user" ELSE "adopt",
                                  ![r].active = IF Of(r) = None THEN None ELSE Of(r).active]
    /\ UNCHANGED <<session, lastActive, now, faults>>
ReadUser(r) ==
    /\ At(r, "session") \/ At(r, "user")
    /\ request' = [request EXCEPT ![r].pc = IF At(r, "session") THEN "session2" ELSE "adopt", ![r].last = lastActive]
    /\ UNCHANGED <<session, lastActive, now, faults>>

(* A session that has no organization takes the user's default; whether it  *)
(* still has none is not asked again.                                       *)
(* Mutant of Adopts: the default of the user goes before the session's.     *)
AdoptsAlways(r) == request[r].last # None
Adopts(r) == request[r].active = None /\ request[r].last # None
Adopt(r) ==
    /\ At(r, "adopt")
    /\ IF Adopts(r)
       THEN /\ request' = [request EXCEPT ![r].pc = "handle", ![r].active = request[r].last]
            /\ Writes(r, [Of(r) EXCEPT !.active = request[r].last])
       ELSE Goes(r, "handle") /\ UNCHANGED session
    /\ UNCHANGED <<lastActive, now, faults>>

(* A statement fails: 500, or 401 if it was the one that reads the user.    *)
Fail(r) ==
    /\ faults < MaxFaults /\ ~At(r, "idle") /\ ~At(r, "hook")
    /\ faults' = faults + 1
    /\ Ends(r)
    /\ UNCHANGED <<session, lastActive, now>>

(* Any other route. *)
Handle(r) ==
    /\ At(r, "handle") /\ request[r].org = None
    /\ Writes(r, [Of(r) EXCEPT !.used = now])
    /\ Ends(r)
    /\ UNCHANGED <<lastActive, now, faults>>

(* PATCH /users/me/active-org: one transaction for the session and the     *)
(* user.                                                                   *)
Switch(r) ==
    /\ At(r, "handle") /\ request[r].org # None
    /\ IF request[r].org \in Member
       THEN /\ Writes(r, [Of(r) EXCEPT !.active = request[r].org, !.used = now])
            /\ lastActive' = request[r].org
            /\ Ends(r)
       ELSE Ends(r) /\ UNCHANGED <<session, lastActive>>
    /\ UNCHANGED <<now, faults>>

(* Devices may stay away for as long as they like. *)
Tick ==
    /\ now < MaxTime /\ \A r \in Requests : At(r, "idle")
    /\ now' = now + 1
    /\ UNCHANGED <<session, lastActive, request, faults>>

Init ==
    /\ session = [d \in Devices |-> None]
    /\ lastActive \in {None} \cup Member
    /\ request = [r \in Requests |-> Idle]
    /\ now = 0 /\ faults = 0

Next ==
    \/ Tick
    \/ \E d \in Devices : SignOut(d)
    \/ \E r \in Requests :
        \/ \E d \in Devices : SignIn(r, d)
        \/ \E call \in Calls : GetSession(r, call[1], call[2])
        \/ ExtendMobile(r) \/ CheckMobile(r) \/ Roll(r) \/ ReadSession(r) \/ ReadUser(r) \/ Adopt(r)
        \/ Fail(r) \/ Handle(r) \/ Switch(r)

Spec == Init /\ [][Next]_vars

-----------------------------------------------------------------------------
(* What the theorems assume of the constants: the server looks once a day   *)
(* at a session that it extends when 30 of its 60 days are left; and        *)
(* BetterAuth, which renews a session for the time of the web's when a      *)
(* seventh of that is gone, would renew none that has 30 days left.         *)
SessionsOK ==
    /\ {Life, Threshold, Interval, Expiry, UpdateAge} \subseteq Nat
    /\ Threshold + Interval <= Life /\ Expiry < Threshold + UpdateAge /\ UpdateAge <= Expiry
    /\ Mobile \subseteq Devices /\ \A call \in Calls : call[1] \in Devices
    /\ None \notin Devices /\ None \notin Member
    /\ None \notin [mobile : BOOLEAN, expires : Nat, updated : Nat, used : Nat,
                    active : Member \cup {None}, away : BOOLEAN]

TypeOK ==
    /\ session \in [Devices -> {None} \cup
          [mobile : BOOLEAN, expires : 0 .. MaxTime + Life, updated : 0 .. now, active : Member \cup {None},
           used : 0 .. now, away : BOOLEAN]]
    /\ lastActive \in Member \cup {None}
    /\ \A r \in Requests : request[r].pc \in
          {"idle", "hook", "check", "roll", "session", "user", "session2", "adopt", "handle"}
    /\ now \in 0 .. MaxTime /\ faults \in 0 .. MaxFaults

(* A mobile session that is used again within the Absence (23 days) is not  *)
(* lost, and keeps the days that let its next absence be as long            *)
(* (authenticate.ts: "extends expiresAt by 60 days").  Of a session that    *)
(* came back later, before it was extended again, nothing is said: it may   *)
(* have come in the days in which BetterAuth renews it first.               *)
MobileStays ==
    \A d \in Devices :
        session[d] # None /\ session[d].mobile /\ ~session[d].away /\ now <= session[d].used + Absence
        => Alive(d)

(* A device that works for an organization goes on to: neither a switch on  *)
(* another device nor the default of the user moves it, only its own switch *)
(* does, or a request that set out when the session had no organization     *)
(* yet, whose adoption overwrites what was set meanwhile (a lost update of  *)
(* authenticate.ts).                                                        *)
SwitchHolds ==
    \A d \in Devices :
        /\ Alive(d) /\ session'[d] # None
        /\ session[d].active # None /\ session'[d].active # session[d].active
        => \E r \in Requests : /\ request[r].device = d
                               /\ Switch(r) \/ (Adopt(r) /\ request[r].had = None)
=============================================================================
