--------------------------- MODULE MCMemberships ---------------------------
(* Instances of Memberships for TLC: two managers of an organization whose  *)
(* requests remove or demote the other one, or promote a member.            *)
EXTENDS Memberships, TLC

CONSTANTS userA, userB, userC

Ask(kind, caller, u, role) == [kind |-> kind, caller |-> caller, user |-> u, project |-> None, role |-> role]

MCCalls ==
    {Ask("remove", userA, userB, None), Ask("remove", userB, userA, None),
     Ask("role", userA, userB, "Org Member"), Ask("role", userB, userA, "Org Member"),
     Ask("remove", userB, userC, None), Ask("role", userA, userC, "Org Manager")}
MCInitially == {{Member(userA), Manager(userA), Member(userB), Manager(userB), Member(userC)}}

RequestSymmetry == Permutations(Requests)
=============================================================================
