----------------------------- MODULE RateLimiter -----------------------------
(***************************************************************************)
(* The fixed window limiter of the routes that need no session.  A process *)
(* keeps the clients' buckets in a Map, which lists its keys in the order  *)
(* of their insertion: a bucket that is renewed in place keeps its turn.    *)
(***************************************************************************)
EXTENDS Naturals, FiniteSets, Sequences, SequencesExt

CONSTANTS
    Clients,      \* addresses; those that cannot be told apart are one
    Limit,        \* max of the route
    Window,       \* windowMs
    MaxBuckets,   \* RATE_LIMIT_MAX_BUCKETS
    MaxTime       \* bound on the clock

VARIABLES
    buckets,      \* [client, count, resetAt], the oldest insertion first
    now,
    evicted,      \* the clients that lost a bucket before its end
    admitted      \* the times at which each of the others was let through

vars == <<buckets, now, evicted, admitted>>

Bucket == [client : Clients, count : 1 .. Limit, resetAt : 1 .. MaxTime + Window]

Live(bucket) == bucket.resetAt > now
Tracked == {buckets[i].client : i \in DOMAIN buckets}
BucketOf(c) == buckets[CHOOSE i \in DOMAIN buckets : buckets[i].client = c]

(* The buckets whose window has not ended, in their order.                  *)
Kept ==
    LET live == {i \in DOMAIN buckets : Live(buckets[i])}
        turn(i) == Cardinality({j \in live : j <= i})
    IN [n \in 1 .. Cardinality(live) |-> buckets[CHOOSE i \in live : turn(i) = n]]

(* Mutant of Room: the buckets of the clients that come back stay.          *)
RoomKeepingAll == buckets
(* Mutant of Room: evicts before it has looked for what is expired.         *)
RoomEvicting ==
    IF Len(buckets) < MaxBuckets THEN buckets ELSE SubSeq(buckets, Len(buckets) - MaxBuckets + 2, Len(buckets))

(* Room for one more bucket: the expired ones go first, all of them, and    *)
(* then those that were inserted first, whatever is left of their window.   *)
Room ==
    IF Len(buckets) < MaxBuckets THEN buckets
    ELSE IF Len(Kept) < MaxBuckets THEN Kept ELSE SubSeq(Kept, Len(Kept) - MaxBuckets + 2, Len(Kept))

(* Map.set: an entry with the key keeps its place.                          *)
Put(table, bucket) ==
    IF \E i \in DOMAIN table : table[i].client = bucket.client
    THEN [i \in DOMAIN table |-> IF table[i].client = bucket.client THEN bucket ELSE table[i]]
    ELSE Append(table, bucket)

Admits(c) ==
    admitted' = [d \in Clients |->
        IF d \in evicted' THEN <<>> ELSE IF d = c THEN Append(admitted[d], now) ELSE admitted[d]]

(* A first request, or one after the window. *)
Opens(c) ==
    /\ c \in Tracked => ~Live(BucketOf(c))
    /\ buckets' = Put(Room, [client |-> c, count |-> 1, resetAt |-> now + Window])
    /\ evicted' = evicted \cup {b.client : b \in {x \in Range(buckets) : Live(x)} \ Range(Room)}
    /\ Admits(c)

Counts(c) ==
    /\ c \in Tracked /\ Live(BucketOf(c)) /\ BucketOf(c).count < Limit
    /\ buckets' = Put(buckets, [BucketOf(c) EXCEPT !.count = @ + 1])
    /\ UNCHANGED evicted
    /\ Admits(c)

(* 429.  That the client has been told to wait is not remembered.          *)
Refuses(c) ==
    /\ c \in Tracked /\ Live(BucketOf(c)) /\ BucketOf(c).count >= Limit
    /\ UNCHANGED <<buckets, evicted, admitted>>

Tick == now < MaxTime /\ now' = now + 1 /\ UNCHANGED <<buckets, evicted, admitted>>

Init == buckets = <<>> /\ now = 0 /\ admitted = [c \in Clients |-> <<>>] /\ evicted = {}

Next ==
    \/ Tick
    \/ UNCHANGED now /\ \E c \in Clients : Opens(c) \/ Counts(c) \/ Refuses(c)

Spec == Init /\ [][Next]_vars

-----------------------------------------------------------------------------
(* What the theorems assume of the constants. *)
LimitsOK == Limit \in Nat \ {0} /\ Window \in Nat \ {0} /\ MaxBuckets \in Nat \ {0} /\ MaxTime \in Nat

TypeOK ==
    /\ Range(buckets) \subseteq Bucket /\ Len(buckets) <= MaxBuckets
    /\ now \in 0 .. MaxTime
    /\ \A c \in Clients : Range(admitted[c]) \subseteq 0 .. now
    /\ evicted \subseteq Clients

(* Whatever other clients come, no more than two windows' worth of requests *)
(* of a client gets through in any span of a window, unless its bucket had  *)
(* to give way (rate-limit.ts: "per client within one window"); and a       *)
(* bucket gives way only while as many clients as the table can hold are in *)
(* the middle of theirs.                                                    *)
Limited ==
    \A c \in Clients \ evicted : \A i \in DOMAIN admitted[c] :
        i + 2 * Limit \in DOMAIN admitted[c] => admitted[c][i + 2 * Limit] - admitted[c][i] >= Window
EvictsWhenFull ==
    \A c \in evicted' \ evicted : Cardinality({d \in Tracked : Live(BucketOf(d))}) = MaxBuckets
=============================================================================
