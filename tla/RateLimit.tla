----------------------------- MODULE RateLimit -----------------------------
(***************************************************************************)
(* The sliding-window rate limiter (app/core/ratelimit.py).  For every     *)
(* API key a store keeps the times of the requests it admitted.  An API    *)
(* process uses Redis, where a check is one atomic script, or, if Redis    *)
(* did not answer when it started, a store of its own (app/main.py).       *)
(*                                                                         *)
(* A check is given the time by the process's clock, which may be ahead of *)
(* the others by MaxSkew; Redis drops a key's times by its own clock.      *)
(* Times are in ticks; the wait that a refusal announces is in seconds.    *)
(***************************************************************************)
EXTENDS Integers, FiniteSets

CONSTANTS
    Processes,   \* API processes
    Keys,        \* API keys
    Limited,     \* those whose limit is within reach
    Limit,       \* requests such a key may make in a window
    Window,      \* length of the window
    Second,      \* ticks in a second
    MaxSkew,     \* how far a process's clock may be ahead
    MaxTime,     \* bound: the clock
    None

ASSUME RateLimitAssumption ==
    /\ Limited \subseteq Keys
    /\ {Limit, Window, Second} \subseteq Nat \ {0}
    /\ {MaxSkew, MaxTime} \subseteq Nat
    /\ None \notin Nat

VARIABLES
    clock,
    degraded,   \* the processes that started without Redis
    skew,       \* how far each process's clock is ahead
    hits,       \* per store and key, how many admitted requests carry each time
    expires,    \* when Redis drops the key, or None
    admitted,   \* history: how many requests each store admitted at each time
    told        \* history: when, by the clock it was refused by, the last one may come back

limiter == <<clock, degraded, skew, hits, expires, admitted, told>>

Redis == "redis"
Stores == {Redis} \cup Processes
Times == 0..MaxTime
Stamps == 0..(MaxTime + MaxSkew)
NoHits == [t \in Stamps |-> 0]

LimiterTypeOK ==
    /\ clock \in Times
    /\ degraded \subseteq Processes
    /\ skew \in [Processes -> 0..MaxSkew]
    /\ hits \in [Stores -> [Limited -> [Stamps -> 0..Limit]]]
    /\ expires \in [Limited -> Nat \cup {None}]
    /\ admitted \in [Stores -> [Limited -> [Times -> Nat]]]
    /\ told \in [Stores -> [Limited -> Nat \cup {None}]]

LimiterInit ==
    /\ clock = 0
    /\ degraded \in SUBSET Processes
    /\ skew \in [Processes -> 0..MaxSkew]
    /\ hits = [s \in Stores |-> [k \in Limited |-> NoHits]]
    /\ expires = [k \in Limited |-> None]
    /\ admitted = [s \in Stores |-> [k \in Limited |-> [t \in Times |-> 0]]]
    /\ told = [s \in Stores |-> [k \in Limited |-> None]]

-----------------------------------------------------------------------------

Store(p) == IF p \in degraded THEN p ELSE Redis
Now(p) == clock + skew[p]

\* Mutant: a request that is exactly a window old still counts.
PrunedLate(h, now) == [t \in Stamps |-> IF t < now - Window THEN 0 ELSE h[t]]

\* Mutant: a request leaves the window a tick early.
PrunedEarly(h, now) == [t \in Stamps |-> IF t <= now - Window + 1 THEN 0 ELSE h[t]]

\* What is left after the requests that have left the window are removed.
Pruned(h, now) == [t \in Stamps |-> IF t <= now - Window THEN 0 ELSE h[t]]

\* The requests that carry a time of T, one by one.
HitsAt(h, T) == UNION {{t} \X (1..h[t]) : t \in T}

Used(h) == Cardinality(HitsAt(h, Stamps))
Oldest(h) == CHOOSE t \in Stamps : h[t] > 0 /\ \A u \in Stamps : h[u] > 0 => t <= u

\* The seconds after which the oldest request has left the window, rounded up by the
\* script, and always up to a later one by the store in memory.
reset(s, wait) ==
    IF s = Redis THEN (wait + Second - 1) \div Second ELSE wait \div Second + 1

WouldAdmit(p, k) == Used(Pruned(hits[Store(p)][k], Now(p))) < Limit

Admit(p, k) ==
    IF k \notin Limited THEN UNCHANGED limiter ELSE
    LET s == Store(p)
        left == Pruned(hits[s][k], Now(p))
    IN  /\ WouldAdmit(p, k)
        /\ hits' = [hits EXCEPT ![s][k] = [left EXCEPT ![Now(p)] = @ + 1]]
        /\ expires' = IF s = Redis THEN [expires EXCEPT ![k] = clock + Window] ELSE expires
        /\ admitted' = [admitted EXCEPT ![s][k][clock] = @ + 1]
        /\ told' = [told EXCEPT ![s][k] = None]
        /\ UNCHANGED <<clock, degraded, skew>>

Refuse(p, k) ==
    LET s == Store(p)
        left == Pruned(hits[s][k], Now(p))
    IN  /\ k \in Limited /\ ~WouldAdmit(p, k)
        /\ hits' = [hits EXCEPT ![s][k] = left]
        /\ told' = [told EXCEPT ![s][k] =
              Now(p) + Second * reset(s, Oldest(left) + Window - Now(p))]
        /\ UNCHANGED <<clock, degraded, skew, expires, admitted>>

Tick ==
    /\ clock < MaxTime
    /\ clock' = clock + 1
    /\ expires' = [k \in Limited |-> IF expires[k] = clock' THEN None ELSE expires[k]]
    /\ hits' = [hits EXCEPT ![Redis] =
          [k \in Limited |-> IF expires[k] = clock' THEN NoHits ELSE @[k]]]
    /\ UNCHANGED <<degraded, skew, admitted, told>>

-----------------------------------------------------------------------------
(* Properties. *)

\* However the requests of a key are spread over processes and over the window's edges,
\* no store admits more than the limit in a window, less what the clocks differ by
\* (ratelimit.py:3-8, "uses a sorted set per key so the window genuinely slides").
WindowRespected ==
    \A s \in Stores, k \in Limited, from \in Times :
        Cardinality(HitsAt(admitted[s][k],
                           {t \in Times : from <= t /\ t < from + Window - MaxSkew})) <= Limit

\* A client that was refused and comes back when it was told to is admitted by any
\* process whose clock has come to that time, unless a request of its key has been
\* admitted in between (ratelimit.py:62, Retry-After).
RetryAdmitted ==
    \A p \in Processes, k \in Limited :
        (told[Store(p)][k] # None /\ Now(p) >= told[Store(p)][k]) => WouldAdmit(p, k)
=============================================================================
