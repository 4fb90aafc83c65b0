------------------------------ MODULE RateLimit ------------------------------
(***************************************************************************)
(* The burst limits (services/ratelimit.py): token buckets in the memory   *)
(* of one process, one per key of each limiter, and the way the endpoints  *)
(* consult them - queries and uploads stop at the first bucket that is     *)
(* empty, sign-in attempts pay at every bucket.                            *)
(*                                                                         *)
(* A token is Minute units, so that a second refills Rate[limiter] units   *)
(* and the arithmetic is exact; the code's floats round.                   *)
(***************************************************************************)
EXTENDS Integers, Sequences, FiniteSets

CONSTANTS
    Limiter, Rate,     \* the limiters, and their tokens per minute
    Minute,            \* seconds per minute; 60 in the code
    Requests,          \* [limiter, keys, all]: the buckets a request asks, in order,
                       \* and whether it asks all of them whatever they say
    Horizon, MaxAsks   \* bounds: seconds that pass, answers of buckets recorded

ASSUME RateLimitSizes == /\ Rate \in [Limiter -> Int] /\ Minute \in Nat \ {0}
                         /\ Horizon \in Nat /\ MaxAsks \in Nat
\* A request names its buckets, each once: an account, an address, a network.
ASSUME RequestsNameBuckets ==
    \A r \in Requests :
        /\ r.limiter \in Limiter /\ r.all \in BOOLEAN
        /\ Len(r.keys) \in Nat \ {0} /\ DOMAIN r.keys = 1 .. Len(r.keys)
        /\ \A m, n \in DOMAIN r.keys : r.keys[m] = r.keys[n] => m = n

VARIABLES
    clock,      \* time.monotonic, in seconds
    buckets,    \* [limiter, key, tokens, updated]: the buckets there are
    answers     \* what the buckets of this process said: [limiter, key, time, granted]

limits == <<clock, buckets, answers>>

RateLimitInit == clock = 0 /\ buckets = {} /\ answers = <<>>

-----------------------------------------------------------------------------
BucketOf(limiter, key) == {b \in buckets : b.limiter = limiter /\ b.key = key}
Capacity(limiter) == Rate[limiter] * Minute
Least(a, b) == IF a < b THEN a ELSE b

\* A version without a cap.
RefilledForever(b) == b.tokens + (clock - b.updated) * Rate[b.limiter]

Refilled(b) == Least(Capacity(b.limiter), b.tokens + (clock - b.updated) * Rate[b.limiter])

\* What allow(key) says; a limit that is not positive is none.
Allows(limiter, key) ==
    \/ Rate[limiter] <= 0
    \/ \A b \in BucketOf(limiter, key) : Refilled(b) >= Minute

\* A bucket is made full, less the token of who made it; one that is there is
\* filled up to now and pays, if it can.
Made(limiter, key) ==
    [limiter |-> limiter, key |-> key, tokens |-> Capacity(limiter) - Minute, updated |-> clock]
Asked(b) ==
    [b EXCEPT !.updated = clock,
              !.tokens = Refilled(b) - (IF Refilled(b) >= Minute THEN Minute ELSE 0)]

\* What allow(key) leaves behind.
After(limiter, key) ==
    IF BucketOf(limiter, key) = {} THEN {Made(limiter, key)} ELSE {Asked(b) : b \in BucketOf(limiter, key)}

\* The keys a request gets to: a short circuit stops at the first refusal.
Consulted(r) ==
    {n \in DOMAIN r.keys : r.all \/ \A m \in 1 .. n - 1 : Allows(r.limiter, r.keys[m])}

\* A request asks its buckets; a limit that is off keeps none.
Consult ==
    \E r \in Requests :
        LET asked == {r.keys[n] : n \in Consulted(r)}
            last == CHOOSE n \in Consulted(r) : \A m \in Consulted(r) : m <= n
        IN  /\ Rate[r.limiter] > 0 /\ Len(answers) + last <= MaxAsks
            /\ buckets' = {b \in buckets : ~(b.limiter = r.limiter /\ b.key \in asked)}
                            \cup UNION {After(r.limiter, k) : k \in asked}
            /\ answers' = answers \o [n \in 1 .. last |->
                    [limiter |-> r.limiter, key |-> r.keys[n], time |-> clock,
                     granted |-> Allows(r.limiter, r.keys[n])]]
            /\ UNCHANGED clock

Second == clock < Horizon /\ clock' = clock + 1 /\ UNCHANGED <<buckets, answers>>

\* reset(), or a new process.
Reset == buckets # {} /\ buckets' = {} /\ answers' = <<>> /\ UNCHANGED clock

RateLimitNext == Consult \/ Second \/ Reset

-----------------------------------------------------------------------------
\* The limiter is exactly its promise, for every key by itself: a token is
\* granted if and only if no stretch of time up to now then holds more grants
\* than a full burst and what that stretch refills.  So a refusal, one's own
\* other keys, idle time beyond a minute and the order of the requests neither
\* lend a token nor cost one.  (The promise is a process's: Reset forgets it.)
GrantedUpTo(n, m) ==
    {j \in m .. n : /\ answers[j].limiter = answers[n].limiter /\ answers[j].key = answers[n].key
                    /\ answers[j].granted \/ j = n}

BucketExact ==
    \A n \in DOMAIN answers :
        answers[n].granted <=>
            \A m \in GrantedUpTo(n, 1) :
                Cardinality(GrantedUpTo(n, m)) * Minute
                    <= Capacity(answers[n].limiter)
                        + (answers[n].time - answers[m].time) * Rate[answers[n].limiter]
=============================================================================
