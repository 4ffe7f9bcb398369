------------------------------ MODULE Limiter ------------------------------
(***************************************************************************)
(* The limiter in front of the applications (gateway/limiter.ts): a bucket *)
(* of tokens per user and one per address, filled when they are looked at. *)
(*                                                                         *)
(* A minute has Minute ticks.  Tokens are counted in parts of 1/Minute, so *)
(* that a tick gives a bucket of capacity c exactly c parts; a request     *)
(* takes Minute parts.                                                     *)
(***************************************************************************)
EXTENDS Naturals, FiniteSets

CONSTANTS
    Users, Ips, None,
    Minute,
    Caps,       \* values of RATE_USER_PER_MIN and RATE_IP_PER_MIN
    Full,       \* the number of buckets above which a refusal cleans up
    IdleFor     \* ticks without a request after which a bucket may go

VARIABLES
    cap,        \* the setting, for users and for addresses
    bucket,     \* per key : tokens and ticks since the last look, or None
    above       \* parts a key got above the largest steady rate, by the clock

vars == <<cap, bucket, above>>

Keys == Users \cup Ips
CapMax == CHOOSE c \in Caps : \A d \in Caps : d <= c
Least(x, y) == IF x < y THEN x ELSE y
Minus(x, y) == IF x < y THEN 0 ELSE x - y
Horizon == IdleFor + Minute   \* more ticks than any decision looks back
Bucket == [tokens : 0 .. CapMax * Minute, age : 0 .. Horizon]

\* Five minutes are longer than one, and one setting is the largest.
LimiterAssumption ==
    /\ Users \cap Ips = {} /\ None \notin Users \cup Ips \cup Bucket
    /\ Minute \in Nat \ {0} /\ IdleFor \in Nat /\ IdleFor >= Minute /\ Full \in Nat
    /\ Caps \subseteq Nat \ {0} /\ \E c \in Caps : \A d \in Caps : d <= c

TypeOK ==
    /\ cap \in Caps
    /\ bucket \in [Keys -> Bucket \cup {None}]
    /\ above \in [Keys -> Nat]

Init ==
    /\ cap \in Caps
    /\ bucket = [k \in Keys |-> None]
    /\ above = [k \in Keys |-> 0]

-----------------------------------------------------------------------------
(* allow *)

\* What a bucket holds when it is looked at; a new one is full.
\* Fault: nothing limits what a bucket gathers while nobody asks.
Gathered(k) ==
    IF bucket[k] = None THEN cap * Minute ELSE bucket[k].tokens + bucket[k].age * cap

Refilled(k) ==
    IF bucket[k] = None THEN cap * Minute
    ELSE Least(cap * Minute, bucket[k].tokens + bucket[k].age * cap)

Allows(k) == Refilled(k) >= Minute

Looked(b, k) ==
    [b EXCEPT ![k] = [tokens |-> IF Allows(k) THEN Refilled(k) - Minute ELSE Refilled(k), age |-> 0]]

\* cleanup, after a refusal: what is stored is compared, not what it would
\* hold by now.
Cleaned(b, K) ==
    IF Cardinality({k \in K : b[k] # None}) > Full
    THEN [k \in Keys |-> IF k \in K /\ b[k] # None
                            /\ b[k].tokens >= cap * Minute /\ b[k].age > IdleFor
                         THEN None ELSE b[k]]
    ELSE b

\* allowRequest: the user, if there is one, then the address.
Ask(u, ip) ==
    /\ UNCHANGED cap
    /\ \/ /\ u # None /\ ~ Allows(u)
          /\ bucket' = Cleaned(Looked(bucket, u), Users)
          /\ UNCHANGED above
       \/ /\ u # None => Allows(u)
          /\ LET b == IF u = None THEN bucket ELSE Looked(bucket, u)
                 paid == (IF u = None THEN {} ELSE {u}) \cup (IF Allows(ip) THEN {ip} ELSE {})
             IN  /\ bucket' = IF Allows(ip) THEN Looked(b, ip) ELSE Cleaned(Looked(b, ip), Ips)
                 /\ above' = [k \in Keys |-> IF k \in paid THEN above[k] + Minute ELSE above[k]]

-----------------------------------------------------------------------------
Tick ==
    /\ bucket' = [k \in Keys |->
                    IF bucket[k] = None THEN None
                    ELSE [bucket[k] EXCEPT !.age = Least(Horizon, @ + 1)]]
    /\ above' = [k \in Keys |-> Minus(above[k], CapMax)]
    /\ UNCHANGED cap

\* An administrator saves the settings.
SetCap(c) == c # cap /\ cap' = c /\ UNCHANGED <<bucket, above>>

Next ==
    \/ \E u \in Users \cup {None}, ip \in Ips : Ask(u, ip)
    \/ \E c \in Caps : SetCap(c)
    \/ Tick

Spec == Init /\ [][Next]_vars

-----------------------------------------------------------------------------
(* Properties *)

\* However requests, refusals, cleanings and changes of the setting fall: in
\* no stretch of time does a key get more than a full bucket above the rate
\* at which the largest setting fills it (limiter.ts:24-48).
BurstBounded == \A k \in Keys : above[k] <= CapMax * Minute

\* "idle for long: cleaned" (limiter.ts:45): of too many buckets a cleanup
\* takes those that nobody used for long and that are full again.  Refuted: it
\* looks at what is stored, which no refill has reached since the last use.
CleanupFrees ==
    \A K \in {Users, Ips} :
        Cardinality({k \in K : bucket[k] # None}) > Full =>
            \A k \in K : bucket[k] # None /\ bucket[k].age > IdleFor /\ Refilled(k) = cap * Minute
                            => Cleaned(bucket, K)[k] = None
=============================================================================
