------------------------------- MODULE Health -------------------------------
(***************************************************************************)
(* The state that the portal shows of each application (gateway/health.ts):*)
(* a round every thirty seconds, whether or not the one before has ended,  *)
(* each with the list of applications that it read when it began, one      *)
(* application after the other, and what it found written last.            *)
(***************************************************************************)
EXTENDS Naturals, Sequences

CONSTANTS
    Order,      \* listApps: the applications, in their order
    Upstream,   \* those behind an address; the others are persistent packages
    Rounds      \* rounds that can overlap

VARIABLES
    enabled,
    world,      \* an address: "up", "down" or "hung"; a package: "up" or "down"
    health,     \* apps.healthState
    round       \* where a round stands, what it has seen of its application

vars == <<enabled, world, health, round>>

Apps == {Order[i] : i \in DOMAIN Order}
Idle == [at |-> 0, on |-> {}, seen |-> "none"]

HealthAssumption == Upstream \subseteq Apps

TypeOK ==
    /\ enabled \subseteq Apps
    /\ world \in [Apps -> {"up", "down", "hung"}]
    /\ health \in [Apps -> {"ok", "down", "unknown"}]
    /\ round \in [Rounds -> [at : 0 .. Len(Order), on : SUBSET Apps,
                             seen : {"none", "up", "down", "hung"}]]

Init ==
    /\ enabled = Apps
    /\ world = [a \in Apps |-> "down"]
    /\ health = [a \in Apps |-> "unknown"]
    /\ round = [r \in Rounds |-> Idle]

-----------------------------------------------------------------------------
App(r) == Order[round[r].at]
Busy(r) == round[r].at > 0

\* On to the next application, or the end of the round.
Onward(r) ==
    round' = [round EXCEPT ![r] = IF @.at = Len(Order) THEN Idle
                                  ELSE [@ EXCEPT !.at = @ + 1, !.seen = "none"]]

Writes(r, s) ==
    /\ health' = [health EXCEPT ![App(r)] = s]
    /\ Onward(r)
    /\ UNCHANGED <<enabled, world>>

\* startHealthLoop
StartRound(r) ==
    /\ ~ Busy(r)
    /\ round' = [round EXCEPT ![r] = [at |-> 1, on |-> enabled, seen |-> "none"]]
    /\ UNCHANGED <<enabled, world, health>>

\* probeAll: what was disabled when the round began is left as it is.
Skip(r) ==
    /\ Busy(r) /\ App(r) \notin round[r].on
    /\ Onward(r)
    /\ UNCHANGED <<enabled, world, health>>

\* A package has a process, or has not been started, or was recycled.
Look(r) ==
    /\ Busy(r) /\ App(r) \in round[r].on \ Upstream
    /\ Writes(r, IF world[App(r)] = "up" THEN "ok" ELSE "unknown")

\* probeOne: the request is with the address, which answers or does not.
Probe(r) ==
    /\ Busy(r) /\ App(r) \in round[r].on \cap Upstream /\ round[r].seen = "none"
    /\ round' = [round EXCEPT ![r].seen = world[App(r)]]
    /\ UNCHANGED <<enabled, world, health>>

\* Fault: a request without an answer is waited for.
FoundNoTimer(r) ==
    /\ Busy(r) /\ round[r].seen \in {"up", "down"}
    /\ Writes(r, IF round[r].seen = "up" THEN "ok" ELSE "down")

\* Its answer has come; five seconds without one are one that is none.
Found(r) ==
    /\ Busy(r) /\ round[r].seen # "none"
    /\ Writes(r, IF round[r].seen = "up" THEN "ok" ELSE "down")

-----------------------------------------------------------------------------
Turns(a, w) ==
    /\ w # world[a] /\ (a \notin Upstream => w # "hung")
    /\ world' = [world EXCEPT ![a] = w]
    /\ UNCHANGED <<enabled, health, round>>

Switch(a) ==
    /\ enabled' = IF a \in enabled THEN enabled \ {a} ELSE enabled \cup {a}
    /\ UNCHANGED <<world, health, round>>

Next ==
    \/ \E r \in Rounds : StartRound(r) \/ Skip(r) \/ Look(r) \/ Probe(r) \/ Found(r)
    \/ \E a \in Apps, w \in {"up", "down", "hung"} : Turns(a, w)
    \/ \E a \in Apps : Switch(a)

Step(r) == StartRound(r) \/ Skip(r) \/ Look(r) \/ Probe(r) \/ Found(r)
Spec == Init /\ [][Next]_vars
FairSpec == Spec /\ \A r \in Rounds : WF_vars(Step(r))

-----------------------------------------------------------------------------
(* Properties *)

Shown(a) == IF world[a] = "up" THEN "ok" ELSE IF a \in Upstream THEN "down" ELSE "unknown"

\* When an application stops changing, what is shown of it is right in the
\* end and stays right, although rounds overlap and the older may write last.
HealthConverges ==
    \A a \in Apps :
        \A w \in {"up", "down", "hung"} :
            <>[](a \in enabled /\ world[a] = w) => <>[](world[a] = w /\ health[a] = Shown(a))
=============================================================================
