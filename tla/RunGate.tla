------------------------------ MODULE RunGate ------------------------------
(***************************************************************************)
(* The gate in front of the invoked runs of packages: runInvoked and       *)
(* acquireRunSlot of lib/sandbox.ts.  A run has a slot from its grant to   *)
(* the end of runInvokedOnce; runs without a slot wait in a bounded queue, *)
(* and the run that ends hands its slot to the head of the queue.          *)
(*                                                                         *)
(* runInvoked looks at the gate and takes its slot, or its place, in one   *)
(* synchronous stretch, and so does the release with the next grant: each  *)
(* is one action.  The limit is a setting that an admin may change at any  *)
(* time.                                                                   *)
(***************************************************************************)
EXTENDS Integers, Sequences, FiniteSets

CONSTANTS
    Runs,       \* calls of POST /apps/:id/run, each used once
    Limits,     \* values of SANDBOX_MAX_CONCURRENT_RUNS, at least 1
    MaxQueue    \* MAX_QUEUE

ASSUME GateAssumption ==
    /\ IsFiniteSet(Runs)
    /\ Limits \subseteq Nat \ {0}
    /\ MaxQueue \in Nat

VARIABLES
    limit,      \* sandboxMaxConcurrent()
    active,     \* activeRuns
    queue,      \* runQueue, the runs whose grants wait
    state,      \* state[r] : what has become of r
    moved       \* history: the limit has been changed

vars == <<limit, active, queue, state, moved>>

TypeOK ==
    /\ limit \in Limits
    /\ active \in Nat
    /\ queue \in Seq(Runs)
    /\ Len(queue) <= MaxQueue
    /\ state \in [Runs -> {"new", "busy", "waiting", "running", "ended"}]
    /\ moved \in BOOLEAN

Init ==
    /\ limit \in Limits
    /\ active = 0
    /\ queue = <<>>
    /\ state = [r \in Runs |-> "new"]
    /\ moved = FALSE

-----------------------------------------------------------------------------
\* Fault: one run too many.
HasSlotInclusive == active <= limit

HasSlot == active < limit

QueueFull == Len(queue) >= MaxQueue

\* 429 SANDBOX_BUSY.
Reject(r) ==
    /\ state[r] = "new"
    /\ ~ HasSlot /\ QueueFull
    /\ state' = [state EXCEPT ![r] = "busy"]
    /\ UNCHANGED <<limit, active, queue, moved>>

\* The entry of the manifest leads out of the package: an error, no slot.
BadEntry(r) ==
    /\ state[r] = "new"
    /\ HasSlot \/ ~ QueueFull
    /\ state' = [state EXCEPT ![r] = "ended"]
    /\ UNCHANGED <<limit, active, queue, moved>>

Start(r) ==
    /\ state[r] = "new"
    /\ HasSlot
    /\ active' = active + 1
    /\ state' = [state EXCEPT ![r] = "running"]
    /\ UNCHANGED <<limit, queue, moved>>

Enqueue(r) ==
    /\ state[r] = "new"
    /\ ~ HasSlot /\ ~ QueueFull
    /\ queue' = Append(queue, r)
    /\ state' = [state EXCEPT ![r] = "waiting"]
    /\ UNCHANGED <<limit, active, moved>>

\* Fault: the counter goes down but nobody is called.
ReleaseOnly(r) ==
    /\ active' = active - 1
    /\ state' = [state EXCEPT ![r] = "ended"]
    /\ UNCHANGED queue

\* The release function: one down, and one up when a grant waits.
Release(r) ==
    \/ /\ queue = <<>>
       /\ active' = active - 1
       /\ state' = [state EXCEPT ![r] = "ended"]
       /\ UNCHANGED queue
    \/ /\ queue # <<>>
       /\ queue' = Tail(queue)
       /\ state' = [state EXCEPT ![r] = "ended", ![Head(queue)] = "running"]
       /\ UNCHANGED active

\* The child closes, cannot be started, or is killed after its 30 s.
End(r) ==
    /\ state[r] = "running"
    /\ Release(r)
    /\ UNCHANGED <<limit, moved>>

\* PUT /admin/settings; nothing looks at the queue.
SetLimit(n) ==
    /\ n # limit
    /\ limit' = n
    /\ moved' = TRUE
    /\ UNCHANGED <<active, queue, state>>

Next ==
    \/ \E r \in Runs : Reject(r) \/ BadEntry(r) \/ Start(r) \/ Enqueue(r) \/ End(r)
    \/ \E n \in Limits : SetLimit(n)

Spec == Init /\ [][Next]_vars

\* runInvokedOnce ends at the latest when its timer kills the child.
FairSpec == Spec /\ \A r \in Runs : WF_vars(End(r))

-----------------------------------------------------------------------------
(* Properties *)

Running == {r \in Runs : state[r] = "running"}
Waiting == {r \in Runs : state[r] = "waiting"}

\* activeRuns is the number of runs that are under way, and the queue holds
\* every waiting run once, however grants, releases and rejections mix: no
\* slot leaks and none is given back twice.
SlotsAreHeld ==
    /\ active = Cardinality(Running)
    /\ {queue[i] : i \in DOMAIN queue} = Waiting
    /\ \A i, j \in DOMAIN queue : queue[i] = queue[j] => i = j

\* Until the limit is moved: no slot is idle while a run waits, so that nobody
\* who arrives later starts before one that waits, and no more runs are under
\* way than the limit says.
GateIsTight ==
    ~ moved => active <= limit /\ (queue # <<>> => active = limit)

\* "FIFO", whatever the admin does to the limit.  Refuted: a run that arrives
\* looks at the counter, not at the queue.
FifoAlways ==
    [][\A r \in Runs : state[r] = "new" /\ state'[r] = "running" => queue = <<>>]_vars

\* Every accepted run ends: whatever the admin does to the limit, nobody waits
\* for a release that cannot come.
EveryRunEnds == \A r \in Runs : state[r] \in {"waiting", "running"} ~> state[r] = "ended"
=============================================================================
