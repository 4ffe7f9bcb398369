--------------------------- MODULE PersistentPool ---------------------------
(***************************************************************************)
(* The long-running processes of persistent packages: ensurePersistent and *)
(* its relatives in lib/sandbox.ts, with the handlers that call them.      *)
(*                                                                         *)
(* ensurePersistent awaits freePort() between its look at the map and the  *)
(* spawn; whatever else happens in the server happens in that gap.  Every  *)
(* other operation on the map runs without an await.  The processes live   *)
(* outside: a SIGTERM is not an exit, and an exit is only noticed when its *)
(* event is handled.                                                       *)
(*                                                                         *)
(*   persistent : Map    -> entry[a], the process registered for app a     *)
(*   lastUsed            -> proc[q].age, ticks since the last visit, up to *)
(*                          Idle + 1; processes older than that count as   *)
(*                          equally old                                    *)
(*   env, fixed at spawn -> proc[q].env, "stale" when it is older than what *)
(*                          was saved, "half" after a save that failed     *)
(*                                                                         *)
(* That a visit waits up to ten seconds for the port to answer changes no  *)
(* state and is left out.                                                  *)
(***************************************************************************)
EXTENDS Integers, FiniteSets

CONSTANTS
    Apps,       \* persistent packages
    Procs,      \* bound: processes that exist, or are asked for, at a time
    Calls,      \* bound: calls of ensurePersistent in their gap
    None,       \* no process, no call
    Limits,     \* values of SANDBOX_MAX_PERSISTENT, at least 1
    Idle,       \* SANDBOX_IDLE_RECYCLE_SECONDS, in ticks
    MaxRestarts,\* MAX_RESTARTS
    Stops       \* may the server be shut down?

ASSUME PoolAssumption ==
    /\ IsFiniteSet(Apps) /\ IsFiniteSet(Procs) /\ IsFiniteSet(Calls)
    /\ None \notin Procs
    /\ Limits \subseteq Nat \ {0}
    /\ Idle \in Nat \ {0}
    /\ MaxRestarts \in Nat
    /\ Stops \in BOOLEAN

VARIABLES
    entry,      \* entry[a] : the process registered for a
    proc,       \* proc[q] : what the process q is
    call,       \* call[c] : a call of ensurePersistent that awaits its port
    limit,      \* persistentMax()
    phase       \* the server: "up", "closing" after a signal, "gone"

vars == <<entry, proc, call, limit, phase>>

Process == [app : Apps,
            st : {"up", "term", "unborn"},  \* SIGTERM sent; could not be spawned
            age : 0 .. Idle + 1,
            restarts : 0 .. MaxRestarts,
            env : {"fresh", "half", "stale"},
            line : Nat]     \* history: the restarts since a visit asked for it
Waiting == [app : Apps, restarts : 0 .. MaxRestarts, line : Nat]

\* "None" is neither.
ASSUME NoneAssumption == None \notin Process \cup Waiting

TypeOK ==
    /\ entry \in [Apps -> Procs \cup {None}]
    /\ proc \in [Procs -> Process \cup {None}]
    /\ call \in [Calls -> Waiting \cup {None}]
    /\ limit \in Limits
    /\ phase \in {"up", "closing", "gone"}

Init ==
    /\ entry = [a \in Apps |-> None]
    /\ proc = [q \in Procs |-> None]
    /\ call = [c \in Calls |-> None]
    /\ limit \in Limits
    /\ phase = "up"

Registered == {entry[a] : a \in Apps} \ {None}

Exists(q) == proc[q] # None

NewProcess(a, st, restarts, line) ==
    [app |-> a, st |-> st, age |-> 0, restarts |-> restarts, env |-> "fresh", line |-> line]

\* kill('SIGTERM'); there is nothing to kill when the spawn had failed.  The
\* rest of a process that was stopped matters to nobody any more.
Killed(p) == IF p.st = "unborn" THEN None ELSE NewProcess(p.app, "term", 0, 0)

\* Entries and processes after those in S were stopped and unregistered.
EntriesWithout(S) == [a \in Apps |-> IF entry[a] \in S THEN None ELSE entry[a]]
ProcsWithout(S) == [q \in Procs |-> IF q \in S THEN Killed(proc[q]) ELSE proc[q]]

-----------------------------------------------------------------------------
(* ensurePersistent *)

Touch(a) == proc' = [proc EXCEPT ![entry[a]].age = 0]

\* A request or an upgrade for a, which has a process.
VisitRunning(a) ==
    /\ phase = "up"
    /\ entry[a] # None
    /\ Touch(a)
    /\ UNCHANGED <<entry, call, limit, phase>>

\* Bound: there is a process left for every call in its gap and one more.
ProcLeft ==
    Cardinality({q \in Procs : Exists(q)}) + Cardinality({c \in Calls : call[c] # None})
        < Cardinality(Procs)

\* ... and for a that has none: the call goes and gets a port.
VisitFirst(a, c) ==
    /\ phase = "up"
    /\ entry[a] = None
    /\ call[c] = None /\ ProcLeft
    /\ call' = [call EXCEPT ![c] = [app |-> a, restarts |-> 0, line |-> 0]]
    /\ UNCHANGED <<entry, proc, limit, phase>>

\* Fault: no second look after the await.
RacedNever(a) == FALSE

\* Somebody else has started a in the gap.
Raced(a) == entry[a] # None

\* Fault: an off-by-one limit.
HasRoomInclusive(S) == Cardinality(Registered \ S) <= limit

HasRoom(S) == Cardinality(Registered \ S) < limit

\* makeRoomForPersistent: the processes it may stop, one or none.
Evictions ==
    IF HasRoom({}) THEN {{}}
    ELSE {{q} : q \in {p \in Registered : \A o \in Registered : proc[o].age <= proc[p].age}}

\* The spawn, after the processes in S made room; st tells whether it works.
Spawn(c, S, q, st) ==
    /\ ~ Exists(q)
    /\ entry' = [EntriesWithout(S) EXCEPT ![call[c].app] = q]
    /\ proc' = [ProcsWithout(S) EXCEPT ![q] =
                    NewProcess(call[c].app, st, call[c].restarts, call[c].line)]

\* Too many are left although one was stopped: 503.
NoRoom(S) ==
    /\ entry' = EntriesWithout(S)
    /\ proc' = ProcsWithout(S)

\* The port has come.
Resume(c) ==
    /\ phase # "gone"
    /\ call[c] # None
    /\ LET a == call[c].app IN
       \/ Raced(a) /\ Touch(a) /\ UNCHANGED entry
       \/ /\ ~ Raced(a)
          /\ \E S \in Evictions :
               \/ ~ HasRoom(S) /\ NoRoom(S)
               \/ /\ HasRoom(S)
                  /\ \E q \in Procs, st \in {"up", "unborn"} : Spawn(c, S, q, st)
    /\ call' = [call EXCEPT ![c] = None]
    /\ UNCHANGED <<limit, phase>>

\* entry_.restarts++, inherited by the next process.
RestartsAfter(n) == n + 1

MayRestart(n) == n < MaxRestarts

\* The handler only cleans up its own entry.
Mine(q) == entry[proc[q].app] = q

\* A process ends by itself or by the signal.  One that is still registered
\* has crashed, and is started again up to MAX_RESTARTS times.
Exit(q) ==
    /\ Exists(q) /\ proc[q].st # "unborn"
    /\ proc' = [proc EXCEPT ![q] = None]
    /\ \/ /\ phase = "gone" \/ ~ Mine(q)
          /\ UNCHANGED <<entry, call>>
       \/ /\ phase # "gone" /\ Mine(q)
          /\ entry' = [entry EXCEPT ![proc[q].app] = None]
          /\ \/ /\ MayRestart(proc[q].restarts)
                /\ \E c \in Calls :
                     /\ call[c] = None
                     /\ call' = [call EXCEPT ![c] =
                                    [app |-> proc[q].app,
                                     restarts |-> RestartsAfter(proc[q].restarts),
                                     line |-> proc[q].line + 1]]
             \/ /\ ~ MayRestart(proc[q].restarts)
                /\ UNCHANGED call
    /\ UNCHANGED <<limit, phase>>

-----------------------------------------------------------------------------
(* Those who stop processes *)

\* stopPersistentFor, stopAllPersistent and the idle loop.
Stop(S) ==
    /\ entry' = EntriesWithout(S)
    /\ proc' = ProcsWithout(S)

\* Fault: an app whose process could not be spawned is passed over.
TooOldBorn(q) == proc[q].age > Idle /\ proc[q].st # "unborn"

TooOld(q) == proc[q].age > Idle

\* The idle loop, once per minute.
IdleRecycle ==
    LET old == {q \in Registered : TooOld(q)} IN
    /\ phase # "gone"
    /\ old # {}
    /\ Stop(old)
    /\ UNCHANGED <<call, limit, phase>>

\* The processes of A that were started with the old values.
Outdated(A, q) == Exists(q) /\ proc[q].app \in A /\ proc[q].st # "term"
ProcsOutdated(A, S, how) ==
    [q \in Procs |-> IF q \in S THEN Killed(proc[q])
                     ELSE IF Outdated(A, q) THEN [proc[q] EXCEPT !.env = how] ELSE proc[q]]

\* Fault: the processes go on.
SaveOnly(A) == proc' = ProcsOutdated(A, {}, "stale") /\ UNCHANGED entry

\* What the apps in A read at their next start has changed, and they are
\* stopped, as far as the map knows them: PUT /apps/:id/env, a new passUser, a
\* new AAP_SIGN_SECRET.
SaveAndStop(A) ==
    LET S == {entry[a] : a \in A} \ {None} IN
    /\ entry' = EntriesWithout(S)
    /\ proc' = ProcsOutdated(A, S, "stale")

Save(A) ==
    /\ phase = "up"
    /\ SaveAndStop(A)
    /\ UNCHANGED <<call, limit, phase>>

\* The values are saved one by one: an unknown or malformed one throws, and
\* those before it are saved without the stop.
SaveHalf(A) ==
    /\ phase = "up"
    /\ proc' = ProcsOutdated(A, {}, "half")
    /\ UNCHANGED <<entry, call, limit, phase>>

SetLimit(n) ==
    /\ phase = "up"
    /\ limit' = n
    /\ UNCHANGED <<entry, proc, call, phase>>

\* Time passes.
Tick ==
    /\ \E q \in Registered : proc[q].age <= Idle
    /\ proc' = [q \in Procs |-> IF q \in Registered /\ proc[q].age <= Idle
                                THEN [proc[q] EXCEPT !.age = @ + 1] ELSE proc[q]]
    /\ UNCHANGED <<entry, call, limit, phase>>

\* SIGTERM or SIGINT: stopAllPersistent, while open requests go on.
Shutdown ==
    /\ Stops
    /\ phase = "up"
    /\ phase' = "closing"
    /\ Stop(Registered)
    /\ UNCHANGED <<call, limit>>

\* process.exit, when the requests are done and after ten seconds at most.
ServerExits ==
    /\ phase = "closing"
    /\ phase' = "gone"
    /\ entry' = [a \in Apps |-> None]
    /\ call' = [c \in Calls |-> None]
    /\ UNCHANGED <<proc, limit>>

Next ==
    \/ \E a \in Apps :
         \/ VisitRunning(a)
         \/ \E c \in Calls : VisitFirst(a, c)
    \/ \E c \in Calls : Resume(c)
    \/ \E q \in Procs : Exit(q)
    \/ IdleRecycle
    \/ \E A \in {{a} : a \in Apps} \cup {Apps} : Save(A) \/ SaveHalf(A)
    \/ \E n \in Limits : SetLimit(n)
    \/ Tick
    \/ Shutdown
    \/ ServerExits

Spec == Init /\ [][Next]_vars

\* Time passes, the idle loop is a setInterval, a port is found, and a
\* process ends when it is told to.
Fairness ==
    /\ WF_vars(Tick)
    /\ WF_vars(IdleRecycle)
    /\ \A c \in Calls : WF_vars(Resume(c))
    /\ \A q \in Procs : WF_vars(Exit(q) /\ proc[q].st = "term")

FairSpec == Spec /\ Fairness

-----------------------------------------------------------------------------
(* Properties *)

\* The map of processes is exact: what is registered for an app is a process
\* of that app that was not told to stop, and every process that runs and was
\* not told to stop is registered, so that it can be found again, counted and
\* recycled; no app has two.  First visits, crashes, restarts, evictions and
\* stops may overlap in any way.
RegistryIsExact ==
    /\ \A a \in Apps : entry[a] # None =>
           Exists(entry[a]) /\ proc[entry[a]].app = a /\ proc[entry[a]].st # "term"
    /\ phase # "gone" =>
           \A q \in Procs : Exists(q) /\ proc[q].st # "term" => entry[proc[q].app] = q

\* The upper bound on processes (SANDBOX_MAX_PERSISTENT): none is registered
\* beyond it, although calls that run concurrently each check it before they
\* start one, and an admin may have lowered it below what runs.
StartsWithinLimit ==
    [][\A q \in Procs : q \in Registered' \ Registered => Cardinality(Registered') <= limit]_vars

\* A package that keeps crashing is restarted at most MAX_RESTARTS times for
\* each time that a visit started it, although every restart is a process
\* and an entry of its own.
CrashLoopEnds == \A q \in Procs : Exists(q) => proc[q].line <= MaxRestarts

\* Neither overlapping starts nor crashes multiply the processes.
ProcessesAreBounded == StartsWithinLimit /\ []CrashLoopEnds

\* After its configuration was saved, every process of an app that was not
\* told to stop was started with the new one, even when starts, crashes and
\* restarts were under way meanwhile: the stop finds all of them in the map.
FreshEnvironment ==
    \A q \in Procs : Exists(q) /\ proc[q].st # "term" => proc[q].env # "stale"

\* The same for every value that was stored.  Refuted: a save of several
\* values that fails at one of them keeps those before it, without the stop.
StoredIsUsed ==
    \A a \in Apps : entry[a] # None => proc[entry[a]].env = "fresh"

\* server.ts: the processes are children and have to be stopped explicitly,
\* so none that was not told to stop outlives the server.
NoOrphans ==
    phase = "gone" => \A q \in Procs : Exists(q) => proc[q].st # "up"

\* What nobody visits is recycled: again and again every app is without a
\* process or has just been visited or started.  An app whose process could
\* not be spawned gets another chance.
IdleIsRecycled ==
    \A a \in Apps : []<>(entry[a] = None \/ proc[entry[a]].age = 0)
=============================================================================
