------------------------ MODULE PersistentPoolProofs ------------------------
(***************************************************************************)
(* Theorems about PersistentPool, for any number of packages, processes    *)
(* and calls, any limits and any MAX_RESTARTS.                             *)
(*                                                                         *)
(* That the map is exact holds by itself once the server that is gone has  *)
(* no map; that no process runs with outdated values rests on it, since a  *)
(* save stops what the map knows.  The crash loop ends because a restart   *)
(* inherits the count of the process it follows.                           *)
(***************************************************************************)
EXTENDS PersistentPool, TLAPS, FiniteSetTheorems

\* A server that is gone knows no process.
GoneIsEmpty == phase = "gone" => \A a \in Apps : entry[a] = None

\* The count of restarts is the length of the line of crashes.
LinesCounted ==
    /\ \A q \in Procs : proc[q] # None => proc[q].line = proc[q].restarts
    /\ \A c \in Calls : call[c] # None => call[c].line = call[c].restarts

\* The inductive invariant.
IInv == TypeOK /\ GoneIsEmpty /\ RegistryIsExact /\ LinesCounted /\ FreshEnvironment

\* Its part that is about the map and the processes.
ProcInv ==
    /\ entry \in [Apps -> Procs \cup {None}]
    /\ proc \in [Procs -> Process \cup {None}]
    /\ GoneIsEmpty
    /\ RegistryIsExact
    /\ \A q \in Procs : proc[q] # None => proc[q].line = proc[q].restarts
    /\ FreshEnvironment

\* ... and the part about calls, limit and phase.
CallInv ==
    /\ call \in [Calls -> Waiting \cup {None}]
    /\ limit \in Limits
    /\ phase \in {"up", "closing", "gone"}
    /\ \A c \in Calls : call[c] # None => call[c].line = call[c].restarts

-----------------------------------------------------------------------------
(* Types *)

\* What the model writes into proc.
LEMMA ProcessTypes ==
    /\ \A a \in Apps, st \in {"up", "term", "unborn"}, n \in 0 .. MaxRestarts, line \in Nat :
          NewProcess(a, st, n, line) \in Process
    /\ \A p \in Process : Killed(p) \in Process \cup {None}
    /\ \A p \in Process, how \in {"fresh", "half", "stale"} : [p EXCEPT !.env = how] \in Process
    /\ \A p \in Process, n \in 0 .. Idle + 1 : [p EXCEPT !.age = n] \in Process
<1> USE PoolAssumption
<1>1. ASSUME NEW a \in Apps, NEW st \in {"up", "term", "unborn"}, NEW n \in 0 .. MaxRestarts, NEW line \in Nat
      PROVE  NewProcess(a, st, n, line) \in Process
  BY DEF NewProcess, Process
<1>2. ASSUME NEW p \in Process
      PROVE  Killed(p) \in Process \cup {None}
  <2>1. p.app \in Apps /\ 0 \in 0 .. MaxRestarts
    BY DEF Process
  <2>2. QED
    BY <1>1, <2>1 DEF Killed
<1>3. ASSUME NEW p \in Process, NEW how \in {"fresh", "half", "stale"}
      PROVE  [p EXCEPT !.env = how] \in Process
  BY DEF Process
<1>4. ASSUME NEW p \in Process, NEW n \in 0 .. Idle + 1
      PROVE  [p EXCEPT !.age = n] \in Process
  BY DEF Process
<1>5. QED
  BY <1>1, <1>2, <1>3, <1>4

\* ... and into its fields.
LEMMA ProcessFields ==
    /\ \A a, st, n, line :
          LET p == NewProcess(a, st, n, line)
          IN  p.app = a /\ p.st = st /\ p.age = 0 /\ p.restarts = n /\ p.line = line /\ p.env = "fresh"
    /\ \A p \in Process : Killed(p) # None =>
          Killed(p).app = p.app /\ Killed(p).st = "term" /\ Killed(p).restarts = 0 /\ Killed(p).line = 0
BY DEF NewProcess, Killed, Process

LEMMA Parts == IInv <=> ProcInv /\ CallInv
BY DEF IInv, ProcInv, CallInv, TypeOK, LinesCounted

LEMMA PartsNext == IInv' <=> ProcInv' /\ CallInv'
BY DEF IInv, ProcInv, CallInv, TypeOK, LinesCounted

-----------------------------------------------------------------------------
(* Steps of the map and the processes *)

\* A step that changes a process only in its age, or in the environment it
\* was started with, to another one than an outdated one.
LEMMA AgesAndHalves ==
    ASSUME ProcInv,
           entry' = entry, phase' = phase,
           NEW P \in [Procs -> Process \cup {None}], proc' = P,
           \A q \in Procs :
              \/ P[q] = proc[q]
              \/ /\ P[q] # None /\ proc[q] # None
                 /\ P[q].app = proc[q].app /\ P[q].st = proc[q].st
                 /\ P[q].restarts = proc[q].restarts /\ P[q].line = proc[q].line
                 /\ P[q].env = proc[q].env \/ P[q].env = "half"
    PROVE  ProcInv'
<1>1. RegistryIsExact'
  BY DEF ProcInv, RegistryIsExact, Exists
<1>2. FreshEnvironment'
  BY DEF ProcInv, FreshEnvironment, Exists
<1>3. QED
  BY <1>1, <1>2 DEF ProcInv, GoneIsEmpty

\* Processes are told to stop and leave the map; others may be outdated, when
\* they were told before.
LEMMA StopKeeps ==
    ASSUME ProcInv, NEW S \in SUBSET Registered,
           phase # "gone", phase' # "gone",
           entry' = EntriesWithout(S), proc' = ProcsWithout(S)
    PROVE  ProcInv'
<1> USE DEF ProcInv
<1>0. S \subseteq Procs
  BY DEF Registered
<1>1. entry' \in [Apps -> Procs \cup {None}]
  BY DEF EntriesWithout
<1>2. \A q \in Procs : proc'[q] = IF q \in S THEN Killed(proc[q]) ELSE proc[q]
  BY DEF ProcsWithout
<1>3. \A q \in S : proc[q] \in Process
  BY DEF Registered, RegistryIsExact, Exists
<1>4. proc' \in [Procs -> Process \cup {None}]
  BY <1>3, ProcessTypes DEF ProcsWithout
<1>5. \A a \in Apps : entry'[a] = IF entry[a] \in S THEN None ELSE entry[a]
  BY DEF EntriesWithout
<1>6. \A q \in S : proc'[q] # None => proc'[q].st = "term" /\ proc'[q].line = 0 /\ proc'[q].restarts = 0
  BY <1>0, <1>2, <1>3, ProcessFields
<1>7. RegistryIsExact'
  <2>1. ASSUME NEW a \in Apps, entry'[a] # None
        PROVE  (Exists(entry[a]) /\ proc[entry[a]].app = a /\ proc[entry[a]].st # "term")'
    BY <1>2, <1>5, <2>1 DEF RegistryIsExact, Exists
  <2>2. ASSUME NEW q \in Procs, proc'[q] # None, proc'[q].st # "term"
        PROVE  entry'[proc'[q].app] = q
    <3>1. q \notin S /\ proc'[q] = proc[q]
      BY <1>2, <1>6, <2>2
    <3>2. proc[q].app \in Apps /\ entry[proc[q].app] = q
      BY <2>2, <3>1 DEF RegistryIsExact, Exists, Process
    <3>3. QED
      BY <1>5, <3>1, <3>2
  <2>3. QED
    BY <2>1, <2>2 DEF RegistryIsExact, Exists
<1>8. FreshEnvironment'
  BY <1>2, <1>6 DEF FreshEnvironment, Exists
<1>9. \A q \in Procs : proc'[q] # None => proc'[q].line = proc'[q].restarts
  BY <1>2, <1>6
<1>10. GoneIsEmpty'
  BY DEF GoneIsEmpty
<1>11. QED
  BY <1>1, <1>4, <1>7, <1>8, <1>9, <1>10
\* A save stops all that run with what it outdates: the map knows them.
LEMMA SaveFindsAll ==
    ASSUME ProcInv, phase # "gone", NEW A \in SUBSET Apps,
           NEW S, S = {entry[a] : a \in A} \ {None}
    PROVE  S \in SUBSET Registered /\ ProcsOutdated(A, S, "stale") = ProcsWithout(S)
<1>1. S \in SUBSET Registered
  BY DEF Registered
<1>2. ASSUME NEW q \in Procs, Outdated(A, q)
      PROVE  q \in S
  <2>1. proc[q] \in Process /\ entry[proc[q].app] = q /\ proc[q].app \in A
    BY <1>2 DEF ProcInv, RegistryIsExact, Outdated, Exists
  <2>2. q # None
    BY PoolAssumption
  <2>3. QED
    BY <2>1, <2>2
<1>3. QED
  BY <1>1, <1>2 DEF ProcsOutdated, ProcsWithout

\* An entry is taken away from a process that has ended.
LEMMA ExitKeeps ==
    ASSUME ProcInv, NEW q \in Procs, proc[q] # None,
           proc' = [proc EXCEPT ![q] = None], phase' = phase,
           \/ /\ phase = "gone" \/ ~ Mine(q)
              /\ entry' = entry
           \/ phase # "gone" /\ Mine(q) /\ entry' = [entry EXCEPT ![proc[q].app] = None]
    PROVE  ProcInv'
<1> USE DEF ProcInv
<1>0. proc[q] \in Process /\ proc[q].app \in Apps /\ q # None
  BY PoolAssumption DEF Process
<1>1. entry' \in [Apps -> Procs \cup {None}] /\ proc' \in [Procs -> Process \cup {None}]
  BY <1>0
<1>2. \A o \in Procs : proc'[o] = IF o = q THEN None ELSE proc[o]
  OBVIOUS
<1>3. \A a \in Apps : entry[a] = q => a = proc[q].app
  BY <1>0 DEF RegistryIsExact
<1>4. \A a \in Apps :
        /\ entry'[a] # q
        /\ entry[a] # q => entry'[a] = entry[a]
        /\ entry'[a] # None => entry'[a] = entry[a]
  BY <1>0, <1>3 DEF Mine, GoneIsEmpty
<1>5. RegistryIsExact'
  <2>1. ASSUME NEW a \in Apps, entry'[a] # None
        PROVE  (Exists(entry[a]) /\ proc[entry[a]].app = a /\ proc[entry[a]].st # "term")'
    <3>1. entry'[a] = entry[a] /\ entry[a] # q /\ entry[a] \in Procs
      BY <1>1, <1>4, <2>1
    <3>2. proc'[entry[a]] = proc[entry[a]]
      BY <1>2, <3>1
    <3>3. QED
      BY <2>1, <3>1, <3>2 DEF RegistryIsExact, Exists
  <2>2. ASSUME phase # "gone", NEW o \in Procs, proc'[o] # None, proc'[o].st # "term"
        PROVE  entry'[proc'[o].app] = o
    <3>1. o # q /\ proc'[o] = proc[o] /\ proc[o] \in Process
      BY <1>2, <2>2
    <3>2. proc[o].app \in Apps /\ entry[proc[o].app] = o
      BY <2>2, <3>1 DEF RegistryIsExact, Exists, Process
    <3>3. entry'[proc[o].app] = entry[proc[o].app]
      BY <1>4, <3>1, <3>2
    <3>4. QED
      BY <3>1, <3>2, <3>3
  <2>3. QED
    BY <2>1, <2>2 DEF RegistryIsExact, Exists
<1>6. FreshEnvironment' /\ GoneIsEmpty'
  BY <1>2, <1>4 DEF FreshEnvironment, GoneIsEmpty, Exists
<1>7. QED
  BY <1>1, <1>2, <1>5, <1>6

\* The spawn, after the processes in S made room.
LEMMA SpawnKeeps ==
    ASSUME ProcInv, CallInv, NEW c \in Calls, call[c] # None, ~ Raced(call[c].app),
           NEW S \in SUBSET Registered, NEW q \in Procs, NEW st \in {"up", "unborn"},
           Spawn(c, S, q, st), phase # "gone", phase' = phase
    PROVE  ProcInv'
<1> DEFINE a == call[c].app
           p == NewProcess(a, st, call[c].restarts, call[c].line)
<1>1. a \in Apps /\ p \in Process /\ p # None /\ entry[a] = None /\ proc[q] = None
  BY ProcessTypes, NoneAssumption DEF CallInv, Waiting, Spawn, Raced, Exists
<1>2. p.app = a /\ p.st = st /\ p.line = call[c].line /\ p.restarts = call[c].restarts /\ p.env = "fresh"
  BY ProcessFields
<1> HIDE DEF p
<1> USE DEF ProcInv
<1>3. S \subseteq Procs /\ q \notin S /\ \A o \in S : proc[o] \in Process
  BY <1>1 DEF Registered, RegistryIsExact, Exists
<1>4. /\ entry' \in [Apps -> Procs \cup {None}]
      /\ \A b \in Apps : entry'[b] = IF b = a THEN q ELSE IF entry[b] \in S THEN None ELSE entry[b]
  BY <1>1 DEF Spawn, EntriesWithout
<1>5. /\ proc' \in [Procs -> Process \cup {None}]
      /\ \A o \in Procs : proc'[o] = IF o = q THEN p ELSE IF o \in S THEN Killed(proc[o]) ELSE proc[o]
  BY <1>1, <1>3, ProcessTypes DEF Spawn, ProcsWithout, p
<1>6. \A o \in S : proc'[o] # None => proc'[o].st = "term" /\ proc'[o].line = 0 /\ proc'[o].restarts = 0
  BY <1>3, <1>5, ProcessFields
<1>7. RegistryIsExact'
  <2>1. ASSUME NEW b \in Apps, entry'[b] # None
        PROVE  (Exists(entry[b]) /\ proc[entry[b]].app = b /\ proc[entry[b]].st # "term")'
    <3>1. CASE b = a
      BY <1>1, <1>2, <1>4, <1>5, <3>1 DEF Exists
    <3>2. CASE b # a
      <4>1. entry'[b] = entry[b] /\ entry[b] \in Procs /\ entry[b] \notin S /\ entry[b] # q
        BY <1>1, <1>4, <2>1, <3>2 DEF RegistryIsExact, Exists
      <4>2. QED
        BY <1>5, <2>1, <4>1 DEF RegistryIsExact, Exists
    <3>3. QED
      BY <3>1, <3>2
  <2>2. ASSUME NEW o \in Procs, proc'[o] # None, proc'[o].st # "term"
        PROVE  entry'[proc'[o].app] = o
    <3>1. CASE o = q
      BY <1>1, <1>2, <1>4, <1>5, <3>1
    <3>2. CASE o # q
      <4>1. o \notin S /\ proc'[o] = proc[o]
        BY <1>5, <1>6, <2>2, <3>2
      <4>2. proc[o].app \in Apps /\ entry[proc[o].app] = o /\ o # None
        BY <2>2, <4>1, PoolAssumption DEF RegistryIsExact, Exists, Process
      <4>3. QED
        BY <1>1, <1>4, <4>1, <4>2
    <3>3. QED
      BY <3>1, <3>2
  <2>3. QED
    BY <2>1, <2>2 DEF RegistryIsExact, Exists
<1>8. FreshEnvironment'
  BY <1>2, <1>5, <1>6 DEF FreshEnvironment, Exists
<1>9. \A o \in Procs : proc'[o] # None => proc'[o].line = proc'[o].restarts
  BY <1>2, <1>5, <1>6 DEF CallInv
<1>10. QED
  BY <1>4, <1>5, <1>7, <1>8, <1>9 DEF GoneIsEmpty
-----------------------------------------------------------------------------
(* One step of the server *)

LEMMA RegisteredInProcs == ProcInv => Registered \subseteq Procs
BY DEF ProcInv, Registered

LEMMA OtherAge ==
    ASSUME NEW p \in Process, NEW n \in 0 .. Idle + 1, NEW r, r = [p EXCEPT !.age = n]
    PROVE  /\ r \in Process /\ r # None
           /\ r.app = p.app /\ r.st = p.st /\ r.restarts = p.restarts /\ r.line = p.line /\ r.env = p.env
<1>1. r \in Process
  BY ProcessTypes
<1>2. QED
  BY <1>1, NoneAssumption DEF Process

LEMMA OtherEnv ==
    ASSUME NEW p \in Process, NEW how \in {"fresh", "half", "stale"}, NEW r, r = [p EXCEPT !.env = how]
    PROVE  /\ r \in Process /\ r # None
           /\ r.app = p.app /\ r.st = p.st /\ r.restarts = p.restarts /\ r.line = p.line /\ r.env = how
<1>1. r \in Process
  BY ProcessTypes
<1>2. QED
  BY <1>1, NoneAssumption DEF Process

LEMMA TouchKeeps ==
    ASSUME ProcInv, NEW a \in Apps, entry[a] # None, Touch(a), entry' = entry, phase' = phase
    PROVE  ProcInv'
<1>1. entry[a] \in Procs /\ proc[entry[a]] \in Process /\ 0 \in 0 .. Idle + 1
  BY PoolAssumption DEF ProcInv, RegistryIsExact, Exists
<1> DEFINE r == [proc[entry[a]] EXCEPT !.age = 0]
<1>2. /\ r \in Process /\ r # None
      /\ r.app = proc[entry[a]].app /\ r.st = proc[entry[a]].st /\ r.env = proc[entry[a]].env
      /\ r.restarts = proc[entry[a]].restarts /\ r.line = proc[entry[a]].line
  BY <1>1, OtherAge
<1>3. /\ proc' \in [Procs -> Process \cup {None}]
      /\ \A q \in Procs : proc'[q] = IF q = entry[a] THEN r ELSE proc[q]
  BY <1>1, <1>2 DEF Touch, ProcInv
<1> HIDE DEF r
<1>4. proc[entry[a]] # None
  BY <1>1, NoneAssumption
<1>5. QED
  BY <1>2, <1>3, <1>4, AgesAndHalves

LEMMA TickKeeps == ASSUME ProcInv, Tick PROVE ProcInv'
<1>1. ASSUME NEW q \in Registered, proc[q].age <= Idle
      PROVE  /\ proc[q] \in Process /\ proc[q].age + 1 \in 0 .. Idle + 1
             /\ [proc[q] EXCEPT !.age = @ + 1] = [proc[q] EXCEPT !.age = proc[q].age + 1]
  <2>1. proc[q] \in Process
    BY DEF ProcInv, Registered, RegistryIsExact, Exists
  <2>2. proc[q].age \in 0 .. Idle + 1 /\ Idle \in Nat
    BY <2>1, PoolAssumption DEF Process
  <2>3. QED
    BY <1>1, <2>1, <2>2
<1>2. \A q \in Procs : proc'[q] = IF q \in Registered /\ proc[q].age <= Idle
                                 THEN [proc[q] EXCEPT !.age = proc[q].age + 1] ELSE proc[q]
  BY <1>1 DEF Tick
<1>3. proc' \in [Procs -> Process \cup {None}]
  BY <1>1, <1>2, ProcessTypes DEF Tick, ProcInv
<1>4. ASSUME NEW q \in Procs
      PROVE  \/ proc'[q] = proc[q]
             \/ /\ proc'[q] # None /\ proc[q] # None
                /\ proc'[q].app = proc[q].app /\ proc'[q].st = proc[q].st
                /\ proc'[q].restarts = proc[q].restarts /\ proc'[q].line = proc[q].line
                /\ proc'[q].env = proc[q].env
  <2>1. CASE q \in Registered /\ proc[q].age <= Idle
    <3>1. proc[q] \in Process /\ proc[q] # None /\ proc[q].age + 1 \in 0 .. Idle + 1
      BY <1>1, <2>1, NoneAssumption
    <3>2. proc'[q] = [proc[q] EXCEPT !.age = proc[q].age + 1]
      BY <1>2, <2>1
    <3>3. QED
      BY <3>1, <3>2, OtherAge
  <2>2. QED
    BY <1>2, <2>1
<1>5. QED
  BY <1>3, <1>4, AgesAndHalves DEF Tick

LEMMA SaveHalfKeeps == ASSUME ProcInv, NEW A, SaveHalf(A) PROVE ProcInv'
<1>1. \A q \in Procs : proc'[q] = IF Outdated(A, q) THEN [proc[q] EXCEPT !.env = "half"] ELSE proc[q]
  BY DEF SaveHalf, ProcsOutdated
<1>2. \A q \in Procs : Outdated(A, q) => proc[q] \in Process
  BY DEF ProcInv, Outdated, Exists
<1>3. proc' \in [Procs -> Process \cup {None}]
  BY <1>2, ProcessTypes DEF SaveHalf, ProcsOutdated, ProcInv
<1>4. ASSUME NEW q \in Procs
      PROVE  \/ proc'[q] = proc[q]
             \/ /\ proc'[q] # None /\ proc[q] # None
                /\ proc'[q].app = proc[q].app /\ proc'[q].st = proc[q].st
                /\ proc'[q].restarts = proc[q].restarts /\ proc'[q].line = proc[q].line
                /\ proc'[q].env = "half"
  <2>1. CASE Outdated(A, q)
    <3>1. proc[q] \in Process /\ proc[q] # None /\ proc'[q] = [proc[q] EXCEPT !.env = "half"]
      BY <1>1, <1>2, <2>1, NoneAssumption
    <3>2. QED
      BY <3>1, OtherEnv
  <2>2. QED
    BY <1>1, <2>1
<1>5. QED
  BY <1>3, <1>4, AgesAndHalves DEF SaveHalf

\* The processes that room is made from are registered.
LEMMA EvictionsAreRegistered == Evictions \subseteq SUBSET Registered
BY DEF Evictions

LEMMA ResumeKeeps == ASSUME ProcInv, CallInv, NEW c \in Calls, Resume(c) PROVE ProcInv'
<1>1. CASE Raced(call[c].app) /\ Touch(call[c].app) /\ UNCHANGED entry
  <2>1. call[c].app \in Apps /\ phase' = phase
    BY DEF Resume, CallInv, Waiting
  <2>2. QED
    BY <1>1, <2>1, TouchKeeps DEF Raced
<1>2. ASSUME ~ Raced(call[c].app), NEW S \in Evictions, NoRoom(S)
      PROVE  ProcInv'
  BY <1>2, StopKeeps, EvictionsAreRegistered DEF Resume, NoRoom
<1>3. ASSUME ~ Raced(call[c].app), NEW S \in Evictions, NEW q \in Procs,
             NEW st \in {"up", "unborn"}, Spawn(c, S, q, st)
      PROVE  ProcInv'
  BY <1>3, SpawnKeeps, EvictionsAreRegistered DEF Resume
<1>4. QED
  BY <1>1, <1>2, <1>3 DEF Resume

\* The map of a server that has exited is empty.
LEMMA ServerExitsKeeps == ASSUME ProcInv, ServerExits PROVE ProcInv'
<1>1. entry' \in [Apps -> Procs \cup {None}] /\ proc' = proc /\ phase' = "gone"
  BY DEF ServerExits
<1>2. \A a \in Apps : entry'[a] = None
  BY DEF ServerExits
<1>3. RegistryIsExact' /\ FreshEnvironment'
  BY <1>1, <1>2 DEF ProcInv, RegistryIsExact, FreshEnvironment, Exists
<1>4. QED
  BY <1>1, <1>2, <1>3 DEF ProcInv, GoneIsEmpty

LEMMA ProcStep == ASSUME ProcInv, CallInv, Next PROVE ProcInv'
<1>1. ASSUME NEW a \in Apps, VisitRunning(a)
      PROVE  ProcInv'
  BY <1>1, TouchKeeps DEF VisitRunning
<1>2. ASSUME NEW a \in Apps, NEW c \in Calls, VisitFirst(a, c)
      PROVE  ProcInv'
  BY <1>2 DEF VisitFirst, ProcInv, GoneIsEmpty, RegistryIsExact, FreshEnvironment, Exists
<1>3. ASSUME NEW c \in Calls, Resume(c)
      PROVE  ProcInv'
  BY <1>3, ResumeKeeps
<1>4. ASSUME NEW q \in Procs, Exit(q)
      PROVE  ProcInv'
  BY <1>4, ExitKeeps DEF Exit, Exists
<1>5. CASE IdleRecycle
  <2>1. {q \in Registered : TooOld(q)} \in SUBSET Registered
    OBVIOUS
  <2>2. QED
    BY <1>5, <2>1, StopKeeps DEF IdleRecycle, Stop
<1>6. ASSUME NEW A \in SUBSET Apps, Save(A)
      PROVE  ProcInv'
  <2> DEFINE S == {entry[a] : a \in A} \ {None}
  <2>1. S \in SUBSET Registered /\ proc' = ProcsWithout(S) /\ entry' = EntriesWithout(S)
    BY <1>6, SaveFindsAll DEF Save, SaveAndStop
  <2>2. phase # "gone" /\ phase' # "gone"
    BY <1>6 DEF Save
  <2>3. QED
    BY <2>1, <2>2, StopKeeps
<1>7. ASSUME NEW A \in SUBSET Apps, SaveHalf(A)
      PROVE  ProcInv'
  BY <1>7, SaveHalfKeeps
<1>8. ASSUME NEW n \in Limits, SetLimit(n)
      PROVE  ProcInv'
  BY <1>8 DEF SetLimit, ProcInv, GoneIsEmpty, RegistryIsExact, FreshEnvironment, Exists
<1>9. CASE Tick
  BY <1>9, TickKeeps
<1>10. CASE Shutdown
  BY <1>10, StopKeeps DEF Shutdown, Stop
<1>11. CASE ServerExits
  BY <1>11, ServerExitsKeeps
<1>12. {{a} : a \in Apps} \cup {Apps} \subseteq SUBSET Apps
  OBVIOUS
<1>13. QED
  BY <1>1, <1>2, <1>3, <1>4, <1>5, <1>6, <1>7, <1>8, <1>9, <1>10, <1>11, <1>12 DEF Next

LEMMA CallStep == ASSUME ProcInv, CallInv, Next PROVE CallInv'
<1> USE DEF CallInv
<1>1. ASSUME NEW a \in Apps, VisitRunning(a)
      PROVE  CallInv'
  BY <1>1 DEF VisitRunning
<1>2. ASSUME NEW a \in Apps, NEW c \in Calls, VisitFirst(a, c)
      PROVE  CallInv'
  <2>1. [app |-> a, restarts |-> 0, line |-> 0] \in Waiting
    BY PoolAssumption DEF Waiting
  <2>2. QED
    BY <1>2, <2>1 DEF VisitFirst
<1>3. ASSUME NEW c \in Calls, Resume(c)
      PROVE  CallInv'
  BY <1>3 DEF Resume
<1>4. ASSUME NEW q \in Procs, Exit(q)
      PROVE  CallInv'
  <2>1. CASE UNCHANGED call
    BY <1>4, <2>1 DEF Exit
  <2>2. ASSUME MayRestart(proc[q].restarts), NEW c \in Calls,
               call' = [call EXCEPT ![c] = [app |-> proc[q].app,
                                            restarts |-> RestartsAfter(proc[q].restarts),
                                            line |-> proc[q].line + 1]]
        PROVE  CallInv'
    <3>1. proc[q] \in Process /\ proc[q].line = proc[q].restarts
      BY <1>4 DEF Exit, Exists, ProcInv
    <3>2. [app |-> proc[q].app, restarts |-> RestartsAfter(proc[q].restarts),
           line |-> proc[q].line + 1] \in Waiting
      BY <2>2, <3>1, PoolAssumption DEF MayRestart, RestartsAfter, Process, Waiting
    <3>3. QED
      BY <1>4, <2>2, <3>1, <3>2 DEF Exit, RestartsAfter
  <2>3. QED
    BY <1>4, <2>1, <2>2 DEF Exit
<1>5. CASE IdleRecycle
  BY <1>5 DEF IdleRecycle
<1>6. ASSUME NEW A, Save(A) \/ SaveHalf(A)
      PROVE  CallInv'
  BY <1>6 DEF Save, SaveHalf
<1>7. ASSUME NEW n \in Limits, SetLimit(n)
      PROVE  CallInv'
  BY <1>7 DEF SetLimit
<1>8. CASE Tick
  BY <1>8 DEF Tick
<1>9. CASE Shutdown \/ ServerExits
  BY <1>9 DEF Shutdown, ServerExits
<1>10. QED
  BY <1>1, <1>2, <1>3, <1>4, <1>5, <1>6, <1>7, <1>8, <1>9 DEF Next

LEMMA PoolInit == Init => IInv
BY PoolAssumption
   DEF Init, IInv, TypeOK, GoneIsEmpty, RegistryIsExact, LinesCounted, FreshEnvironment, Exists

LEMMA PoolStep == IInv /\ [Next]_vars => IInv'
<1>1. CASE Next
  BY <1>1, Parts, PartsNext, ProcStep, CallStep
<1>2. CASE UNCHANGED vars
  BY <1>2 DEF vars, IInv, TypeOK, GoneIsEmpty, RegistryIsExact, LinesCounted, FreshEnvironment, Exists
<1>3. QED
  BY <1>1, <1>2

LEMMA PoolInvariant == Spec => []IInv
BY PoolInit, PoolStep, PTL DEF Spec

-----------------------------------------------------------------------------
(* The theorems *)

\* ensurePersistent and its relatives keep the map of processes well typed.
THEOREM TypeCorrect == Spec => []TypeOK
<1>1. IInv => TypeOK
  BY DEF IInv
<1>2. QED
  BY <1>1, PoolInvariant, PTL

\* lib/sandbox.ts: what the map holds for an app is its process, and no
\* process that was not told to stop is missing, in any order of visits,
\* crashes, restarts, evictions and stops.
THEOREM RegistryIsExactHolds == Spec => []RegistryIsExact
<1>1. IInv => RegistryIsExact
  BY DEF IInv
<1>2. QED
  BY <1>1, PoolInvariant, PTL

\* PUT /apps/:id/env and its relatives: no process runs on with what a save
\* that succeeded has outdated.
THEOREM FreshEnvironmentHolds == Spec => []FreshEnvironment
<1>1. IInv => FreshEnvironment
  BY DEF IInv
<1>2. QED
  BY <1>1, PoolInvariant, PTL

\* The spawn adds one to fewer than the limit.
LEMMA StartIsWithinLimit ==
    ASSUME IInv, Next, NEW q \in Procs, q \in Registered' \ Registered
    PROVE  Cardinality(Registered') <= limit
<1> USE DEF IInv, TypeOK
<1>1. ASSUME NEW c \in Calls, Resume(c), ~ Raced(call[c].app),
             NEW S \in Evictions, HasRoom(S), NEW o \in Procs, NEW st \in {"up", "unborn"},
             Spawn(c, S, o, st)
      PROVE  Cardinality(Registered') <= limit
  <2>1. Registered' = (Registered \ S) \cup {o}
    <3>1. call[c].app \in Apps /\ entry[call[c].app] = None /\ o # None
      BY <1>1, PoolAssumption DEF Resume, Raced, Waiting
    <3>2. \A b \in Apps : entry'[b] = IF b = call[c].app THEN o
                                     ELSE IF entry[b] \in S THEN None ELSE entry[b]
      BY <1>1, <3>1 DEF Spawn, EntriesWithout
    <3>3. ASSUME NEW x
          PROVE  x \in Registered' <=> x \in (Registered \ S) \cup {o}
      <4>1. ASSUME NEW b \in Apps, x = entry'[b], x # None
            PROVE  x \in (Registered \ S) \cup {o}
        BY <3>2, <4>1 DEF Registered
      <4>2. ASSUME NEW b \in Apps, x = entry[b], x # None, x \notin S
            PROVE  x = entry'[b]
        BY <3>1, <3>2, <4>2
      <4>3. o = entry'[call[c].app]
        BY <3>1, <3>2
      <4>4. QED
        BY <3>1, <4>1, <4>2, <4>3 DEF Registered
    <3>4. QED
      BY <3>3
  <2>2. IsFiniteSet(Registered \ S)
    <3>1. IsFiniteSet(Procs) /\ Registered \ S \subseteq Procs
      BY PoolAssumption DEF Registered
    <3>2. QED
      BY <3>1, FS_Subset
  <2> DEFINE T == Registered \ S
  <2>3. /\ Cardinality(T) \in Nat
        /\ Cardinality(T \cup {o}) = Cardinality(T) \/ Cardinality(T \cup {o}) = Cardinality(T) + 1
    BY <2>2, FS_AddElement, FS_CardinalityType
  <2>4. limit \in Nat /\ Cardinality(T) < limit
    BY <1>1, PoolAssumption DEF HasRoom
  <2>5. QED
    BY <2>1, <2>3, <2>4
<1>2. ASSUME NEW S, entry' = EntriesWithout(S)
      PROVE  Registered' \subseteq Registered
  BY <1>2 DEF EntriesWithout, Registered
<1>3. entry' = entry => Registered' = Registered
  BY DEF Registered
<1>4. ASSUME NEW c \in Calls, Resume(c)
      PROVE  Cardinality(Registered') <= limit
  BY <1>1, <1>2, <1>3, <1>4 DEF Resume, NoRoom
<1>5. ASSUME NEW o \in Procs, Exit(o)
      PROVE  Registered' \subseteq Registered
  BY <1>5 DEF Exit, Registered, Process, Exists, Mine
<1>6. QED
  <2>1. CASE IdleRecycle \/ Shutdown
    BY <1>2, <2>1 DEF IdleRecycle, Shutdown, Stop
  <2>2. ASSUME NEW A, Save(A)
        PROVE  Registered' \subseteq Registered
    BY <1>2, <2>2 DEF Save, SaveAndStop
  <2>3. CASE ServerExits
    BY <2>3 DEF ServerExits, Registered
  <2>4. ASSUME NEW A, SaveHalf(A)
        PROVE  Registered' \subseteq Registered
    BY <1>3, <2>4 DEF SaveHalf
  <2>5. ASSUME NEW a \in Apps, VisitRunning(a) \/ \E c \in Calls : VisitFirst(a, c)
        PROVE  Registered' \subseteq Registered
    BY <1>3, <2>5 DEF VisitRunning, VisitFirst
  <2>6. CASE Tick \/ \E n \in Limits : SetLimit(n)
    BY <1>3, <2>6 DEF Tick, SetLimit
  <2>7. QED
    BY <1>4, <1>5, <2>1, <2>2, <2>3, <2>4, <2>5, <2>6 DEF Next

\* makeRoomForPersistent and MAX_RESTARTS: no start exceeds the limit of that
\* moment, and no line of crashes is longer than MAX_RESTARTS.
THEOREM ProcessesAreBoundedHolds == Spec => ProcessesAreBounded
<1>1. IInv /\ [Next]_vars =>
        [\A q \in Procs : q \in Registered' \ Registered => Cardinality(Registered') <= limit]_vars
  BY StartIsWithinLimit
<1>2. IInv => CrashLoopEnds
  <2>1. ASSUME IInv, NEW q \in Procs, Exists(q)
        PROVE  proc[q].line <= MaxRestarts
    <3>1. proc[q] \in Process /\ proc[q].line = proc[q].restarts
      BY <2>1 DEF IInv, TypeOK, LinesCounted, Exists
    <3>2. QED
      BY <3>1, PoolAssumption DEF Process
  <2>2. QED
    BY <2>1 DEF CrashLoopEnds
<1>3. QED
  BY <1>1, <1>2, PoolInvariant, PTL DEF Spec, ProcessesAreBounded, StartsWithinLimit
=============================================================================
