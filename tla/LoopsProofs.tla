---------------------------- MODULE LoopsProofs ----------------------------
(***************************************************************************)
(* Theorems about RunGate, for any number of runs, any limits and any      *)
(* length of the queue, and about TlsCert, the instance Tls of MCLoops,    *)
(* for any pairs and any number of crashes.                                *)
(***************************************************************************)
EXTENDS MCLoops, TLAPS, FiniteSetTheorems

-----------------------------------------------------------------------------
(* RunGate: activeRuns is a natural number only because it counts the runs *)
(* under way, so the types and SlotsAreHeld are proved together;           *)
(* GateIsTight, of a limit that stays, is inductive on top of them.        *)

\* What is in a queue, and that it is there once.
Members(q) == {q[i] : i \in DOMAIN q}
Distinct(q) == \A i, j \in DOMAIN q : q[i] = q[j] => i = j

GInv == TypeOK /\ SlotsAreHeld

-----------------------------------------------------------------------------
(* Sequences and sets *)

\* A finite set grows by one with a new element and shrinks by one with one
\* of its own, which it has at least one of.
LEMMA OneMore ==
    ASSUME NEW S, NEW T, IsFiniteSet(S), NEW r, r \notin S, T = S \cup {r}
    PROVE  Cardinality(T) = Cardinality(S) + 1
BY FS_AddElement

LEMMA OneLess ==
    ASSUME NEW S, NEW T, IsFiniteSet(S), NEW r, r \in S, T = S \ {r}
    PROVE  Cardinality(S) \in Nat /\ Cardinality(S) > 0 /\ Cardinality(T) = Cardinality(S) - 1
<1>1. IsFiniteSet(T) /\ Cardinality(T) = Cardinality(S) - 1
  BY FS_RemoveElement
<1>2. Cardinality(S) \in Nat /\ Cardinality(T) \in Nat
  BY <1>1, FS_CardinalityType
<1>3. QED
  BY <1>1, <1>2

LEMMA RunningIsFinite == IsFiniteSet(Running) /\ Cardinality(Running) \in Nat
<1>1. Running \subseteq Runs /\ IsFiniteSet(Runs)
  BY GateAssumption DEF Running
<1>2. QED
  BY <1>1, FS_Subset, FS_CardinalityType

\* A run that joins the queue is in it once, and nothing else changes.
LEMMA JoinQueue ==
    ASSUME NEW q \in Seq(Runs), NEW r \in Runs,
           Distinct(q), r \notin Members(q),
           NEW p, p = Append(q, r)
    PROVE  /\ p \in Seq(Runs)
           /\ Len(p) = Len(q) + 1
           /\ Members(p) = Members(q) \cup {r}
           /\ Distinct(p)
<1> USE DEF Members, Distinct
<1>1. p \in Seq(Runs) /\ Len(p) = Len(q) + 1 /\ Len(q) \in Nat
  OBVIOUS
<1>2. DOMAIN p = 1 .. Len(q) + 1 /\ DOMAIN q = 1 .. Len(q)
  BY <1>1
<1>3. p[Len(q) + 1] = r /\ \A i \in 1 .. Len(q) : p[i] = q[i]
  OBVIOUS
<1>4. Members(p) = Members(q) \cup {r}
  BY <1>1, <1>2, <1>3
<1>5. ASSUME NEW i \in DOMAIN p, NEW j \in DOMAIN p, p[i] = p[j]
      PROVE  i = j
  <2>1. i \in 1 .. Len(q) \/ i = Len(q) + 1
    BY <1>1, <1>2
  <2>2. j \in 1 .. Len(q) \/ j = Len(q) + 1
    BY <1>1, <1>2
  <2>3. QED
    BY <1>2, <1>3, <1>5, <2>1, <2>2
<1>6. QED
  BY <1>1, <1>4, <1>5

\* The head of a queue without repetitions leaves it for good.
LEMMA LeaveQueue ==
    ASSUME NEW q \in Seq(Runs), q # <<>>,
           Distinct(q),
           NEW p, p = Tail(q)
    PROVE  /\ p \in Seq(Runs)
           /\ Len(p) = Len(q) - 1
           /\ Head(q) \in Members(q)
           /\ Members(p) = Members(q) \ {Head(q)}
           /\ Distinct(p)
<1> USE DEF Members, Distinct
<1>1. /\ p \in Seq(Runs) /\ Len(p) = Len(q) - 1
      /\ Len(q) \in Nat /\ Len(q) > 0 /\ Head(q) = q[1]
  OBVIOUS
<1>2. DOMAIN p = 1 .. Len(q) - 1 /\ DOMAIN q = 1 .. Len(q)
  BY <1>1
<1>3. \A i \in 1 .. Len(q) - 1 : p[i] = q[i + 1]
  BY <1>1
<1>4. Head(q) \in Members(q)
  BY <1>1, <1>2
<1>5. ASSUME NEW x
      PROVE  x \in Members(p) <=> x \in Members(q) \ {Head(q)}
  <2>1. ASSUME NEW i \in DOMAIN p, x = p[i]
        PROVE  x \in Members(q) \ {Head(q)}
    <3>1. i + 1 \in DOMAIN q /\ 1 \in DOMAIN q /\ i + 1 # 1 /\ x = q[i + 1]
      BY <1>1, <1>2, <1>3, <2>1
    <3>2. x # q[1]
      BY <3>1
    <3>3. QED
      BY <1>1, <3>1, <3>2
  <2>2. ASSUME NEW k \in DOMAIN q, x = q[k], x # Head(q)
        PROVE  x \in Members(p)
    <3>1. k # 1 /\ k \in 1 .. Len(q)
      BY <1>1, <1>2, <2>2
    <3>2. k - 1 \in DOMAIN p /\ p[k - 1] = q[k]
      BY <1>1, <1>2, <1>3, <3>1
    <3>3. QED
      BY <2>2, <3>2
  <2>3. QED
    BY <2>1, <2>2
<1>6. ASSUME NEW i \in DOMAIN p, NEW j \in DOMAIN p, p[i] = p[j]
      PROVE  i = j
  <2>1. i + 1 \in DOMAIN q /\ j + 1 \in DOMAIN q /\ q[i + 1] = q[j + 1]
    BY <1>1, <1>2, <1>3, <1>6
  <2>2. i + 1 = j + 1
    BY <2>1
  <2>3. QED
    BY <1>1, <1>2, <2>2
<1>7. QED
  BY <1>1, <1>4, <1>5, <1>6

\* SlotsAreHeld in these terms.
LEMMA SlotsForm ==
    SlotsAreHeld <=> /\ active = Cardinality(Running)
                     /\ Members(queue) = Waiting
                     /\ Distinct(queue)
BY DEF SlotsAreHeld, Members, Distinct

LEMMA SlotsFormNext ==
    SlotsAreHeld' <=> /\ active' = Cardinality(Running')
                      /\ Members(queue') = Waiting'
                      /\ Distinct(queue')
BY DEF SlotsAreHeld, Members, Distinct

-----------------------------------------------------------------------------
(* Types and slots *)

\* A step that only moves one run between states in which it neither has a
\* slot nor waits.
LEMMA NothingHeld ==
    ASSUME GInv, NEW r \in Runs, state[r] = "new", NEW s \in {"busy", "ended"},
           state' = [state EXCEPT ![r] = s], UNCHANGED <<limit, active, queue, moved>>
    PROVE  GInv'
<1>1. Running' = Running /\ Waiting' = Waiting
  BY DEF Running, Waiting, GInv, TypeOK
<1>2. QED
  BY <1>1 DEF GInv, TypeOK, SlotsAreHeld

LEMMA StartKeeps == ASSUME GInv, NEW r \in Runs, Start(r) PROVE GInv'
<1>1. r \notin Running /\ Running' = Running \cup {r} /\ Waiting' = Waiting
  BY DEF Start, Running, Waiting, GInv, TypeOK
<1>2. Cardinality(Running') = Cardinality(Running) + 1
  BY <1>1, RunningIsFinite, OneMore
<1>3. QED
  BY <1>1, <1>2 DEF Start, GInv, TypeOK, SlotsAreHeld

LEMMA EnqueueKeeps == ASSUME GInv, NEW r \in Runs, Enqueue(r) PROVE GInv'
<1>1. r \notin Waiting /\ Running' = Running /\ Waiting' = Waiting \cup {r}
  BY DEF Enqueue, Running, Waiting, GInv, TypeOK
<1>2. /\ queue \in Seq(Runs) /\ queue' = Append(queue, r)
      /\ Distinct(queue) /\ r \notin Members(queue)
  BY <1>1, SlotsForm DEF Enqueue, GInv, TypeOK
<1>3. /\ queue' \in Seq(Runs) /\ Len(queue') = Len(queue) + 1
      /\ Members(queue') = Members(queue) \cup {r} /\ Distinct(queue')
  BY <1>2, JoinQueue
<1>4. TypeOK'
  <2>1. Len(queue) < MaxQueue /\ Len(queue) \in Nat
    BY GateAssumption DEF Enqueue, QueueFull, GInv, TypeOK
  <2>2. QED
    BY <1>3, <2>1, GateAssumption DEF Enqueue, GInv, TypeOK
<1>5. SlotsAreHeld'
  BY <1>1, <1>3, SlotsForm, SlotsFormNext DEF Enqueue, GInv
<1>6. QED
  BY <1>4, <1>5 DEF GInv

LEMMA EndKeeps == ASSUME GInv, NEW r \in Runs, End(r) PROVE GInv'
<1>1. r \in Running
  BY DEF End, Running
<1>2. CASE queue = <<>>
  <2>1. active' = active - 1 /\ state' = [state EXCEPT ![r] = "ended"] /\ queue' = queue
    BY <1>2 DEF End, Release
  <2>2. Running' = Running \ {r} /\ Waiting' = Waiting
    BY <1>1, <2>1 DEF Running, Waiting, GInv, TypeOK
  <2>3. active \in Nat /\ active > 0 /\ Cardinality(Running') = active - 1
    BY <1>1, <2>2, RunningIsFinite, OneLess DEF GInv, SlotsAreHeld
  <2>4. TypeOK'
    BY <2>1, <2>3 DEF End, GInv, TypeOK
  <2>5. SlotsAreHeld'
    BY <2>1, <2>2, <2>3 DEF GInv, SlotsAreHeld
  <2>6. QED
    BY <2>4, <2>5 DEF GInv
<1>3. CASE queue # <<>>
  <2> DEFINE h == Head(queue)
  <2>1. /\ queue' = Tail(queue) /\ active' = active
        /\ state' = [state EXCEPT ![r] = "ended", ![h] = "running"]
    BY <1>3 DEF End, Release
  <2>2. queue \in Seq(Runs) /\ Distinct(queue)
    BY SlotsForm DEF GInv, TypeOK
  <2>3. /\ queue' \in Seq(Runs) /\ Len(queue') = Len(queue) - 1
        /\ h \in Members(queue) /\ Members(queue') = Members(queue) \ {h}
        /\ Distinct(queue')
    BY <1>3, <2>1, <2>2, LeaveQueue
  <2>4. h \in Waiting /\ h \in Runs /\ h # r /\ h \notin Running
    BY <1>1, <2>3, SlotsForm DEF GInv, Waiting, Running
  <2> HIDE DEF h
  <2>5. Waiting' = Waiting \ {h} /\ Running' = (Running \ {r}) \cup {h}
    BY <1>1, <2>1, <2>4 DEF Waiting, Running, GInv, TypeOK
  <2>6. Cardinality(Running') = active
    <3> DEFINE rest == Running \ {r}
    <3>1. IsFiniteSet(rest) /\ h \notin rest
      BY <2>4, RunningIsFinite, FS_Subset
    <3>2. active \in Nat /\ Cardinality(rest) = active - 1
      BY <1>1, RunningIsFinite, OneLess DEF GInv, SlotsAreHeld
    <3>3. Cardinality(Running') = Cardinality(rest) + 1
      BY <2>5, <3>1, OneMore
    <3>4. QED
      BY <3>2, <3>3
  <2>7. TypeOK'
    <3>1. Len(queue') <= MaxQueue
      BY <2>3, GateAssumption DEF GInv, TypeOK
    <3>2. state' \in [Runs -> {"new", "busy", "waiting", "running", "ended"}]
      BY <2>1, <2>4 DEF GInv, TypeOK
    <3>3. QED
      BY <2>1, <2>3, <3>1, <3>2 DEF End, GInv, TypeOK
  <2>8. SlotsAreHeld'
    BY <2>1, <2>3, <2>5, <2>6, SlotsForm, SlotsFormNext DEF GInv
  <2>9. QED
    BY <2>7, <2>8 DEF GInv
<1>4. QED
  BY <1>2, <1>3

LEMMA SlotsInit == Init => GInv
<1> SUFFICES ASSUME Init
             PROVE  GInv
  OBVIOUS
<1>1. Running = {} /\ Waiting = {}
  BY DEF Init, Running, Waiting
<1>2. Cardinality(Running) = 0
  BY <1>1, FS_EmptySet
<1>3. queue \in Seq(Runs) /\ Len(queue) = 0 /\ DOMAIN queue = {}
  BY DEF Init
<1>4. Len(queue) <= MaxQueue
  BY <1>3, GateAssumption
<1>5. TypeOK
  BY <1>3, <1>4 DEF Init, TypeOK
<1>6. SlotsAreHeld
  BY <1>1, <1>2, <1>3 DEF Init, SlotsAreHeld
<1>7. QED
  BY <1>5, <1>6 DEF GInv

LEMMA SlotsStep == GInv /\ [Next]_vars => GInv'
<1> SUFFICES ASSUME GInv, [Next]_vars
             PROVE  GInv'
  OBVIOUS
<1>1. CASE UNCHANGED vars
  BY <1>1 DEF vars, GInv, TypeOK, SlotsAreHeld, Running, Waiting
<1>2. ASSUME NEW r \in Runs, Reject(r) \/ BadEntry(r)
      PROVE  GInv'
  BY <1>2, NothingHeld DEF Reject, BadEntry
<1>3. ASSUME NEW n \in Limits, SetLimit(n)
      PROVE  GInv'
  BY <1>3 DEF SetLimit, GInv, TypeOK, SlotsAreHeld, Running, Waiting
<1>4. QED
  BY <1>1, <1>2, <1>3, StartKeeps, EnqueueKeeps, EndKeeps DEF Next

\* The counter of runs under way never goes below zero, and the queue is
\* never longer than MAX_QUEUE.
THEOREM TypeCorrect == Spec => []TypeOK
<1>1. GInv => TypeOK
  BY DEF GInv
<1>2. QED
  BY SlotsInit, SlotsStep, <1>1, PTL DEF Spec

\* acquireRunSlot and its release: whatever the order of arrivals, refusals,
\* grants and ends, and whatever the limit does meanwhile, no slot is lost
\* and none is given back twice, and the queue holds exactly the runs that
\* wait.
THEOREM SlotsAreHeldHolds == Spec => []SlotsAreHeld
<1>1. GInv => SlotsAreHeld
  BY DEF GInv
<1>2. QED
  BY SlotsInit, SlotsStep, <1>1, PTL DEF Spec

-----------------------------------------------------------------------------
(* While the limit stays *)

LEMMA TightInit == Init => GateIsTight
BY GateAssumption DEF Init, GateIsTight

LEMMA TightStep == GInv /\ GateIsTight /\ [Next]_vars => GateIsTight'
<1> SUFFICES ASSUME GInv, GateIsTight, [Next]_vars
             PROVE  GateIsTight'
  OBVIOUS
<1>1. active \in Nat /\ limit \in Nat
  BY GateAssumption DEF GInv, TypeOK
<1>2. CASE UNCHANGED vars
  BY <1>2 DEF vars, GateIsTight
<1>3. ASSUME NEW r \in Runs, Reject(r) \/ BadEntry(r)
      PROVE  GateIsTight'
  BY <1>3 DEF Reject, BadEntry, GateIsTight
<1>4. ASSUME NEW r \in Runs, Start(r)
      PROVE  GateIsTight'
  BY <1>1, <1>4 DEF Start, HasSlot, GateIsTight
<1>5. ASSUME NEW r \in Runs, Enqueue(r)
      PROVE  GateIsTight'
  BY <1>1, <1>5 DEF Enqueue, HasSlot, GateIsTight
<1>6. ASSUME NEW r \in Runs, End(r)
      PROVE  GateIsTight'
  <2>1. CASE queue = <<>>
    BY <1>1, <1>6, <2>1 DEF End, Release, GateIsTight
  <2>2. CASE queue # <<>>
    BY <1>1, <1>6, <2>2 DEF End, Release, GateIsTight
  <2>3. QED
    BY <2>1, <2>2
<1>7. ASSUME NEW n \in Limits, SetLimit(n)
      PROVE  GateIsTight'
  BY <1>7 DEF SetLimit, GateIsTight
<1>8. QED
  BY <1>2, <1>3, <1>4, <1>5, <1>6, <1>7 DEF Next

\* Until an admin moves the limit, at most so many runs are under way, and
\* nobody waits while a slot is free.
THEOREM GateIsTightHolds == Spec => []GateIsTight
BY SlotsInit, SlotsStep, TightInit, TightStep, PTL DEF Spec

-----------------------------------------------------------------------------
(* TlsCert: a restart finds what is served, for every step writes both files *)
(* before it serves them; a torn file matches nothing.                      *)

TlsInv == Tls!TypeOK /\ (~ up => served = None) /\ Tls!HttpsIsConsistent

LEMMA TlsInit ==
    ASSUME Tls!TlsAssumption, Tls!Init
    PROVE  TlsInv
<1>0. crashes \in 0 .. Crashes
  BY DEF Tls!TlsAssumption, Tls!Init
<1>1. Tls!TypeOK
  BY <1>0 DEF Tls!Init, Tls!TypeOK, Tls!Contents
<1>2. QED
  BY <1>1 DEF Tls!Init, TlsInv, Tls!HttpsIsConsistent, Tls!ServedIsStored, Tls!CookieFollowsHttps

\* A pair that is applied is served, with its cookies and its header.
LEMMA TlsApplied ==
    ASSUME Tls!TlsAssumption, TlsInv, NEW p \in Pairs, Tls!Apply(p, p)
    PROVE  served' = p /\ secure' = "yes" /\ hsts' = TRUE /\ tBound' = tBound
  BY DEF Tls!TlsAssumption, TlsInv, Tls!Apply, Tls!Stored, Tls!Matches, Tls!Hsts, Tls!HttpsIsConsistent, Tls!CookieFollowsHttps

\* Nothing is served after a step that ends the server or the process.
LEMMA TlsEnded ==
    ASSUME served' = None
    PROVE  (~ up => served = None)' /\ Tls!HttpsIsConsistent'
  BY DEF Tls!HttpsIsConsistent, Tls!ServedIsStored, Tls!CookieFollowsHttps

\* Nor does anything change for a server whose files and state stay.
LEMMA TlsUntouched ==
    ASSUME TlsInv, UNCHANGED <<cert, key, up, served, secure, hsts>>
    PROVE  (~ up => served = None)' /\ Tls!HttpsIsConsistent'
  BY DEF TlsInv, Tls!HttpsIsConsistent, Tls!ServedIsStored, Tls!CookieFollowsHttps, Tls!Stored, Tls!Matches

LEMMA TlsPairs ==
    ASSUME Tls!TlsAssumption, TlsInv, NEW p \in Pairs,
           \/ Tls!InstallCut(p) \/ Tls!Issued(p) \/ Tls!IssuedCut(p) \/ Tls!IssuedTorn(p)
           \/ \E old \in BOOLEAN : Tls!Install(p, old)
    PROVE  TlsInv'
<1>0. Crashes \in Nat /\ crashes \in 0 .. Crashes /\ p \in Tls!Contents /\ Torn \in Tls!Contents
      /\ cert \in Tls!Contents /\ key \in Tls!Contents /\ due \in BOOLEAN /\ acme \in BOOLEAN
      /\ issue \in {"none", "account", "challenged"} /\ tBound \in BOOLEAN
  BY DEF Tls!TlsAssumption, TlsInv, Tls!TypeOK, Tls!Contents
<1>1. CASE Tls!InstallCut(p) \/ Tls!IssuedCut(p)
  <2>1. /\ served' = None /\ secure' = "auto" /\ hsts' = FALSE /\ tBound' = FALSE /\ issue' = "none"
        /\ up' = FALSE /\ crashes' = crashes + 1 /\ crashes < Crashes
        /\ cert' = p /\ key' = key /\ due' = due /\ acme' = acme
    BY <1>1 DEF Tls!InstallCut, Tls!IssuedCut, Tls!Die, Tls!Hsts
  <2>2. crashes' \in 0 .. Crashes
    BY <1>0, <2>1
  <2>3. Tls!TypeOK'
    BY <1>0, <2>1, <2>2 DEF Tls!TypeOK
  <2>4. QED
    BY <2>1, <2>3, TlsEnded DEF TlsInv
<1>2. CASE Tls!Issued(p) \/ \E old \in BOOLEAN : Tls!Install(p, old)
  <2>1. /\ served' = p /\ secure' = "yes" /\ hsts' = TRUE /\ tBound' = tBound
        /\ up /\ up' = up /\ crashes' = crashes /\ cert' = p /\ key' = p /\ due' \in BOOLEAN
        /\ acme' = acme /\ issue' \in {issue, "none"}
    BY <1>2, TlsApplied DEF Tls!Issued, Tls!Install, Tls!Alive
  <2>2. Tls!TypeOK'
    BY <1>0, <2>1 DEF Tls!TypeOK
  <2>3. QED
    BY <2>1, <2>2 DEF TlsInv, Tls!HttpsIsConsistent, Tls!ServedIsStored, Tls!CookieFollowsHttps
<1>3. CASE Tls!IssuedTorn(p)
  <2>1. /\ up /\ up' = up /\ crashes' = crashes /\ cert' = p /\ key' = Torn /\ issue' = "none"
        /\ UNCHANGED <<due, acme, served, secure, hsts, tBound>>
    BY <1>3 DEF Tls!IssuedTorn, Tls!Alive
  <2>2. Tls!TypeOK'
    BY <1>0, <2>1 DEF Tls!TypeOK, TlsInv
  <2>3. ~ Tls!Matches(cert', key')
    BY <2>1 DEF Tls!Matches, Tls!TlsAssumption
  <2>4. QED
    BY <2>1, <2>2, <2>3 DEF TlsInv, Tls!HttpsIsConsistent, Tls!ServedIsStored, Tls!CookieFollowsHttps
<1>4. QED
  BY <1>1, <1>2, <1>3

LEMMA TlsStep ==
    ASSUME Tls!TlsAssumption, TlsInv, Tls!Next
    PROVE  TlsInv'
<1>1. CASE Tls!Remove
  <2>1. Tls!TypeOK'
    BY <1>1 DEF Tls!Remove, Tls!Alive, Tls!Hsts, TlsInv, Tls!TypeOK, Tls!Contents
  <2>2. QED
    BY <1>1, <2>1, TlsEnded DEF Tls!Remove, TlsInv
<1>2. CASE Tls!Crash
  <2>1. crashes' \in 0 .. Crashes
    BY <1>2 DEF Tls!Crash, Tls!Die, TlsInv, Tls!TypeOK, Tls!TlsAssumption
  <2>2. Tls!TypeOK'
    BY <1>2, <2>1 DEF Tls!Crash, Tls!Die, Tls!Hsts, TlsInv, Tls!TypeOK
  <2>3. QED
    BY <1>2, <2>2, TlsEnded DEF Tls!Crash, Tls!Die, TlsInv
<1>3. CASE Tls!PortBusy
  <2>1. Tls!TypeOK'
    BY <1>3 DEF Tls!PortBusy, Tls!Alive, TlsInv, Tls!TypeOK
  <2>2. QED
    BY <1>3, <2>1, TlsEnded DEF Tls!PortBusy, TlsInv
<1>4. CASE Tls!Ages \/ Tls!Order \/ Tls!Challenged \/ Tls!IssueFails \/ Tls!Renew \/ Tls!PortTaken
  <2>1. UNCHANGED <<cert, key, up, served, secure, hsts, crashes>>
    BY <1>4 DEF Tls!Ages, Tls!Order, Tls!Challenged, Tls!IssueFails, Tls!Renew, Tls!PortTaken, Tls!Alive
  <2>2. due' \in BOOLEAN /\ acme' \in BOOLEAN /\ tBound' \in BOOLEAN
    BY <1>4 DEF Tls!Ages, Tls!Order, Tls!Challenged, Tls!IssueFails, Tls!Renew, Tls!PortTaken, Tls!Alive, TlsInv, Tls!TypeOK
  <2>3. issue' \in {"none", "account", "challenged"}
    BY <1>4 DEF Tls!Ages, Tls!Order, Tls!Challenged, Tls!IssueFails, Tls!Renew, Tls!PortTaken, Tls!Alive, TlsInv, Tls!TypeOK
  <2>4. Tls!TypeOK'
    BY <2>1, <2>2, <2>3 DEF TlsInv, Tls!TypeOK
  <2>5. QED
    BY <2>1, <2>4, TlsUntouched DEF TlsInv
<1>5. CASE Tls!Start
  <2>1. served = None /\ cert' = cert /\ key' = key /\ up' = TRUE /\ Tls!Apply(cert, key)
    BY <1>5 DEF Tls!Start, TlsInv
  <2>2. \/ served' = None /\ secure' \in {"auto", secure} /\ hsts' \in {FALSE, hsts}
        \/ served' = cert /\ cert \in Pairs /\ secure' = "yes" /\ hsts' = TRUE
    BY <2>1 DEF Tls!Apply, Tls!Matches, Tls!Hsts
  <2>3. tBound' = tBound
    BY <2>1 DEF Tls!Apply
  <2>4. Tls!TypeOK'
    BY <1>5, <2>2, <2>3 DEF Tls!Start, TlsInv, Tls!TypeOK
  <2>5. QED
    BY <2>1, <2>2, <2>4 DEF TlsInv, Tls!HttpsIsConsistent, Tls!ServedIsStored, Tls!CookieFollowsHttps
<1>6. QED
  BY <1>1, <1>2, <1>3, <1>4, <1>5, TlsPairs DEF Tls!Next

\* What is served is what a restart restores, and the cookies and the header
\* follow it, whatever an upload, an issue, a removal or a crash interrupts:
\* in every behaviour of the run, which is one of TlsCert or leaves its state.
THEOREM HttpsIsConsistentHolds ==
    ASSUME Tls!TlsAssumption
    PROVE  MCFairSpec => []HttpsIsConsistent
<1>1. MCInit => TlsInv
  BY TlsInit DEF MCInit
<1>2. TlsInv /\ [MCNext]_mcVars => TlsInv'
  <2>1. CASE Tls!Next
    BY <2>1, TlsStep
  <2>2. CASE UNCHANGED https
    BY <2>2 DEF https, TlsInv, Tls!TypeOK, HttpsIsConsistent, Tls!HttpsIsConsistent,
                Tls!ServedIsStored, Tls!CookieFollowsHttps, Tls!Stored, Tls!Matches, Tls!Contents
  <2>3. QED
    BY <2>1, <2>2 DEF MCNext, mcVars
<1>3. TlsInv => HttpsIsConsistent
  BY DEF TlsInv, HttpsIsConsistent
<1>4. MCFairSpec => MCInit /\ [][MCNext]_mcVars
  BY PTL DEF MCFairSpec
<1>5. QED
  BY <1>1, <1>2, <1>3, <1>4, PTL
=============================================================================
