--------------------------- MODULE PackagesProofs ---------------------------
(***************************************************************************)
(* Theorems about the specification of MCPackages: about Gateway, for any  *)
(* applications, users, ports and calls and any lifetime of an identity;   *)
(* AppReview, for any versions, signatures and uploads; Package, for any   *)
(* limits; AppEnv, for any names, versions and keys; Egress, for any       *)
(* addresses, hosts and lists; and AppTokens, for any limits and windows.  *)
(***************************************************************************)
EXTENDS MCPackages, Sequences, TLAPS, FiniteSetTheorems

-----------------------------------------------------------------------------
(* Gateway: the age of an access is carried along three stations: who      *)
(* passes a gate has access now, who has waited n ticks, for a port or in  *)
(* the queue, had it n ticks ago at most, and an identity of age n is of   *)
(* somebody who had it n ticks before that wait at most.  Where the        *)
(* identity went plays no part.                                            *)

\* A call that waits for a port has a persistent package, one in the queue a
\* user and an invoked one, and one that waits for an answer of its port has
\* that port.
WaitsForSomething ==
    \A c \in Calls :
        /\ call[c].st \in {"port", "wait"} => call[c].app \in Apps \ Invoked /\ call[c].age <= 1
        /\ call[c].st = "wait" => call[c].port \in Ports
        /\ call[c].st = "queue" => call[c].app \in Invoked /\ call[c].user \in Users

\* The gate is passed with access, which is counted from its end.
AccessIsNow == \A u \in Users, a \in Apps : HasAccess(u, a) => since[u][a] = 0

\* What waits was let in when it began to wait.
WaitingHadAccess ==
    \A c \in Calls :
        (call[c].st \in {"port", "wait", "queue"} /\ call[c].user # None)
            => since[call[c].user][call[c].app] <= call[c].age

\* An identity that is still valid is not much younger than the access.
HeldHadAccess ==
    \A a \in Apps, u \in Users :
        held[u][a] <= Ttl => since[u][a] <= held[u][a] + Wait(a)

TInv == TypeOK /\ WaitsForSomething

\* The inductive invariant.
IInv == TInv /\ AccessIsNow /\ WaitingHadAccess /\ HeldHadAccess /\ ChargedHadAccess

CallRecord == [st : {"idle", "port", "wait", "queue", "sent"}, app : Apps \cup {None},
               user : Users \cup {None}, ws : BOOLEAN,
               port : Ports \cup {None}, age : 0 .. QueueWait]

-----------------------------------------------------------------------------
(* Types *)

\* The step replaces the call c by r.
LEMMA CallTypes ==
    ASSUME TInv, NEW c \in Calls, NEW r \in CallRecord, Set(c, r),
           r.st \in {"port", "wait"} => r.app \in Apps \ Invoked /\ r.age <= 1,
           r.st = "wait" => r.port \in Ports,
           r.st = "queue" => r.app \in Invoked /\ r.user \in Users
    PROVE  call' \in [Calls -> CallRecord] /\ WaitsForSomething'
BY DEF TInv, TypeOK, CallRecord, Set, WaitsForSomething

LEMMA SignedTypes ==
    ASSUME TypeOK, NEW u, NEW a, Signs(u, a)
    PROVE  held' \in [Users -> [Apps -> 0 .. Gone]]
<1>1. 0 \in 0 .. Gone
  BY GatewayAssumption DEF Gone
<1>2. \A v \in Users : held'[v] \in [Apps -> 0 .. Gone]
  BY <1>1 DEF TypeOK, Signs
<1>3. held' = [v \in Users |-> held'[v]]
  BY DEF TypeOK, Signs
<1>4. QED
  BY <1>2, <1>3

LEMMA HeldTypes ==
    ASSUME TypeOK, NEW b, NEW u, NEW a, Handed(b, u, a)
    PROVE  held' \in [Users -> [Apps -> 0 .. Gone]]
BY SignedTypes DEF TypeOK, Handed

LEMMA SpawnedTypes == ASSUME TypeOK, NEW a \in Apps, Spawned(a) PROVE signers \subseteq signers' /\ signers' \subseteq Apps
BY DEF TypeOK, Spawned

LEMMA EnterTypes ==
    ASSUME TypeOK, NEW a \in Apps, NEW p \in Ports, Enter(a, p)
    PROVE  entry' \in [Apps -> Ports \cup {None}]
BY DEF TypeOK, Enter

LEMMA NotedTypes == ASSUME TypeOK, Noted PROVE since' \in [Users -> [Apps -> 0 .. Never]]
BY GatewayAssumption DEF TypeOK, Noted, Never

\* A gate was passed by a user, or by a visitor, to a package or an address.
LEMMA RequestTypes ==
    ASSUME NEW st \in {"port", "queue", "sent"}, NEW a \in Apps, NEW u \in Users \cup {None},
           NEW ws \in BOOLEAN, NEW p \in Ports \cup {None}
    PROVE  /\ Request(st, a, u, ws, p) \in CallRecord /\ Idle \in CallRecord
           /\ Request(st, a, u, ws, p).st = st /\ Request(st, a, u, ws, p).app = a
           /\ Request(st, a, u, ws, p).user = u /\ Request(st, a, u, ws, p).age = 0
           /\ Idle.st = "idle"
BY GatewayAssumption DEF Request, Idle, CallRecord

\* Only the state of the call changes, or its port.
LEMMA ForwardTypes ==
    ASSUME NEW r \in CallRecord, NEW p \in Ports, NEW st \in {"wait", "sent"}
    PROVE  LET n == [r EXCEPT !.st = st, !.port = p]
           IN  /\ n \in CallRecord /\ n.st = st /\ n.port = p
               /\ n.app = r.app /\ n.user = r.user /\ n.age = r.age
BY DEF CallRecord

LEMMA VisitKeepsTypes ==
    ASSUME TInv, NEW c \in Calls, NEW a \in Apps, NEW u \in Users \cup {None}, NEW ws \in BOOLEAN,
           \/ /\ Handed(a, u, a) /\ Set(c, Request("sent", a, u, ws, None))
              /\ UNCHANGED <<row, login, edits, Processes, signers, since, charged>>
           \/ ToPackage(c, a, u, ws) /\ a \notin Invoked
    PROVE  TInv'
<1> USE DEF TInv
<1>1. CASE /\ Handed(a, u, a) /\ Set(c, Request("sent", a, u, ws, None))
           /\ UNCHANGED <<row, login, edits, Processes, signers, since, charged>>
  <2>1. held' \in [Users -> [Apps -> 0 .. Gone]]
    BY <1>1, HeldTypes
  <2>2. call' \in [Calls -> CallRecord] /\ WaitsForSomething'
    BY <1>1, RequestTypes, CallTypes
  <2>3. QED
    BY <1>1, <2>1, <2>2 DEF TypeOK, Processes, CallRecord
<1>2. CASE ToPackage(c, a, u, ws) /\ entry[a] # None
  <2>1. entry[a] \in Ports /\ bound[entry[a]] \in Apps \cup {None}
    BY <1>2 DEF TypeOK
  <2>2. held' \in [Users -> [Apps -> 0 .. Gone]]
    BY <1>2, <2>1, HeldTypes DEF ToPackage
  <2>3. call' \in [Calls -> CallRecord] /\ WaitsForSomething'
    <3>1. CASE bound[entry[a]] = None
      BY <1>2, <2>1, <3>1, RequestTypes, CallTypes DEF ToPackage
    <3>2. CASE bound[entry[a]] # None
      BY <1>2, <2>1, <3>2, RequestTypes, CallTypes DEF ToPackage
    <3>3. QED
      BY <3>1, <3>2
  <2>4. QED
    BY <1>2, <2>2, <2>3 DEF ToPackage, TypeOK, Processes, CallRecord
<1>3. CASE ToPackage(c, a, u, ws) /\ a \notin Invoked /\ entry[a] = None
  <2>1. call' \in [Calls -> CallRecord] /\ WaitsForSomething'
    BY <1>3, RequestTypes, CallTypes DEF ToPackage
  <2>2. QED
    BY <1>3, <2>1 DEF ToPackage, TypeOK, Processes, CallRecord
<1>4. QED
  BY <1>1, <1>2, <1>3

LEMMA ForwardKeepsTypes ==
    ASSUME TInv, NEW c \in Calls, NEW p \in Ports, call[c].st \in {"port", "wait"}, Forward(c, p),
           UNCHANGED <<row, login, edits, Processes, signers, since, charged>>
    PROVE  TInv'
<1> USE DEF TInv
<1>1. call[c] \in CallRecord
  BY DEF TypeOK, CallRecord
<1>2. held' \in [Users -> [Apps -> 0 .. Gone]]
  BY HeldTypes DEF Forward
<1>3. call' \in [Calls -> CallRecord] /\ WaitsForSomething'
  <2>1. CASE bound[p] = None
    <3>1. Idle \in CallRecord /\ Idle.st = "idle"
      BY GatewayAssumption DEF Idle, CallRecord
    <3>2. QED
      BY <2>1, <3>1, CallTypes DEF Forward
  <2>2. CASE bound[p] # None
    BY <1>1, <2>2, ForwardTypes, CallTypes DEF Forward
  <2>3. QED
    BY <2>1, <2>2
<1>4. QED
  BY <1>2, <1>3 DEF TypeOK, Processes, CallRecord

\* A call that waits on is a tick older.
LEMMA Older ==
    ASSUME TInv, Tick, NEW c \in Calls
    PROVE  /\ call'[c] \in CallRecord
           /\ call'[c].st = call[c].st /\ call'[c].app = call[c].app
           /\ call'[c].user = call[c].user /\ call'[c].port = call[c].port
           /\ call[c].st \in {"port", "wait", "queue"} => call'[c].age = call[c].age + 1
           /\ call[c].st \in {"port", "wait"} => call'[c].age <= 1
<1>1. call[c] \in CallRecord
  BY DEF TInv, TypeOK, CallRecord
<1>2. CASE call[c].st \in {"port", "wait", "queue"}
  <2>1. call[c].age < Longest(call[c].st) /\ call'[c] = [call[c] EXCEPT !.age = @ + 1]
    BY <1>2 DEF Tick
  <2>2. call[c].age \in 0 .. QueueWait /\ call[c].age + 1 \in 0 .. QueueWait
    BY <1>1, <2>1, GatewayAssumption DEF Longest, CallRecord
  <2>3. call[c].st \in {"port", "wait"} => call[c].age + 1 <= 1
    BY <2>1, <2>2 DEF Longest
  <2>4. QED
    BY <1>1, <1>2, <2>1, <2>2, <2>3 DEF CallRecord
<1>3. CASE call[c].st \notin {"port", "wait", "queue"}
  <2>1. call'[c] = call[c]
    BY <1>3 DEF Tick
  <2>2. QED
    BY <1>1, <1>3, <2>1
<1>4. QED
  BY <1>2, <1>3

LEMMA TickKeepsTypes == ASSUME TInv, Tick PROVE TInv'
<1> USE DEF TInv
<1>1. held' \in [Users -> [Apps -> 0 .. Gone]]
  BY GatewayAssumption DEF Tick, TypeOK, Gone
<1>2. since' \in [Users -> [Apps -> 0 .. Never]]
  BY GatewayAssumption DEF Tick, TypeOK, Never
<1>3. call' \in [Calls -> CallRecord]
  <2>1. \A c \in Calls : call'[c] \in CallRecord
    BY Older
  <2>2. DOMAIN call' = Calls /\ call' = [c \in Calls |-> call'[c]]
    BY DEF Tick
  <2>3. QED
    BY <2>1, <2>2
<1>4. WaitsForSomething'
  BY Older DEF WaitsForSomething
<1>5. QED
  BY <1>1, <1>2, <1>3, <1>4 DEF Tick, TypeOK, Processes, CallRecord

LEMMA TypeStep == ASSUME TInv, Next PROVE TInv'
<1> USE DEF TInv
<1>1. ASSUME NEW a \in Apps, NEW r \in Rows, EditRow(a, r)
      PROVE  TInv'
  BY <1>1, NotedTypes, GatewayAssumption DEF EditRow, TypeOK, Processes, WaitsForSomething
<1>2. ASSUME NEW u \in Users, NEW l \in {"none", "half", "full"}, SetLogin(u, l)
      PROVE  TInv'
  BY <1>2, NotedTypes, GatewayAssumption DEF SetLogin, TypeOK, Processes, WaitsForSomething
<1>3. ASSUME NEW b \in Apps, NEW a \in Apps, NEW u \in Users, Charge(b, u, a)
      PROVE  TInv'
  BY <1>3 DEF Charge, TypeOK, Processes, WaitsForSomething
<1>4. ASSUME NEW c \in Calls, NEW a \in Apps, NEW u \in Users \cup {None},
             \/ VisitUpstream(c, a, u) \/ UpgradeUpstream(c, a, u)
             \/ VisitPackage(c, a, u) \/ UpgradePackage(c, a, u)
      PROVE  TInv'
  BY <1>4, VisitKeepsTypes DEF VisitUpstream, UpgradeUpstream, VisitPackage, UpgradePackage
<1>5. ASSUME NEW c \in Calls, PortRaced(c) \/ PortReady(c)
      PROVE  TInv'
  <2>1. PortRaced(c) => entry[call[c].app] \in Ports
    BY DEF PortRaced, TypeOK, WaitsForSomething
  <2>2. PortReady(c) => call[c].port \in Ports
    BY DEF PortReady, WaitsForSomething
  <2>3. QED
    BY <1>5, <2>1, <2>2, ForwardKeepsTypes DEF PortRaced, PortReady
<1>6. ASSUME NEW c \in Calls, GiveUp(c) \/ Answered(c) \/ Closed(c)
      PROVE  TInv'
  <2>1. Idle \in CallRecord /\ Idle.st = "idle"
    BY GatewayAssumption DEF Idle, CallRecord
  <2>2. call' \in [Calls -> CallRecord] /\ WaitsForSomething'
    BY <1>6, <2>1, CallTypes DEF GiveUp, Answered, Closed
  <2>3. QED
    BY <1>6, <2>2 DEF GiveUp, Answered, Closed, TypeOK, Processes, CallRecord
<1>7. ASSUME NEW c \in Calls, NEW p \in Ports, PortFound(c, p)
      PROVE  TInv'
  <2>1. call[c] \in CallRecord /\ call[c].app \in Apps \ Invoked /\ call[c].age <= 1
    BY <1>7 DEF PortFound, TypeOK, CallRecord, WaitsForSomething
  <2>2. entry' \in [Apps -> Ports \cup {None}] /\ signers' \subseteq Apps
    BY <1>7, <2>1, EnterTypes, SpawnedTypes DEF PortFound
  <2>3. call' \in [Calls -> CallRecord] /\ WaitsForSomething'
    BY <1>7, <2>1, ForwardTypes, CallTypes DEF PortFound
  <2>4. QED
    BY <1>7, <2>2, <2>3 DEF PortFound, TypeOK, CallRecord
<1>8. ASSUME NEW a \in Apps, Listen(a) \/ Stop(a) \/ \E restart \in BOOLEAN : Exits(a, restart)
      PROVE  TInv'
  BY <1>8 DEF Listen, Stop, Exits, TypeOK, WaitsForSomething
<1>9. ASSUME NEW a \in Apps, NEW p \in Ports, Restarts(a, p)
      PROVE  TInv'
  <2>1. entry' \in [Apps -> Ports \cup {None}] /\ signers' \subseteq Apps
    BY <1>9, EnterTypes, SpawnedTypes DEF Restarts, TypeOK
  <2>2. QED
    BY <1>9, <2>1 DEF Restarts, TypeOK, WaitsForSomething
<1>10. ASSUME NEW p \in Ports, Dies(p)
       PROVE  TInv'
  BY <1>10 DEF Dies, TypeOK, WaitsForSomething
<1>11. CASE Tick
  BY <1>11, TickKeepsTypes
<1>12. ASSUME NEW c \in Calls, NEW a \in Apps, NEW u \in Users \cup {None}, RunQueued(c, a, u)
       PROVE  TInv'
  <2> DEFINE r == Request("queue", a, u, FALSE, None)
  <2>0. a \in Invoked /\ u \in Users /\ Set(c, r)
    BY <1>12 DEF RunQueued
  <2>r. r \in CallRecord /\ r.st = "queue" /\ r.app = a /\ r.user = u
    BY GatewayAssumption DEF Request, CallRecord
  <2> HIDE DEF r
  <2>1. call' \in [Calls -> CallRecord] /\ WaitsForSomething'
    BY <2>0, <2>r, CallTypes
  <2>2. QED
    BY <1>12, <2>1 DEF RunQueued, TypeOK, Processes, CallRecord
<1>13. ASSUME NEW c \in Calls, RunStarts(c)
       PROVE  TInv'
  <2>1. call[c] \in CallRecord /\ call[c].app \in Apps
    BY <1>13, GatewayAssumption DEF RunStarts, TypeOK, CallRecord, WaitsForSomething
  <2>2. held' \in [Users -> [Apps -> 0 .. Gone]] /\ signers' \subseteq Apps
    BY <1>13, <2>1, SignedTypes, SpawnedTypes DEF RunStarts
  <2>3. [call[c] EXCEPT !.st = "sent"] \in CallRecord /\ [call[c] EXCEPT !.st = "sent"].st = "sent"
    BY <2>1 DEF CallRecord
  <2>4. call' \in [Calls -> CallRecord] /\ WaitsForSomething'
    BY <1>13, <2>3, CallTypes DEF RunStarts
  <2>5. QED
    BY <1>13, <2>2, <2>4 DEF RunStarts, TypeOK, Processes, CallRecord
<1>14. ASSUME NEW a \in Apps, GiveSecret(a) \/ Tell(a)
       PROVE  TInv'
  BY <1>14 DEF GiveSecret, Tell, TypeOK, Processes, WaitsForSomething
<1>15. ASSUME NEW throws \in BOOLEAN, ChangeSecret(throws)
       PROVE  TInv'
  BY <1>15, GatewayAssumption DEF ChangeSecret, TypeOK, WaitsForSomething, Gone
<1>16. QED
  BY <1>1, <1>2, <1>3, <1>4, <1>5, <1>6, <1>7, <1>8, <1>9, <1>10, <1>11, <1>12, <1>13, <1>14, <1>15 DEF Next

-----------------------------------------------------------------------------
(* Access *)

LEMMA WaitIsSome == \A a : Wait(a) \in Nat /\ Wait(a) >= 1 /\ Wait(a) <= QueueWait
BY GatewayAssumption DEF Wait

\* The step signs an identity of somebody who had access lately.
LEMMA SignedKeeps ==
    ASSUME TInv, HeldHadAccess, NEW u \in Users, NEW a \in Apps,
           Signs(u, a), since' = since, since[u][a] <= Wait(a)
    PROVE  HeldHadAccess'
<1>1. \A e \in Apps, v \in Users : held'[v][e] = IF v = u /\ e = a THEN 0 ELSE held[v][e]
  BY DEF Signs, TInv, TypeOK
<1>2. QED
  BY <1>1, WaitIsSome DEF HeldHadAccess, Wait

LEMMA HandedKeeps ==
    ASSUME TInv, HeldHadAccess, NEW b, NEW u \in Users \cup {None}, NEW a \in Apps,
           Handed(b, u, a), since' = since,
           u # None => since[u][a] <= Wait(a)
    PROVE  HeldHadAccess'
<1>1. CASE b # None /\ u # None /\ a \in PassUser
  BY <1>1, SignedKeeps DEF Handed
<1>2. CASE ~ (b # None /\ u # None /\ a \in PassUser)
  BY <1>2 DEF Handed, HeldHadAccess, Wait
<1>3. QED
  BY <1>1, <1>2

\* The step replaces the call c by r, which does not wait, or waits with an
\* access that is as young as it should be.
LEMMA SetKeeps ==
    ASSUME TInv, WaitingHadAccess, NEW c \in Calls, NEW r, Set(c, r), since' = since,
           (r.st \in {"port", "wait", "queue"} /\ r.user # None) => since[r.user][r.app] <= r.age
    PROVE  WaitingHadAccess'
<1>1. \A d \in Calls : call'[d] = IF d = c THEN r ELSE call[d]
  BY DEF Set, TInv, TypeOK
<1>2. QED
  BY <1>1 DEF WaitingHadAccess

\* Whoever passes a gate has access.
LEMMA GateIsAccess ==
    ASSUME IInv, NEW c \in Calls, NEW a \in Apps, NEW u \in Users \cup {None},
           PassesGate(c, a, u) \/ PassesUpgrade(c, a, u)
    PROVE  u # None => since[u][a] = 0
BY DEF IInv, PassesGate, PassesUpgrade, HasAccess, AccessIsNow

\* What a step leaves as it is when it concerns neither rows nor time; the
\* secret may become known to more.
Quiet == UNCHANGED <<row, login, since, charged>> /\ signers \subseteq signers'

LEMMA QuietKeeps ==
    ASSUME IInv, Quiet
    PROVE  AccessIsNow' /\ ChargedHadAccess'
BY DEF IInv, Quiet, AccessIsNow, ChargedHadAccess, HasAccess, CanAccess, Wait

LEMMA VisitKeepsAccess ==
    ASSUME IInv, NEW c \in Calls, NEW a \in Apps, NEW u \in Users \cup {None}, NEW ws \in BOOLEAN,
           u # None => since[u][a] = 0,
           \/ /\ Handed(a, u, a) /\ Set(c, Request("sent", a, u, ws, None))
              /\ UNCHANGED <<row, login, edits, Processes, signers, since, charged>>
           \/ ToPackage(c, a, u, ws)
    PROVE  HeldHadAccess' /\ WaitingHadAccess' /\ Quiet
<1> USE DEF IInv
<1>1. Quiet
  BY DEF Quiet, ToPackage
<1>2. u # None => since[u][a] <= Wait(a)
  BY WaitIsSome
<1>3. HeldHadAccess'
  <2>1. CASE ToPackage(c, a, u, ws) /\ entry[a] # None
    BY <1>1, <1>2, <2>1, HandedKeeps DEF ToPackage, Quiet
  <2>2. CASE ToPackage(c, a, u, ws) /\ entry[a] = None
    BY <1>1, <2>2 DEF ToPackage, Quiet, HeldHadAccess, Wait
  <2>3. CASE Handed(a, u, a)
    BY <1>1, <1>2, <2>3, HandedKeeps DEF Quiet
  <2>4. QED
    BY <2>1, <2>2, <2>3
<1>4. WaitingHadAccess'
  <2>1. PICK r : /\ Set(c, r)
                 /\ r.st \in {"port", "wait", "queue"} => r.user = u /\ r.app = a /\ r.age = 0
    BY DEF ToPackage, Request, Idle
  <2>2. (r.st \in {"port", "wait", "queue"} /\ r.user # None) => since[r.user][r.app] <= r.age
    BY <2>1
  <2>3. QED
    BY <1>1, <2>1, <2>2, SetKeeps DEF Quiet
<1>5. QED
  BY <1>1, <1>3, <1>4

LEMMA ForwardKeepsAccess ==
    ASSUME IInv, NEW c \in Calls, NEW p \in Ports, call[c].st \in {"port", "wait"}, Forward(c, p), Quiet
    PROVE  HeldHadAccess' /\ WaitingHadAccess'
<1> USE DEF IInv
<1>1. /\ call[c] \in CallRecord /\ call[c].user \in Users \cup {None} /\ call[c].age \in Nat
      /\ call[c].app \in Apps \ Invoked /\ call[c].age <= 1
  BY GatewayAssumption DEF TInv, TypeOK, CallRecord, WaitsForSomething
<1>2. call[c].user # None => since[call[c].user][call[c].app] <= Wait(call[c].app)
  <2>1. ASSUME call[c].user # None
        PROVE  since[call[c].user][call[c].app] \in Nat
    BY <1>1, <2>1, GatewayAssumption DEF TInv, TypeOK, Never
  <2>2. QED
    BY <1>1, <2>1 DEF WaitingHadAccess, Wait
<1>3. HeldHadAccess'
  BY <1>1, <1>2, HandedKeeps DEF Forward, Quiet
<1>4. WaitingHadAccess'
  <2>1. Idle.st = "idle" /\ [call[c] EXCEPT !.st = "sent", !.port = p].st = "sent"
    BY <1>1, ForwardTypes DEF Idle
  <2>2. QED
    BY <2>1, SetKeeps DEF Forward, Quiet
<1>5. QED
  BY <1>3, <1>4

\* A changed row or session only makes accesses younger.
LEMMA EditKeepsAccess ==
    ASSUME IInv, Noted, UNCHANGED <<call, held, signers, charged>>
    PROVE  AccessIsNow' /\ WaitingHadAccess' /\ HeldHadAccess' /\ ChargedHadAccess'
<1> USE DEF IInv
<1>1. \A u \in Users, a \in Apps : since'[u][a] = IF HasAccess(u, a)' THEN 0 ELSE since[u][a]
  BY DEF Noted
<1>2. \A u \in Users, a \in Apps : since[u][a] \in Nat /\ since'[u][a] <= since[u][a] /\ since'[u][a] \in Nat
  BY <1>1 DEF TInv, TypeOK
<1>3. AccessIsNow'
  BY <1>1 DEF AccessIsNow
<1>4. WaitingHadAccess'
  <2>1. ASSUME NEW c \in Calls, call[c].st \in {"port", "wait", "queue"}, call[c].user # None
        PROVE  since'[call[c].user][call[c].app] <= call[c].age
    <3>1. call[c].user \in Users /\ call[c].app \in Apps /\ call[c].age \in Nat
      BY <2>1, GatewayAssumption DEF TInv, TypeOK, WaitsForSomething
    <3>2. since[call[c].user][call[c].app] <= call[c].age
      BY <2>1 DEF WaitingHadAccess
    <3>3. QED
      BY <1>2, <3>1, <3>2
  <2>2. QED
    BY <2>1 DEF WaitingHadAccess
<1>5. HeldHadAccess'
  <2>1. ASSUME NEW a \in Apps, NEW u \in Users, held[u][a] <= Ttl
        PROVE  since'[u][a] <= held[u][a] + Wait(a)
    <3>1. held[u][a] \in Nat
      BY GatewayAssumption DEF TInv, TypeOK, Gone
    <3>2. QED
      BY <1>2, <2>1, <3>1, WaitIsSome DEF HeldHadAccess
  <2>2. QED
    BY <2>1 DEF HeldHadAccess, Wait
<1>6. ChargedHadAccess'
  <2>1. ASSUME NEW x \in charged, x[2] \notin signers
        PROVE  since'[x[1]][x[2]] <= Ttl + Wait(x[2])
    <3>1. x[1] \in Users /\ x[2] \in Apps
      BY DEF TInv, TypeOK
    <3>2. QED
      BY <1>2, <2>1, <3>1, WaitIsSome, GatewayAssumption DEF ChargedHadAccess
  <2>2. QED
    BY <2>1 DEF ChargedHadAccess, Wait
<1>7. QED
  BY <1>3, <1>4, <1>5, <1>6

LEMMA TickKeepsAccess ==
    ASSUME IInv, Tick
    PROVE  AccessIsNow' /\ WaitingHadAccess' /\ HeldHadAccess' /\ ChargedHadAccess'
<1> USE DEF IInv
<1>1. \A u \in Users, a \in Apps :
        /\ since[u][a] \in 0 .. Never
        /\ since'[u][a] = IF HasAccess(u, a) THEN 0
                          ELSE IF since[u][a] < Never THEN since[u][a] + 1 ELSE Never
  BY DEF Tick, TInv, TypeOK
<1>2. \A u \in Users, a \in Apps : since[u][a] \in Nat /\ since'[u][a] <= since[u][a] + 1 /\ since'[u][a] \in Nat
  BY <1>1, GatewayAssumption DEF Never
<1>3. AccessIsNow'
  BY <1>1 DEF AccessIsNow, Tick, HasAccess, CanAccess
<1>4. WaitingHadAccess'
  <2>1. ASSUME NEW c \in Calls, call'[c].st \in {"port", "wait", "queue"}, call'[c].user # None
        PROVE  since'[call'[c].user][call'[c].app] <= call'[c].age
    <3>1. call[c] \in CallRecord
      BY DEF TInv, TypeOK, CallRecord
    <3>2. /\ call[c].st \in {"port", "wait", "queue"} /\ call'[c].age = call[c].age + 1
          /\ call'[c].user = call[c].user /\ call'[c].app = call[c].app
      BY <2>1, Older
    <3>3. since[call[c].user][call[c].app] <= call[c].age
      BY <2>1, <3>2 DEF WaitingHadAccess
    <3>4. call[c].user \in Users /\ call[c].app \in Apps /\ call[c].age \in Nat
      BY <2>1, <3>1, <3>2, GatewayAssumption DEF CallRecord, TInv, WaitsForSomething
    <3>5. QED
      BY <1>2, <3>2, <3>3, <3>4
  <2>2. QED
    BY <2>1 DEF WaitingHadAccess
<1>5. HeldHadAccess'
  <2>1. ASSUME NEW a \in Apps, NEW u \in Users, held'[u][a] <= Ttl
        PROVE  since'[u][a] <= held'[u][a] + Wait(a)
    <3>1. held[u][a] \in 0 .. Gone
      BY DEF TInv, TypeOK
    <3>2. held'[u][a] = IF held[u][a] < Gone THEN held[u][a] + 1 ELSE Gone
      BY DEF Tick
    <3>3. held'[u][a] = held[u][a] + 1 /\ held[u][a] <= Ttl
      BY <2>1, <3>1, <3>2, GatewayAssumption DEF Gone
    <3>4. since[u][a] <= held[u][a] + Wait(a)
      BY <3>3 DEF HeldHadAccess
    <3>5. QED
      BY <1>2, <3>1, <3>3, <3>4, WaitIsSome, GatewayAssumption DEF Gone
  <2>2. QED
    BY <2>1 DEF HeldHadAccess, Wait
<1>6. ChargedHadAccess'
  BY DEF Tick, ChargedHadAccess
<1>7. QED
  BY <1>3, <1>4, <1>5, <1>6

LEMMA AccessStep == ASSUME IInv, Next PROVE IInv'
<1> DEFINE Rest == AccessIsNow /\ WaitingHadAccess /\ HeldHadAccess /\ ChargedHadAccess
<1>0. TInv'
  BY TypeStep DEF IInv
<1>1. ASSUME NEW a \in Apps, NEW r \in Rows, EditRow(a, r)
      PROVE  Rest'
  BY <1>1, EditKeepsAccess DEF EditRow
<1>2. ASSUME NEW u \in Users, NEW l \in {"none", "half", "full"}, SetLogin(u, l)
      PROVE  Rest'
  BY <1>2, EditKeepsAccess DEF SetLogin
<1>3. ASSUME NEW b \in Apps, NEW a \in Apps, NEW u \in Users, Charge(b, u, a)
      PROVE  Rest'
  <2>1. b \in signers \/ since[u][b] <= Ttl + Wait(b)
    <3>1. CASE b \notin signers
      <4>1. held[u][b] <= Ttl /\ held[u][b] \in Nat /\ since[u][b] \in Nat
        BY <1>3, <3>1, GatewayAssumption DEF Charge, Accepted, IInv, TInv, TypeOK, Gone, Never
      <4>2. QED
        BY <4>1, WaitIsSome, GatewayAssumption DEF IInv, HeldHadAccess
    <3>2. QED
      BY <3>1
  <2>2. ChargedHadAccess'
    BY <1>3, <2>1 DEF Charge, ChargedHadAccess, IInv, Wait
  <2>3. QED
    BY <1>3, <2>2 DEF Charge, IInv, AccessIsNow, WaitingHadAccess, HeldHadAccess, HasAccess, CanAccess, Wait
<1>4. ASSUME NEW c \in Calls, NEW a \in Apps, NEW u \in Users \cup {None},
             \/ VisitUpstream(c, a, u) \/ UpgradeUpstream(c, a, u)
             \/ VisitPackage(c, a, u) \/ UpgradePackage(c, a, u)
      PROVE  Rest'
  <2>1. u # None => since[u][a] = 0
    BY <1>4, GateIsAccess DEF VisitUpstream, UpgradeUpstream, VisitPackage, UpgradePackage
  <2>2. HeldHadAccess' /\ WaitingHadAccess' /\ Quiet
    BY <1>4, <2>1, VisitKeepsAccess DEF VisitUpstream, UpgradeUpstream, VisitPackage, UpgradePackage
  <2>3. QED
    BY <2>2, QuietKeeps
<1>5. ASSUME NEW c \in Calls, PortRaced(c) \/ PortReady(c)
      PROVE  Rest'
  <2>1. PortRaced(c) => entry[call[c].app] \in Ports
    BY DEF PortRaced, IInv, TInv, TypeOK, WaitsForSomething
  <2>2. PortReady(c) => call[c].port \in Ports
    BY DEF PortReady, IInv, TInv, WaitsForSomething
  <2>3. Quiet
    BY <1>5 DEF PortRaced, PortReady, Quiet
  <2>4. QED
    BY <1>5, <2>1, <2>2, <2>3, ForwardKeepsAccess, QuietKeeps DEF PortRaced, PortReady
<1>6. ASSUME NEW c \in Calls, GiveUp(c) \/ Answered(c) \/ Closed(c)
      PROVE  Rest'
  <2>1. Quiet /\ Set(c, Idle) /\ UNCHANGED held
    BY <1>6 DEF GiveUp, Answered, Closed, Quiet
  <2>2. WaitingHadAccess'
    BY <2>1, SetKeeps DEF IInv, Idle, Quiet
  <2>3. QED
    BY <2>1, <2>2, QuietKeeps DEF IInv, Quiet, HeldHadAccess, Wait
<1>7. ASSUME NEW c \in Calls, NEW p \in Ports, PortFound(c, p)
      PROVE  Rest'
  <2> DEFINE n == [call[c] EXCEPT !.st = "wait", !.port = p]
  <2>1. Quiet /\ Set(c, n) /\ UNCHANGED held
    BY <1>7 DEF PortFound, Quiet, Spawned
  <2>2. call[c] \in CallRecord
    BY DEF IInv, TInv, TypeOK, CallRecord
  <2>3. n.user = call[c].user /\ n.app = call[c].app /\ n.age = call[c].age
    BY <2>2 DEF CallRecord
  <2>4. n.user # None => since[n.user][n.app] <= n.age
    BY <1>7, <2>3 DEF PortFound, IInv, WaitingHadAccess
  <2> HIDE DEF n
  <2>5. WaitingHadAccess'
    BY <2>1, <2>4, SetKeeps DEF IInv, Quiet
  <2>6. QED
    BY <2>1, <2>5, QuietKeeps DEF IInv, Quiet, HeldHadAccess, Wait
<1>8. ASSUME Quiet, UNCHANGED <<call, held>>
      PROVE  Rest'
  BY <1>8, QuietKeeps DEF IInv, Quiet, HeldHadAccess, WaitingHadAccess, Wait
<1>9. ASSUME NEW a \in Apps,
             \/ Listen(a) \/ Stop(a) \/ GiveSecret(a) \/ Tell(a)
             \/ \E restart \in BOOLEAN : Exits(a, restart)
             \/ \E p \in Ports : Restarts(a, p) \/ Dies(p)
      PROVE  Rest'
  <2>1. Quiet /\ UNCHANGED <<call, held>>
    BY <1>9 DEF Listen, Stop, GiveSecret, Tell, Exits, Restarts, Spawned, Dies, Quiet
  <2>2. QED
    BY <1>8, <2>1
<1>10. ASSUME NEW p \in Ports, Dies(p)
       PROVE  Rest'
  <2>1. Quiet /\ UNCHANGED <<call, held>>
    BY <1>10 DEF Dies, Quiet
  <2>2. QED
    BY <1>8, <2>1
<1>11. ASSUME Tick
       PROVE  Rest'
  BY <1>11, TickKeepsAccess
<1>12. ASSUME NEW c \in Calls, NEW a \in Apps, NEW u \in Users \cup {None}, RunQueued(c, a, u)
       PROVE  Rest'
  <2>1. since[u][a] = 0
    BY <1>12, GateIsAccess DEF RunQueued
  <2>2. Quiet /\ UNCHANGED held
    BY <1>12 DEF RunQueued, Quiet
  <2>3. WaitingHadAccess'
    BY <1>12, <2>1, <2>2, SetKeeps DEF RunQueued, IInv, Quiet, Request
  <2>4. QED
    BY <2>2, <2>3, QuietKeeps DEF IInv, Quiet, HeldHadAccess, Wait
<1>13. ASSUME NEW c \in Calls, RunStarts(c)
       PROVE  Rest'
  <2>1. Quiet
    BY <1>13 DEF RunStarts, Spawned, Quiet
  <2>2. /\ call[c] \in CallRecord /\ call[c].user \in Users /\ call[c].user # None
        /\ call[c].app \in Invoked /\ call[c].app \in Apps
        /\ call[c].age \in Nat /\ call[c].age <= QueueWait
    BY <1>13, GatewayAssumption DEF RunStarts, IInv, TInv, TypeOK, CallRecord, WaitsForSomething
  <2>3. since[call[c].user][call[c].app] <= Wait(call[c].app)
    <3>1. since[call[c].user][call[c].app] <= call[c].age
      BY <1>13, <2>2 DEF RunStarts, IInv, WaitingHadAccess
    <3>2. since[call[c].user][call[c].app] \in Nat
      BY <2>2, GatewayAssumption DEF IInv, TInv, TypeOK, Never
    <3>3. QED
      BY <2>2, <3>1, <3>2, GatewayAssumption DEF Wait
  <2>4. HeldHadAccess'
    BY <1>13, <2>1, <2>2, <2>3, SignedKeeps DEF RunStarts, IInv, Quiet
  <2>5. [call[c] EXCEPT !.st = "sent"].st = "sent"
    BY <2>2 DEF CallRecord
  <2>6. WaitingHadAccess'
    BY <1>13, <2>1, <2>5, SetKeeps DEF RunStarts, IInv, Quiet
  <2>7. QED
    BY <2>1, <2>4, <2>6, QuietKeeps
<1>14. ASSUME NEW throws \in BOOLEAN, ChangeSecret(throws)
       PROVE  Rest'
  <2>1. HeldHadAccess'
    BY <1>14, GatewayAssumption DEF ChangeSecret, HeldHadAccess, Gone
  <2>2. QED
    BY <1>14, <2>1 DEF ChangeSecret, IInv, AccessIsNow, WaitingHadAccess, ChargedHadAccess, HasAccess, CanAccess
<1>15. Rest'
  BY <1>1, <1>2, <1>3, <1>4, <1>5, <1>6, <1>7, <1>9, <1>10, <1>11, <1>12, <1>13, <1>14 DEF Next
<1>16. QED
  BY <1>0, <1>15 DEF IInv

LEMMA AccessInit == Init => IInv
<1> SUFFICES ASSUME Init PROVE IInv
  OBVIOUS
<1>1. TypeOK
  BY GatewayAssumption DEF Init, TypeOK, Rows, Idle, Gone, Never
<1>2. WaitsForSomething /\ WaitingHadAccess
  BY DEF Init, WaitsForSomething, WaitingHadAccess, Idle
<1>3. AccessIsNow /\ ChargedHadAccess
  BY DEF Init, AccessIsNow, ChargedHadAccess, HasAccess
<1>4. HeldHadAccess
  BY GatewayAssumption DEF Init, HeldHadAccess, Gone
<1>5. QED
  BY <1>1, <1>2, <1>3, <1>4 DEF IInv, TInv

LEMMA AccessInvariant == Spec => []IInv
<1>1. IInv /\ [Next]_vars => IInv'
  <2>1. ASSUME IInv, UNCHANGED vars
        PROVE  IInv'
    BY <2>1 DEF vars, IInv, TInv, TypeOK, Processes, WaitsForSomething, AccessIsNow, WaitingHadAccess,
                HeldHadAccess, ChargedHadAccess, HasAccess, CanAccess, Wait
  <2>2. QED
    BY <2>1, AccessStep
<1>2. QED
  BY <1>1, AccessInit, PTL DEF Spec

-----------------------------------------------------------------------------
(* The theorems *)

\* Rows, ports, calls and the ages of identities stay within their types.
THEOREM TypeCorrect == Spec => []TypeOK
<1>1. IInv => TypeOK
  BY DEF IInv, TInv
<1>2. QED
  BY <1>1, AccessInvariant, PTL

\* identity.ts, aap.ts and sandbox.ts: whom an app charges that does not have
\* the secret of now has had access to it within the validity of an identity
\* and the wait before it was signed, whoever listened on the port, whoever
\* passed the identity on and whatever became of the row, the session and the
\* secret meanwhile.
THEOREM ChargedHadAccessHolds == Spec => []ChargedHadAccess
<1>1. IInv => ChargedHadAccess
  BY DEF IInv
<1>2. QED
  BY <1>1, AccessInvariant, PTL

-----------------------------------------------------------------------------
(* AppTokens *)

\* Ids are given out once, and at most one token is the runtime's.
TokensInv ==
    /\ At!TypeOK
    /\ \A t \in issued : t.id <= last
    /\ \A s, t \in issued : s.id = t.id => s = t
    /\ \A s, t \in issued : s.auto /\ t.auto => s = t
    /\ \A t \in issued : t.auto /\ ~ orphaned => aRow \in {"llm", "plain"}

\* A window, and with it a served call, is that of an id given out.
WindowsInv ==
    \A i \in At!Ids :
        /\ IsFiniteSet(At!ServedIn(served[i], At!Ages))
        /\ window[i] = None => \A k \in At!Ages : served[i][k] = 0
        /\ i > last => window[i] = None
        /\ window[i] # None /\ window[i].age = Minute => served[i][0] = 0

\* The ages of the calls of the present window.
Young(i) == {k \in At!Ages : k <= window[i].age}

\* The present window holds no more calls than it counted and than the limit;
\* what is left of the one before, no more than the limit.
RateInv ==
    \A t \in issued :
        window[t.id] # None =>
            /\ Cardinality(At!ServedIn(served[t.id], Young(t.id))) <= window[t.id].count
            /\ Cardinality(At!ServedIn(served[t.id], Young(t.id))) <= At!Largest(t)
            /\ Cardinality(At!ServedIn(served[t.id], At!Ages \ Young(t.id))) <= At!Largest(t)

AtInv == TokensInv /\ WindowsInv /\ RateInv

-----------------------------------------------------------------------------
(* Limits *)

\* The instance counts as the library does.
LEMMA AtCardinality == \A S : At!Cardinality(S) = Cardinality(S)
  BY DEF At!Cardinality, Cardinality

LEMMA AtMax ==
    ASSUME At!TokensAssumption
    PROVE  /\ At!Max(Limits) \in Limits /\ At!Max(Limits) \in Nat \ {0}
           /\ \A l \in Limits : l \in Nat \ {0} /\ l <= At!Max(Limits)
<1>1. PICK m \in Limits : \A l \in Limits : m >= l
  BY DEF At!TokensAssumption
<1>2. At!Max(Limits) \in Limits /\ \A l \in Limits : At!Max(Limits) >= l
  BY <1>1 DEF At!Max
<1>3. QED
  BY <1>2 DEF At!TokensAssumption

LEMMA AtMin ==
    ASSUME NEW x \in Nat, NEW y \in Nat
    PROVE  At!Min({x, y}) = IF x <= y THEN x ELSE y
  BY DEF At!Min

LEMMA AtLargest ==
    ASSUME At!TokensAssumption, At!TypeOK, NEW t \in issued
    PROVE  /\ t \in At!Token /\ t.id \in At!Ids /\ At!Largest(t) \in Nat \ {0}
           /\ At!Limit(t) \in Nat /\ At!Limit(t) <= At!Largest(t) /\ At!Largest(t) <= At!Max(Limits)
<1>1. t \in At!Token /\ perMinute \in Limits
  BY DEF At!TypeOK
<1>2. QED
  BY <1>1, AtMax DEF At!Largest, At!Limit, At!Token

-----------------------------------------------------------------------------
(* The calls of an age *)

LEMMA AtServedElems ==
    ASSUME NEW f, NEW K
    PROVE  /\ \A k, j : <<k, j>> \in At!ServedIn(f, K) <=> k \in K /\ j \in 1 .. f[k]
           /\ \A x \in At!ServedIn(f, K) : x = <<x[1], x[2]>>
  BY DEF At!ServedIn

LEMMA AtServedParts ==
    ASSUME NEW f, NEW K, NEW J
    PROVE  /\ At!ServedIn(f, K \cup J) = At!ServedIn(f, K) \cup At!ServedIn(f, J)
           /\ J \subseteq K => At!ServedIn(f, J) \subseteq At!ServedIn(f, K)
  BY DEF At!ServedIn

LEMMA AtServedNone ==
    ASSUME NEW f, NEW K, \A k \in K : f[k] = 0
    PROVE  At!ServedIn(f, K) = {}
<1>1. \A k \in K : 1 .. f[k] = {}
  OBVIOUS
<1>2. \A k, j : <<k, j>> \notin At!ServedIn(f, K)
  BY <1>1, AtServedElems
<1>3. QED
  BY <1>2, AtServedElems

\* One more call, of age 0.
LEMMA AtServedMore ==
    ASSUME At!TokensAssumption, NEW f \in [At!Ages -> Nat], NEW K \in SUBSET At!Ages
    PROVE  LET g == [f EXCEPT ![0] = f[0] + 1]
           IN  At!ServedIn(g, K) = IF 0 \in K THEN At!ServedIn(f, K) \cup {<<0, f[0] + 1>>}
                                          ELSE At!ServedIn(f, K)
<1> DEFINE g == [f EXCEPT ![0] = f[0] + 1]
<1>1. 0 \in At!Ages
  BY DEF At!Ages, At!TokensAssumption
<1>2. f[0] \in Nat /\ g[0] = f[0] + 1 /\ \A k \in At!Ages : k # 0 => g[k] = f[k]
  BY <1>1
<1> HIDE DEF g
<1>3. \A k, j : <<k, j>> \in At!ServedIn(g, K) <=>
              <<k, j>> \in At!ServedIn(f, K) \/ (0 \in K /\ k = 0 /\ j = f[0] + 1)
  <2> TAKE k, j
  <2>1. CASE k = 0 /\ 0 \in K
    <3>1. j \in 1 .. g[0] <=> j \in 1 .. f[0] \/ j = f[0] + 1
      BY <1>2
    <3>2. QED
      BY <2>1, <3>1, AtServedElems
  <2>2. CASE ~ (k = 0 /\ 0 \in K)
    BY <1>2, <2>2, AtServedElems
  <2>3. QED
    BY <2>1, <2>2
<1>4. \A x : x \in At!ServedIn(g, K) <=> x \in At!ServedIn(f, K) \/ (0 \in K /\ x = <<0, f[0] + 1>>)
  BY <1>3, AtServedElems
<1>5. QED
  BY <1>4 DEF g

\* A tick: the calls of the ages K were of the ages J.
LEMMA AtServedOlder ==
    ASSUME At!TokensAssumption, NEW f \in [At!Ages -> Nat], NEW K \in SUBSET At!Ages, NEW J \in SUBSET At!Ages,
           \A k \in K : k # 0 => k - 1 \in J,
           IsFiniteSet(At!ServedIn(f, J)),
           NEW g, g = [k \in At!Ages |-> IF k = 0 THEN 0 ELSE f[k - 1]]
    PROVE  /\ IsFiniteSet(At!ServedIn(g, K))
           /\ Cardinality(At!ServedIn(g, K)) <= Cardinality(At!ServedIn(f, J))
<1> DEFINE S == At!ServedIn(g, K)
           T == At!ServedIn(f, J)
           h == [x \in S |-> <<x[1] - 1, x[2]>>]
<1>1. \A x \in S : /\ x = <<x[1], x[2]>> /\ x[1] \in K /\ x[1] # 0 /\ x[2] \in 1 .. f[x[1] - 1]
                   /\ x[1] \in Int
  <2> TAKE x \in S
  <2>1. x = <<x[1], x[2]>> /\ x[1] \in K /\ x[2] \in 1 .. g[x[1]]
    BY AtServedElems
  <2>2. QED
    BY <2>1 DEF At!Ages
<1>2. \A x \in S : h[x] \in T
  <2> TAKE x \in S
  <2>1. x[1] - 1 \in J /\ x[2] \in 1 .. f[x[1] - 1]
    BY <1>1
  <2>2. QED
    BY <2>1, AtServedElems
<1>3. \A x, y \in S : h[x] = h[y] => x = y
  <2> TAKE x, y \in S
  <2>1. HAVE h[x] = h[y]
  <2>2. x[1] - 1 = y[1] - 1 /\ x[2] = y[2]
    BY <2>1
  <2>3. QED
    BY <1>1, <2>2
<1>4. h \in Injection(S, T)
  BY <1>2, <1>3 DEF Injection, IsInjective
<1>5. QED
  BY <1>4, FS_Injection

-----------------------------------------------------------------------------
(* The steps *)

LEMMA AtInit ==
    ASSUME At!TokensAssumption, At!Init
    PROVE  AtInv
<1>0. /\ At!Max(Limits) \in Limits /\ 0 \in 0..MaxTokens
      /\ served \in [At!Ids -> [At!Ages -> Nat]] /\ window \in [At!Ids -> At!Window \cup {None}]
  BY AtMax DEF At!TokensAssumption, At!Init, At!NoCalls
<1>1. At!TypeOK
  BY <1>0 DEF At!Init, At!TypeOK
<1>2. \A i \in At!Ids : At!ServedIn(served[i], At!Ages) = {}
  BY AtServedNone DEF At!Init, At!NoCalls
<1>3. QED
  BY <1>1, <1>2, FS_EmptySet DEF At!Init, AtInv, TokensInv, WindowsInv, RateInv, At!NoCalls

\* Windows are memory: a restart empties them.
LEMMA AtForgets ==
    ASSUME At!TokensAssumption, AtInv, window' = [i \in At!Ids |-> None], served' = At!NoCalls,
           issued' \subseteq At!Token
    PROVE  WindowsInv' /\ RateInv' /\ served' \in [At!Ids -> [At!Ages -> Nat]]
<1>1. \A i \in At!Ids : At!ServedIn(served'[i], At!Ages) = {}
  BY AtServedNone DEF At!NoCalls
<1>2. IsFiniteSet({})
  BY FS_EmptySet
<1>3. QED
  BY <1>1, <1>2 DEF WindowsInv, RateInv, At!NoCalls, At!Token

\* Tokens come with a new id, or go.
LEMMA AtIssues ==
    ASSUME At!TokensAssumption, AtInv, last < MaxTokens, last' = last + 1,
           NEW auto \in BOOLEAN, NEW limit \in Limits \cup {None}, issued' = At!Issued(auto, limit),
           auto => \A t \in issued : ~ t.auto,
           window' = window, served' = served, perMinute' = perMinute,
           aRow' \in At!Kinds \cup {None}, orphaned' \in BOOLEAN,
           \A t \in issued' : t.auto /\ ~ orphaned' => aRow' \in {"llm", "plain"}
    PROVE  AtInv'
<1> DEFINE n == [id |-> last + 1, auto |-> auto, limit |-> limit]
<1>0. last \in 0 .. MaxTokens /\ MaxTokens \in Nat /\ last + 1 \in At!Ids
  BY DEF AtInv, TokensInv, At!TypeOK, At!Ids, At!TokensAssumption
<1>1. issued' = issued \cup {n} /\ n.id = last + 1 /\ n.auto = auto /\ n \in At!Token
  BY <1>0 DEF At!Issued, At!Token
<1> HIDE DEF n
<1>2. At!TypeOK'
  BY <1>0, <1>1 DEF AtInv, TokensInv, At!TypeOK
<1>3. \A t \in issued : t.id \in Int /\ t.id <= last
  BY AtLargest DEF AtInv, TokensInv, At!Ids
<1>4. TokensInv'
  <2>1. \A t \in issued' : t.id <= last'
    BY <1>0, <1>1, <1>3
  <2>2. \A s, t \in issued' : s.id = t.id => s = t
    BY <1>0, <1>1, <1>3 DEF AtInv, TokensInv
  <2>3. \A s, t \in issued' : s.auto /\ t.auto => s = t
    BY <1>1 DEF AtInv, TokensInv
  <2>4. QED
    BY <1>2, <2>1, <2>2, <2>3 DEF TokensInv
<1>5. WindowsInv'
  BY <1>0 DEF AtInv, WindowsInv, At!Ids
<1>6. window[n.id] = None
  BY <1>0, <1>1 DEF AtInv, WindowsInv, At!Ids
<1>7. RateInv'
  BY <1>1, <1>6 DEF AtInv, RateInv, Young, At!Largest
<1>8. QED
  BY <1>4, <1>5, <1>7 DEF AtInv

\* The tokens are some of those that were, and nothing is served.
LEMMA AtKeeps ==
    ASSUME At!TokensAssumption, AtInv, issued' \subseteq issued, last' = last,
           perMinute' \in Limits, window' = window, served' = served,
           aRow' \in At!Kinds \cup {None}, orphaned' \in BOOLEAN,
           \A t \in issued' : t.auto /\ ~ orphaned' => aRow' \in {"llm", "plain"}
    PROVE  AtInv'
<1>1. TokensInv'
  BY DEF AtInv, TokensInv, At!TypeOK
<1>2. WindowsInv'
  BY DEF AtInv, WindowsInv
<1>3. RateInv'
  BY DEF AtInv, RateInv, Young, At!Largest
<1>4. QED
  BY <1>1, <1>2, <1>3 DEF AtInv

\* The process ends, perhaps between two statements.
LEMMA AtCrashes ==
    ASSUME At!TokensAssumption, AtInv, issued' = issued, last' = last, perMinute' = perMinute,
           window' = [i \in At!Ids |-> None], served' = At!NoCalls,
           aRow' \in At!Kinds \cup {None}, orphaned' \in BOOLEAN,
           \A t \in issued' : t.auto /\ ~ orphaned' => aRow' \in {"llm", "plain"}
    PROVE  AtInv'
<1>1. WindowsInv' /\ RateInv' /\ served' \in [At!Ids -> [At!Ages -> Nat]]
  BY AtForgets DEF AtInv, TokensInv, At!TypeOK
<1>2. TokensInv'
  BY <1>1 DEF AtInv, TokensInv, At!TypeOK
<1>3. QED
  BY <1>1, <1>2 DEF AtInv

\* What Hit makes of a window.
LEMMA AtHit ==
    ASSUME At!TokensAssumption, At!TypeOK, NEW i \in At!Ids
    PROVE  /\ At!Hit(i) \in At!Window
           /\ window[i] = None \/ window[i].age = Minute => At!Hit(i).age = 0 /\ At!Hit(i).count = 1
           /\ ~ (window[i] = None \/ window[i].age = Minute) =>
                /\ At!Hit(i).age = window[i].age
                /\ At!Hit(i).count = IF window[i].count <= At!Max(Limits) THEN window[i].count + 1
                                  ELSE At!Max(Limits) + 1
  <1>1. At!Max(Limits) \in Nat \ {0} /\ Minute \in Nat \ {0}
    BY AtMax DEF At!TokensAssumption
  <1>2. CASE window[i] = None \/ window[i].age = Minute
    BY <1>1, <1>2 DEF At!Hit, At!Window
  <1>3. CASE ~ (window[i] = None \/ window[i].age = Minute)
    <2>1. window[i] \in At!Window
      BY <1>3 DEF At!TypeOK
    <2>2. At!Min({window[i].count + 1, At!Max(Limits) + 1}) =
            IF window[i].count <= At!Max(Limits) THEN window[i].count + 1 ELSE At!Max(Limits) + 1
      BY <1>1, <2>1, AtMin DEF At!Window
    <2>3. At!Hit(i) = [window[i] EXCEPT !.count = At!Min({window[i].count + 1, At!Max(Limits) + 1})]
      BY <1>3 DEF At!Hit
    <2>4. QED
      BY <1>1, <1>3, <2>1, <2>2, <2>3 DEF At!Window
  <1>4. QED
    BY <1>2, <1>3

\* One more call is at most one more served, the youngest.
LEMMA AtServesOne ==
    ASSUME At!TokensAssumption, AtInv, NEW t \in issued, At!Call(t), NEW K \in SUBSET At!Ages
    PROVE  LET S == At!ServedIn(served[t.id], K)
               R == At!ServedIn(served'[t.id], K)
           IN  /\ IsFiniteSet(S) /\ IsFiniteSet(R) /\ Cardinality(S) \in Nat /\ Cardinality(R) \in Nat
               /\ 0 \notin K \/ ~ At!InTime(t) => Cardinality(R) = Cardinality(S)
               /\ Cardinality(R) <= Cardinality(S) + 1
<1> DEFINE f == served[t.id]
           S == At!ServedIn(f, K)
           R == At!ServedIn(served'[t.id], K)
<1>1. t.id \in At!Ids /\ f \in [At!Ages -> Nat]
  BY AtLargest DEF AtInv, TokensInv, At!TypeOK
<1>2. IsFiniteSet(S) /\ Cardinality(S) \in Nat
  <2>1. IsFiniteSet(At!ServedIn(f, At!Ages))
    BY <1>1 DEF AtInv, WindowsInv
  <2>2. S \in SUBSET At!ServedIn(f, At!Ages)
    BY AtServedParts
  <2>3. QED
    BY <2>1, <2>2, FS_Subset, FS_CardinalityType
<1>3. 0 \in At!Ages /\ served \in [At!Ids -> [At!Ages -> Nat]]
  BY DEF At!Ages, At!TokensAssumption, AtInv, TokensInv, At!TypeOK
<1>4. \/ served'[t.id] = f
      \/ At!InTime(t) /\ served'[t.id] = [f EXCEPT ![0] = f[0] + 1]
  BY <1>1, <1>3 DEF At!Call
<1>5. R = S \/ (At!InTime(t) /\ 0 \in K /\ R = S \cup {<<0, f[0] + 1>>})
  BY <1>1, <1>4, AtServedMore
<1> DEFINE y == <<0, f[0] + 1>>
<1>6. R = S \/ (At!InTime(t) /\ 0 \in K /\ R = S \cup {y})
  BY <1>5
<1> HIDE DEF S, R, y
<1>7. /\ IsFiniteSet(S \cup {y})
      /\ Cardinality(S \cup {y}) \in {Cardinality(S), Cardinality(S) + 1}
  BY <1>2, FS_AddElement
<1>8. IsFiniteSet(R) /\ Cardinality(R) \in Nat /\ Cardinality(R) <= Cardinality(S) + 1
  BY <1>2, <1>6, <1>7
<1>9. 0 \notin K \/ ~ At!InTime(t) => Cardinality(R) = Cardinality(S)
  BY <1>6
<1>10. QED
  BY <1>2, <1>8, <1>9 DEF S, R

LEMMA AtCallRate ==
    ASSUME At!TokensAssumption, AtInv, NEW t \in issued, At!Call(t), t.id \in At!Ids, 0 \in At!Ages,
           window'[t.id] = At!Hit(t.id)
    PROVE  /\ Cardinality(At!ServedIn(served'[t.id], Young(t.id)')) <= At!Hit(t.id).count
           /\ Cardinality(At!ServedIn(served'[t.id], Young(t.id)')) <= At!Largest(t)
           /\ Cardinality(At!ServedIn(served'[t.id], (At!Ages \ Young(t.id))')) <= At!Largest(t)
<1> DEFINE i == t.id
           f == served[i]
           g == served'[i]
           Y == Young(i)'
           Z == (At!Ages \ Young(i))'
<1> USE DEF AtInv
<1>1. /\ At!Largest(t) \in Nat \ {0} /\ At!Limit(t) <= At!Largest(t) /\ At!Largest(t) <= At!Max(Limits)
      /\ At!Limit(t) \in Nat /\ At!Max(Limits) \in Nat \ {0} /\ Minute \in Nat \ {0}
  BY AtLargest, AtMax DEF TokensInv, At!TokensAssumption
<1>2. f \in [At!Ages -> Nat] /\ IsFiniteSet(At!ServedIn(f, At!Ages))
  BY DEF TokensInv, At!TypeOK, WindowsInv
<1>3. At!Hit(i).count \in Nat /\ At!Hit(i).count <= At!Max(Limits) + 1
  BY <1>1, AtHit DEF TokensInv, At!Window
<1>4. CASE window[i] = None \/ window[i].age = Minute
  <2>1. Y = {0} /\ Z = At!Ages \ {0} /\ At!Hit(i).count = 1
    BY <1>1, <1>4, AtHit DEF Young, TokensInv, At!Ages
  <2>2. f[0] = 0 /\ At!ServedIn(f, {0}) = {} /\ Cardinality({}) = 0
    <3>1. f[0] = 0
      BY <1>4 DEF WindowsInv
    <3>2. QED
      BY <3>1, AtServedNone, FS_EmptySet
  <2>3. Cardinality(At!ServedIn(g, {0})) <= 1
    BY <2>2, AtServesOne
  <2>4. Cardinality(At!ServedIn(g, Z)) = Cardinality(At!ServedIn(f, Z))
    BY <2>1, AtServesOne
  <2>5. Cardinality(At!ServedIn(f, Z)) <= At!Largest(t)
    <3>1. CASE window[i] = None
      <4>1. At!ServedIn(f, Z) = {}
        BY <2>1, <3>1, AtServedNone DEF WindowsInv
      <4>2. QED
        BY <1>1, <2>2, <4>1
    <3>2. CASE window[i] # None /\ window[i].age = Minute
      <4>1. Young(i) = At!Ages
        BY <1>1, <3>2 DEF Young, At!Ages
      <4>2. Cardinality(At!ServedIn(f, At!Ages)) <= At!Largest(t)
        BY <3>2, <4>1 DEF RateInv
      <4>3. At!ServedIn(f, Z) \subseteq At!ServedIn(f, At!Ages)
        BY <2>1, AtServedParts
      <4>4. /\ Cardinality(At!ServedIn(f, Z)) <= Cardinality(At!ServedIn(f, At!Ages))
            /\ Cardinality(At!ServedIn(f, At!Ages)) \in Nat /\ Cardinality(At!ServedIn(f, Z)) \in Nat
        BY <1>2, <4>3, FS_Subset, FS_CardinalityType
      <4>5. QED
        BY <1>1, <4>2, <4>4
    <3>3. QED
      BY <1>4, <3>1, <3>2
  <2>6. Cardinality(At!ServedIn(g, {0})) \in Nat
    BY AtServesOne
  <2>7. QED
    BY <1>1, <2>1, <2>3, <2>4, <2>5, <2>6
<1>5. CASE ~ (window[i] = None \/ window[i].age = Minute)
  <2>1. window[i] \in At!Window
    BY <1>5 DEF TokensInv, At!TypeOK
  <2>2. Y = Young(i) /\ Z = At!Ages \ Young(i) /\ 0 \in Young(i)
    BY <1>5, <2>1, AtHit DEF Young, TokensInv, At!Window
  <2>3. /\ Cardinality(At!ServedIn(f, Young(i))) <= window[i].count
        /\ Cardinality(At!ServedIn(f, Young(i))) <= At!Largest(t)
        /\ Cardinality(At!ServedIn(f, At!Ages \ Young(i))) <= At!Largest(t)
    BY <1>5 DEF RateInv
  <2>4. Young(i) \in SUBSET At!Ages
    BY DEF Young
  <2>5. Cardinality(At!ServedIn(g, Z)) = Cardinality(At!ServedIn(f, Z))
    BY <2>2, AtServesOne
  <2>6. /\ Cardinality(At!ServedIn(g, Young(i))) <= Cardinality(At!ServedIn(f, Young(i))) + 1
        /\ ~ At!InTime(t) => Cardinality(At!ServedIn(g, Young(i))) = Cardinality(At!ServedIn(f, Young(i)))
        /\ Cardinality(At!ServedIn(f, Young(i))) \in Nat /\ Cardinality(At!ServedIn(g, Young(i))) \in Nat
    BY <2>4, AtServesOne
  <2>7. /\ window[i].count \in Nat \ {0}
        /\ At!Hit(i).count = IF window[i].count <= At!Max(Limits) THEN window[i].count + 1 ELSE At!Max(Limits) + 1
        /\ window[i].count <= At!Max(Limits) + 1
    BY <1>1, <1>5, <2>1, AtHit DEF TokensInv, At!Window
  <2>8. At!InTime(t) => At!Hit(i).count = window[i].count + 1 /\ At!Hit(i).count <= At!Largest(t)
    BY <1>1, <2>7 DEF At!InTime
  <2>9. QED
    BY <1>1, <2>2, <2>3, <2>5, <2>6, <2>7, <2>8
<1>6. QED
  BY <1>4, <1>5

LEMMA AtCall ==
    ASSUME At!TokensAssumption, AtInv, NEW t \in issued, At!Call(t)
    PROVE  AtInv'
<1> DEFINE i == t.id
<1> USE DEF AtInv
<1>0. At!TypeOK /\ t.id \in At!Ids /\ t \in At!Token /\ 0 \in At!Ages
  BY AtLargest DEF TokensInv, At!Ages, At!TokensAssumption
<1>1. At!Hit(i) \in At!Window /\ At!Hit(i) # None
  BY <1>0, AtHit DEF At!TokensAssumption
<1>2. /\ UNCHANGED <<aRow, issued, last, perMinute, orphaned>> /\ window'[i] = At!Hit(i)
      /\ \A j \in At!Ids : j # i => window'[j] = window[j] /\ served'[j] = served[j]
      /\ window' \in [At!Ids -> At!Window \cup {None}] /\ served' \in [At!Ids -> [At!Ages -> Nat]]
  BY <1>0, <1>1 DEF At!Call, At!TypeOK
<1>3. At!TypeOK'
  BY <1>0, <1>2 DEF At!TypeOK
<1>4. TokensInv'
  BY <1>2, <1>3 DEF TokensInv
<1>5. WindowsInv'
  <2>1. IsFiniteSet(At!ServedIn(served'[i], At!Ages))
    BY AtServesOne
  <2>2. i <= last
    BY DEF TokensInv
  <2>3. At!Hit(i).age # Minute
    BY <1>0, AtHit DEF At!TokensAssumption
  <2>4. ASSUME NEW j \in At!Ids
        PROVE  /\ IsFiniteSet(At!ServedIn(served'[j], At!Ages))
               /\ window'[j] = None => \A k \in At!Ages : served'[j][k] = 0
               /\ j > last' => window'[j] = None
               /\ window'[j] # None /\ window'[j].age = Minute => served'[j][0] = 0
    <3>1. CASE j = i
      <4>1. ~ (j > last)
        BY <1>0, <2>2, <3>1 DEF At!TypeOK, At!Ids
      <4>2. QED
        BY <1>1, <1>2, <2>1, <2>3, <3>1, <4>1
    <3>2. CASE j # i
      BY <1>2, <3>2 DEF WindowsInv
    <3>3. QED
      BY <3>1, <3>2
  <2>5. QED
    BY <2>4 DEF WindowsInv
<1>6. RateInv'
  <2>1. ASSUME NEW s \in issued, window'[s.id] # None
        PROVE  /\ Cardinality(At!ServedIn(served'[s.id], Young(s.id)')) <= window'[s.id].count
               /\ Cardinality(At!ServedIn(served'[s.id], Young(s.id)')) <= At!Largest(s)
               /\ Cardinality(At!ServedIn(served'[s.id], (At!Ages \ Young(s.id))')) <= At!Largest(s)
    <3>1. CASE s.id = i
      <4>1. s = t
        BY <3>1 DEF TokensInv
      <4>2. QED
        BY <1>0, <1>2, <4>1, AtCallRate
    <3>2. CASE s.id # i
      <4>1. s.id \in At!Ids
        BY <1>0 DEF At!TypeOK, At!Token
      <4>2. Young(s.id)' = Young(s.id)
        BY <1>2, <3>2, <4>1 DEF Young
      <4>3. QED
        BY <1>2, <2>1, <3>2, <4>1, <4>2 DEF RateInv
    <3>3. QED
      BY <3>1, <3>2
  <2>2. QED
    BY <1>2, <2>1 DEF RateInv, At!Largest
<1>7. QED
  BY <1>4, <1>5, <1>6

LEMMA AtTick ==
    ASSUME At!TokensAssumption, AtInv, At!Tick
    PROVE  AtInv'
<1> USE DEF AtInv
<1>0. Minute \in Nat \ {0} /\ 0 \in At!Ages
  BY DEF At!TokensAssumption, At!Ages
<1>1. ASSUME NEW j \in At!Ids
      PROVE  /\ served'[j] \in [At!Ages -> Nat] /\ served'[j][0] = 0
             /\ served'[j] = [k \in At!Ages |-> IF k = 0 THEN 0 ELSE served[j][k - 1]]
             /\ window[j] = None => window'[j] = None
             /\ window[j] # None =>
                  /\ window[j] \in At!Window /\ window'[j] \in At!Window /\ window'[j] # None
                  /\ window'[j].count = window[j].count
                  /\ window'[j].age = IF window[j].age < Minute THEN window[j].age + 1 ELSE Minute
  <2>1. /\ served[j] \in [At!Ages -> Nat]
        /\ served'[j] = [k \in At!Ages |-> IF k = 0 THEN 0 ELSE served[j][k - 1]]
    BY DEF At!Tick, TokensInv, At!TypeOK
  <2>2. served'[j] \in [At!Ages -> Nat] /\ served'[j][0] = 0
    BY <1>0, <2>1 DEF At!Ages
  <2>3. window[j] = None => window'[j] = None
    BY DEF At!Tick
  <2>4. ASSUME window[j] # None
        PROVE  /\ window[j] \in At!Window /\ window'[j] \in At!Window /\ window'[j] # None
               /\ window'[j].count = window[j].count
               /\ window'[j].age = IF window[j].age < Minute THEN window[j].age + 1 ELSE Minute
    <3>1. window[j] \in At!Window /\ window[j].age \in Nat /\ window[j].age <= Minute
      BY <1>0, <2>4 DEF TokensInv, At!TypeOK, At!Window
    <3>2. window'[j] = [window[j] EXCEPT !.age = At!Min({window[j].age + 1, Minute})]
      BY <2>4 DEF At!Tick
    <3>3. At!Min({window[j].age + 1, Minute}) = IF window[j].age < Minute THEN window[j].age + 1 ELSE Minute
      <4> DEFINE m == window[j].age
                 n == m + 1
      <4>1. m \in Nat /\ n \in Nat /\ Minute \in Nat /\ m <= Minute
        BY <1>0, <3>1
      <4> HIDE DEF n
      <4>2. At!Min({n, Minute}) = IF n <= Minute THEN n ELSE Minute
        BY <4>1, AtMin
      <4> HIDE DEF m
      <4>3. At!Min({n, Minute}) = IF m < Minute THEN m + 1 ELSE Minute
        BY <4>1, <4>2 DEF n
      <4>4. QED
        BY <4>3 DEF m, n
    <3>4. window'[j] \in At!Window
      BY <1>0, <3>1, <3>2, <3>3 DEF At!Window
    <3>5. QED
      BY <3>1, <3>2, <3>3, <3>4 DEF At!Window, At!TokensAssumption
  <2>5. QED
    BY <2>1, <2>2, <2>3, <2>4
<1>2. UNCHANGED <<aRow, issued, last, perMinute, orphaned>>
  BY DEF At!Tick
<1>3. window' \in [At!Ids -> At!Window \cup {None}] /\ served' \in [At!Ids -> [At!Ages -> Nat]]
  <2>1. \A j \in At!Ids : window'[j] \in At!Window \cup {None} /\ served'[j] \in [At!Ages -> Nat]
    BY <1>1
  <2>2. QED
    BY <2>1 DEF At!Tick
<1>4. TokensInv'
  BY <1>2, <1>3 DEF TokensInv, At!TypeOK
<1>5. WindowsInv'
  <2>1. ASSUME NEW j \in At!Ids
        PROVE  /\ IsFiniteSet(At!ServedIn(served'[j], At!Ages))
               /\ window'[j] = None => \A k \in At!Ages : served'[j][k] = 0
               /\ j > last' => window'[j] = None
               /\ window'[j] # None /\ window'[j].age = Minute => served'[j][0] = 0
    <3>1. \A k \in At!Ages : k # 0 => k - 1 \in At!Ages
      BY <1>0 DEF At!Ages
    <3>2. IsFiniteSet(At!ServedIn(served[j], At!Ages)) /\ served[j] \in [At!Ages -> Nat]
      BY DEF WindowsInv, TokensInv, At!TypeOK
    <3>3. IsFiniteSet(At!ServedIn(served'[j], At!Ages))
      BY <1>1, <3>1, <3>2, AtServedOlder
    <3>4. window'[j] = None => \A k \in At!Ages : served'[j][k] = 0
      <4>1. window'[j] = None => \A k \in At!Ages : served[j][k] = 0
        BY <1>1 DEF WindowsInv
      <4>2. \A k \in At!Ages : served'[j][k] = IF k = 0 THEN 0 ELSE served[j][k - 1]
        BY <1>1
      <4>3. QED
        BY <3>1, <4>1, <4>2
    <3>5. j > last' => window'[j] = None
      BY <1>1, <1>2 DEF WindowsInv
    <3>6. served'[j][0] = 0
      BY <1>1
    <3>7. QED
      BY <3>3, <3>4, <3>5, <3>6
  <2>2. QED
    BY <2>1 DEF WindowsInv
<1>6. RateInv'
  <2>1. ASSUME NEW s \in issued, window'[s.id] # None
        PROVE  /\ Cardinality(At!ServedIn(served'[s.id], Young(s.id)')) <= window'[s.id].count
               /\ Cardinality(At!ServedIn(served'[s.id], Young(s.id)')) <= At!Largest(s)
               /\ Cardinality(At!ServedIn(served'[s.id], (At!Ages \ Young(s.id))')) <= At!Largest(s)
    <3> DEFINE i == s.id
               f == served[i]
               g == served'[i]
               Y == Young(i)'
    <3>1. i \in At!Ids /\ At!Largest(s) \in Nat /\ window[i] # None
      BY <1>1, <2>1, AtLargest DEF TokensInv
    <3>2. /\ window[i] \in At!Window /\ window'[i].count = window[i].count
          /\ window'[i].age = IF window[i].age < Minute THEN window[i].age + 1 ELSE Minute
          /\ g = [k \in At!Ages |-> IF k = 0 THEN 0 ELSE f[k - 1]] /\ f \in [At!Ages -> Nat]
      BY <1>1, <3>1 DEF TokensInv, At!TypeOK
    <3>3. window[i].age \in Nat /\ window[i].age <= Minute /\ window[i].count \in Nat
      BY <1>0, <3>2 DEF At!Window
    <3>4. Y = {k \in At!Ages : k <= window'[i].age} /\ At!Ages \subseteq Int
          /\ \A k \in At!Ages : k >= 0 /\ k < Minute /\ (k # 0 => k - 1 \in At!Ages)
      BY <1>0 DEF Young, At!Ages
    <3>5. \A k \in Y : k # 0 => k - 1 \in Young(i)
      <4> DEFINE age == window[i].age
                 older == window'[i].age
      <4>1. age \in Nat /\ older = IF age < Minute THEN age + 1 ELSE Minute
        BY <3>2, <3>3
      <4>2. Y = {k \in At!Ages : k <= older} /\ Young(i) = {k \in At!Ages : k <= age}
        BY <3>4 DEF Young
      <4> HIDE DEF age, older, Y
      <4>3. QED
        BY <1>0, <3>4, <4>1, <4>2
    <3>6. \A k \in At!Ages \ Y : k # 0 => k - 1 \in At!Ages \ Young(i)
      BY <1>0, <3>2, <3>3, <3>4 DEF Young
    <3>7. /\ IsFiniteSet(At!ServedIn(f, Young(i))) /\ IsFiniteSet(At!ServedIn(f, At!Ages \ Young(i)))
          /\ Young(i) \in SUBSET At!Ages /\ Y \in SUBSET At!Ages
      <4>1. IsFiniteSet(At!ServedIn(f, At!Ages))
        BY <3>1 DEF WindowsInv
      <4>2. Young(i) \in SUBSET At!Ages /\ Y \in SUBSET At!Ages
        BY DEF Young
      <4>3. /\ At!ServedIn(f, Young(i)) \in SUBSET At!ServedIn(f, At!Ages)
            /\ At!ServedIn(f, At!Ages \ Young(i)) \in SUBSET At!ServedIn(f, At!Ages)
        BY <4>2, AtServedParts
      <4>4. QED
        BY <4>1, <4>2, <4>3, FS_Subset
    <3> HIDE DEF Y, f, g
    <3>8. /\ IsFiniteSet(At!ServedIn(g, Y))
          /\ Cardinality(At!ServedIn(g, Y)) <= Cardinality(At!ServedIn(f, Young(i)))
      BY <3>2, <3>5, <3>7, AtServedOlder
    <3>9. /\ IsFiniteSet(At!ServedIn(g, At!Ages \ Y))
          /\ Cardinality(At!ServedIn(g, At!Ages \ Y)) <= Cardinality(At!ServedIn(f, At!Ages \ Young(i)))
      BY <3>2, <3>6, <3>7, AtServedOlder
    <3>10. /\ Cardinality(At!ServedIn(f, Young(i))) <= window[i].count
           /\ Cardinality(At!ServedIn(f, Young(i))) <= At!Largest(s)
           /\ Cardinality(At!ServedIn(f, At!Ages \ Young(i))) <= At!Largest(s)
      BY <3>1 DEF RateInv, f
    <3>11. /\ Cardinality(At!ServedIn(g, Y)) \in Nat /\ Cardinality(At!ServedIn(g, At!Ages \ Y)) \in Nat
           /\ Cardinality(At!ServedIn(f, Young(i))) \in Nat
           /\ Cardinality(At!ServedIn(f, At!Ages \ Young(i))) \in Nat
      BY <3>7, <3>8, <3>9, FS_CardinalityType
    <3>12. (At!Ages \ Young(i))' = At!Ages \ Y
      BY DEF Y
    <3>13. QED
      BY <3>1, <3>2, <3>3, <3>8, <3>9, <3>10, <3>11, <3>12 DEF Y, g
  <2>2. QED
    BY <1>2, <2>1 DEF RateInv, At!Largest
<1>7. QED
  BY <1>4, <1>5, <1>6

\* The handlers of the row, of tokens and of settings.
LEMMA AtHandlers ==
    ASSUME At!TokensAssumption, AtInv,
           \/ \E kind \in At!Kinds \ {"bare"} : At!Upload(kind) \/ At!CrashInUpload(kind) \/ At!Update(kind)
           \/ At!CreateBare \/ At!Delete \/ At!CrashInDelete \/ At!Restart
           \/ \E limit \in Limits \cup {None} : At!Create(limit)
           \/ \E limit \in Limits : At!SetLimit(limit)
           \/ \E t \in issued : At!Revoke(t)
    PROVE  AtInv'
<1>0. /\ aRow \in At!Kinds \cup {None} /\ orphaned \in BOOLEAN /\ perMinute \in Limits
      /\ \A t \in issued : t.auto /\ ~ orphaned => aRow \in {"llm", "plain"}
      /\ None \notin At!Kinds
  BY DEF AtInv, TokensInv, At!TypeOK, At!TokensAssumption
<1>1. ASSUME NEW kind \in At!Kinds \ {"bare"}, At!Upload(kind)
      PROVE  AtInv'
  <2>1. aRow' \in {"llm", "plain"} /\ UNCHANGED <<perMinute, window, served, orphaned>>
    BY <1>1 DEF At!Upload, At!Kinds
  <2>2. CASE UNCHANGED <<issued, last>>
    BY <1>0, <2>1, <2>2, AtKeeps DEF At!Kinds
  <2>3. CASE last < MaxTokens /\ issued' = At!Issued(TRUE, None) /\ last' = last + 1 /\ \A t \in issued : ~ t.auto
    BY <1>0, <2>1, <2>3, AtIssues DEF At!Kinds
  <2>4. QED
    BY <1>1, <2>2, <2>3 DEF At!Upload, At!Ensure
<1>2. ASSUME NEW kind \in At!Kinds \ {"bare"}, At!CrashInUpload(kind)
      PROVE  AtInv'
  <2>1. aRow' \in {"llm", "plain"}
    BY <1>2 DEF At!CrashInUpload, At!Kinds
  <2>2. QED
    BY <1>0, <1>2, <2>1, AtCrashes DEF At!CrashInUpload, At!Kinds
<1>3. ASSUME NEW kind \in At!Kinds \ {"bare"}, At!Update(kind)
      PROVE  AtInv'
  <2>1. aRow' \in {"llm", "plain"}
    BY <1>3 DEF At!Update, At!Kinds
  <2>2. QED
    BY <1>0, <1>3, <2>1, AtKeeps DEF At!Update, At!Kinds
<1>4. CASE At!CreateBare
  <2>1. aRow = None /\ aRow' = "bare" /\ \A t \in issued : t.auto => orphaned
    BY <1>0, <1>4 DEF At!CreateBare, At!Kinds
  <2>2. QED
    BY <1>0, <1>4, <2>1, AtKeeps DEF At!CreateBare, At!Kinds
<1>5. CASE At!Delete
  BY <1>0, <1>5, AtKeeps DEF At!Delete
<1>6. CASE At!CrashInDelete
  <2>1. orphaned' \in BOOLEAN /\ (issued # {} => orphaned')
    BY <1>0, <1>6 DEF At!CrashInDelete
  <2>2. QED
    BY <1>0, <1>6, <2>1, AtCrashes DEF At!CrashInDelete
<1>7. CASE At!Restart
  BY <1>0, <1>7, AtCrashes DEF At!Restart
<1>8. ASSUME NEW limit \in Limits \cup {None}, At!Create(limit)
      PROVE  AtInv'
  <2>1. \A t \in issued' : t.auto => t \in issued
    BY <1>8 DEF At!Create, At!Issued
  <2>2. QED
    BY <1>0, <1>8, <2>1, AtIssues DEF At!Create
<1>9. ASSUME NEW limit \in Limits, At!SetLimit(limit)
      PROVE  AtInv'
  BY <1>0, <1>9, AtKeeps DEF At!SetLimit
<1>10. ASSUME NEW t \in issued, At!Revoke(t)
       PROVE  AtInv'
  BY <1>0, <1>10, AtKeeps DEF At!Revoke
<1>11. QED
  BY <1>1, <1>2, <1>3, <1>4, <1>5, <1>6, <1>7, <1>8, <1>9, <1>10

LEMMA AtStep ==
    ASSUME At!TokensAssumption, AtInv, At!Next
    PROVE  AtInv'
  BY AtHandlers, AtCall, AtTick DEF At!Next

\* The property is what the invariant says of all tokens.
LEMMA AtContained ==
    ASSUME At!TokensAssumption, AtInv
    PROVE  At!TokensAreContained
<1> USE DEF AtInv
<1>1. At!DeclaredSpend
  BY DEF TokensInv, At!DeclaredSpend, At!Allowed, At!TokensAssumption, At!Kinds
<1>2. At!OneForTheRuntime
  <2> DEFINE S == {t \in issued : t.auto}
  <2>1. CASE S = {}
    BY <2>1, FS_EmptySet, AtCardinality DEF At!OneForTheRuntime
  <2>2. CASE S # {}
    <3>1. PICK x \in S : TRUE
      BY <2>2
    <3>2. S = {x}
      BY <3>1 DEF TokensInv
    <3>3. Cardinality({x}) = 1
      BY FS_Singleton
    <3>4. QED
      BY <3>2, <3>3, AtCardinality DEF At!OneForTheRuntime
  <2>3. QED
    BY <2>1, <2>2
<1>3. At!RateHeld
  <2> SUFFICES ASSUME NEW t \in issued
               PROVE  Cardinality(At!ServedIn(served[t.id], At!Ages)) <= 2 * At!Largest(t)
    BY AtCardinality DEF At!RateHeld
  <2> DEFINE i == t.id
             f == served[i]
  <2>1. i \in At!Ids /\ At!Largest(t) \in Nat /\ IsFiniteSet(At!ServedIn(f, At!Ages))
    BY AtLargest DEF TokensInv, WindowsInv
  <2>2. CASE window[i] = None
    <3>1. At!ServedIn(f, At!Ages) = {}
      BY <2>1, <2>2, AtServedNone DEF WindowsInv
    <3>2. QED
      BY <2>1, <3>1, FS_EmptySet
  <2>3. CASE window[i] # None
    <3> DEFINE A == At!ServedIn(f, Young(i))
               B == At!ServedIn(f, At!Ages \ Young(i))
    <3>1. At!ServedIn(f, At!Ages) = A \cup B
      <4>1. At!Ages = Young(i) \cup (At!Ages \ Young(i))
        BY DEF Young
      <4>2. QED
        BY <4>1, AtServedParts
    <3>2. IsFiniteSet(A) /\ IsFiniteSet(B)
      BY <2>1, <3>1, FS_Subset
    <3>3. Cardinality(A \cup B) <= Cardinality(A) + Cardinality(B)
      <4>1. /\ Cardinality(A \cup B) = Cardinality(A) + Cardinality(B) - Cardinality(A \cap B)
            /\ IsFiniteSet(A \cap B)
        BY <3>2, FS_Union, FS_Intersection
      <4>2. Cardinality(A) \in Nat /\ Cardinality(B) \in Nat /\ Cardinality(A \cap B) \in Nat
        BY <3>2, <4>1, FS_CardinalityType
      <4>3. QED
        BY <4>1, <4>2
    <3>4. Cardinality(A) <= At!Largest(t) /\ Cardinality(B) <= At!Largest(t)
      BY <2>3 DEF RateInv
    <3>5. Cardinality(A) \in Nat /\ Cardinality(B) \in Nat /\ Cardinality(A \cup B) \in Nat
      BY <2>1, <3>1, <3>2, FS_CardinalityType
    <3>6. QED
      BY <2>1, <3>1, <3>3, <3>4, <3>5
  <2>4. QED
    BY <2>2, <2>3
<1>4. QED
  BY <1>1, <1>2, <1>3 DEF At!TokensAreContained

LEMMA AtStays ==
    ASSUME AtInv, UNCHANGED appTokens
    PROVE  AtInv'
<1>1. TokensInv'
  BY DEF appTokens, AtInv, TokensInv, At!TypeOK
<1>2. WindowsInv'
  BY DEF appTokens, AtInv, WindowsInv
<1>3. RateInv'
  BY DEF appTokens, AtInv, RateInv, Young, At!Largest, At!Limit
<1>4. QED
  BY <1>1, <1>2, <1>3 DEF AtInv

\* Tokens spend for declared packages only, below their limits: in every
\* behaviour of the run, which is one of AppTokens or leaves its state.
THEOREM TokensAreContainedHolds ==
    ASSUME At!TokensAssumption
    PROVE  MCSpec => []TokensAreContained
<1>1. MCInit => AtInv
  BY AtInit DEF MCInit
<1>2. AtInv /\ [MCNext]_mcVars => AtInv'
  <2>1. CASE At!Next
    BY <2>1, AtStep
  <2>2. CASE UNCHANGED appTokens
    BY <2>2, AtStays
  <2>3. QED
    BY <2>1, <2>2 DEF MCNext, mcVars
<1>3. AtInv => TokensAreContained
  BY AtContained DEF TokensAreContained
<1>4. QED
  BY <1>1, <1>2, <1>3, PTL DEF MCSpec

-----------------------------------------------------------------------------
(* AppEnv: what has passed the gate keeps what it asked for until the      *)
(* spawn, a process has what could be read then however it was started,    *)
(* and a save stops whoever has something else.                            *)

\* A process runs in a server that knows its key, and so does the file.
KeyKnown ==
    /\ mem # None => file = mem
    /\ proc # None => mem # None
    /\ ~ lost => file # None

\* Once it has passed the gate, what the manifest requires has a row, or the
\* start knows of the change.
StartConfigured ==
    start # None /\ start.gated => \A x \in Required[ver] : store[x] # None \/ x \in start.changed

\* What a process remembers of its start.
ProcTyped ==
    proc # None =>
        /\ proc \in [ver : EnvVersions, env : {proc.env}, sign : {proc.sign}, half : BOOLEAN,
                     gated : BOOLEAN, changed : SUBSET EnvNames]

\* The inductive invariant.
EnvInv ==
    /\ Env!TypeOK /\ ProcTyped
    /\ KeyKnown
    /\ StartConfigured
    /\ Env!ConfiguredIsUsed

\* A key that is there is used, one that is lost is not found again.
LEMMA KeyIsUsed ==
    ASSUME EnvInv, Env!Key, keys' <= MaxKeys, Env!AppEnvAssumption
    PROVE  /\ mem' \in 1 .. MaxKeys /\ mem' # None /\ file' = mem' /\ file' \in 1 .. MaxKeys
           /\ keys' \in 0 .. MaxKeys
           /\ mem # None => mem' = mem
           /\ ~ lost => mem' = Env!KeyInUse
           /\ Env!KeyInUse' = mem'
BY DEF EnvInv, Env!TypeOK, KeyKnown, Env!ConfiguredIsUsed, Env!SavedIsReadable, Env!Key, Env!KeyInUse, Env!AppEnvAssumption

LEMMA EnvInitHolds ==
    ASSUME Env!AppEnvAssumption, Env!Init
    PROVE  EnvInv
<1>1. Env!TypeOK
  <2>1. ver \in EnvVersions /\ store \in [EnvNames -> Env!Row \cup {None}] /\ lost \in BOOLEAN
    BY DEF Env!Init
  <2>2. /\ sign \in [val : Nat, key : Nat] \cup {None}
        /\ {file, mem} \subseteq (1 .. MaxKeys) \cup {None}
        /\ keys \in 0 .. MaxKeys /\ saves \in 0 .. MaxSaves
    BY DEF Env!Init, Env!AppEnvAssumption
  <2>3. start \in Env!Start \cup {None}
    BY DEF Env!Init
  <2>4. QED
    BY <2>1, <2>2, <2>3 DEF Env!TypeOK
<1>2. ProcTyped /\ KeyKnown /\ StartConfigured
  BY DEF Env!Init, ProcTyped, KeyKnown, StartConfigured, Env!AppEnvAssumption
<1>3. Env!ConfiguredIsUsed
  BY DEF Env!Init, Env!ConfiguredIsUsed, Env!StartedConfigured, Env!ProcessHasSaved, Env!SavedIsReadable, Env!KeyInUse
<1>4. QED
  BY <1>1, <1>2, <1>3 DEF EnvInv

LEMMA GateKeeps ==
    ASSUME Env!AppEnvAssumption, EnvInv, Env!Gate
    PROVE  EnvInv'
BY DEF Env!Gate, Env!Missing, Env!Starts, Env!Start, EnvInv, Env!TypeOK, ProcTyped, KeyKnown, StartConfigured, Env!ConfiguredIsUsed,
       Env!StartedConfigured, Env!ProcessHasSaved, Env!SavedIsReadable, Env!KeyInUse, Env!Saved, Env!AppEnvAssumption

\* A handshake, and a process that is started again, claim nothing.
LEMMA UngatedKeeps ==
    ASSUME Env!AppEnvAssumption, EnvInv, Env!Upgrade \/ Env!Respawn
    PROVE  EnvInv'
<1>1. start' \in Env!Start /\ start' # None /\ ~ start'.gated
  <2>1. start' = [gated |-> FALSE, changed |-> {}]
    BY DEF Env!Upgrade, Env!Respawn, Env!Starts
  <2>2. start' \in Env!Start /\ ~ start'.gated
    BY <2>1 DEF Env!Start
  <2>3. QED
    BY <2>2 DEF Env!AppEnvAssumption
<1>2. proc' = None /\ UNCHANGED <<ver, store, sign, file, mem, keys, saves, lost>>
  BY DEF Env!Upgrade, Env!Respawn
<1>3. Env!TypeOK' /\ ProcTyped' /\ KeyKnown' /\ StartConfigured'
  BY <1>1, <1>2 DEF EnvInv, Env!TypeOK, ProcTyped, KeyKnown, StartConfigured
<1>4. Env!ConfiguredIsUsed'
  BY <1>2 DEF EnvInv, Env!ConfiguredIsUsed, Env!StartedConfigured, Env!ProcessHasSaved, Env!SavedIsReadable,
              Env!KeyInUse
<1>5. QED
  BY <1>3, <1>4 DEF EnvInv

\* The process has what can be read with the key of the server, and nothing
\* that is required is missing after the gate unless the key was lost.
LEMMA SpawnKeeps ==
    ASSUME Env!AppEnvAssumption, EnvInv, Env!Spawn
    PROVE  EnvInv'
<1>1. /\ mem' \in 1 .. MaxKeys /\ mem' # None /\ file' = mem' /\ file' \in 1 .. MaxKeys
      /\ keys' \in 0 .. MaxKeys
      /\ ~ lost => mem' = Env!KeyInUse
      /\ Env!KeyInUse' = mem'
  BY KeyIsUsed DEF Env!Spawn
<1>2. UNCHANGED <<ver, store, sign, saves, lost>> /\ start' = None /\ start # None
      /\ start.gated \in BOOLEAN /\ start.changed \in SUBSET EnvNames
  BY DEF Env!Spawn, Env!Start, EnvInv, Env!TypeOK
<1>3. /\ proc' = [ver |-> ver, env |-> Env!Values, sign |-> Env!SignSecret, half |-> FALSE,
                   gated |-> start.gated, changed |-> start.changed]
      /\ proc'.ver = ver /\ proc'.env = Env!Values /\ proc'.sign = Env!SignSecret
      /\ proc'.gated = start.gated /\ proc'.changed = start.changed
  BY DEF Env!Spawn
<1>4. Env!TypeOK' /\ ProcTyped'
  BY <1>1, <1>2, <1>3 DEF EnvInv, Env!TypeOK, ProcTyped
<1>5. KeyKnown' /\ StartConfigured'
  BY <1>1, <1>2 DEF EnvInv, KeyKnown, StartConfigured
<1>6. Env!SavedIsReadable'
  BY <1>1, <1>2 DEF EnvInv, Env!ConfiguredIsUsed, Env!SavedIsReadable
<1>7. Env!StartedConfigured'
  <2> SUFFICES ASSUME start.gated, NEW x \in Required[ver], x \notin start.changed, ~ lost
               PROVE  x \in DOMAIN Env!Values
    BY <1>2, <1>3 DEF Env!StartedConfigured
  <2>1. x \in EnvNames /\ store[x] # None
    BY <1>2 DEF EnvInv, Env!TypeOK, StartConfigured, Env!AppEnvAssumption
  <2>2. store[x].key = mem'
    BY <1>1, <2>1 DEF EnvInv, Env!ConfiguredIsUsed, Env!SavedIsReadable
  <2>3. QED
    BY <2>1, <2>2 DEF Env!Values, Env!Readable
<1>8. Env!ProcessHasSaved'
  <2>1. proc'.sign = Env!Saved(sign)'
    BY <1>1, <1>2, <1>3 DEF Env!SignSecret, Env!Readable, Env!Saved
  <2>2. ASSUME NEW x \in EnvNames
        PROVE  Env!Saved(store[x])' = IF x \in DOMAIN proc'.env THEN proc'.env[x] ELSE None
    BY <1>1, <1>2, <1>3 DEF Env!Values, Env!Readable, Env!Saved
  <2>3. QED
    BY <2>1, <2>2 DEF Env!ProcessHasSaved
<1>9. QED
  BY <1>4, <1>5, <1>6, <1>7, <1>8 DEF EnvInv, Env!ConfiguredIsUsed

LEMMA EndsKeeps ==
    ASSUME Env!AppEnvAssumption, EnvInv, Env!Ends
    PROVE  EnvInv'
BY DEF Env!Ends, EnvInv, Env!TypeOK, ProcTyped, KeyKnown, StartConfigured, Env!ConfiguredIsUsed,
       Env!StartedConfigured, Env!ProcessHasSaved, Env!SavedIsReadable, Env!KeyInUse, Env!AppEnvAssumption

\* A process that goes on after a save has half of it, but the same manifest,
\* variables and changes as before.
LEMMA HalfKeeps ==
    ASSUME Env!AppEnvAssumption, EnvInv, UNCHANGED lost,
           proc' = None \/ (proc # None /\ proc' = [proc EXCEPT !.half = TRUE])
    PROVE  ProcTyped' /\ Env!StartedConfigured' /\ Env!ProcessHasSaved' /\ (proc' # None => proc # None)
<1>1. CASE proc' = None
  BY <1>1 DEF ProcTyped, Env!StartedConfigured, Env!ProcessHasSaved
<1>2. CASE proc # None /\ proc' = [proc EXCEPT !.half = TRUE]
  <2>1. /\ proc'.half = TRUE /\ proc'.ver = proc.ver /\ proc'.env = proc.env
        /\ proc'.gated = proc.gated /\ proc'.changed = proc.changed /\ proc'.sign = proc.sign
        /\ proc' \in [ver : EnvVersions, env : {proc.env}, sign : {proc.sign}, half : BOOLEAN,
                      gated : BOOLEAN, changed : SUBSET EnvNames]
    BY <1>2 DEF EnvInv, ProcTyped
  <2>2. QED
    BY <1>2, <2>1 DEF EnvInv, ProcTyped, Env!ConfiguredIsUsed, Env!StartedConfigured, Env!ProcessHasSaved
<1>3. QED
  BY <1>1, <1>2

LEMMA PutEnvKeeps ==
    ASSUME Env!AppEnvAssumption, EnvInv, NEW saved \in SUBSET EnvNames, NEW wiped \in SUBSET EnvNames,
           NEW throws \in BOOLEAN, Env!PutEnv(saved, wiped, throws)
    PROVE  EnvInv'
<1>1. /\ UNCHANGED <<ver, sign, lost>>
      /\ saves' \in 0 .. MaxSaves /\ saves' \in Nat
  BY DEF Env!PutEnv, EnvInv, Env!TypeOK, Env!AppEnvAssumption
<1>2. /\ mem' \in (1 .. MaxKeys) \cup {None} /\ file' \in (1 .. MaxKeys) \cup {None}
      /\ keys' \in 0 .. MaxKeys
      /\ mem' # None => file' = mem'
      /\ mem # None => mem' = mem
      /\ ~ lost => Env!KeyInUse' = Env!KeyInUse /\ file' # None
      /\ saved # {} => mem' \in Nat /\ mem' # None /\ Env!KeyInUse' = mem'
  <2>1. CASE saved # {}
    <3>1. Env!Key /\ keys' <= MaxKeys
      BY <2>1 DEF Env!PutEnv
    <3>2. QED
      BY <2>1, <3>1, KeyIsUsed DEF Env!AppEnvAssumption
  <2>2. CASE saved = {}
    <3>1. UNCHANGED <<file, mem, keys>>
      BY <2>2 DEF Env!PutEnv
    <3>2. QED
      BY <2>2, <3>1 DEF EnvInv, Env!TypeOK, KeyKnown, Env!KeyInUse
  <2>3. QED
    BY <2>1, <2>2
<1>3. store' = [x \in EnvNames |->
                  IF x \in saved THEN [val |-> saves', key |-> mem', secret |-> x \in Secret[ver]]
                  ELSE IF x \in wiped THEN None ELSE store[x]]
  BY DEF Env!PutEnv
<1>4. store' \in [EnvNames -> Env!Row \cup {None}]
  <2>1. ASSUME NEW x \in saved
        PROVE  [val |-> saves', key |-> mem', secret |-> x \in Secret[ver]] \in Env!Row
    BY <1>1, <1>2 DEF Env!Row
  <2>2. QED
    BY <1>3, <2>1 DEF EnvInv, Env!TypeOK
<1>5. /\ start = None => start' = None
      /\ start # None => /\ start' \in Env!Start /\ start' # None
                         /\ start'.gated = start.gated /\ start'.changed = start.changed \cup wiped
  BY DEF Env!PutEnv, Env!Touched, Env!Start, EnvInv, Env!TypeOK, Env!AppEnvAssumption
<1>6. proc' = None \/ (proc # None /\ proc' = [proc EXCEPT !.half = TRUE])
  BY DEF Env!PutEnv, Env!Stops
<1>7. ProcTyped' /\ Env!StartedConfigured' /\ Env!ProcessHasSaved' /\ (proc' # None => proc # None)
  BY <1>1, <1>6, HalfKeeps
<1>8. Env!TypeOK'
  BY <1>1, <1>2, <1>4, <1>5 DEF EnvInv, Env!TypeOK
<1>9. KeyKnown'
  BY <1>1, <1>2, <1>7 DEF EnvInv, KeyKnown
<1>10. StartConfigured'
  <2> SUFFICES ASSUME start' # None, start'.gated, NEW x \in Required[ver], x \notin start'.changed
               PROVE  store'[x] # None
    BY <1>1 DEF StartConfigured
  <2>1. x \in EnvNames /\ start # None /\ start.gated /\ x \notin start.changed /\ x \notin wiped
    BY <1>5 DEF EnvInv, Env!TypeOK, Env!AppEnvAssumption
  <2>2. store[x] # None
    BY <2>1 DEF EnvInv, StartConfigured
  <2>3. x \in saved => store'[x] \in Env!Row
    BY <1>3, <1>1, <1>2, <2>1 DEF Env!Row
  <2>4. x \notin saved => store'[x] = store[x]
    BY <1>3, <2>1
  <2>5. QED
    BY <2>2, <2>3, <2>4 DEF Env!AppEnvAssumption
<1>11. Env!SavedIsReadable'
  <2>1. ASSUME ~ lost, NEW x \in EnvNames, store'[x] # None
        PROVE  store'[x].key = Env!KeyInUse'
    <3>1. CASE x \in saved
      BY <1>2, <1>3, <3>1
    <3>2. CASE x \notin saved
      BY <1>2, <1>3, <2>1, <3>2 DEF EnvInv, Env!ConfiguredIsUsed, Env!SavedIsReadable
    <3>3. QED
      BY <3>1, <3>2
  <2>2. QED
    BY <1>1, <1>2, <2>1 DEF Env!SavedIsReadable
<1>12. QED
  BY <1>7, <1>8, <1>9, <1>10, <1>11 DEF EnvInv, Env!ConfiguredIsUsed

LEMMA UpdateKeeps ==
    ASSUME Env!AppEnvAssumption, EnvInv, NEW v \in EnvVersions, Env!Update(v)
    PROVE  EnvInv'
BY DEF Env!Update, Env!Touched, Env!Start, EnvInv, Env!TypeOK, ProcTyped, KeyKnown, StartConfigured, Env!ConfiguredIsUsed,
       Env!StartedConfigured, Env!ProcessHasSaved, Env!SavedIsReadable, Env!KeyInUse, Env!Saved, Env!AppEnvAssumption

LEMMA PutSignKeeps ==
    ASSUME Env!AppEnvAssumption, EnvInv, NEW throws \in BOOLEAN, Env!PutSign(throws)
    PROVE  EnvInv'
<1>1. /\ mem' \in 1 .. MaxKeys /\ mem' # None /\ file' = mem' /\ file' \in 1 .. MaxKeys
      /\ keys' \in 0 .. MaxKeys
      /\ ~ lost => mem' = Env!KeyInUse
      /\ Env!KeyInUse' = mem'
  BY KeyIsUsed DEF Env!PutSign
<1>2. /\ UNCHANGED <<ver, store, start, lost>>
      /\ saves' \in 0 .. MaxSaves /\ sign' = [val |-> saves', key |-> mem']
      /\ proc' = None \/ (proc # None /\ proc' = [proc EXCEPT !.half = TRUE])
  BY DEF Env!PutSign, EnvInv, Env!TypeOK, Env!AppEnvAssumption
<1>3. ProcTyped' /\ Env!StartedConfigured' /\ Env!ProcessHasSaved' /\ (proc' # None => proc # None)
  BY <1>2, HalfKeeps
<1>4. Env!TypeOK'
  BY <1>1, <1>2 DEF EnvInv, Env!TypeOK
<1>5. KeyKnown' /\ StartConfigured'
  BY <1>1, <1>2, <1>3 DEF EnvInv, KeyKnown, StartConfigured
<1>6. Env!SavedIsReadable'
  BY <1>1, <1>2 DEF EnvInv, Env!ConfiguredIsUsed, Env!SavedIsReadable
<1>7. QED
  BY <1>3, <1>4, <1>5, <1>6 DEF EnvInv, Env!ConfiguredIsUsed

LEMMA CrashKeeps ==
    ASSUME Env!AppEnvAssumption, EnvInv, Env!Crash
    PROVE  EnvInv'
BY DEF Env!Crash, EnvInv, Env!TypeOK, ProcTyped, KeyKnown, StartConfigured, Env!ConfiguredIsUsed,
       Env!StartedConfigured, Env!ProcessHasSaved, Env!SavedIsReadable, Env!KeyInUse, Env!AppEnvAssumption

LEMMA KeyLostKeeps ==
    ASSUME Env!AppEnvAssumption, EnvInv, Env!KeyLost
    PROVE  EnvInv'
BY DEF Env!KeyLost, EnvInv, Env!TypeOK, ProcTyped, KeyKnown, StartConfigured, Env!ConfiguredIsUsed,
       Env!StartedConfigured, Env!ProcessHasSaved, Env!SavedIsReadable, Env!KeyInUse, Env!AppEnvAssumption

LEMMA EnvStep ==
    ASSUME Env!AppEnvAssumption, EnvInv, Env!Next
    PROVE  EnvInv'
BY GateKeeps, UngatedKeeps, SpawnKeeps, EndsKeeps, PutEnvKeeps, UpdateKeeps, PutSignKeeps, CrashKeeps,
   KeyLostKeeps DEF Env!Next

LEMMA EnvInvStays ==
    ASSUME EnvInv, UNCHANGED environment
    PROVE  EnvInv'
BY DEF environment, EnvInv, Env!TypeOK, ProcTyped, KeyKnown, StartConfigured, Env!ConfiguredIsUsed,
       Env!StartedConfigured, Env!ProcessHasSaved, Env!SavedIsReadable, Env!Saved, Env!KeyInUse

\* What is configured is what a package runs with: whatever saves, updates,
\* starts that await, crashes and lost keys do to each other.
THEOREM ConfiguredIsUsedHolds ==
    ASSUME Env!AppEnvAssumption
    PROVE  MCSpec => []ConfiguredIsUsed
<1>1. MCInit => EnvInv
  BY EnvInitHolds DEF MCInit
<1>2. EnvInv /\ [MCNext]_mcVars => EnvInv'
  <2>1. CASE Env!Next
    BY <2>1, EnvStep
  <2>2. CASE UNCHANGED environment
    BY <2>2, EnvInvStays
  <2>3. QED
    BY <2>1, <2>2 DEF MCNext, mcVars
<1>3. EnvInv => ConfiguredIsUsed
  BY DEF ConfiguredIsUsed, EnvInv
<1>4. QED
  BY <1>1, <1>2, <1>3, PTL DEF MCSpec


-----------------------------------------------------------------------------
(* Egress: the gates of a hop are passed one after the other, with what    *)
(* the request has read and looked up, and the bits of a prefix are the    *)
(* range it means.                                                         *)

\* A power of two is positive: it counts the subsets of a set.
LEMMA PowerOfTwo ==
    ASSUME NEW n \in Nat
    PROVE  2 ^ n \in Nat /\ 2 ^ n > 0 /\ (n > 0 => 2 ^ n > 1)
<1>1. IsFiniteSet(1 .. n) /\ Cardinality(1 .. n) = n
  <2>1. 1 \in Int /\ n \in Int
    OBVIOUS
  <2>2. IsFiniteSet(1 .. n) /\ Cardinality(1 .. n) = IF 1 > n THEN 0 ELSE n - 1 + 1
    BY <2>1, FS_Interval
  <2>3. QED
    BY <2>2
<1>2. IsFiniteSet(SUBSET (1 .. n)) /\ Cardinality(SUBSET (1 .. n)) = 2 ^ n
  BY <1>1, FS_SUBSET
<1>3. Cardinality(SUBSET (1 .. n)) \in Nat /\ Cardinality(SUBSET (1 .. n)) # 0
  BY <1>2, FS_CardinalityType, FS_EmptySet
<1>4. n > 0 => Cardinality(SUBSET (1 .. n)) > 1
  <2> SUFFICES ASSUME n > 0
               PROVE  Cardinality(SUBSET (1 .. n)) > 1
    OBVIOUS
  <2>1. {{}, {1}} \subseteq SUBSET (1 .. n) /\ {1} \notin {{}}
    OBVIOUS
  <2>2. IsFiniteSet({{}}) /\ Cardinality({{}}) = 1
    BY FS_Singleton
  <2>3. Cardinality({{}} \cup {{1}}) = 2
    <3> DEFINE N == {{}}
               o == {1}
    <3>1. o \notin N /\ IsFiniteSet(N) /\ Cardinality(N) = 1
      BY <2>1, <2>2
    <3> HIDE DEF N, o
    <3>2. Cardinality(N \cup {o}) = Cardinality(N) + 1
      BY <3>1, FS_AddElement
    <3>3. Cardinality(N \cup {o}) = 2
      BY <3>1, <3>2
    <3>4. QED
      BY <3>3 DEF N, o
  <2>4. Cardinality({{}} \cup {{1}}) <= Cardinality(SUBSET (1 .. n))
    <3>1. {{}} \cup {{1}} \subseteq SUBSET (1 .. n)
      BY <2>1
    <3>2. QED
      BY <1>2, <3>1, FS_Subset
  <2> DEFINE c == Cardinality(SUBSET (1 .. n))
             two == Cardinality({{}} \cup {{1}})
  <2>5. c \in Nat /\ two = 2 /\ two <= c
    BY <1>3, <2>3, <2>4
  <2> HIDE DEF c, two
  <2>6. c > 1
    BY <2>5
  <2>7. QED
    BY <2>6 DEF c
<1>5. QED
  BY <1>2, <1>3, <1>4

\* What InCidr computes with bits is what one reads as a range; the prefix of
\* no bits, which the code takes by itself, is no exception.
LEMMA CidrIsRange ==
    ASSUME Eg!EgressAssumption, NEW l \in AllowLists, NEW x \in Eg!Addrs, Eg!InCidr(l.cidrs, x)
    PROVE  \E c \in l.cidrs : x \in Eg!RangeOf(c)
<1>1. PICK c \in l.cidrs :
        c.prefix = 0 \/ c.net \div 2 ^ (Width - c.prefix) = x \div 2 ^ (Width - c.prefix)
  BY DEF Eg!InCidr
<1>2. /\ c.net \in Eg!Addrs /\ c.prefix \in 0 .. Width /\ Width \in Nat
      /\ Width - c.prefix \in Nat
  BY DEF Eg!EgressAssumption
<1> DEFINE s == 2 ^ (Width - c.prefix)
           a == c.net
<1>3. s \in Nat /\ s > 0 /\ 2 ^ Width \in Nat /\ 2 ^ Width > 0
  BY <1>2, PowerOfTwo
<1>4. a \in Nat /\ x \in Nat /\ a < 2 ^ Width /\ x < 2 ^ Width
  BY <1>2, <1>3 DEF Eg!Addrs
<1>5. a \div s = x \div s
  <2>1. CASE c.prefix = 0
    <3>1. s = 2 ^ Width
      BY <1>2, <2>1
    <3> HIDE DEF s, a
    <3>2. a \div s = 0 /\ x \div s = 0
      BY <1>3, <1>4, <3>1
    <3>3. QED
      BY <3>2
  <2>2. CASE c.prefix # 0
    BY <1>1, <2>2
  <2>3. QED
    BY <2>1, <2>2
<1>6. x \in (a \div s) * s .. (a \div s) * s + s - 1
  <2> HIDE DEF s, a
  <2>1. (a \div s) * s <= x /\ x <= (a \div s) * s + s - 1 /\ (a \div s) * s \in Int
    BY <1>3, <1>4, <1>5
  <2>2. QED
    BY <1>3, <1>4, <2>1
<1>7. QED
  BY <1>6 DEF Eg!RangeOf

\* The gates have been passed.
HopAdmitted ==
    /\ pc \in {"lookup", "fetch"} => Eg!HostGate(host) /\ hop <= MaxHops
    /\ pc = "lookup" => ~ Eg!IsIp(host)
    /\ pc = "fetch" /\ ~ Eg!IsIp(host) => Eg!AddressGate(host, found)

\* A request that is under way has a host.
HostThere == pc # "idle" => host \in Eg!Hosts

\* The inductive invariant.
EgressInv == Eg!TypeOK /\ HostThere /\ HopAdmitted /\ Eg!ReachedIsAdmitted

\* Names and addresses are told apart by the field.
LEMMA HostKinds ==
    ASSUME NEW h \in Eg!Hosts
    PROVE  IF Eg!IsIp(h) THEN h.addr \in Eg!Addrs ELSE h.name \in HostNames
<1>1. CASE h \in [name : HostNames]
  <2>1. DOMAIN h = {"name"} /\ h.name \in HostNames
    BY <1>1
  <2>2. QED
    BY <2>1 DEF Eg!IsIp
<1>2. CASE h \in [addr : Eg!Addrs]
  <2>1. DOMAIN h = {"addr"} /\ h.addr \in Eg!Addrs
    BY <1>2
  <2>2. QED
    BY <2>1 DEF Eg!IsIp
<1>3. QED
  BY <1>1, <1>2 DEF Eg!Hosts

\* What ReachedIsAdmitted says of a hop: by name, and by what was looked up.
NameAdmitted(h) == h \in allow.hosts \/ h.name \in network \ Inside
LookedAdmitted(h, looked) ==
    /\ looked # {} /\ looked \cap LinkLocal = {}
    /\ \A x \in looked \cap Private : Eg!Covered(x) \/ h \in allow.hosts

\* What is fetched is what the two gates have admitted.
LEMMA FetchedIsAdmitted ==
    ASSUME Eg!EgressAssumption, EgressInv, pc = "fetch", NEW x \in Eg!Targets
    PROVE  /\ x \in Eg!Addrs /\ host \in Eg!Hosts /\ found \in SUBSET Eg!Addrs
           /\ Eg!IsIp(host) => x = host.addr /\ (host \in allow.hosts \/ Eg!Covered(host.addr))
           /\ ~ Eg!IsIp(host) => NameAdmitted(host) /\ LookedAdmitted(host, found)
<1>1. /\ host \in Eg!Hosts /\ Eg!HostGate(host) /\ allow \in AllowLists
      /\ found \in SUBSET Eg!Addrs
  BY DEF EgressInv, HostThere, HopAdmitted, Eg!TypeOK
<1>2. CASE Eg!IsIp(host)
  <2>1. x = host.addr /\ x \in Eg!Addrs
    BY <1>1, <1>2, HostKinds DEF Eg!Targets
  <2>2. host \in allow.hosts \/ Eg!InCidr(allow.cidrs, x)
    BY <1>1, <1>2, <2>1 DEF Eg!HostGate, Eg!Vouched
  <2>3. QED
    BY <1>1, <1>2, <2>1, <2>2, CidrIsRange DEF Eg!Covered
<1>3. CASE ~ Eg!IsIp(host)
  <2>1. x \in dns[host.name] /\ host.name \in HostNames
    BY <1>1, <1>3, HostKinds DEF Eg!Targets
  <2>2. x \in Eg!Addrs
    BY <2>1 DEF EgressInv, Eg!TypeOK
  <2>3. Eg!AddressGate(host, found)
    BY <1>3 DEF EgressInv, HopAdmitted
  <2>4. NameAdmitted(host)
    BY <1>1, <1>3 DEF Eg!HostGate, Eg!Vouched, NameAdmitted
  <2>5. ASSUME NEW y \in found \cap Private, host \notin allow.hosts
        PROVE  Eg!Covered(y)
    <3>1. y \in Eg!Addrs /\ Eg!InCidr(allow.cidrs, y)
      BY <1>1, <2>3, <2>5 DEF Eg!AddressGate
    <3>2. QED
      BY <1>1, <3>1, CidrIsRange DEF Eg!Covered
  <2>6. LookedAdmitted(host, found)
    BY <2>3, <2>5 DEF Eg!AddressGate, LookedAdmitted
  <2>7. QED
    BY <1>1, <1>3, <2>2, <2>4, <2>6
<1>4. QED
  BY <1>2, <1>3

LEMMA EgressInitHolds ==
    ASSUME Eg!EgressAssumption, Eg!Init
    PROVE  EgressInv
<1>1. dns \in [HostNames -> SUBSET Eg!Addrs]
  <2>1. 2 ^ Width \in Nat /\ 2 ^ Width > 1
    BY PowerOfTwo DEF Eg!EgressAssumption
  <2>2. {0, 1} \subseteq Eg!Addrs
    BY <2>1 DEF Eg!Addrs
  <2>3. QED
    BY <2>2 DEF Eg!Init
<1>2. 0 \in 0 .. MaxHops + 1
  BY DEF Eg!EgressAssumption
<1>3. Eg!TypeOK
  BY <1>1, <1>2 DEF Eg!Init, Eg!TypeOK
<1>4. HostThere /\ HopAdmitted /\ Eg!ReachedIsAdmitted
  BY DEF Eg!Init, HostThere, HopAdmitted, Eg!ReachedIsAdmitted
<1>5. QED
  BY <1>3, <1>4 DEF EgressInv

\* A hop that was fetched, whether the chain goes on or not.
LEMMA ReachedGrows ==
    ASSUME Eg!EgressAssumption, EgressInv, pc = "fetch", NEW x, Eg!Fetched(x), UNCHANGED <<allow, network>>
    PROVE  Eg!ReachedIsAdmitted' /\ reached' \subseteq Eg!Hosts \X Eg!Addrs \X SUBSET Eg!Addrs
<1>1. x \in Eg!Targets /\ reached' = reached \cup {<<host, x, found>>}
  BY DEF Eg!Fetched
<1>2. /\ x \in Eg!Addrs /\ host \in Eg!Hosts /\ found \in SUBSET Eg!Addrs
      /\ Eg!IsIp(host) => x = host.addr /\ (host \in allow.hosts \/ Eg!Covered(host.addr))
      /\ ~ Eg!IsIp(host) => NameAdmitted(host) /\ LookedAdmitted(host, found)
  BY <1>1, FetchedIsAdmitted
<1>3. reached' \subseteq Eg!Hosts \X Eg!Addrs \X SUBSET Eg!Addrs
  BY <1>1, <1>2 DEF EgressInv, Eg!TypeOK
<1> DEFINE Admitted(r) ==
             /\ Eg!IsIp(r[1]) => r[2] = r[1].addr /\ (r[1] \in allow.hosts \/ Eg!Covered(r[1].addr))
             /\ ~ Eg!IsIp(r[1]) => NameAdmitted(r[1]) /\ LookedAdmitted(r[1], r[3])
<1>4. \A r \in reached : Admitted(r)
  BY DEF EgressInv, Eg!ReachedIsAdmitted, NameAdmitted, LookedAdmitted
<1>5. Admitted(<<host, x, found>>)
  BY <1>2
<1>6. \A r \in reached' : Admitted(r)
  BY <1>1, <1>4, <1>5
<1>7. Eg!ReachedIsAdmitted'
  BY <1>6 DEF Eg!ReachedIsAdmitted, NameAdmitted, LookedAdmitted, Eg!Covered
<1>8. QED
  BY <1>3, <1>7

LEMMA EgressStep ==
    ASSUME Eg!EgressAssumption, EgressInv, Eg!Next
    PROVE  EgressInv'
<1>1. ASSUME NEW h \in Eg!Hosts, Eg!Begin(h)
      PROVE  EgressInv'
  <2>1. Eg!TypeOK'
    BY <1>1 DEF Eg!Begin, EgressInv, Eg!TypeOK, Eg!EgressAssumption
  <2>2. HostThere' /\ HopAdmitted' /\ Eg!ReachedIsAdmitted'
    BY <1>1 DEF Eg!Begin, HostThere, HopAdmitted, Eg!ReachedIsAdmitted
  <2>3. QED
    BY <2>1, <2>2 DEF EgressInv
<1>2. CASE Eg!Admit
  <2>1. Eg!TypeOK' /\ HostThere' /\ Eg!ReachedIsAdmitted'
    BY <1>2 DEF Eg!Admit, EgressInv, Eg!TypeOK, HostThere, Eg!ReachedIsAdmitted, Eg!Covered
  <2>2. HopAdmitted'
    BY <1>2 DEF Eg!Admit, HopAdmitted, Eg!HostGate, Eg!Vouched
  <2>3. QED
    BY <2>1, <2>2 DEF EgressInv
<1>3. CASE Eg!Refuse
  <2>1. Eg!TypeOK' /\ HostThere' /\ Eg!ReachedIsAdmitted'
    BY <1>3 DEF Eg!Refuse, Eg!End, EgressInv, Eg!TypeOK, HostThere, Eg!ReachedIsAdmitted, Eg!Covered
  <2>2. HopAdmitted'
    BY <1>3 DEF Eg!Refuse, Eg!End, HopAdmitted
  <2>3. QED
    BY <2>1, <2>2 DEF EgressInv
<1>4. CASE Eg!LookUp
  <2>1. CASE Eg!AddressGate(host, dns[host.name])
    <3>1. /\ pc = "lookup" /\ pc' = "fetch" /\ found' = dns[host.name]
          /\ UNCHANGED <<eManifest, allowed, dns, host, hop, network, allow, reached>>
      BY <1>4, <2>1 DEF Eg!LookUp
    <3>2. host \in Eg!Hosts /\ Eg!HostGate(host) /\ hop <= MaxHops /\ ~ Eg!IsIp(host) /\ host.name \in HostNames
      BY <3>1, HostKinds DEF EgressInv, HostThere, HopAdmitted
    <3>3. Eg!TypeOK' /\ HostThere' /\ Eg!ReachedIsAdmitted'
      BY <3>1, <3>2 DEF EgressInv, Eg!TypeOK, HostThere, Eg!ReachedIsAdmitted, Eg!Covered
    <3>4. HopAdmitted'
      BY <2>1, <3>1, <3>2 DEF HopAdmitted, Eg!HostGate, Eg!Vouched, Eg!AddressGate
    <3>5. QED
      BY <3>3, <3>4 DEF EgressInv
  <2>2. CASE ~ Eg!AddressGate(host, dns[host.name])
    <3>1. Eg!TypeOK' /\ HostThere' /\ Eg!ReachedIsAdmitted'
      BY <1>4, <2>2 DEF Eg!LookUp, Eg!End, EgressInv, Eg!TypeOK, HostThere, Eg!ReachedIsAdmitted, Eg!Covered
    <3>2. HopAdmitted'
      BY <1>4, <2>2 DEF Eg!LookUp, Eg!End, HopAdmitted
    <3>3. QED
      BY <3>1, <3>2 DEF EgressInv
  <2>3. QED
    BY <2>1, <2>2
<1>5. CASE Eg!Fails
  <2>1. Eg!TypeOK' /\ HostThere' /\ Eg!ReachedIsAdmitted'
    BY <1>5 DEF Eg!Fails, Eg!End, EgressInv, Eg!TypeOK, HostThere, Eg!ReachedIsAdmitted, Eg!Covered
  <2>2. HopAdmitted'
    BY <1>5 DEF Eg!Fails, Eg!End, HopAdmitted
  <2>3. QED
    BY <2>1, <2>2 DEF EgressInv
<1>6. ASSUME NEW x \in Eg!Addrs, Eg!Fetch(x)
      PROVE  EgressInv'
  <2>1. Eg!ReachedIsAdmitted' /\ reached' \subseteq Eg!Hosts \X Eg!Addrs \X SUBSET Eg!Addrs
    BY <1>6, ReachedGrows DEF Eg!Fetch
  <2>2. Eg!TypeOK'
    BY <1>6, <2>1 DEF Eg!Fetch, Eg!End, EgressInv, Eg!TypeOK
  <2>3. HostThere' /\ HopAdmitted'
    BY <1>6 DEF Eg!Fetch, Eg!End, HostThere, HopAdmitted
  <2>4. QED
    BY <2>1, <2>2, <2>3 DEF EgressInv
<1>7. ASSUME NEW x \in Eg!Addrs, NEW h \in Eg!Hosts, Eg!Follow(x, h)
      PROVE  EgressInv'
  <2>1. Eg!ReachedIsAdmitted' /\ reached' \subseteq Eg!Hosts \X Eg!Addrs \X SUBSET Eg!Addrs
    BY <1>7, ReachedGrows DEF Eg!Follow
  <2>2. Eg!TypeOK'
    <3>1. hop \in 0 .. MaxHops + 1 /\ hop <= MaxHops /\ hop' = hop + 1 /\ MaxHops \in Nat
      BY <1>7 DEF Eg!Follow, EgressInv, Eg!TypeOK, HopAdmitted, Eg!EgressAssumption
    <3>2. hop' \in 0 .. MaxHops + 1
      BY <3>1
    <3>3. QED
      BY <1>7, <2>1, <3>2 DEF Eg!Follow, EgressInv, Eg!TypeOK
  <2>3. HostThere' /\ HopAdmitted'
    BY <1>7 DEF Eg!Follow, HostThere, HopAdmitted
  <2>4. QED
    BY <2>1, <2>2, <2>3 DEF EgressInv
<1>8. ASSUME NEW m \in Manifests, NEW l \in AllowLists, Eg!Edit(m, l)
      PROVE  EgressInv'
  <2>1. Eg!TypeOK' /\ HostThere' /\ Eg!ReachedIsAdmitted'
    BY <1>8 DEF Eg!Edit, EgressInv, Eg!TypeOK, HostThere, Eg!ReachedIsAdmitted, Eg!Covered
  <2>2. HopAdmitted'
    BY <1>8 DEF Eg!Edit, EgressInv, HopAdmitted, Eg!HostGate, Eg!Vouched, Eg!AddressGate
  <2>3. QED
    BY <2>1, <2>2 DEF EgressInv
<1>9. ASSUME NEW n \in HostNames, NEW x \in Eg!Addrs, Eg!Moved(n, x)
      PROVE  EgressInv'
  <2>1. Eg!TypeOK' /\ HostThere' /\ Eg!ReachedIsAdmitted'
    BY <1>9 DEF Eg!Moved, EgressInv, Eg!TypeOK, HostThere, Eg!ReachedIsAdmitted, Eg!Covered
  <2>2. HopAdmitted'
    BY <1>9 DEF Eg!Moved, EgressInv, HopAdmitted, Eg!HostGate, Eg!Vouched, Eg!AddressGate
  <2>3. QED
    BY <2>1, <2>2 DEF EgressInv
<1>10. QED
  BY <1>1, <1>2, <1>3, <1>4, <1>5, <1>6, <1>7, <1>8, <1>9 DEF Eg!Next

LEMMA EgressInvStays ==
    ASSUME EgressInv, UNCHANGED egress
    PROVE  EgressInv'
BY DEF egress, EgressInv, Eg!TypeOK, HostThere, HopAdmitted, Eg!HostGate, Eg!Vouched, Eg!AddressGate,
       Eg!ReachedIsAdmitted, Eg!Covered

\* Whatever a chain of redirects names, only what was admitted is fetched: for
\* any width of addresses, lists, manifests and moves of names.
THEOREM ReachedIsAdmittedHolds ==
    ASSUME Eg!EgressAssumption
    PROVE  MCSpec => []ReachedIsAdmitted
<1>1. MCInit => EgressInv
  BY EgressInitHolds DEF MCInit
<1>2. EgressInv /\ [MCNext]_mcVars => EgressInv'
  <2>1. CASE Eg!Next
    BY <2>1, EgressStep
  <2>2. CASE UNCHANGED egress
    BY <2>2, EgressInvStays
  <2>3. QED
    BY <2>1, <2>2 DEF MCNext, mcVars
<1>3. EgressInv => ReachedIsAdmitted
  BY DEF ReachedIsAdmitted, EgressInv
<1>4. QED
  BY <1>1, <1>2, <1>3, PTL DEF MCSpec


-----------------------------------------------------------------------------
(* Package: while a request unpacks, its directory is what is digested,    *)
(* and what is on the disk was counted.                                    *)

Files == {"manifest", "code", "signature"}
Requests == [by : Senders \cup {Admin}, route : {"submit", "upload", "preview"}]

\* While a request unpacks: its directory has the files that are digested and
\* perhaps the signature, each with its last content, ...
DigestCovers ==
    /\ "signature" \notin DOMAIN entries
    /\ DOMAIN dir \subseteq DOMAIN entries \cup {"signature"} /\ DOMAIN entries \subseteq DOMAIN dir
    /\ DOMAIN dir \subseteq Files
    /\ \A x \in DOMAIN entries :
        /\ entries[x] \in Seq(Pk!Contents[x]) /\ entries[x] # <<>>
        /\ entries[x][Len(entries[x])] = dir[x]

\* ... and no more on the disk than was counted.
CountCovers ==
    /\ bytes \in Nat /\ bytes <= MaxBytes
    /\ Pk!OnDisk("manifest") + Pk!OnDisk("code") + Pk!OnDisk("signature") <= bytes

\* The inductive invariant.
PackageInv ==
    /\ pReq # None => pReq \in Requests /\ DigestCovers /\ CountCovers
    /\ pReq = None => dir = None
    /\ Pk!SignedIsStored /\ Pk!OwnFilesOnly

LEMMA SizeIsNat ==
    ASSUME NEW x, NEW c
    PROVE  Pk!Size(x, c) \in Nat
BY DEF Pk!Size

LEMMA PackageInitHolds ==
    ASSUME Pk!Init
    PROVE  PackageInv
BY DEF Pk!Init, PackageInv, Pk!SignedIsStored, Pk!OwnFilesOnly

\* A request that was refused has no directory.
LEMMA RefusedKeeps ==
    ASSUME PackageInv, Pk!Refused
    PROVE  PackageInv'
BY DEF Pk!Refused, PackageInv, Pk!SignedIsStored, Pk!OwnFilesOnly

LEMMA BeginKeeps ==
    ASSUME Pk!PackageAssumption, PackageInv, NEW u \in Senders \cup {Admin},
           NEW route \in {"submit", "upload", "preview"}, Pk!Begin(u, route)
    PROVE  PackageInv'
<1>1. /\ pReq' \in Requests /\ pReq' # None
      /\ dir' = <<>> /\ entries' = <<>> /\ bytes' = 0 /\ UNCHANGED <<site, pRow>>
  BY DEF Pk!Begin, Pk!Unread, Pk!Nothing, Requests, Pk!PackageAssumption
<1>2. DigestCovers'
  BY <1>1 DEF DigestCovers
<1>3. CountCovers'
  BY <1>1 DEF CountCovers, Pk!OnDisk, Pk!PackageAssumption
<1>4. QED
  BY <1>1, <1>2, <1>3 DEF PackageInv, Pk!SignedIsStored, Pk!OwnFilesOnly

LEMMA SkipKeeps ==
    ASSUME PackageInv, NEW e, Pk!Skip(e)
    PROVE  PackageInv'
BY DEF Pk!Skip, PackageInv, DigestCovers, CountCovers, Pk!OnDisk, Pk!SignedIsStored, Pk!OwnFilesOnly

LEMMA ExtractKeeps ==
    ASSUME Pk!PackageAssumption, PackageInv, pReq # None, NEW e \in Pk!ZipEntries, Pk!Extract(e)
    PROVE  PackageInv'
<1>1. /\ e.name \in Files /\ e.content \in Pk!Contents[e.name]
      /\ DigestCovers /\ CountCovers
  BY DEF Pk!Extract, PackageInv, Pk!ZipEntries, Pk!PlainEntries, Files, Pk!Contents
<1>2. /\ UNCHANGED <<pReq, site, pRow>>
      /\ bytes' = bytes + Pk!Size(e.name, e.content)
      /\ dir' = Pk!With(dir, e.name, e.content)
      /\ entries' = IF e.name = "signature" THEN entries ELSE Pk!Digested(e.name, e.content)
      /\ ~ (bytes + Pk!Size(e.name, e.content) > MaxBytes)
  BY DEF Pk!Extract, Pk!TooLarge
<1>3. /\ DOMAIN dir' = DOMAIN dir \cup {e.name} /\ dir'[e.name] = e.content
      /\ \A x \in DOMAIN dir \ {e.name} : dir'[x] = dir[x]
  BY <1>2 DEF Pk!With
<1>4. DigestCovers'
  <2>1. CASE e.name = "signature"
    BY <1>1, <1>2, <1>3, <2>1 DEF DigestCovers, Files
  <2>2. CASE e.name # "signature"
    <3> DEFINE y == e.name
               L == Pk!Listed(y)
    <3>1. /\ entries' = Pk!With(entries, y, Append(L, e.content))
          /\ DOMAIN entries' = DOMAIN entries \cup {y}
          /\ entries'[y] = Append(L, e.content)
          /\ \A x \in DOMAIN entries \ {y} : entries'[x] = entries[x]
      BY <1>2, <2>2 DEF Pk!Digested, Pk!With
    <3>2. L \in Seq(Pk!Contents[y])
      <4>1. CASE y \in DOMAIN entries
        BY <1>1, <4>1 DEF Pk!Listed, DigestCovers
      <4>2. CASE y \notin DOMAIN entries
        BY <4>2 DEF Pk!Listed
      <4>3. QED
        BY <4>1, <4>2
    <3>3. /\ entries'[y] \in Seq(Pk!Contents[y]) /\ entries'[y] # <<>>
          /\ entries'[y][Len(entries'[y])] = e.content
      <4> DEFINE C == Pk!Contents[y]
                 c == e.content
      <4>1. L \in Seq(C) /\ c \in C
        BY <1>1, <3>2
      <4> HIDE DEF L, C, c
      <4>2. Append(L, c) \in Seq(C) /\ Append(L, c)[Len(Append(L, c))] = c /\ Append(L, c) # <<>>
        BY <4>1
      <4>3. QED
        BY <3>1, <4>2 DEF L, C, c
    <3>4. ASSUME NEW x \in DOMAIN entries'
          PROVE  /\ entries'[x] \in Seq(Pk!Contents[x]) /\ entries'[x] # <<>>
                 /\ entries'[x][Len(entries'[x])] = dir'[x]
      <4>1. CASE x = y
        BY <1>3, <3>3, <4>1
      <4>2. CASE x # y
        BY <1>1, <1>3, <3>1, <4>2 DEF DigestCovers
      <4>3. QED
        BY <4>1, <4>2
    <3>5. QED
      BY <1>1, <1>3, <2>2, <3>1, <3>4 DEF DigestCovers, Files
  <2>3. QED
    BY <2>1, <2>2
<1>5. CountCovers'
  <2> DEFINE s == Pk!Size(e.name, e.content)
  <2>1. /\ Pk!OnDisk(e.name)' = s
        /\ \A x \in Files \ {e.name} : Pk!OnDisk(x)' = Pk!OnDisk(x)
    BY <1>3 DEF Pk!OnDisk
  <2>2. s \in Nat /\ \A x \in Files : Pk!OnDisk(x) \in Nat
    BY SizeIsNat DEF Pk!OnDisk
  <2>3. bytes' = bytes + s /\ bytes \in Nat /\ bytes + s <= MaxBytes /\ MaxBytes \in Nat
    BY <1>1, <1>2, <2>2 DEF CountCovers, Pk!PackageAssumption
  <2> HIDE DEF s
  <2>4. Pk!OnDisk("manifest")' + Pk!OnDisk("code")' + Pk!OnDisk("signature")' <= bytes + s
    <3>1. CASE e.name = "manifest"
      BY <1>1, <2>1, <2>2, <2>3, <3>1 DEF Files, CountCovers
    <3>2. CASE e.name = "code"
      BY <1>1, <2>1, <2>2, <2>3, <3>2 DEF Files, CountCovers
    <3>3. CASE e.name = "signature"
      BY <1>1, <2>1, <2>2, <2>3, <3>3 DEF Files, CountCovers
    <3>4. QED
      BY <1>1, <3>1, <3>2, <3>3 DEF Files
  <2>5. QED
    BY <2>2, <2>3, <2>4 DEF CountCovers
<1>6. QED
  BY <1>2, <1>4, <1>5 DEF PackageInv, Pk!SignedIsStored, Pk!OwnFilesOnly

\* A verified signature is over the entries, and the directory has the last of
\* each of them.
LEMMA AcceptKeeps ==
    ASSUME PackageInv, pReq # None, Pk!Accept
    PROVE  PackageInv'
<1>1. /\ site' = [files |-> dir, by |-> pReq.by] /\ site'.files = dir /\ site'.by = pReq.by
      /\ pRow' = [owner |-> IF pRow = None THEN pReq.by ELSE pRow.owner, signed |-> Pk!Status]
      /\ pRow'.owner = (IF pRow = None THEN pReq.by ELSE pRow.owner) /\ pRow'.signed = Pk!Status
      /\ dir' = None /\ pReq' = None
  BY DEF Pk!Accept
<1>2. Pk!OwnFilesOnly'
  BY <1>1 DEF Pk!Accept, Pk!MayReplace, Pk!OwnFilesOnly
<1>3. Pk!SignedIsStored'
  <2> SUFFICES ASSUME Pk!Status = "verified", NEW x \in DOMAIN dir \cup DOMAIN Pk!Genuine, x # "signature"
               PROVE  x \in DOMAIN dir /\ <<dir[x]>> = Pk!Genuine[x]
    BY <1>1 DEF Pk!SignedIsStored
  <2>1. entries = Pk!Genuine
    BY DEF Pk!Status, Pk!Intact
  <2>2. x \in DOMAIN entries /\ x \in DOMAIN dir /\ entries[x][Len(entries[x])] = dir[x]
    BY <2>1 DEF PackageInv, DigestCovers
  <2>3. x \in {"manifest", "code"} /\ Len(Pk!Genuine[x]) = 1 /\ <<Pk!Genuine[x][1]>> = Pk!Genuine[x]
    BY <2>1, <2>2 DEF Pk!Genuine
  <2>4. QED
    BY <2>1, <2>2, <2>3
<1>4. QED
  BY <1>1, <1>2, <1>3 DEF PackageInv

LEMMA PackageStep ==
    ASSUME Pk!PackageAssumption, PackageInv, Pk!Next
    PROVE  PackageInv'
<1>1. ASSUME NEW u \in Senders \cup {Admin}, NEW route \in {"submit", "upload", "preview"}, Pk!Begin(u, route)
      PROVE  PackageInv'
  BY <1>1, BeginKeeps
<1>2. ASSUME pReq # None, NEW e \in Pk!ZipEntries, Pk!Skip(e) \/ Pk!Extract(e) \/ Pk!Reject(e)
      PROVE  PackageInv'
  BY <1>2, SkipKeeps, ExtractKeeps, RefusedKeeps DEF Pk!Reject
<1>3. CASE Pk!GiveBack
  BY <1>3, RefusedKeeps DEF Pk!GiveBack
<1>4. CASE pReq # None /\ Pk!Accept
  BY <1>4, AcceptKeeps
<1>5. CASE pReq # None /\ Pk!UploadFails
  <2>1. pRow = None /\ pRow' = None /\ pReq' = None /\ dir' = None
    BY <1>5 DEF Pk!UploadFails, Pk!MayReplace
  <2>2. QED
    BY <2>1 DEF PackageInv, Pk!SignedIsStored, Pk!OwnFilesOnly
<1>6. CASE Pk!Delete
  BY <1>6 DEF Pk!Delete, Pk!reading, PackageInv, Pk!SignedIsStored, Pk!OwnFilesOnly
<1>7. CASE Pk!Crash
  BY <1>7, RefusedKeeps DEF Pk!Crash
<1>8. QED
  BY <1>1, <1>2, <1>3, <1>4, <1>5, <1>6, <1>7 DEF Pk!Next

LEMMA PackageContained ==
    ASSUME Pk!PackageAssumption, PackageInv
    PROVE  Pk!UploadsAreContained
<1>1. Pk!DiskIsBounded
  <2> SUFFICES ASSUME dir # None
               PROVE  Pk!OnDisk("manifest") + Pk!OnDisk("code") + Pk!OnDisk("signature") + Pk!OnDisk("outside") <= MaxBytes
    BY DEF Pk!DiskIsBounded
  <2>1. DigestCovers /\ CountCovers
    BY DEF PackageInv
  <2>2. Pk!OnDisk("outside") = 0
    BY <2>1 DEF DigestCovers, Files, Pk!OnDisk
  <2>3. \A x \in Files : Pk!OnDisk(x) \in Nat
    BY SizeIsNat DEF Pk!OnDisk
  <2>4. QED
    BY <2>1, <2>2, <2>3 DEF CountCovers, Files, Pk!PackageAssumption
<1>2. QED
  BY <1>1 DEF PackageInv, Pk!UploadsAreContained

LEMMA PackageInvStays ==
    ASSUME PackageInv, UNCHANGED package
    PROVE  PackageInv'
BY DEF package, PackageInv, DigestCovers, CountCovers, Pk!OnDisk, Pk!SignedIsStored, Pk!OwnFilesOnly

\* Whatever a zip says of itself: the disk is bounded, a verified row has the
\* genuine files, and files come from the owner or an admin.
THEOREM UploadsAreContainedHolds ==
    ASSUME Pk!PackageAssumption
    PROVE  MCSpec => []UploadsAreContained
<1>1. MCInit => PackageInv
  BY PackageInitHolds DEF MCInit
<1>2. PackageInv /\ [MCNext]_mcVars => PackageInv'
  <2>1. CASE Pk!Next
    BY <2>1, PackageStep
  <2>2. CASE UNCHANGED package
    BY <2>2, PackageInvStays
  <2>3. QED
    BY <2>1, <2>2 DEF MCNext, mcVars
<1>3. PackageInv => UploadsAreContained
  BY PackageContained DEF UploadsAreContained
<1>4. QED
  BY <1>1, <1>2, <1>3, PTL DEF MCSpec

-----------------------------------------------------------------------------
(* AppReview: the review gate holds by what an admin looks at: as long as  *)
(* a look is not decided on, it contains the version that the row          *)
(* describes, unless that one slipped in.  Files and a process that are    *)
(* not of the row's version are known: they slipped in, or are vouched for *)
(* on their own.                                                           *)

Known == cleared \cup RvSigned \cup slipped

\* Whatever a request holds was uploaded.
AllUploaded ==
    /\ rvRow # None => rvRow.ver \in used
    /\ files # None => files \in used
    /\ \A w \in RvUploads : upload[w] # None => upload[w] \in used

\* What was looked at is what a decision is about.
LookIsOfRow == seen # {} => Rv!Exists /\ rvRow.ver \in seen \cup Known

RowIsVouched == Rv!OpenToOthers(rvRow) => rvRow.ver \in Known

\* What else there is of the app.
OthersAreKnown == Rv!Exists => {files, rvProc} \ {None} \subseteq Known \cup {rvRow.ver}

\* An admin stands for what an admin uploads.
UploadIsVouched == \A w \in RvUploads : upload[w] # None => upload[w] \in cleared

\* An upload that waits will insert the row of the files that are there.
UploadDescribesFiles ==
    \A w \in RvUploads :
        upload[w] # None /\ ~Rv!Exists /\ ~mixed /\ files # None => upload[w] = files

RvInv ==
    /\ Rv!TypeOK /\ AllUploaded
    /\ LookIsOfRow
    /\ RowIsVouched /\ OthersAreKnown /\ UploadIsVouched
    /\ Rv!RowDescribesFiles /\ UploadDescribesFiles

-----------------------------------------------------------------------------
(* The handlers of a row *)

\* What the routes write to a row.
LEMMA RowUpdates ==
    ASSUME Rv!ReviewAssumption, NEW r \in Rv!Row
    PROVE  /\ r # None /\ r.ver \in RvVersions /\ r.ver # None
           /\ \A rev \in {"none", "pending", "approved", "rejected"} :
                 /\ [r EXCEPT !.review = rev] \in Rv!Row
                 /\ [r EXCEPT !.review = rev].review = rev
                 /\ [r EXCEPT !.review = rev].ver = r.ver
           /\ \A share \in BOOLEAN :
                 /\ [r EXCEPT !.review = "approved", !.on = TRUE, !.shared = @ \/ share] \in Rv!Row
                 /\ [r EXCEPT !.review = "approved", !.on = TRUE, !.shared = @ \/ share].ver
                       = r.ver
<1>1. r # None /\ r.ver \in RvVersions /\ r.ver # None
  BY DEF Rv!ReviewAssumption, Rv!Row
<1>2. ASSUME NEW rev \in {"none", "pending", "approved", "rejected"}
      PROVE  /\ [r EXCEPT !.review = rev] \in Rv!Row
             /\ [r EXCEPT !.review = rev].review = rev
             /\ [r EXCEPT !.review = rev].ver = r.ver
  BY DEF Rv!Row
<1>3. ASSUME NEW share \in BOOLEAN
      PROVE  /\ [r EXCEPT !.review = "approved", !.on = TRUE, !.shared = @ \/ share] \in Rv!Row
             /\ [r EXCEPT !.review = "approved", !.on = TRUE, !.shared = @ \/ share].ver = r.ver
  <2>1. (r.shared \/ share) \in BOOLEAN
    OBVIOUS
  <2>2. QED
    BY <2>1 DEF Rv!Row
<1>4. QED
  BY <1>1, <1>2, <1>3

\* The row of a new version: described by it, and held back unless signed.
LEMMA UpdatedRow ==
    ASSUME Rv!ReviewAssumption, rvRow \in Rv!Row, NEW v \in RvVersions
    PROVE  /\ Rv!Updated(v) \in Rv!Row
           /\ Rv!Updated(v).ver = v
           /\ v \notin RvSigned => Rv!HeldBack(Rv!Updated(v))
<1>1. CASE v \in RvSigned
  <2>1. /\ [rvRow EXCEPT !.ver = v, !.review = "approved"] \in Rv!Row
        /\ [rvRow EXCEPT !.ver = v, !.review = "approved"].ver = v
    BY DEF Rv!Row
  <2>2. QED
    BY <1>1, <2>1 DEF Rv!Updated
<1>2. CASE v \notin RvSigned
  <2>1. (rvRow.on /\ ~rvRow.shared) \in BOOLEAN
    OBVIOUS
  <2>2. /\ [rvRow EXCEPT !.ver = v, !.review = "pending", !.on = @ /\ ~rvRow.shared] \in Rv!Row
        /\ [rvRow EXCEPT !.ver = v, !.review = "pending", !.on = @ /\ ~rvRow.shared].ver = v
        /\ [rvRow EXCEPT !.ver = v, !.review = "pending", !.on = @ /\ ~rvRow.shared].review = "pending"
    BY <2>1 DEF Rv!Row
  <2>3. QED
    BY <1>2, <2>2 DEF Rv!Updated, Rv!HeldBack
<1>3. QED
  BY <1>1, <1>2

-----------------------------------------------------------------------------
(* Steps *)

\* A row is written over: the other rows, files and uploads stay.
LEMMA RowWritten ==
    ASSUME Rv!ReviewAssumption, RvInv, NEW r \in Rv!Row,
           Rv!Exists, r.ver = rvRow.ver, rvRow' = r,
           UNCHANGED <<files, starting, upload, used, slipped, mixed>>,
           rvProc' \in {rvProc, None},
           cleared \subseteq cleared', cleared' \subseteq RvVersions, taken' \in BOOLEAN,
           seen' \in {seen, {}},
           Rv!OpenToOthers(r) => r.ver \in cleared' \cup RvSigned \cup slipped
    PROVE  RvInv'
<1>1. r # None /\ rvRow \in Rv!Row /\ rvRow # None
  BY DEF RvInv, Rv!TypeOK, Rv!ReviewAssumption, Rv!Exists
<1>2. Rv!TypeOK' /\ AllUploaded'
  BY <1>1 DEF RvInv, Rv!TypeOK, AllUploaded
<1>3. LookIsOfRow'
  BY <1>1 DEF RvInv, LookIsOfRow, Rv!Exists, Known
<1>4. RowIsVouched' /\ OthersAreKnown' /\ UploadIsVouched'
  BY <1>1 DEF RvInv, RowIsVouched, OthersAreKnown, UploadIsVouched, Rv!Exists, Known
<1>5. Rv!RowDescribesFiles' /\ UploadDescribesFiles'
  BY <1>1 DEF RvInv, Rv!RowDescribesFiles, UploadDescribesFiles, Rv!Exists
<1>6. QED
  BY <1>2, <1>3, <1>4, <1>5 DEF RvInv

\* Submissions.
LEMMA SubmitSteps ==
    ASSUME Rv!ReviewAssumption, RvInv,
           NEW u \in Authors \cup {Admin}, NEW v \in RvVersions,
           Rv!SubmitNew(u, v) \/ Rv!SubmitUpdate(u, v) \/ Rv!CrashInSubmit(u, v)
    PROVE  RvInv'
<1>0. v # None /\ v \in used'
  BY DEF Rv!ReviewAssumption, Rv!SubmitNew, Rv!SubmitUpdate, Rv!CrashInSubmit, Rv!Take
<1>1. CASE Rv!SubmitNew(u, v)
  <2> DEFINE r == [owner |-> u, shared |-> FALSE, on |-> TRUE, ver |-> v,
                   review |-> IF v \in RvSigned THEN "approved" ELSE "none"]
  <2>1. /\ rvRow' = r /\ files' = v /\ used' = used \cup {v} /\ ~Rv!Exists
        /\ taken' = FALSE /\ mixed' = FALSE
        /\ slipped' = (slipped \cup {rvProc}) \ {None}
        /\ UNCHANGED <<rvProc, starting, upload, seen, cleared>>
    BY <1>1 DEF Rv!SubmitNew, Rv!Take, Rv!Exchange
  <2>2. r \in Rv!Row /\ r.ver = v /\ ~r.shared
    BY DEF Rv!Row
  <2> HIDE DEF r
  <2>3. r # None /\ seen = {}
    BY <2>1, <2>2 DEF RvInv, LookIsOfRow, Rv!ReviewAssumption
  <2>4. Rv!TypeOK' /\ AllUploaded'
    BY <2>1, <2>2, <2>3 DEF RvInv, Rv!TypeOK, AllUploaded
  <2>5. LookIsOfRow' /\ RowIsVouched' /\ OthersAreKnown' /\ UploadIsVouched'
    BY <2>1, <2>2, <2>3 DEF RvInv, LookIsOfRow, RowIsVouched, OthersAreKnown, UploadIsVouched, Known, Rv!OpenToOthers
  <2>6. Rv!RowDescribesFiles' /\ UploadDescribesFiles'
    BY <2>1, <2>2, <2>3 DEF Rv!RowDescribesFiles, UploadDescribesFiles, Rv!Exists
  <2>7. QED
    BY <2>4, <2>5, <2>6 DEF RvInv
<1>2. CASE Rv!SubmitUpdate(u, v)
  <2>1. /\ rvRow' = Rv!Updated(v) /\ files' = v /\ used' = used \cup {v} /\ Rv!Exists
        /\ mixed' = FALSE
        /\ slipped' = (slipped \cup {rvProc} \cup (IF seen = {} THEN {} ELSE {v})) \ {None}
        /\ UNCHANGED <<rvProc, starting, upload, seen, cleared>>
    BY <1>2 DEF Rv!SubmitUpdate, Rv!Take, Rv!MayUpdate
  <2>2. taken' \in BOOLEAN
    BY <1>2 DEF Rv!SubmitUpdate
  <2>3. rvRow \in Rv!Row
    BY <2>1 DEF RvInv, Rv!TypeOK, Rv!Exists
  <2>4. /\ Rv!Updated(v) \in Rv!Row /\ Rv!Updated(v).ver = v
        /\ v \notin RvSigned => Rv!HeldBack(Rv!Updated(v))
    BY <2>3, UpdatedRow
  <2>5. Rv!Updated(v) # None
    BY <2>4 DEF Rv!ReviewAssumption
  <2>6. Rv!TypeOK' /\ AllUploaded'
    BY <2>1, <2>2, <2>4, <2>5 DEF RvInv, Rv!TypeOK, AllUploaded
  <2>7. LookIsOfRow' /\ RowIsVouched' /\ OthersAreKnown' /\ UploadIsVouched'
    BY <1>0, <2>1, <2>4, <2>5
       DEF RvInv, LookIsOfRow, RowIsVouched, OthersAreKnown, UploadIsVouched, Known, Rv!OpenToOthers, Rv!Exists
  <2>8. Rv!RowDescribesFiles' /\ UploadDescribesFiles'
    BY <2>1, <2>4, <2>5 DEF Rv!RowDescribesFiles, UploadDescribesFiles, Rv!Exists
  <2>9. QED
    BY <2>6, <2>7, <2>8 DEF RvInv
<1>3. CASE Rv!CrashInSubmit(u, v)
  <2>1. /\ files' \in {v, None} /\ used' = used \cup {v} /\ upload' = Rv!NoUploads
        /\ mixed' = TRUE /\ rvProc' = None /\ starting' = FALSE
        /\ slipped' = slipped \cup {v} /\ UNCHANGED <<rvRow, seen, cleared, taken>>
    BY <1>3 DEF Rv!CrashInSubmit, Rv!Take
  <2>2. \A w \in RvUploads : upload'[w] = None
    BY <2>1 DEF Rv!NoUploads
  <2>3. upload' \in [RvUploads -> RvVersions \cup {None}]
    BY <2>1 DEF Rv!NoUploads
  <2>4. Rv!TypeOK' /\ AllUploaded'
    BY <2>1, <2>2, <2>3 DEF RvInv, Rv!TypeOK, AllUploaded
  <2>5. LookIsOfRow' /\ RowIsVouched' /\ OthersAreKnown' /\ UploadIsVouched'
    BY <2>1, <2>2 DEF RvInv, LookIsOfRow, RowIsVouched, OthersAreKnown, UploadIsVouched, Known, Rv!Exists, Rv!OpenToOthers,
                      Rv!HeldBack
  <2>6. Rv!RowDescribesFiles' /\ UploadDescribesFiles'
    BY <2>1, <2>2 DEF Rv!RowDescribesFiles, UploadDescribesFiles, Rv!Exists
  <2>7. QED
    BY <2>4, <2>5, <2>6 DEF RvInv
<1>4. QED
  BY <1>1, <1>2, <1>3

\* The review, and what else an admin does to the row.
LEMMA RowSteps ==
    ASSUME Rv!ReviewAssumption, RvInv,
           \/ \E u \in Authors \cup {Admin} : Rv!SubmitReview(u)
           \/ Rv!Look \/ Rv!Reject \/ Rv!Delete
           \/ \E share \in BOOLEAN : Rv!Approve(share) \/ \E on \in BOOLEAN : Rv!Edit(share, on)
    PROVE  RvInv'
<1>0. Rv!Exists /\ rvRow \in Rv!Row
  BY DEF Rv!SubmitReview, Rv!MayUpdate, Rv!Look, Rv!Reject, Rv!Delete, Rv!Approve, Rv!Edit, Rv!Exists, RvInv, Rv!TypeOK
<1>1. /\ rvRow.ver \in RvVersions /\ rvRow.ver # None /\ rvRow.ver \in used
      /\ cleared \subseteq RvVersions /\ seen \subseteq RvVersions /\ used \subseteq RvVersions /\ taken \in BOOLEAN
  BY <1>0, RowUpdates DEF RvInv, Rv!TypeOK, AllUploaded, Rv!Exists
<1>2. ASSUME NEW u \in Authors \cup {Admin}, Rv!SubmitReview(u)
      PROVE  RvInv'
  <2> DEFINE rev == IF rvRow.ver \in RvSigned THEN "approved" ELSE "pending"
             r == [rvRow EXCEPT !.review = rev]
  <2>1. rev \in {"none", "pending", "approved", "rejected"}
    OBVIOUS
  <2>2. rvRow.ver \notin RvSigned => rev = "pending"
    OBVIOUS
  <2>3. rvRow' = r /\ UNCHANGED <<files, rvProc, starting, upload, used, seen, cleared, slipped, taken, mixed>>
    BY <1>2 DEF Rv!SubmitReview
  <2> HIDE DEF rev
  <2>4. r \in Rv!Row /\ r.review = rev /\ r.ver = rvRow.ver
    BY <1>0, <2>1, RowUpdates
  <2> HIDE DEF r
  <2>5. Rv!OpenToOthers(r) => r.ver \in cleared' \cup RvSigned \cup slipped
    BY <2>2, <2>4 DEF Rv!OpenToOthers, Rv!HeldBack
  <2>6. QED
    BY <1>0, <1>1, <2>3, <2>4, <2>5, RowWritten
<1>3. CASE Rv!Look
  <2>1. /\ seen' = Rv!Contents
        /\ UNCHANGED <<rvRow, files, rvProc, starting, upload, used, cleared, slipped, taken, mixed>>
    BY <1>3 DEF Rv!Look
  <2>2. rvRow.ver \in Rv!Contents /\ Rv!Contents \subseteq used
    BY <1>1 DEF Rv!Contents, RvInv, AllUploaded
  <2>3. Rv!TypeOK' /\ AllUploaded' /\ LookIsOfRow'
    BY <1>0, <2>1, <2>2 DEF RvInv, Rv!TypeOK, AllUploaded, LookIsOfRow, Rv!Exists
  <2>4. /\ RowIsVouched' /\ OthersAreKnown' /\ UploadIsVouched'
        /\ Rv!RowDescribesFiles' /\ UploadDescribesFiles'
    BY <2>1 DEF RvInv, RowIsVouched, OthersAreKnown, UploadIsVouched, Known, Rv!OpenToOthers, Rv!HeldBack,
                Rv!RowDescribesFiles, UploadDescribesFiles, Rv!Exists
  <2>5. QED
    BY <2>3, <2>4 DEF RvInv
<1>4. CASE Rv!Reject
  <2> DEFINE r == [rvRow EXCEPT !.review = "rejected"]
  <2>1. /\ rvRow' = r /\ seen' = {}
        /\ UNCHANGED <<files, rvProc, starting, upload, used, cleared, slipped, taken, mixed>>
    BY <1>4 DEF Rv!Reject
  <2>2. r \in Rv!Row /\ r.review = "rejected" /\ r.ver = rvRow.ver
    BY <1>0, RowUpdates
  <2> HIDE DEF r
  <2>3. ~Rv!OpenToOthers(r)
    BY <2>2 DEF Rv!OpenToOthers, Rv!HeldBack
  <2>4. QED
    BY <1>0, <1>1, <2>1, <2>2, <2>3, RowWritten
<1>5. CASE Rv!Delete
  <2>1. /\ rvRow' = None /\ seen' = {} /\ taken' = FALSE
        /\ mixed' = (mixed \/ upload # Rv!NoUploads)
        /\ UNCHANGED <<files, rvProc, starting, upload, used, cleared, slipped>>
    BY <1>5 DEF Rv!Delete
  <2>2. mixed' \in BOOLEAN
    BY <2>1
  <2>3. Rv!TypeOK' /\ AllUploaded' /\ LookIsOfRow'
    BY <2>1, <2>2 DEF RvInv, Rv!TypeOK, AllUploaded, LookIsOfRow
  <2>4. RowIsVouched' /\ OthersAreKnown' /\ UploadIsVouched' /\ Rv!RowDescribesFiles'
    BY <2>1 DEF RvInv, RowIsVouched, OthersAreKnown, UploadIsVouched, Rv!OpenToOthers, Rv!RowDescribesFiles, Rv!Exists
  <2>5. ASSUME NEW w \in RvUploads, upload'[w] # None PROVE mixed'
    BY <2>1, <2>5 DEF Rv!NoUploads
  <2>6. UploadDescribesFiles'
    BY <2>5 DEF UploadDescribesFiles
  <2>7. QED
    BY <2>3, <2>4, <2>6 DEF RvInv
<1>6. ASSUME NEW share \in BOOLEAN, Rv!Approve(share)
      PROVE  RvInv'
  <2> DEFINE r == [rvRow EXCEPT !.review = "approved", !.on = TRUE, !.shared = @ \/ share]
  <2>1. /\ rvRow' = r /\ seen # {} /\ cleared' = cleared \cup seen /\ seen' = {} /\ taken' = FALSE
        /\ UNCHANGED <<files, rvProc, starting, upload, used, slipped, mixed>>
    BY <1>6 DEF Rv!Approve
  <2>2. r \in Rv!Row /\ r.ver = rvRow.ver
    BY <1>0, RowUpdates
  <2> HIDE DEF r
  <2>3. rvRow.ver \in cleared' \cup RvSigned \cup slipped /\ cleared' \subseteq RvVersions
    BY <1>1, <2>1 DEF RvInv, LookIsOfRow, Known
  <2>4. QED
    BY <1>0, <1>1, <2>1, <2>2, <2>3, RowWritten
<1>7. ASSUME NEW share \in BOOLEAN, NEW on \in BOOLEAN, Rv!Edit(share, on)
      PROVE  RvInv'
  <2> DEFINE r == [rvRow EXCEPT !.shared = share, !.on = on]
  <2>1. /\ rvRow' = r
        /\ cleared' = IF Rv!OpenToOthers(rvRow') THEN cleared \cup Rv!Contents ELSE cleared
        /\ taken' = FALSE /\ rvProc' \in {rvProc, None}
        /\ UNCHANGED <<files, starting, upload, used, seen, slipped, mixed>>
    BY <1>7 DEF Rv!Edit
  <2>2. r \in Rv!Row /\ r.ver = rvRow.ver
    BY <1>0 DEF Rv!Row
  <2> HIDE DEF r
  <2>3. rvRow.ver \in Rv!Contents /\ Rv!Contents \subseteq used
    BY <1>1 DEF Rv!Contents, RvInv, AllUploaded
  <2>4. /\ Rv!OpenToOthers(r) => r.ver \in cleared'
        /\ cleared \subseteq cleared' /\ cleared' \subseteq RvVersions
    BY <1>1, <2>1, <2>2, <2>3
  <2>5. QED
    BY <1>0, <1>1, <2>1, <2>2, <2>4, RowWritten
<1>8. QED
  BY <1>2, <1>3, <1>4, <1>5, <1>6, <1>7

\* Uploads of admins.
LEMMA UploadSteps ==
    ASSUME Rv!ReviewAssumption, RvInv, NEW w \in RvUploads,
           \/ \E v \in RvVersions : Rv!UploadStarts(w, v)
           \/ \E share \in BOOLEAN : Rv!UploadEnds(w, share)
           \/ Rv!UploadFails(w)
    PROVE  RvInv'
<1>0. /\ upload \in [RvUploads -> RvVersions \cup {None}]
      /\ None \notin RvVersions
  BY DEF RvInv, Rv!TypeOK, Rv!ReviewAssumption
<1>1. ASSUME NEW v \in RvVersions, Rv!UploadStarts(w, v)
      PROVE  RvInv'
  <2>1. /\ ~Rv!Exists /\ files' = v /\ used' = used \cup {v}
        /\ upload' = [upload EXCEPT ![w] = v] /\ mixed' = (upload # Rv!NoUploads)
        /\ cleared' = cleared \cup {v} /\ slipped' = (slipped \cup {rvProc}) \ {None}
        /\ UNCHANGED <<rvRow, rvProc, starting, seen, taken>>
    BY <1>1 DEF Rv!UploadStarts, Rv!Uploadable, Rv!Take, Rv!Exchange
  <2>2. mixed' \in BOOLEAN
    BY <2>1
  <2>3. /\ upload' \in [RvUploads -> RvVersions \cup {None}]
        /\ upload'[w] = v /\ \A x \in RvUploads : x # w => upload'[x] = upload[x]
    BY <1>0, <2>1
  <2>4. Rv!TypeOK' /\ AllUploaded'
    BY <2>1, <2>2, <2>3 DEF RvInv, Rv!TypeOK, AllUploaded
  <2>5. /\ LookIsOfRow' /\ RowIsVouched' /\ OthersAreKnown' /\ UploadIsVouched'
        /\ Rv!RowDescribesFiles'
    BY <2>1, <2>3 DEF RvInv, LookIsOfRow, RowIsVouched, OthersAreKnown, UploadIsVouched, Known, Rv!OpenToOthers,
                      Rv!RowDescribesFiles, Rv!Exists
  <2>6. ASSUME NEW x \in RvUploads, upload'[x] # None, ~mixed' PROVE upload'[x] = files'
    BY <2>1, <2>3, <2>6 DEF Rv!NoUploads
  <2>7. UploadDescribesFiles'
    BY <2>6 DEF UploadDescribesFiles
  <2>8. QED
    BY <2>4, <2>5, <2>7 DEF RvInv
<1>2. ASSUME UNCHANGED <<used, seen, taken, mixed>>, upload[w] # None,
             upload' = [upload EXCEPT ![w] = None],
             files' \in {files, None}, UNCHANGED <<rvRow, rvProc, starting, cleared, slipped>>
      PROVE  RvInv'
  <2>1. /\ upload' \in [RvUploads -> RvVersions \cup {None}]
        /\ upload'[w] = None /\ \A x \in RvUploads : x # w => upload'[x] = upload[x]
    BY <1>0, <1>2
  <2>2. Rv!TypeOK' /\ AllUploaded'
    BY <1>2, <2>1 DEF RvInv, Rv!TypeOK, AllUploaded
  <2>3. LookIsOfRow' /\ RowIsVouched' /\ OthersAreKnown' /\ UploadIsVouched'
    BY <1>2, <2>1 DEF RvInv, LookIsOfRow, RowIsVouched, OthersAreKnown, UploadIsVouched, Known, Rv!Exists, Rv!OpenToOthers,
                      Rv!HeldBack
  <2>4. Rv!RowDescribesFiles' /\ UploadDescribesFiles'
    BY <1>2, <2>1 DEF RvInv, Rv!RowDescribesFiles, UploadDescribesFiles, Rv!Exists
  <2>5. QED
    BY <2>2, <2>3, <2>4 DEF RvInv
<1>3. ASSUME NEW share \in BOOLEAN, Rv!UploadEnds(w, share)
      PROVE  RvInv'
  <2>1. CASE Rv!Exists
    <3>1. UNCHANGED <<rvRow, rvProc, starting, cleared, slipped, files, used, seen, taken, mixed>>
      BY <1>3, <2>1 DEF Rv!UploadEnds
    <3>2. QED
      BY <1>2, <1>3, <3>1 DEF Rv!UploadEnds
  <2>2. CASE ~Rv!Exists
    <3> DEFINE r == [owner |-> Admin, shared |-> share, on |-> TRUE, ver |-> upload[w],
                     review |-> "none"]
    <3>1. /\ rvRow' = r /\ upload' = [upload EXCEPT ![w] = None] /\ upload[w] # None
          /\ slipped' = (slipped \cup {files, rvProc}) \ {None, upload[w]}
          /\ UNCHANGED <<files, rvProc, starting, used, seen, cleared, taken, mixed>>
      BY <1>3, <2>2 DEF Rv!UploadEnds
    <3>2. upload[w] \in RvVersions /\ upload[w] \in used /\ upload[w] \in cleared
      BY <1>0, <3>1 DEF RvInv, AllUploaded, UploadIsVouched
    <3>3. r \in Rv!Row /\ r.ver = upload[w]
      BY <3>2 DEF Rv!Row
    <3> HIDE DEF r
    <3>4. r # None /\ seen = {}
      BY <2>2, <3>3 DEF RvInv, LookIsOfRow, Rv!ReviewAssumption
    <3>5. /\ upload' \in [RvUploads -> RvVersions \cup {None}]
          /\ \A x \in RvUploads : upload'[x] # None => upload'[x] = upload[x]
      BY <1>0, <3>1
    <3>6. Rv!TypeOK' /\ AllUploaded'
      BY <3>1, <3>2, <3>3, <3>5 DEF RvInv, Rv!TypeOK, AllUploaded
    <3>7. LookIsOfRow' /\ RowIsVouched' /\ OthersAreKnown' /\ UploadIsVouched'
      BY <3>1, <3>2, <3>3, <3>4, <3>5 DEF RvInv, LookIsOfRow, RowIsVouched, OthersAreKnown, UploadIsVouched, Known
    <3>8. Rv!RowDescribesFiles' /\ UploadDescribesFiles'
      BY <2>2, <3>1, <3>3, <3>4 DEF RvInv, Rv!RowDescribesFiles, UploadDescribesFiles, Rv!Exists
    <3>9. QED
      BY <3>6, <3>7, <3>8 DEF RvInv
  <2>3. QED
    BY <2>1, <2>2
<1>4. CASE Rv!UploadFails(w)
  BY <1>2, <1>4 DEF Rv!UploadFails
<1>5. QED
  BY <1>1, <1>3, <1>4

\* The process, and the loss of everything that is in memory.
LEMMA ProcessSteps ==
    ASSUME Rv!ReviewAssumption, RvInv,
           Rv!Visit \/ Rv!Spawn \/ (\E restart \in BOOLEAN : Rv!Ends(restart)) \/ Rv!Crash
    PROVE  RvInv'
<1>1. /\ rvProc' \in {rvProc, files, None} /\ starting' \in BOOLEAN
      /\ upload' \in {upload, Rv!NoUploads}
      /\ UNCHANGED <<rvRow, files, used, seen, cleared, slipped, taken, mixed>>
  BY DEF Rv!Visit, Rv!Spawn, Rv!Ends, Rv!Crash
<1>2. /\ upload' \in [RvUploads -> RvVersions \cup {None}]
      /\ \A w \in RvUploads : upload'[w] \in {upload[w], None}
  BY <1>1 DEF RvInv, Rv!TypeOK, Rv!NoUploads
<1>3. Rv!TypeOK' /\ AllUploaded'
  BY <1>1, <1>2 DEF RvInv, Rv!TypeOK, AllUploaded
<1>4. LookIsOfRow' /\ RowIsVouched' /\ OthersAreKnown' /\ UploadIsVouched'
  BY <1>1, <1>2 DEF RvInv, LookIsOfRow, RowIsVouched, OthersAreKnown, UploadIsVouched, Known, Rv!Exists, Rv!OpenToOthers,
                    Rv!HeldBack
<1>5. Rv!RowDescribesFiles' /\ UploadDescribesFiles'
  BY <1>1, <1>2 DEF RvInv, Rv!RowDescribesFiles, UploadDescribesFiles, Rv!Exists
<1>6. QED
  BY <1>3, <1>4, <1>5 DEF RvInv

LEMMA RvInitHolds ==
    ASSUME Rv!ReviewAssumption, Rv!Init
    PROVE  RvInv
<1>1. Rv!TypeOK
  BY DEF Rv!Init, Rv!TypeOK
<1>2. AllUploaded /\ LookIsOfRow /\ UploadIsVouched /\ UploadDescribesFiles
  BY DEF Rv!Init, AllUploaded, LookIsOfRow, UploadIsVouched, UploadDescribesFiles
<1>3. RowIsVouched /\ OthersAreKnown /\ Rv!RowDescribesFiles
  BY DEF Rv!Init, RowIsVouched, OthersAreKnown, Rv!OpenToOthers, Rv!RowDescribesFiles, Rv!Exists
<1>4. QED
  BY <1>1, <1>2, <1>3 DEF RvInv

LEMMA RvStepHolds ==
    ASSUME Rv!ReviewAssumption, RvInv, Rv!Next
    PROVE  RvInv'
BY SubmitSteps, RowSteps, UploadSteps, ProcessSteps DEF Rv!Next

LEMMA OpenIsImplied ==
    ASSUME RvInv
    PROVE  Rv!OpenIsVouched
<1>1. Rv!OpenToOthers(rvRow) => Rv!Exists /\ rvRow.ver \in Known
  BY DEF RvInv, RowIsVouched, Rv!OpenToOthers, Rv!Exists
<1>2. ASSUME Rv!OpenToOthers(rvRow)
      PROVE  {rvRow.ver, files, rvProc} \ {None} \subseteq Known
  BY <1>1, <1>2 DEF RvInv, OthersAreKnown
<1>3. QED
  BY <1>2 DEF RvInv, Rv!OpenIsVouched, Rv!StrangersGetVouched, Known

LEMMA RvStays ==
    ASSUME RvInv, UNCHANGED review
    PROVE  RvInv'
BY DEF review, RvInv, Rv!TypeOK, AllUploaded, LookIsOfRow, RowIsVouched, OthersAreKnown, UploadIsVouched, Known,
       Rv!RowDescribesFiles, UploadDescribesFiles, Rv!Exists, Rv!OpenToOthers, Rv!HeldBack

\* Nobody but owner and admins gets a manifest, files or a process that no admin has
\* vouched for and no trusted signature covers, unless it slipped in while a decision was
\* made on another version, with a crash before its row, next to another row, or by
\* outliving its files; and the row is that of the files next to it: through updates,
\* decisions, edits, deletions, uploads that wait, starts and crashes, in any order.
THEOREM OpenIsVouchedHolds ==
    ASSUME Rv!ReviewAssumption
    PROVE  MCSpec => []OpenIsVouched
<1>1. MCInit => RvInv
  BY RvInitHolds DEF MCInit
<1>2. RvInv /\ [MCNext]_mcVars => RvInv'
  <2>1. CASE Rv!Next
    BY <2>1, RvStepHolds
  <2>2. CASE UNCHANGED review
    BY <2>2, RvStays
  <2>3. QED
    BY <2>1, <2>2 DEF MCNext, mcVars
<1>3. RvInv => OpenIsVouched
  BY OpenIsImplied DEF OpenIsVouched
<1>4. QED
  BY <1>1, <1>2, <1>3, PTL DEF MCSpec
=============================================================================
