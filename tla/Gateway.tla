------------------------------ MODULE Gateway ------------------------------
(***************************************************************************)
(* The way of a request through the portal to an application               *)
(* (gateway/proxy.ts, gateway/wsproxy.ts): the access gate, the port of a  *)
(* persistent package, the identity that is signed for it                  *)
(* (gateway/identity.ts), the run of an invoked package, and what an       *)
(* application can do with identities and with the secret that they are    *)
(* signed with (lib/sandbox.ts, routes/aap.ts, routes/llmGateway.ts).      *)
(*                                                                         *)
(* A request is in flight from the gate to its answer; it reads the row of *)
(* its application once, at the gate.  Ports are a shared resource of the  *)
(* machine: one that was found free is bound by whoever is first, and what *)
(* arrives there is handed to whoever listens.  PersistentPool has the     *)
(* processes in full; here they come and go, as RunGate has the queue of   *)
(* runs.                                                                   *)
(*                                                                         *)
(* Applications may be of one mind: an identity that one was handed any    *)
(* other may present, and whoever knows the secret may tell it.  With the  *)
(* secret go the identities somebody signs with it for another: who uses   *)
(* one is counted among those who know it.                                 *)
(*                                                                         *)
(*   apps.enabled, visibility, reviewStatus -> row                         *)
(*   sessions                               -> login                       *)
(*   persistent (sandbox.ts)                -> entry : the port of an app  *)
(*   sockets of the machine                 -> bound : who listens         *)
(*   X-AAP-Identity                         -> held : age of the youngest  *)
(*                   identity of a user that was handed out, by audience   *)
(*   AAP_SIGN_SECRET                        -> signers : who knows it      *)
(***************************************************************************)
EXTENDS Naturals, FiniteSets

CONSTANTS
    Apps, Users, Ports, Calls, None,
    Upstream,   \* SUBSET Apps: proxied to an address, the others are packages
    Invoked,    \* SUBSET Apps: packages of which each run is a process
    PassUser,   \* SUBSET Apps: whose requests carry the identity
    Lacking,    \* SUBSET Apps: a required environment variable is missing
    Ttl,        \* IDENTITY_TTL_MS, in ticks; a port is waited for less than one
    QueueWait,  \* the longest a run stands in the queue, in ticks: those
                \* before it are at most MAX_QUEUE, of thirty seconds each
    MaxPersistent,
    MaxEdits    \* bound: changes of a row, of a session or of the secret

ASSUME GatewayAssumption ==
    /\ None \notin Apps \cup Users \cup Ports
    /\ Upstream \subseteq Apps /\ PassUser \subseteq Apps /\ Lacking \subseteq Apps
    /\ Invoked \subseteq Apps \ Upstream
    /\ Ttl \in Nat /\ QueueWait \in Nat \ {0} /\ MaxPersistent \in Nat \ {0} /\ MaxEdits \in Nat

VARIABLES
    row, login, edits,
    entry, bound,
    again,      \* apps whose process ended by itself and is started again
    call,
    held,
    signers,
    since,      \* ticks since a user last had access to an app
    charged     \* history: who the last model call was charged to and by which
                \* app, for as long as this tick and this secret last

vars == <<row, login, edits, entry, bound, again, call, held, signers, since, charged>>

Rows == {"off", "closed", "login", "public"}
Idle == [st |-> "idle", app |-> None, user |-> None, ws |-> FALSE, port |-> None, age |-> 0]
Gone == Ttl + 1
Never == Ttl + QueueWait + 1

TypeOK ==
    /\ row \in [Apps -> Rows] /\ edits \in 0 .. MaxEdits
    /\ login \in [Users -> {"none", "half", "full"}]
    /\ entry \in [Apps -> Ports \cup {None}]
    /\ bound \in [Ports -> Apps \cup {None}]
    /\ again \subseteq Apps
    /\ call \in [Calls -> [st : {"idle", "port", "wait", "queue", "sent"}, app : Apps \cup {None},
                           user : Users \cup {None}, ws : BOOLEAN,
                           port : Ports \cup {None}, age : 0 .. QueueWait]]
    /\ held \in [Users -> [Apps -> 0 .. Gone]]
    /\ signers \subseteq Apps
    /\ since \in [Users -> [Apps -> 0 .. Never]]
    /\ charged \subseteq Users \X Apps

Init ==
    /\ row = [a \in Apps |-> "login"] /\ edits = 0
    /\ login = [u \in Users |-> "none"]
    /\ entry = [a \in Apps |-> None]
    /\ bound = [p \in Ports |-> None]
    /\ again = {}
    /\ call = [c \in Calls |-> Idle]
    /\ held = [u \in Users |-> [a \in Apps |-> Gone]]
    /\ signers = {}
    /\ since = [u \in Users |-> [a \in Apps |-> Never]]
    /\ charged = {}

Processes == <<entry, bound, again>>

-----------------------------------------------------------------------------
(* Who may use what *)

\* findApp, canAccess: the account of the visitor, None without a session.
CanAccess(a, u) ==
    \/ row[a] = "public"
    \/ row[a] = "login" /\ u # None /\ login[u] = "full"

\* A user whom the gates let through to a.
HasAccess(u, a) == login[u] # "none" /\ CanAccess(a, u)

Noted == since' = [u \in Users |-> [a \in Apps |-> IF HasAccess(u, a)' THEN 0 ELSE since[u][a]]]

\* An administrator, or the owner, changes the row; so does a review.
EditRow(a, r) ==
    /\ edits < MaxEdits /\ edits' = edits + 1
    /\ r # row[a]
    /\ row' = [row EXCEPT ![a] = r]
    /\ UNCHANGED <<login, Processes, call, held, signers, charged>>
    /\ Noted

\* Login, second factor, logout, eviction.  Requests that are under way, and
\* sockets that are open, are not told.
SetLogin(u, l) ==
    /\ edits < MaxEdits /\ edits' = edits + 1
    /\ l # login[u]
    /\ login' = [login EXCEPT ![u] = l]
    /\ UNCHANGED <<row, Processes, call, held, signers, charged>>
    /\ Noted

-----------------------------------------------------------------------------
(* Identities *)

\* signIdentity: for whoever has an account, for one audience.
Signs(u, a) == held' = [held EXCEPT ![u][a] = 0]

\* With a request, for an app that is to know its visitors.
Handed(b, u, a) ==
    IF b # None /\ u # None /\ a \in PassUser THEN Signs(u, a) ELSE UNCHANGED held

\* baseEnv: the process of such an app has the secret in its environment, to
\* verify for itself.
Spawned(a) == signers' = signers \cup ({a} \cap PassUser)

\* Fault: the audience is not looked at.
AcceptedForAny(b, u, a) == b \in signers \/ held[u][a] <= Ttl

\* verifyIdentity, with the app of the credential as the audience expected.
Accepted(b, u, a) == a = b /\ (b \in signers \/ held[u][a] <= Ttl)

\* POST /api/aap/llm/chat and /v1/chat/completions: what is not accepted is
\* charged to nobody.  The row of the app is not asked for being enabled.
Charge(b, u, a) ==
    /\ Accepted(b, u, a)
    /\ charged' = {<<u, b>>}
    /\ UNCHANGED <<row, login, edits, Processes, call, held, signers, since>>

\* GET /admin/secrets/:key: the administrator sets up an application behind an
\* address with the secret.
GiveSecret(a) ==
    /\ a \in Upstream \ signers
    /\ signers' = signers \cup {a}
    /\ UNCHANGED <<row, login, edits, Processes, call, held, since, charged>>

\* Nothing keeps those who know it from telling.
Tell(a) ==
    /\ signers # {} /\ a \notin signers
    /\ signers' = signers \cup {a}
    /\ UNCHANGED <<row, login, edits, Processes, call, held, since, charged>>

\* PUT /admin/settings with AAP_SIGN_SECRET: what was signed is void, and the
\* processes, which have the old one, are stopped, unless the handler meets an
\* unknown key and throws.
ChangeSecret(throws) ==
    /\ edits < MaxEdits /\ edits' = edits + 1
    /\ held' = [u \in Users |-> [a \in Apps |-> Gone]]
    /\ signers' = {} /\ charged' = {}
    /\ entry' = IF throws THEN entry ELSE [a \in Apps |-> None]
    /\ UNCHANGED <<row, login, bound, again, call, since>>

-----------------------------------------------------------------------------
(* The gates *)

Set(c, r) == call' = [call EXCEPT ![c] = r]
Request(st, a, u, ws, p) == [st |-> st, app |-> a, user |-> u, ws |-> ws, port |-> p, age |-> 0]

\* The session of a visitor, if there is one, and the row decide.
PassesGate(c, a, u) ==
    /\ call[c].st = "idle"
    /\ u # None => login[u] # "none"
    /\ CanAccess(a, u)

\* The same for a handshake, whose cookie is read by hand; what comes from
\* another origin is no handshake of this visitor.
PassesUpgrade(c, a, u) ==
    /\ call[c].st = "idle"
    /\ u # None => login[u] # "none"
    /\ CanAccess(a, u)

\* An application behind an address: signed and sent at once.
VisitUpstream(c, a, u) ==
    /\ a \in Upstream /\ PassesGate(c, a, u)
    /\ Handed(a, u, a)
    /\ Set(c, Request("sent", a, u, FALSE, None))
    /\ UNCHANGED <<row, login, edits, Processes, signers, since, charged>>

UpgradeUpstream(c, a, u) ==
    /\ a \in Upstream /\ PassesUpgrade(c, a, u)
    /\ Handed(a, u, a)
    /\ Set(c, Request("sent", a, u, TRUE, None))
    /\ UNCHANGED <<row, login, edits, Processes, signers, since, charged>>

\* ensurePersistent: a package that has a process is sent to its port,
\* whether or not it listens (502); one that has none waits for a port.
ToPackage(c, a, u, ws) ==
    /\ \/ /\ entry[a] # None
          /\ Handed(bound[entry[a]], u, a)
          /\ Set(c, IF bound[entry[a]] = None THEN Idle ELSE Request("sent", a, u, ws, entry[a]))
       \/ /\ entry[a] = None
          /\ Set(c, Request("port", a, u, ws, None))
          /\ UNCHANGED held
    /\ UNCHANGED <<row, login, edits, Processes, signers, since, charged>>

\* missingRequiredEnv is a condition here ...
VisitPackage(c, a, u) ==
    /\ a \notin Upstream \cup Invoked /\ PassesGate(c, a, u)
    /\ a \notin Lacking
    /\ ToPackage(c, a, u, FALSE)

\* ... and not here.
UpgradePackage(c, a, u) ==
    /\ a \notin Upstream \cup Invoked /\ PassesUpgrade(c, a, u)
    /\ ToPackage(c, a, u, TRUE)

\* POST /apps/:id/run, up to the queue.
RunQueued(c, a, u) ==
    /\ a \in Invoked /\ PassesGate(c, a, u)
    /\ u # None /\ login[u] = "full"
    /\ a \notin Lacking
    /\ Set(c, Request("queue", a, u, FALSE, None))
    /\ UNCHANGED <<row, login, edits, Processes, held, signers, since, charged>>

\* runInvokedOnce: a process of its own, with an identity of who asked for the
\* run, whether or not the app is to know its visitors.
RunStarts(c) ==
    /\ call[c].st = "queue"
    /\ Signs(call[c].user, call[c].app)
    /\ Spawned(call[c].app)
    /\ Set(c, [call[c] EXCEPT !.st = "sent"])
    /\ UNCHANGED <<row, login, edits, Processes, since, charged>>

-----------------------------------------------------------------------------
(* The port *)

Running == {a \in Apps : entry[a] # None}

\* makeRoomForPersistent, and the new entry.
Enter(a, p) ==
    IF Cardinality(Running) < MaxPersistent
    THEN entry' = [entry EXCEPT ![a] = p]
    ELSE \E b \in Running : entry' = [entry EXCEPT ![b] = None, ![a] = p]

\* proxyToSandbox: to whoever listens on the port, with an identity signed now.
Forward(c, p) ==
    /\ Handed(bound[p], call[c].user, call[c].app)
    /\ Set(c, IF bound[p] = None THEN Idle ELSE [call[c] EXCEPT !.st = "sent", !.port = p])

\* freePort answers, another request was faster.
PortRaced(c) ==
    /\ call[c].st = "port" /\ entry[call[c].app] # None
    /\ Forward(c, entry[call[c].app])
    /\ UNCHANGED <<row, login, edits, Processes, signers, since, charged>>

\* freePort answers: the port was closed again, others may be given it too.
PortFound(c, p) ==
    /\ call[c].st = "port" /\ entry[call[c].app] = None
    /\ bound[p] = None
    /\ Enter(call[c].app, p) /\ Spawned(call[c].app)
    /\ Set(c, [call[c] EXCEPT !.st = "wait", !.port = p])
    /\ UNCHANGED <<row, login, edits, bound, again, held, since, charged>>

\* The port accepts a connection.
PortReady(c) ==
    /\ call[c].st = "wait" /\ bound[call[c].port] # None
    /\ Forward(c, call[c].port)
    /\ UNCHANGED <<row, login, edits, Processes, signers, since, charged>>

\* Fault: the port is asked again without end.
AskAgain(c) ==
    /\ call[c].st = "wait" /\ bound[call[c].port] = None
    /\ UNCHANGED vars

\* Ten seconds without: 503.
GiveUp(c) ==
    /\ call[c].st = "wait" /\ bound[call[c].port] = None
    /\ Set(c, Idle)
    /\ UNCHANGED <<row, login, edits, Processes, held, signers, since, charged>>

\* The answer has come, or a side has closed.
Answered(c) ==
    /\ call[c].st = "sent" /\ ~ call[c].ws
    /\ Set(c, Idle)
    /\ UNCHANGED <<row, login, edits, Processes, held, signers, since, charged>>

\* PROXY_TIMEOUT is for addresses; nothing limits the answer of a package.
TimesOut(c) == call[c].app \in Upstream /\ Answered(c)

\* A socket is open until a side closes it.
Closed(c) ==
    /\ call[c].st = "sent" /\ call[c].ws
    /\ Set(c, Idle)
    /\ UNCHANGED <<row, login, edits, Processes, held, signers, since, charged>>

-----------------------------------------------------------------------------
(* Processes *)

\* The process of a binds its port.
Listen(a) ==
    /\ entry[a] # None /\ bound[entry[a]] = None
    /\ bound' = [bound EXCEPT ![entry[a]] = a]
    /\ UNCHANGED <<row, login, edits, entry, again, call, held, signers, since, charged>>

\* stopPersistentFor and the recycling of idle ones: the entry goes first.
Stop(a) ==
    /\ entry[a] # None
    /\ entry' = [entry EXCEPT ![a] = None]
    /\ UNCHANGED <<row, login, edits, bound, again, call, held, signers, since, charged>>

\* A process that was stopped is gone.
Dies(p) ==
    /\ bound[p] # None /\ entry[bound[p]] # p
    /\ bound' = [bound EXCEPT ![p] = None]
    /\ UNCHANGED <<row, login, edits, entry, again, call, held, signers, since, charged>>

\* A process ends by itself: because its port is another's, or for its own
\* reasons; it is started again, or has been too often.
Exits(a, restart) ==
    /\ entry[a] # None
    /\ entry' = [entry EXCEPT ![a] = None]
    /\ bound' = IF bound[entry[a]] = a THEN [bound EXCEPT ![entry[a]] = None] ELSE bound
    /\ again' = IF restart THEN again \cup {a} ELSE again
    /\ UNCHANGED <<row, login, edits, call, held, signers, since, charged>>

Restarts(a, p) ==
    /\ a \in again /\ again' = again \ {a}
    /\ bound[p] = None
    /\ IF entry[a] = None THEN Enter(a, p) /\ Spawned(a) ELSE UNCHANGED <<entry, signers>>
    /\ UNCHANGED <<row, login, edits, bound, call, held, since, charged>>

\* The longest a call waits where it is.
Longest(st) == IF st = "queue" THEN QueueWait ELSE 1

Tick ==
    /\ \A c \in Calls : call[c].st \in {"port", "wait", "queue"} => call[c].age < Longest(call[c].st)
    /\ call' = [c \in Calls |-> IF call[c].st \in {"port", "wait", "queue"}
                                THEN [call[c] EXCEPT !.age = @ + 1] ELSE call[c]]
    /\ held' = [u \in Users |-> [a \in Apps |->
                  IF held[u][a] < Gone THEN held[u][a] + 1 ELSE Gone]]
    /\ since' = [u \in Users |-> [a \in Apps |->
                  IF HasAccess(u, a) THEN 0
                  ELSE IF since[u][a] < Never THEN since[u][a] + 1 ELSE Never]]
    /\ charged' = {}
    /\ UNCHANGED <<row, login, edits, Processes, signers>>

-----------------------------------------------------------------------------
Next ==
    \/ \E a \in Apps, r \in Rows : EditRow(a, r)
    \/ \E u \in Users, l \in {"none", "half", "full"} : SetLogin(u, l)
    \/ \E b, a \in Apps, u \in Users : Charge(b, u, a)
    \/ \E c \in Calls, a \in Apps, u \in Users \cup {None} :
          \/ VisitUpstream(c, a, u) \/ UpgradeUpstream(c, a, u)
          \/ VisitPackage(c, a, u) \/ UpgradePackage(c, a, u)
          \/ RunQueued(c, a, u)
    \/ \E c \in Calls : PortRaced(c) \/ PortReady(c) \/ GiveUp(c) \/ RunStarts(c) \/ Answered(c) \/ Closed(c)
    \/ \E c \in Calls, p \in Ports : PortFound(c, p)
    \/ \E a \in Apps : Listen(a) \/ Stop(a) \/ GiveSecret(a) \/ Tell(a)
    \/ \E throws \in BOOLEAN : ChangeSecret(throws)
    \/ \E a \in Apps, restart \in BOOLEAN : Exits(a, restart)
    \/ \E a \in Apps, p \in Ports : Restarts(a, p)
    \/ \E p \in Ports : Dies(p)
    \/ Tick

Spec == Init /\ [][Next]_vars

-----------------------------------------------------------------------------
(* Properties *)

\* How long ago an identity's user passed the gate, when it is signed.
Wait(a) == IF a \in Invoked THEN QueueWait ELSE 1

\* A model call is charged to a user only by an app that the user had access
\* to within the validity of an identity and the wait before it was signed,
\* whatever ports were reused, rows changed, sessions ended and identities
\* passed on; and by those who have the secret of now, not one it has replaced
\* (identity.ts:54-76, aap.ts:85-97, sandbox.ts:98-103, 230-238).
ChargedHadAccess ==
    \A x \in charged :
        \/ x[2] \in signers
        \/ since[x[1]][x[2]] <= Ttl + Wait(x[2])

\* The calls of an app are charged to those who use it.  Refuted: a package
\* with passUser has the secret that all identities are signed with, and the
\* portal accepts what it signs for itself, of whomever (sandbox.ts:100-109).
OnlyVisitorsPay ==
    \A x \in charged : since[x[1]][x[2]] <= Ttl + QueueWait

\* A request that waits for a port, or for the answer of an address, does not
\* wait for ever (sandbox.ts:429-442, proxy.ts:301-303).
WaitsEnd ==
    \A c \in Calls :
        /\ call[c].st \in {"port", "wait"} ~> call[c].st \notin {"port", "wait"}
        /\ (call[c].st = "sent" /\ call[c].app \in Upstream /\ ~ call[c].ws)
              ~> ~ (call[c].st = "sent" /\ call[c].app \in Upstream /\ ~ call[c].ws)

\* "a required variable is not configured: it is not started" (proxy.ts:257),
\* "the same gate for HTTP and WS" (wsproxy.ts:123).
NotStartedWithoutEnv == \A a \in Lacking : entry[a] = None
=============================================================================
