------------------------------- MODULE AppEnv -------------------------------
(***************************************************************************)
(* The environment variables of a persistent package (lib/appEnv.ts, the   *)
(* routes /apps/:id/env of routes/appsRun.ts) and the master key that they *)
(* and the secret settings are encrypted with (lib/cryptoSecrets.ts,       *)
(* lib/settings.ts).                                                       *)
(*                                                                         *)
(* What a variable is - required, secret, with a default - says the        *)
(* manifest of the current version; its value, and whether it was secret   *)
(* when it was saved, a row of app_env_vars.  The two change separately.   *)
(* A key is a number: one that is generated is greater than all before it. *)
(* PersistentPool has the races of stop and start; here one start at a     *)
(* time is on its way to the spawn: that of an HTTP visit or a run has     *)
(* passed the gate, that of a WebSocket handshake (gateway/wsproxy.ts), or *)
(* of a process that ended by itself, has not.  The package is one with    *)
(* passUser, which is given AAP_SIGN_SECRET.                               *)
(***************************************************************************)
EXTENDS Integers, FiniteSets, Sequences

CONSTANTS
    Names,
    Versions,
    Required,   \* Required[v] : names version v requires, without a default
    Secret,     \* Secret[v] : names version v declares secret
    Declared,   \* Declared[v] : all names version v declares
    None,
    MaxSaves,   \* bound: values saved; each is a number of its own
    MaxKeys     \* bound: keys generated

Row == [val : Nat, key : Nat, secret : BOOLEAN]
Start == [gated : BOOLEAN, changed : SUBSET Names]

AppEnvAssumption ==
    /\ None \notin Nat /\ None \notin Row /\ None \notin Start
    /\ \A v \in Versions : Required[v] \cup Secret[v] \subseteq Declared[v]
    /\ \A v \in Versions : Declared[v] \subseteq Names
    /\ MaxSaves \in Nat /\ MaxKeys \in Nat \ {0}

VARIABLES
    ver,        \* the version the row's manifest is of
    store,      \* app_env_vars: name -> [val, key, secret], or None
    sign,       \* the setting AAP_SIGN_SECRET: [val, key], or None
    file, mem,  \* data/master.key and masterKey; None if there is none
    keys,       \* keys generated so far
    saves,
    start,      \* a start on its way: has it passed the gate, and the names
                \* that changed since (history); or None
    proc,       \* the process: what it was given, or None
    lost        \* history: the file of the key could not be read once

vars == <<ver, store, sign, file, mem, keys, saves, start, proc, lost>>

TypeOK ==
    /\ ver \in Versions
    /\ store \in [Names -> Row \cup {None}]
    /\ sign \in [val : Nat, key : Nat] \cup {None}
    /\ {file, mem} \subseteq (1 .. MaxKeys) \cup {None}
    /\ keys \in 0 .. MaxKeys /\ saves \in 0 .. MaxSaves
    /\ start \in Start \cup {None}
    /\ lost \in BOOLEAN

Init ==
    /\ ver \in Versions
    /\ store = [x \in Names |-> None]
    /\ sign = [val |-> 0, key |-> 1]        \* seedSettings
    /\ file = 1 /\ mem = 1
    /\ keys = 1 /\ saves = 0
    /\ start = None
    /\ proc = None
    /\ lost = FALSE

-----------------------------------------------------------------------------
(* The master key *)

\* key(): the one in memory, else the one in the file, else a new one, which
\* replaces a file that could not be read.
Key ==
    /\ mem' = IF mem # None THEN mem ELSE IF file # None THEN file ELSE keys + 1
    /\ keys' = IF mem = None /\ file = None THEN keys + 1 ELSE keys
    /\ file' = mem'

\* decryptSecret with the key that is in use now.
Readable(r) == r # None /\ r.key = mem'

-----------------------------------------------------------------------------
(* appEnv.ts *)

\* missingRequiredEnv asks for the rows, not for what they can be read as.
Missing == {x \in Required[ver] : store[x] = None}

\* envValues: what is saved and can be read, declared or not.
Values == [x \in {y \in Names : Readable(store[y])} |-> store[x].val]

\* getSetting: a secret that cannot be read counts as not configured.
SignSecret == IF Readable(sign) THEN sign.val ELSE None

Starts(gated) == start' = [gated |-> gated, changed |-> {}]

\* The gate of a visit, or of a run, that finds no process.
Gate ==
    /\ proc = None /\ start = None
    /\ Missing = {}
    /\ Starts(TRUE)
    /\ UNCHANGED <<ver, store, sign, file, mem, keys, saves, proc, lost>>

\* A handshake that finds no process: nothing is asked.
Upgrade ==
    /\ proc = None /\ start = None
    /\ Starts(FALSE)
    /\ UNCHANGED <<ver, store, sign, file, mem, keys, saves, proc, lost>>

\* The process ends by itself and is started again: nor is anything asked.
Respawn ==
    /\ proc # None
    /\ proc' = None /\ Starts(FALSE)
    /\ UNCHANGED <<ver, store, sign, file, mem, keys, saves, lost>>

\* The spawn, after the port was awaited or the queue was stood in.
Spawn ==
    /\ start # None
    /\ Key /\ keys' <= MaxKeys
    /\ proc' = [ver |-> ver, env |-> Values, sign |-> SignSecret, half |-> FALSE,
                gated |-> start.gated, changed |-> start.changed]
    /\ start' = None
    /\ UNCHANGED <<ver, store, sign, saves, lost>>

\* It ends, or is stopped for being idle; a start may be given up.
Ends ==
    /\ proc # None \/ start # None
    /\ proc' = None /\ start' = None
    /\ UNCHANGED <<ver, store, sign, file, mem, keys, saves, lost>>

-----------------------------------------------------------------------------
(* The routes *)

Touched(S) == start' = IF start = None THEN None ELSE [start EXCEPT !.changed = @ \cup S]

\* Fault: only a value that is saved stops the process.
StopsForSaved(saved, cleared) == saved # {}

\* The process has the old environment and is stopped.
Stops(saved, cleared) == saved \cup cleared # {}

\* PUT /apps/:id/env.  The names come one by one: those in saved and cleared
\* are done when the handler ends, or when it meets a name that is not
\* declared, or a value that does not match its pattern, and throws.
PutEnv(saved, cleared, throws) ==
    /\ saved \cap cleared = {} /\ saved \cup cleared \subseteq Declared[ver]
    /\ saved \cup cleared # {}
    /\ saves < MaxSaves
    /\ \/ saved # {} /\ Key /\ keys' <= MaxKeys
       \/ saved = {} /\ UNCHANGED <<file, mem, keys>>
    /\ saves' = saves + 1
    /\ store' = [x \in Names |->
                    IF x \in saved THEN [val |-> saves', key |-> mem', secret |-> x \in Secret[ver]]
                    ELSE IF x \in cleared THEN None ELSE store[x]]
    /\ \/ ~ throws /\ Stops(saved, cleared) /\ proc' = None
       \/ ~ throws /\ ~ Stops(saved, cleared) /\ UNCHANGED proc
       \/ throws /\ proc = None /\ UNCHANGED proc
       \/ throws /\ proc # None /\ proc' = [proc EXCEPT !.half = TRUE]
    /\ Touched(cleared)
    /\ UNCHANGED <<ver, sign, lost>>

\* A new version of the package: the manifest is exchanged, the rows and the
\* process stay.
Update(v) ==
    /\ v # ver
    /\ ver' = v
    /\ Touched(Required[v])
    /\ UNCHANGED <<store, sign, file, mem, keys, saves, proc, lost>>

\* PUT /admin/settings with AAP_SIGN_SECRET; all processes are stopped, unless
\* an unknown key follows and the handler throws.
PutSign(throws) ==
    /\ saves < MaxSaves
    /\ Key /\ keys' <= MaxKeys
    /\ saves' = saves + 1
    /\ sign' = [val |-> saves', key |-> mem']
    /\ \/ ~ throws /\ proc' = None
       \/ throws /\ proc = None /\ UNCHANGED proc
       \/ throws /\ proc # None /\ proc' = [proc EXCEPT !.half = TRUE]
    /\ UNCHANGED <<ver, store, start, lost>>

-----------------------------------------------------------------------------
(* The process and its disk *)

Crash ==
    /\ mem # None
    /\ mem' = None
    /\ start' = None /\ proc' = None
    /\ UNCHANGED <<ver, store, sign, file, keys, saves, lost>>

\* The server is down and comes back without the file, or cannot read it.
KeyLost ==
    /\ mem = None /\ file # None
    /\ file' = None
    /\ lost' = TRUE
    /\ UNCHANGED <<ver, store, sign, mem, keys, saves, start, proc>>

Next ==
    \/ Gate \/ Upgrade \/ Respawn \/ Spawn \/ Ends
    \/ \E saved, cleared \in SUBSET Names, throws \in BOOLEAN : PutEnv(saved, cleared, throws)
    \/ \E v \in Versions : Update(v)
    \/ \E throws \in BOOLEAN : PutSign(throws)
    \/ Crash \/ KeyLost

Spec == Init /\ [][Next]_vars

-----------------------------------------------------------------------------
(* Properties *)

KeyInUse == IF mem # None THEN mem ELSE file
Saved(r) == IF r # None /\ r.key = KeyInUse THEN r.val ELSE None

\* What a visit or a run has started through the gate has the variables its
\* manifest requires, except for those that were cleared, or came to be
\* required, while the start was under way, and for those a lost key has made
\* unreadable (proxy.ts:257-261, appsRun.ts:114-117).
StartedConfigured ==
    proc # None /\ proc.gated => \A x \in Required[proc.ver] :
        \/ x \in DOMAIN proc.env
        \/ x \in proc.changed
        \/ lost

\* Whoever saves a value sees it at work: a process, however it was started,
\* has the values that are saved now and the secret identities are signed
\* with, unless a save failed half way - after crashes and a loss of the key as
\* well.
ProcessHasSaved ==
    proc # None /\ ~ proc.half =>
        /\ \A x \in Names : Saved(store[x]) = IF x \in DOMAIN proc.env THEN proc.env[x] ELSE None
        /\ proc.sign = Saved(sign)

\* What was encrypted can be read for as long as the file of the key is not
\* lost, over any number of restarts; and after a loss everything that is
\* saved from then on.
SavedIsReadable ==
    /\ ~ lost => \A x \in Names : store[x] # None => store[x].key = KeyInUse
    /\ mem # None => file = mem

\* Saves, updates, starts that await, stops, restarts and a lost key in any
\* order: what is configured is what a package runs with.
ConfiguredIsUsed == StartedConfigured /\ ProcessHasSaved /\ SavedIsReadable

\* A process starts with all that its manifest requires.  Refuted: a handshake
\* and a restart pass no gate, and the gate asks for rows, so that one whose
\* key is gone counts as configured.
StartedComplete ==
    proc # None => Required[proc.ver] \subseteq DOMAIN proc.env \cup proc.changed

\* What an answer of GET /apps/:id/env shows of a variable.
Shown(x) == x \in Declared[ver] \ Secret[ver] /\ Saved(store[x]) # None

\* A value that was saved as a secret is never shown.  Refuted: the manifest
\* of the present version decides, and an update may declare it plain.
SecretStaysSecret == \A x \in Names : Shown(x) => ~ store[x].secret
=============================================================================
