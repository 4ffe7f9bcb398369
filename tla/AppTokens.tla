----------------------------- MODULE AppTokens -----------------------------
(***************************************************************************)
(* The gateway tokens of one app id and what they may spend: their issue,  *)
(* reuse and revocation (lib/llm.ts, routes/adminLlm.ts), the row of apps  *)
(* that decides over them (routes/appsRun.ts, routes/adminApps.ts), and    *)
(* the way of a call through /v1 (routes/llmGateway.ts): the token, its    *)
(* window of a minute, the capability.  What a call that gets through      *)
(* costs is LlmBilling.                                                    *)
(*                                                                         *)
(* All handlers are synchronous.  Time is kept as ages, in ticks.          *)
(***************************************************************************)
EXTENDS Naturals, FiniteSets, FiniteSetsExt

CONSTANTS
    None,
    Limits,     \* values of RATE_LLM_PER_MIN and of a token's own limit
    Minute,     \* ticks of a window
    MaxTokens   \* bound on the tokens ever issued

VARIABLES
    row,        \* what the row of apps declares, or None
    tokens,     \* the rows of llm_app_tokens for this app id
    last,       \* the last id given out (AUTOINCREMENT)
    perMinute,  \* RATE_LLM_PER_MIN
    window,     \* llmRateHits: age and count by token, or None
    served,     \* history: calls let through, by token and age
    orphaned    \* history: a crash has left tokens of a deleted app

vars == <<row, tokens, last, perMinute, window, served, orphaned>>

Ids == 1..MaxTokens
Ages == 0..(Minute - 1)
Token == [id : Ids, auto : BOOLEAN, limit : Limits \cup {None}]

\* A package that declares llm, one that does not, an app without manifest.
Kinds == {"llm", "plain", "bare"}

\* An entry of llmRateHits.
Window == [age : 0..Minute, count : 1..(Max(Limits) + 1)]

TokensAssumption ==
    /\ Limits \subseteq Nat \ {0} /\ \E m \in Limits : \A l \in Limits : l <= m
    /\ Minute \in Nat \ {0} /\ MaxTokens \in Nat
    /\ None \notin Limits /\ None \notin Kinds /\ None \notin Window

TypeOK ==
    /\ row \in Kinds \cup {None}
    /\ tokens \subseteq Token
    /\ last \in 0..MaxTokens
    /\ perMinute \in Limits
    /\ window \in [Ids -> Window \cup {None}]
    /\ served \in [Ids -> [Ages -> Nat]]
    /\ orphaned \in BOOLEAN

NoCalls == [i \in Ids |-> [k \in Ages |-> 0]]

Init ==
    /\ row = None
    /\ tokens = {}
    /\ last = 0
    /\ perMinute = Max(Limits)
    /\ window = [i \in Ids |-> None]
    /\ served = NoCalls
    /\ orphaned = FALSE

-----------------------------------------------------------------------------
(* Tokens *)

Issued(auto, limit) == tokens \cup {[id |-> last + 1, auto |-> auto, limit |-> limit]}

\* ensureAutoProvisionedToken: one that is there is used again.
Ensure ==
    \/ /\ \E t \in tokens : t.auto
       /\ UNCHANGED <<tokens, last>>
    \/ /\ \A t \in tokens : ~ t.auto
       /\ last < MaxTokens
       /\ tokens' = Issued(TRUE, None)
       /\ last' = last + 1

\* POST /admin/llm/tokens: by hand, for any id, also one that is no app.
Create(limit) ==
    /\ last < MaxTokens
    /\ tokens' = Issued(FALSE, limit)
    /\ last' = last + 1
    /\ UNCHANGED <<row, perMinute, window, served, orphaned>>

\* DELETE /admin/llm/tokens/:id; the window of the token stays.
Revoke(t) ==
    /\ tokens' = tokens \ {t}
    /\ UNCHANGED <<row, last, perMinute, window, served, orphaned>>

-----------------------------------------------------------------------------
(* The row *)

\* POST /apps/submit or /admin/apps/package with a new name.
Upload(kind) ==
    /\ row = None
    /\ row' = kind
    /\ Ensure
    /\ UNCHANGED <<perMinute, window, served, orphaned>>

\* The process dies between the insert of the row and the issue of the token.
CrashInUpload(kind) ==
    /\ row = None
    /\ row' = kind
    /\ window' = [i \in Ids |-> None]
    /\ served' = NoCalls
    /\ UNCHANGED <<tokens, last, perMinute, orphaned>>

\* POST /admin/apps: an app without manifest, for which no token is issued.
CreateBare ==
    /\ row = None
    /\ row' = "bare"
    /\ UNCHANGED <<tokens, last, perMinute, window, served, orphaned>>

\* A new version of an app, with its own capabilities; no token is issued.
Update(kind) ==
    /\ row # None
    /\ row' = kind
    /\ UNCHANGED <<tokens, last, perMinute, window, served, orphaned>>

\* Fault: the tokens of a deleted app stay (before the audit of F1).
DeleteRowOnly ==
    /\ row # None
    /\ row' = None
    /\ orphaned' = FALSE
    /\ UNCHANGED <<tokens, last, perMinute, window, served>>

\* DELETE /admin/apps/:id.
Delete ==
    /\ row # None
    /\ row' = None
    /\ tokens' = {}
    /\ orphaned' = FALSE
    /\ UNCHANGED <<last, perMinute, window, served>>

\* The process dies between the two statements of that handler.
CrashInDelete ==
    /\ row # None
    /\ row' = None
    /\ orphaned' = (orphaned \/ tokens # {})
    /\ window' = [i \in Ids |-> None]
    /\ served' = NoCalls
    /\ UNCHANGED <<tokens, last, perMinute>>

-----------------------------------------------------------------------------
(* A call *)

\* appLlmAllowed: an id without app, and an app without manifest, get through.
Allowed == row \in {None, "bare", "llm"}

Limit(t) == IF t.limit = None THEN perMinute ELSE t.limit

\* The window of token i after one more call; counts are told apart up to the
\* largest limit.
Hit(i) ==
    IF window[i] = None \/ window[i].age = Minute
    THEN [age |-> 0, count |-> 1]
    ELSE [window[i] EXCEPT !.count = Min({@ + 1, Max(Limits) + 1})]

\* The first call of a window is not compared with the limit.
InTime(t) == Hit(t.id).count = 1 \/ Hit(t.id).count <= Limit(t)

\* POST /v1/chat/completions with the token t.  The call counts whether or
\* not the capability is there.
Call(t) ==
    /\ window' = [window EXCEPT ![t.id] = Hit(t.id)]
    /\ served' = IF InTime(t) /\ Allowed THEN [served EXCEPT ![t.id][0] = @ + 1] ELSE served
    /\ UNCHANGED <<row, tokens, last, perMinute, orphaned>>

\* An admin changes RATE_LLM_PER_MIN.
SetLimit(limit) ==
    /\ perMinute' = limit
    /\ UNCHANGED <<row, tokens, last, window, served, orphaned>>

\* A tick of the clock.
Tick ==
    /\ window' = [i \in Ids |-> IF window[i] = None THEN None
                                ELSE [window[i] EXCEPT !.age = Min({@ + 1, Minute})]]
    /\ served' = [i \in Ids |-> [k \in Ages |-> IF k = 0 THEN 0 ELSE served[i][k - 1]]]
    /\ UNCHANGED <<row, tokens, last, perMinute, orphaned>>

\* The process dies and comes back: windows are memory.
Restart ==
    /\ window' = [i \in Ids |-> None]
    /\ served' = NoCalls
    /\ UNCHANGED <<row, tokens, last, perMinute, orphaned>>

Next ==
    \/ \E kind \in Kinds \ {"bare"} : Upload(kind) \/ CrashInUpload(kind) \/ Update(kind)
    \/ CreateBare
    \/ Delete \/ CrashInDelete
    \/ \E limit \in Limits \cup {None} : Create(limit)
    \/ \E limit \in Limits : SetLimit(limit)
    \/ \E t \in tokens : Revoke(t) \/ Call(t)
    \/ Tick
    \/ Restart

Spec == Init /\ [][Next]_vars

-----------------------------------------------------------------------------
(* Properties *)

\* The token a package is given spends for nothing that has not declared llm:
\* not for a version that no longer does, not after the app is gone, not for
\* what takes its name later (audit F1).  Only a crash within a deletion
\* leaves one that does.
DeclaredSpend == \A t \in tokens : t.auto /\ Allowed /\ ~ orphaned => row = "llm"

\* The token that is put into a package's environment is unambiguous.
OneForTheRuntime == Cardinality({t \in tokens : t.auto}) <= 1

\* However calls lie in the windows, however the limit moves and whatever
\* takes the name: no minute serves a token more than twice its limit.
Largest(t) == IF t.limit = None THEN Max(Limits) ELSE t.limit
ServedIn(f, K) == UNION {{k} \X (1 .. f[k]) : k \in K}    \* the calls of these ages
RateHeld == \A t \in tokens : Cardinality(ServedIn(served[t.id], Ages)) <= 2 * Largest(t)

\* What the tokens of an app can do, whatever happens to the app.
TokensAreContained == DeclaredSpend /\ OneForTheRuntime /\ RateHeld

\* The same through crashes.  Refuted: the row of a deleted app and its tokens
\* go in two statements, and without a row a token is let through.
DeclaredSpendAlways == \A t \in tokens : t.auto /\ Allowed => row = "llm"
=============================================================================
