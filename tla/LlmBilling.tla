----------------------------- MODULE LlmBilling -----------------------------
(***************************************************************************)
(* The money path of the LLM gateway: POST /v1/chat/completions            *)
(* (routes/llmGateway.ts) on top of the metering of lib/llm.ts, with the   *)
(* other writers of the same state: grants, the billing page and the       *)
(* settlement loop of lib/billing.ts.                                      *)
(*                                                                         *)
(* The server is one process and better-sqlite3 is synchronous, so what    *)
(* the code does between two awaits is one action here.  A request awaits  *)
(* its upstream in "calling" and the chunks of its stream in "streaming".  *)
(*                                                                         *)
(*   llm_ledger          -> ledger[u], the SUM(delta) of the rows of u     *)
(*   llm_balance_cache   -> cache[u], NoRow while u has no row             *)
(*   inFlightEstimate    -> inflight[u], memory of the process             *)
(*   ts of the last row  -> recent[u], how many runs of the settlement     *)
(*                          loop still find a row of u in their window     *)
(***************************************************************************)
EXTENDS Integers, FiniteSets

CONSTANTS
    Users,          \* users a request can be attributed to
    NoUser,         \* no valid identity header
    Requests,       \* request ids; each stands for one call of the handler
    NoRow,          \* no row in llm_balance_cache
    Candidates,     \* number of failover candidates of the model
    Estimates,      \* possible max_tokens * multiplier, rounded up
    Costs,          \* possible actual costs; multipliers are not negative
    Guesses,        \* those of a stream without a usage frame, by estimation;
                    \* 0 is one when a route has the multiplier 0
    Deltas,         \* possible grants (positive) and adjustments (negative)
    Window,         \* runs of the loop that see a row: 10 minutes, one per minute
    Anonymous,      \* LLM_UNATTRIBUTED_POLICY = 'allow'
    StreamsBreak,   \* may an upstream stream fail after its headers?
    HalfWrites,     \* may the process die between two SQL statements?
    MaxGrants,      \* bound: grants per behaviour
    MaxCrashes      \* bound: crashes per behaviour

ASSUME BillingAssumption ==
    /\ NoUser \notin Users
    /\ NoRow \notin Int
    /\ IsFiniteSet(Requests)
    /\ Candidates \in Nat \ {0}
    /\ Estimates \subseteq Nat \ {0}
    /\ Costs \subseteq Nat /\ 0 \in Costs /\ Guesses \subseteq Costs
    /\ Deltas \subseteq Int
    /\ Window \in Nat \ {0}
    /\ {Anonymous, StreamsBreak, HalfWrites} \subseteq BOOLEAN
    /\ MaxGrants \in Nat
    /\ MaxCrashes \in Nat

VARIABLES
    pc,         \* pc[r] : where the handler of r is
    owner,      \* owner[r] : userId
    est,        \* est[r] : estimatedCost
    conn,       \* conn[r] : the rest of the handler's locals
    ledger,
    cache,
    inflight,
    recent,
    suspect,    \* history: users not recomputed since the process restarted
    settles,    \* history: how often r was settled
    charged,    \* history: what the ledger was charged for r
    grants,     \* counter for MaxGrants
    crashes     \* counter for MaxCrashes

handlers == <<pc, owner, est, conn>>
money    == <<ledger, cache, inflight, recent, suspect>>
counters == <<grants, crashes>>
vars     == <<handlers, money, settles, charged, counters>>

Conn == [stream : BOOLEAN,          \* body.stream
         cand   : 1 .. Candidates,  \* the candidate being tried
         sent   : BOOLEAN,          \* response headers are flushed
         got    : BOOLEAN,          \* sentBytes > 0
         frame  : BOOLEAN]          \* a usage frame was parsed

TypeOK ==
    /\ pc \in [Requests -> {"new", "calling", "streaming", "done", "refused", "killed"}]
    /\ owner \in [Requests -> Users \cup {NoUser}]
    /\ est \in [Requests -> Nat]
    /\ conn \in [Requests -> Conn]
    /\ ledger \in [Users -> Int]
    /\ cache \in [Users -> Int \cup {NoRow}]
    /\ inflight \in [Users -> Nat]
    /\ recent \in [Users -> 0 .. Window]
    /\ suspect \subseteq Users
    /\ settles \in [Requests -> Nat]
    /\ charged \in [Requests -> Nat]
    /\ grants \in Nat
    /\ crashes \in Nat

NoConn == [stream |-> FALSE, cand |-> 1, sent |-> FALSE, got |-> FALSE, frame |-> FALSE]

Init ==
    /\ pc = [r \in Requests |-> "new"]
    /\ owner = [r \in Requests |-> NoUser]
    /\ est = [r \in Requests |-> 0]
    /\ conn = [r \in Requests |-> NoConn]
    /\ ledger = [u \in Users |-> 0]
    /\ cache = [u \in Users |-> NoRow]
    /\ inflight = [u \in Users |-> 0]
    /\ recent = [u \in Users |-> 0]
    /\ suspect = {}
    /\ settles = [r \in Requests |-> 0]
    /\ charged = [r \in Requests |-> 0]
    /\ grants = 0
    /\ crashes = 0

-----------------------------------------------------------------------------
(* lib/llm.ts *)

Live(r) == pc[r] \in {"calling", "streaming"}

Monus(a, b) == IF a > b THEN a - b ELSE 0

\* Fault for the mutation runs: the estimates in flight are forgotten.
RecomputedFromLedger(l, f) == l

\* recomputeBalance: what the cache row becomes when ledger and estimates
\* of u are l and f.
Recomputed(l, f) == l - f

RecomputeUser(u, l) ==
    /\ cache' = [cache EXCEPT ![u] = Recomputed(l, inflight[u])]
    /\ suspect' = suspect \ {u}

\* The row precheck compares with: recomputed first when it is missing.
CachedOrRecomputed(u) ==
    IF cache[u] = NoRow THEN Recomputed(ledger[u], inflight[u]) ELSE cache[u]

\* Faults: an off-by-one comparison; a gate that only asks for some money.
CoversStrictly(b, e) == b > e
CoversAnything(b, e) == b > 0

\* The conditional UPDATE ... WHERE balance >= estimatedCost.
Covers(b, e) == b >= e

\* precheck, when the row covers the estimate.
Hold(u, e) ==
    /\ Covers(CachedOrRecomputed(u), e)
    /\ cache' = [cache EXCEPT ![u] = CachedOrRecomputed(u) - e]
    /\ inflight' = [inflight EXCEPT ![u] = @ + e]
    /\ suspect' = IF cache[u] = NoRow THEN suspect \ {u} ELSE suspect
    /\ UNCHANGED <<ledger, recent>>

\* releaseInFlightEstimate: the entry is dropped when nothing is left.
Released(f, e) == Monus(f, e)

\* Faults: the estimate is not refunded; the cost is not deducted.
CorrectionUnrefunded(e, c) == 0 - c
CorrectionUncharged(e, c) == e

\* The correction settleEstimate adds to the cache row.
Correction(e, c) == e - c

\* recordUsage then settleEstimate, n times in one synchronous stretch, for
\* a total cost c.  A request without a user leaves a row of nobody.
Settle(r, n, c) ==
    /\ settles' = [settles EXCEPT ![r] = @ + n]
    /\ charged' = [charged EXCEPT ![r] = @ + c]
    /\ IF owner[r] = NoUser
       THEN UNCHANGED money
       ELSE LET u == owner[r] IN
            /\ ledger' = [ledger EXCEPT ![u] = @ - c]
            /\ recent' = [recent EXCEPT ![u] = Window]
            /\ inflight' = [inflight EXCEPT ![u] = Released(@, n * est[r])]
            /\ cache' = [cache EXCEPT ![u] = @ + Correction(n * est[r], c)]
            /\ UNCHANGED suspect

-----------------------------------------------------------------------------
(* POST /v1/chat/completions *)

\* Everything up to the first await, for a request the precheck lets pass.
Admit(r, u, e, s) ==
    /\ pc[r] = "new"
    /\ Hold(u, e)
    /\ pc' = [pc EXCEPT ![r] = "calling"]
    /\ owner' = [owner EXCEPT ![r] = u]
    /\ est' = [est EXCEPT ![r] = e]
    /\ conn' = [conn EXCEPT ![r] = [NoConn EXCEPT !.stream = s]]
    /\ UNCHANGED <<settles, charged, counters>>

\* 402: the missing row has been written all the same.
Refuse(r, u, e) ==
    /\ pc[r] = "new"
    /\ ~ Covers(CachedOrRecomputed(u), e)
    /\ pc' = [pc EXCEPT ![r] = "refused"]
    /\ owner' = [owner EXCEPT ![r] = u]
    /\ est' = [est EXCEPT ![r] = e]
    /\ IF cache[u] = NoRow
       THEN RecomputeUser(u, ledger[u])
       ELSE UNCHANGED <<cache, suspect>>
    /\ UNCHANGED <<conn, ledger, inflight, recent, settles, charged, counters>>

\* No attribution: 403 under the default policy, no hold under 'allow'.
AdmitAnonymous(r, e, s) ==
    /\ Anonymous
    /\ pc[r] = "new"
    /\ pc' = [pc EXCEPT ![r] = "calling"]
    /\ est' = [est EXCEPT ![r] = e]
    /\ conn' = [conn EXCEPT ![r] = [NoConn EXCEPT !.stream = s]]
    /\ UNCHANGED <<owner, money, settles, charged, counters>>

MoreCandidates(r) == conn[r].cand < Candidates

\* Fault: the same candidate again.
TryAgain(r) ==
    /\ pc' = [pc EXCEPT ![r] = "calling"]
    /\ UNCHANGED conn

\* The loop goes on with the next candidate; no user's money moves.
TryNext(r) ==
    /\ pc' = [pc EXCEPT ![r] = "calling"]
    /\ conn' = [conn EXCEPT ![r].cand = @ + 1]

\* The handler returns.
Return(r) ==
    /\ pc' = [pc EXCEPT ![r] = "done"]
    /\ UNCHANGED conn

\* Fault: the request that failed everywhere is not settled.
GiveUpUnsettled(r) ==
    /\ IF MoreCandidates(r) THEN TryNext(r) ELSE Return(r)
    /\ UNCHANGED <<money, settles, charged>>

\* A candidate is given up: the next one, or the loop ends and the request
\* is settled for nothing.
GiveUp(r) ==
    IF MoreCandidates(r)
    THEN TryNext(r) /\ UNCHANGED <<money, settles, charged>>
    ELSE Return(r) /\ Settle(r, 1, 0)

\* fetch fails, times out or answers 5xx/429/408; or it answers well but the
\* headers of an earlier candidate are out, so that setHeader throws.
FetchFails(r) ==
    /\ pc[r] = "calling"
    /\ GiveUp(r)
    /\ UNCHANGED <<owner, est, counters>>

\* Another 4xx: settled for nothing and passed through.  When the headers of
\* an earlier candidate are out, passing it through throws after the
\* settlement, and the loop goes on.
ClientError(r) ==
    /\ pc[r] = "calling"
    /\ IF ~ conn[r].sent
       THEN Return(r) /\ Settle(r, 1, 0)
       ELSE IF MoreCandidates(r)
            THEN TryNext(r) /\ Settle(r, 1, 0)
            ELSE Return(r) /\ Settle(r, 2, 0)
    /\ UNCHANGED <<owner, est, counters>>

\* A complete JSON answer of a request that does not stream.
Answer(r, c) ==
    /\ pc[r] = "calling"
    /\ ~ conn[r].stream
    /\ Return(r)
    /\ Settle(r, 1, c)
    /\ UNCHANGED <<owner, est, counters>>

\* streamPassthrough flushes the response headers.
StreamStarts(r) ==
    /\ pc[r] = "calling"
    /\ conn[r].stream /\ ~ conn[r].sent
    /\ pc' = [pc EXCEPT ![r] = "streaming"]
    /\ conn' = [conn EXCEPT ![r].sent = TRUE]
    /\ UNCHANGED <<owner, est, money, settles, charged, counters>>

\* Bytes are forwarded; f: they complete a usage frame.
Chunk(r, f) ==
    /\ pc[r] = "streaming"
    /\ conn' = [conn EXCEPT ![r].got = TRUE, ![r].frame = @ \/ f]
    /\ UNCHANGED <<pc, owner, est, money, settles, charged, counters>>

\* What a stream may cost: what its usage frame says, an estimate when bytes
\* went out without one, else nothing.
StreamCosts(r) ==
    IF conn[r].frame THEN Costs
    ELSE IF conn[r].got THEN Guesses ELSE {0}

\* End of the stream: upstream done, client gone or idle timeout, which
\* cancel the reader.
StreamEnds(r, c) ==
    /\ pc[r] = "streaming"
    /\ c \in StreamCosts(r)
    /\ Return(r)
    /\ Settle(r, 1, c)
    /\ UNCHANGED <<owner, est, counters>>

\* reader.read() rejects: the handler's catch takes it for a failed
\* candidate.
StreamFails(r) ==
    /\ StreamsBreak
    /\ pc[r] = "streaming"
    /\ GiveUp(r)
    /\ UNCHANGED <<owner, est, counters>>

-----------------------------------------------------------------------------
(* The other writers *)

\* grantTokens: a ledger row, then a recomputation.
Grant(u, d) ==
    /\ grants < MaxGrants
    /\ grants' = grants + 1
    /\ ledger' = [ledger EXCEPT ![u] = @ + d]
    /\ recent' = [recent EXCEPT ![u] = Window]
    /\ RecomputeUser(u, ledger[u] + d)
    /\ UNCHANGED <<handlers, inflight, settles, charged, crashes>>

\* GET /user/billing recomputes before it answers.
ViewBilling(u) ==
    /\ RecomputeUser(u, ledger[u])
    /\ UNCHANGED <<handlers, ledger, inflight, recent, settles, charged, counters>>

\* Fault: the loop visits users without writing their rows.
ReconciledNothing(seen, l, f) == cache

\* One run of the settlement loop over the users in seen.
Reconciled(seen, l, f) ==
    [u \in Users |-> IF u \in seen THEN Recomputed(l[u], f[u]) ELSE cache[u]]

\* reconcileRecent, once per minute.
SettlementRun ==
    LET seen == {u \in Users : recent[u] > 0} IN
    /\ cache' = Reconciled(seen, ledger, inflight)
    /\ recent' = [u \in Users |-> IF u \in seen THEN recent[u] - 1 ELSE 0]
    /\ suspect' = suspect \ seen
    /\ UNCHANGED <<handlers, ledger, inflight, settles, charged, counters>>

\* The process dies with ledger l and last rows w on disk, stays down for a
\* while and starts again: memory is empty, no handler survives, and the
\* settlement loop runs at once.
DieAndRestart(l, w) ==
    /\ crashes < MaxCrashes
    /\ crashes' = crashes + 1
    /\ pc' = [r \in Requests |-> IF Live(r) THEN "killed" ELSE pc[r]]
    /\ ledger' = l
    /\ inflight' = [u \in Users |-> 0]
    /\ \E down \in 0 .. Window :
         LET seen == {u \in Users : w[u] > down} IN
         /\ cache' = Reconciled(seen, l, inflight')
         /\ recent' = [u \in Users |-> IF u \in seen THEN w[u] - down - 1 ELSE 0]
         /\ suspect' = {u \in Users \ seen : cache[u] # NoRow}
    /\ UNCHANGED <<owner, est, conn, settles, charged, grants>>

Crash == DieAndRestart(ledger, recent)

\* ... between the row of a grant and the recomputation.
CrashInGrant(u, d) ==
    /\ HalfWrites
    /\ DieAndRestart([ledger EXCEPT ![u] = @ + d], [recent EXCEPT ![u] = Window])

\* What the usage row of r may say.
DueCosts(r) ==
    IF pc[r] = "streaming" THEN StreamCosts(r) \cup {0}
    ELSE IF conn[r].stream THEN {0} ELSE Costs

\* ... between the usage row and settleEstimate.
CrashInSettle(r, c) ==
    /\ HalfWrites
    /\ Live(r) /\ owner[r] # NoUser
    /\ c \in DueCosts(r)
    /\ DieAndRestart([ledger EXCEPT ![owner[r]] = @ - c],
                     [recent EXCEPT ![owner[r]] = Window])

-----------------------------------------------------------------------------
Next ==
    \/ \E r \in Requests, u \in Users, e \in Estimates :
         \/ Refuse(r, u, e)
         \/ \E s \in BOOLEAN : Admit(r, u, e, s)
    \/ \E r \in Requests, e \in Estimates, s \in BOOLEAN : AdmitAnonymous(r, e, s)
    \/ \E r \in Requests :
         \/ FetchFails(r)
         \/ ClientError(r)
         \/ StreamStarts(r)
         \/ StreamFails(r)
         \/ \E f \in BOOLEAN : Chunk(r, f)
         \/ \E c \in Costs : Answer(r, c) \/ StreamEnds(r, c) \/ CrashInSettle(r, c)
    \/ \E u \in Users :
         \/ ViewBilling(u)
         \/ \E d \in Deltas : Grant(u, d) \/ CrashInGrant(u, d)
    \/ SettlementRun
    \/ Crash

Spec == Init /\ [][Next]_vars

\* Timers end every wait: the abort of fetch, and the idle timeout of a
\* stream.  (Past the headers of an answer that does not stream the handler's
\* timer is cleared and only the HTTP client's own body timeout is left.)
\* The idle timer starts again at every chunk, so it is assumed that no
\* upstream sends chunks forever.  The settlement loop is a setInterval.
\* Nothing makes a user, an admin or an upstream act.
Fairness ==
    /\ \A r \in Requests : WF_vars(FetchFails(r))
    /\ \A r \in Requests : WF_vars(\E c \in Costs : StreamEnds(r, c))
    /\ WF_vars(SettlementRun)

FairSpec == Spec /\ Fairness

-----------------------------------------------------------------------------
(* Properties *)

\* The requests of u that hold an estimate and have not been settled.
HoldersOf(u) == {r \in Requests : Live(r) /\ owner[r] = u /\ settles[r] = 0}

\* One token per unit they hold, so that their sum is a cardinality.
HeldTokens(u) == UNION {{r} \X (1 .. est[r]) : r \in HoldersOf(u)}

Outstanding(u) == Cardinality(HeldTokens(u))

\* A request of u was settled more than once (StreamFails, then ClientError
\* or the end of the loop).
DoubleSettled(u) == \E r \in Requests : owner[r] = u /\ settles[r] > 1

\* inFlightEstimate, which recomputeBalance subtracts, is the sum of the
\* estimates of exactly the requests that are under way: nothing leaks when
\* they end in any order, fail over, are refused or die with the process.
InFlightIsOutstanding ==
    \A u \in Users : ~ DoubleSettled(u) => inflight[u] = Outstanding(u)

\* "The ledger is one, the balance is in one place": whatever the order of
\* holds, settlements, grants, billing pages and settlement runs, the cache
\* row is the ledger minus the estimates in flight.
CacheIsLedgerMinusHolds ==
    \A u \in Users \ suspect :
        ~ DoubleSettled(u) /\ cache[u] # NoRow => cache[u] + inflight[u] = ledger[u]

\* Even when a request is settled twice a user never has less than the
\* ledger says: an error in the gateway is never at the user's expense.
NeverShortchanged ==
    \A u \in Users \ suspect : cache[u] # NoRow => cache[u] + inflight[u] >= ledger[u]

\* A crash between requests' steps loses holds that were never charged: it
\* can only make the portal too strict, never hand out money.
CrashNeverCredits ==
    \A u \in Users :
        ~ DoubleSettled(u) /\ cache[u] # NoRow => cache[u] + inflight[u] <= ledger[u]

\* precheck (C6): a request leaves the gateway exactly when the ledger covers
\* its estimate beyond the estimates of all concurrent requests of the user.
GateIsExact ==
    [][\A r \in Requests :
         /\ pc[r] = "new" /\ pc'[r] \in {"calling", "refused"}
         /\ owner'[r] \in Users \ suspect /\ ~ DoubleSettled(owner'[r])
         => (pc'[r] = "calling"
             <=> ledger[owner'[r]] - Outstanding(owner'[r]) >= est'[r])]_vars

\* Every hold is given back exactly once, on each of the ways a request ends.
SettledOnce ==
    \A r \in Requests : settles[r] = IF pc[r] = "done" THEN 1 ELSE 0

\* DEVELOPMENT.md, precheck, the exception of audit P1-7: when content went
\* out and no usage frame came, the request is charged by estimation, which is
\* more than nothing where no route has the multiplier 0.  Refuted: a stream
\* that fails after content went out is settled for nothing.
DeliveredIsPaid ==
    \A r \in Requests :
        pc[r] = "done" /\ conn[r].got /\ ~ conn[r].frame => charged[r] > 0

ExcessTokens(u) ==
    UNION {{r} \X (1 .. Monus(charged[r], est[r])) : r \in {q \in Requests : owner[q] = u}}

\* Concurrent requests cannot spend the same money: with grants only, a
\* user's debt is at most what single requests cost above their estimates.
DebtIsUnderestimate ==
    \A u \in Users : ledger[u] + Cardinality(ExcessTokens(u)) >= Outstanding(u)

\* Every admitted request ends, and so gives back what it holds.
EveryRequestEnds ==
    \A r \in Requests : Live(r) ~> pc[r] \in {"done", "killed"}

Exact(u) == cache[u] = NoRow \/ cache[u] + inflight[u] = ledger[u]

\* Once the process stays up, the settlement loop makes the cache right again
\* for every user that still has, or gets, a ledger row inside its window,
\* whatever a crash or a request settled twice did to it.
SettlementHeals ==
    \A u \in Users : (recent[u] > 0 /\ crashes = MaxCrashes) ~> Exact(u)

\* billing.ts: the loop "absorbs crash drift".  Refuted: it only visits users
\* with a ledger row of the last ten minutes, and a hold leaves no row.
DriftAbsorbed == \A u \in Users : ~ Exact(u) ~> Exact(u)

\* What the abstract account sees of a request.
AbstractStatus(r) ==
    IF owner[r] = NoUser \/ pc[r] \in {"new", "refused"} THEN "new"
    ELSE IF Live(r) /\ settles[r] = 0 THEN "open" ELSE "closed"

Abstract == INSTANCE CreditLine WITH
    balance <- ledger,
    status  <- [r \in Requests |-> AbstractStatus(r)],
    payer   <- [r \in Requests |-> IF AbstractStatus(r) = "new" THEN NoUser ELSE owner[r]],
    amount  <- [r \in Requests |-> IF AbstractStatus(r) = "new" THEN 0 ELSE est[r]],
    Deposits <- Deltas,
    Amounts <- Estimates,
    Charges <- Costs

\* The billing code implements the account of CreditLine.
ImplementsCreditLine == Abstract!CLSpec
=============================================================================
