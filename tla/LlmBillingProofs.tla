-------------------------- MODULE LlmBillingProofs --------------------------
(***************************************************************************)
(* Theorems about LlmBilling, for all users, requests, estimates, costs    *)
(* and bounds.  The inductive invariant adds to the checked properties     *)
(* that a new request is blank and that a request under way has a cache    *)
(* row to settle on.                                                       *)
(***************************************************************************)
EXTENDS LlmBilling, TLAPS, FiniteSetTheorems

\* No settlement and no user before the handler has started.
NewIsBlank == \A r \in Requests : pc[r] = "new" => settles[r] = 0 /\ owner[r] = NoUser

\* precheck wrote the row of the user of every request under way.
LiveHasRow ==
    \A r \in Requests : Live(r) /\ owner[r] # NoUser => cache[owner[r]] # NoRow

TInv == TypeOK /\ NewIsBlank /\ LiveHasRow

-----------------------------------------------------------------------------
(* Arithmetic and settlement *)

\* Subtraction on the naturals stays there and loses nothing.
LEMMA MonusFacts ==
    ASSUME NEW a \in Nat, NEW b \in Nat
    PROVE  /\ Monus(a, b) \in Nat
           /\ Monus(a, b) >= a - b
           /\ b <= a => Monus(a, b) = a - b
BY DEF Monus

\* Settling a request under way keeps every variable in its type and keeps
\* the rows that exist.
LEMMA SettleTypes ==
    ASSUME TInv, NEW r \in Requests, Live(r), NEW n \in 1 .. 2, NEW c \in Nat, Settle(r, n, c)
    PROVE  /\ ledger' \in [Users -> Int]
           /\ cache' \in [Users -> Int \cup {NoRow}]
           /\ inflight' \in [Users -> Nat]
           /\ recent' \in [Users -> 0 .. Window]
           /\ suspect' = suspect
           /\ settles' \in [Requests -> Nat]
           /\ charged' \in [Requests -> Nat]
           /\ \A q \in Requests : q # r => settles'[q] = settles[q]
           /\ \A u \in Users : cache[u] # NoRow => cache'[u] # NoRow
<1>1. settles' \in [Requests -> Nat] /\ charged' \in [Requests -> Nat]
  BY DEF TInv, TypeOK, Settle
<1>2. \A q \in Requests : q # r => settles'[q] = settles[q]
  BY DEF TInv, TypeOK, Settle
<1>3. CASE owner[r] = NoUser
  BY <1>1, <1>2, <1>3 DEF TInv, TypeOK, Settle, money
<1>4. CASE owner[r] # NoUser
  <2>1. owner[r] \in Users /\ cache[owner[r]] \in Int /\ n * est[r] \in Nat
    BY <1>4 DEF TInv, TypeOK, LiveHasRow
  <2>2. /\ ledger' = [ledger EXCEPT ![owner[r]] = @ - c]
        /\ recent' = [recent EXCEPT ![owner[r]] = Window]
        /\ inflight' = [inflight EXCEPT ![owner[r]] = Monus(@, n * est[r])]
        /\ cache' = [cache EXCEPT ![owner[r]] = @ + (n * est[r] - c)]
        /\ suspect' = suspect
    BY <1>4 DEF Settle, Released, Correction
  <2>3. Monus(inflight[owner[r]], n * est[r]) \in Nat
    BY <2>1, MonusFacts DEF TInv, TypeOK
  <2>4. cache[owner[r]] + (n * est[r] - c) \in Int
    BY <2>1
  <2>5. inflight' \in [Users -> Nat]
    BY <2>2, <2>3 DEF TInv, TypeOK
  <2>6. /\ cache' \in [Users -> Int \cup {NoRow}]
        /\ \A u \in Users : cache[u] # NoRow => cache'[u] # NoRow
    BY <2>1, <2>2, <2>4, BillingAssumption DEF TInv, TypeOK
  <2>7. ledger' \in [Users -> Int] /\ recent' \in [Users -> 0 .. Window]
    BY <2>1, <2>2, BillingAssumption DEF TInv, TypeOK
  <2>8. QED
    BY <1>1, <1>2, <2>2, <2>5, <2>6, <2>7
<1>5. QED
  BY <1>3, <1>4

\* The same facts when nothing is settled.
LEMMA NoSettleTypes ==
    ASSUME TInv, UNCHANGED <<money, settles, charged>>
    PROVE  /\ ledger' \in [Users -> Int]
           /\ cache' \in [Users -> Int \cup {NoRow}]
           /\ inflight' \in [Users -> Nat]
           /\ recent' \in [Users -> 0 .. Window]
           /\ suspect' = suspect
           /\ settles' \in [Requests -> Nat]
           /\ charged' \in [Requests -> Nat]
           /\ settles' = settles
           /\ cache' = cache
BY DEF TInv, TypeOK, money

\* What a step of the handler of r that is under way does: it stays under
\* way or returns, its owner and estimate stay, and it is settled n times.
HandlerStep(r) ==
    /\ Live(r)
    /\ pc' \in {[pc EXCEPT ![r] = x] : x \in {"calling", "streaming", "done"}}
    /\ conn' \in [Requests -> Conn]
    /\ UNCHANGED <<owner, est, counters>>
    /\ \/ UNCHANGED <<money, settles, charged>> /\ Live(r)'
       \/ \E n \in 1 .. 2, c \in Nat : Settle(r, n, c)

\* Every step of a handler under way has that form.
LEMMA HandlerSteps ==
    ASSUME TypeOK, NEW r \in Requests,
           \/ FetchFails(r)
           \/ ClientError(r)
           \/ StreamStarts(r)
           \/ StreamFails(r)
           \/ \E f \in BOOLEAN : Chunk(r, f)
           \/ \E c \in Costs : Answer(r, c) \/ StreamEnds(r, c)
    PROVE  HandlerStep(r)
<1> USE DEF TypeOK, HandlerStep
<1>1. conn[r] \in Conn
  OBVIOUS
<1>2. ASSUME MoreCandidates(r), conn' = [conn EXCEPT ![r].cand = @ + 1]
      PROVE  conn' \in [Requests -> Conn]
  <2>1. conn[r].cand + 1 \in 1 .. Candidates
    BY <1>1, <1>2, BillingAssumption DEF Conn, MoreCandidates
  <2>2. [conn[r] EXCEPT !.cand = @ + 1] \in Conn
    BY <1>1, <2>1 DEF Conn
  <2>3. QED
    BY <1>2, <2>2
<1>3. ASSUME GiveUp(r)
      PROVE  /\ pc' \in {[pc EXCEPT ![r] = x] : x \in {"calling", "done"}}
             /\ conn' \in [Requests -> Conn]
             /\ \/ UNCHANGED <<money, settles, charged>> /\ Live(r)'
                \/ \E n \in 1 .. 2, c \in Nat : Settle(r, n, c)
  <2>1. CASE MoreCandidates(r)
    BY <1>2, <1>3, <2>1 DEF GiveUp, TryNext, Live
  <2>2. CASE ~ MoreCandidates(r)
    <3>1. Settle(r, 1, 0)
      BY <1>3, <2>2 DEF GiveUp
    <3>2. QED
      BY <1>3, <2>2, <3>1 DEF GiveUp, Return
  <2>3. QED
    BY <2>1, <2>2
<1>4. CASE FetchFails(r)
  BY <1>3, <1>4 DEF FetchFails, Live
<1>5. CASE StreamFails(r)
  BY <1>3, <1>5 DEF StreamFails, Live
<1>6. CASE ClientError(r)
  <2>1. CASE conn[r].sent /\ MoreCandidates(r)
    <3>1. TryNext(r) /\ Settle(r, 1, 0) /\ pc[r] = "calling" /\ UNCHANGED <<owner, est, counters>>
      BY <1>6, <2>1 DEF ClientError
    <3>2. conn' \in [Requests -> Conn]
      BY <1>2, <2>1, <3>1 DEF TryNext
    <3>3. \E n \in 1 .. 2, c \in Nat : Settle(r, n, c)
      BY <3>1
    <3>4. QED
      BY <3>1, <3>2, <3>3 DEF TryNext, Live
  <2>2. CASE ~ (conn[r].sent /\ MoreCandidates(r))
    <3>1. /\ Return(r) /\ pc[r] = "calling" /\ UNCHANGED <<owner, est, counters>>
          /\ Settle(r, 1, 0) \/ Settle(r, 2, 0)
      BY <1>6, <2>2 DEF ClientError
    <3>2. \E n \in 1 .. 2, c \in Nat : Settle(r, n, c)
      BY <3>1
    <3>3. QED
      BY <3>1, <3>2 DEF Return, Live
  <2>3. QED
    BY <2>1, <2>2
<1>7. CASE StreamStarts(r)
  <2>1. [conn[r] EXCEPT !.sent = TRUE] \in Conn
    BY <1>1 DEF Conn
  <2>2. QED
    BY <1>7, <2>1 DEF StreamStarts, Live
<1>8. CASE \E f \in BOOLEAN : Chunk(r, f)
  <2>1. PICK f \in BOOLEAN : Chunk(r, f)
    BY <1>8
  <2>2. conn' = [conn EXCEPT ![r] = [conn[r] EXCEPT !.got = TRUE, !.frame = conn[r].frame \/ f]]
    BY <2>1 DEF Chunk
  <2>3. (conn[r].frame \/ f) \in BOOLEAN
    BY <1>1 DEF Conn
  <2>4. [conn[r] EXCEPT !.got = TRUE, !.frame = conn[r].frame \/ f] \in Conn
    BY <1>1, <2>3 DEF Conn
  <2>5. conn' \in [Requests -> Conn]
    BY <2>2, <2>4
  <2>6. QED
    BY <2>1, <2>5 DEF Chunk, Live
<1>9. CASE \E c \in Costs : Answer(r, c) \/ StreamEnds(r, c)
  <2>1. PICK c \in Costs : Answer(r, c) \/ StreamEnds(r, c)
    BY <1>9
  <2>2. /\ Live(r) /\ Return(r) /\ Settle(r, 1, c)
        /\ UNCHANGED <<owner, est, counters>>
    BY <2>1 DEF Answer, StreamEnds, Live
  <2>3. \E n \in 1 .. 2, k \in Nat : Settle(r, n, k)
    BY <2>2, BillingAssumption
  <2>4. QED
    BY <2>2, <2>3 DEF Return
<1>10. QED
  BY <1>4, <1>5, <1>6, <1>7, <1>8, <1>9

-----------------------------------------------------------------------------
(* Type correctness *)

\* A step of a handler under way keeps the typing invariant.
LEMMA HandlerKeepsTypes ==
    ASSUME TInv, NEW r \in Requests, HandlerStep(r)
    PROVE  TInv'
<1> USE DEF HandlerStep
<1>1. /\ ledger' \in [Users -> Int]
      /\ cache' \in [Users -> Int \cup {NoRow}]
      /\ inflight' \in [Users -> Nat]
      /\ recent' \in [Users -> 0 .. Window]
      /\ suspect' = suspect
      /\ settles' \in [Requests -> Nat]
      /\ charged' \in [Requests -> Nat]
      /\ \A q \in Requests : q # r => settles'[q] = settles[q]
      /\ \A u \in Users : cache[u] # NoRow => cache'[u] # NoRow
  BY SettleTypes, NoSettleTypes
<1>2. /\ pc' \in [Requests -> {"new", "calling", "streaming", "done", "refused", "killed"}]
      /\ pc'[r] # "new"
      /\ \A q \in Requests : q # r => pc'[q] = pc[q]
  BY DEF TInv, TypeOK
<1>3. TypeOK'
  BY <1>1, <1>2 DEF TInv, TypeOK, counters
<1>4. NewIsBlank'
  BY <1>1, <1>2 DEF TInv, NewIsBlank
<1>5. \A q \in Requests : Live(q)' => Live(q)
  BY <1>2 DEF Live
<1>6. LiveHasRow'
  <2>1. \A q \in Requests : owner[q] # NoUser => owner[q] \in Users
    BY DEF TInv, TypeOK
  <2>2. QED
    BY <1>1, <1>5, <2>1 DEF TInv, LiveHasRow
<1>7. QED
  BY <1>3, <1>4, <1>6 DEF TInv

\* A request that starts gets a row, if it has a user.
LEMMA AdmitKeepsTypes ==
    ASSUME TInv, NEW r \in Requests, NEW u \in Users, NEW e \in Estimates,
           NEW s \in BOOLEAN, Admit(r, u, e, s)
    PROVE  TInv'
<1>1. e \in Nat /\ NoConn \in Conn
  BY BillingAssumption DEF NoConn, Conn
<1>2. CachedOrRecomputed(u) \in Int
  BY DEF CachedOrRecomputed, Recomputed, TInv, TypeOK
<1>3. CachedOrRecomputed(u) - e \in Int
  BY <1>1, <1>2
<1>4. /\ cache' = [cache EXCEPT ![u] = CachedOrRecomputed(u) - e]
      /\ cache' \in [Users -> Int \cup {NoRow}]
      /\ cache'[u] # NoRow
  BY <1>3, BillingAssumption DEF Admit, Hold, TInv, TypeOK
<1>5. inflight' \in [Users -> Nat] /\ suspect' \subseteq Users
  BY <1>1 DEF Admit, Hold, TInv, TypeOK
<1>6. [NoConn EXCEPT !.stream = s] \in Conn
  BY <1>1 DEF Conn
<1>7. TypeOK'
  BY <1>1, <1>4, <1>5, <1>6 DEF Admit, Hold, TInv, TypeOK, counters
<1>8. NewIsBlank'
  BY DEF Admit, TInv, TypeOK, NewIsBlank
<1>9. LiveHasRow'
  BY <1>4 DEF Admit, TInv, TypeOK, LiveHasRow, Live
<1>10. QED
  BY <1>7, <1>8, <1>9 DEF TInv

\* So does a request that is refused; one without a user needs none.
LEMMA RefuseKeepsTypes ==
    ASSUME TInv, NEW r \in Requests, NEW u \in Users, NEW e \in Estimates, Refuse(r, u, e)
    PROVE  TInv'
<1>1. e \in Nat
  BY BillingAssumption
<1>2. /\ cache' \in [Users -> Int \cup {NoRow}]
      /\ suspect' \subseteq Users
      /\ \A v \in Users : cache[v] # NoRow => cache'[v] # NoRow
  <2>1. Recomputed(ledger[u], inflight[u]) \in Int
    BY DEF Recomputed, TInv, TypeOK
  <2>2. QED
    BY <2>1, BillingAssumption DEF Refuse, RecomputeUser, TInv, TypeOK
<1>3. TypeOK'
  BY <1>1, <1>2 DEF Refuse, TInv, TypeOK, counters
<1>4. NewIsBlank'
  BY DEF Refuse, TInv, TypeOK, NewIsBlank
<1>5. LiveHasRow'
  BY <1>2 DEF Refuse, TInv, TypeOK, LiveHasRow, Live
<1>6. QED
  BY <1>3, <1>4, <1>5 DEF TInv

LEMMA AdmitAnonymousKeepsTypes ==
    ASSUME TInv, NEW r \in Requests, NEW e \in Estimates, NEW s \in BOOLEAN,
           AdmitAnonymous(r, e, s)
    PROVE  TInv'
<1>1. e \in Nat /\ NoConn \in Conn
  BY BillingAssumption DEF NoConn, Conn
<1>2. [NoConn EXCEPT !.stream = s] \in Conn
  BY <1>1 DEF Conn
<1>3. TypeOK'
  BY <1>1, <1>2 DEF AdmitAnonymous, TInv, TypeOK, counters, money
<1>4. NewIsBlank'
  BY DEF AdmitAnonymous, TInv, TypeOK, NewIsBlank
<1>5. LiveHasRow'
  BY DEF AdmitAnonymous, TInv, TypeOK, LiveHasRow, NewIsBlank, Live, money
<1>6. QED
  BY <1>3, <1>4, <1>5 DEF TInv

\* The billing page and the grants write one row and the ledger.
LEMMA WritersKeepTypes ==
    ASSUME TInv, NEW u \in Users, ViewBilling(u) \/ \E d \in Deltas : Grant(u, d)
    PROVE  TInv'
<1>1. PICK d \in Int : /\ ledger' = [ledger EXCEPT ![u] = @ + d]
                       /\ RecomputeUser(u, ledger[u] + d)
  <2>1. CASE ViewBilling(u)
    <3>1. ledger[u] + 0 = ledger[u] /\ ledger = [ledger EXCEPT ![u] = @ + 0]
      BY DEF TInv, TypeOK
    <3>2. QED
      BY <2>1, <3>1 DEF ViewBilling
  <2>2. CASE \E d \in Deltas : Grant(u, d)
    BY <2>2, BillingAssumption DEF Grant
  <2>3. QED
    BY <2>1, <2>2
<1>2. /\ UNCHANGED <<handlers, inflight, settles, charged, crashes>>
      /\ recent' \in [Users -> 0 .. Window]
      /\ grants' \in Nat
  BY BillingAssumption DEF ViewBilling, Grant, counters, TInv, TypeOK
<1>3. Recomputed(ledger[u] + d, inflight[u]) \in Int
  BY DEF Recomputed, TInv, TypeOK
<1>4. /\ cache' \in [Users -> Int \cup {NoRow}]
      /\ \A v \in Users : cache[v] # NoRow => cache'[v] # NoRow
      /\ suspect' \subseteq Users
  BY <1>1, <1>3, BillingAssumption DEF RecomputeUser, TInv, TypeOK
<1>5. ledger' \in [Users -> Int]
  BY <1>1 DEF TInv, TypeOK
<1>6. TypeOK'
  BY <1>2, <1>4, <1>5 DEF TInv, TypeOK, handlers
<1>7. NewIsBlank'
  BY <1>2 DEF TInv, NewIsBlank, handlers
<1>8. LiveHasRow'
  BY <1>2, <1>4 DEF TInv, TypeOK, LiveHasRow, Live, handlers
<1>9. QED
  BY <1>6, <1>7, <1>8 DEF TInv

\* What a run of the settlement loop leaves in the cache.
LEMMA ReconciledTypes ==
    ASSUME TypeOK, NEW seen, NEW l \in [Users -> Int], NEW f \in [Users -> Nat]
    PROVE  /\ Reconciled(seen, l, f) \in [Users -> Int \cup {NoRow}]
           /\ \A u \in Users : cache[u] # NoRow => Reconciled(seen, l, f)[u] # NoRow
<1>1. \A u \in Users : Recomputed(l[u], f[u]) \in Int
  BY DEF Recomputed
<1>2. QED
  BY <1>1, BillingAssumption DEF Reconciled, TypeOK

LEMMA SettlementRunKeepsTypes ==
    ASSUME TInv, SettlementRun
    PROVE  TInv'
<1> DEFINE seen == {u \in Users : recent[u] > 0}
<1>1. /\ cache' = Reconciled(seen, ledger, inflight)
      /\ recent' = [u \in Users |-> IF u \in seen THEN recent[u] - 1 ELSE 0]
      /\ suspect' = suspect \ seen
      /\ UNCHANGED <<handlers, ledger, inflight, settles, charged, counters>>
  BY DEF SettlementRun
<1>2. /\ cache' \in [Users -> Int \cup {NoRow}]
      /\ \A u \in Users : cache[u] # NoRow => cache'[u] # NoRow
  BY <1>1, ReconciledTypes DEF TInv, TypeOK
<1>3. recent' \in [Users -> 0 .. Window]
  BY <1>1, BillingAssumption DEF TInv, TypeOK
<1>4. TypeOK'
  BY <1>1, <1>2, <1>3 DEF TInv, TypeOK, handlers, counters
<1>5. NewIsBlank'
  BY <1>1 DEF TInv, NewIsBlank, handlers
<1>6. LiveHasRow'
  BY <1>1, <1>2 DEF TInv, TypeOK, LiveHasRow, Live, handlers
<1>7. QED
  BY <1>4, <1>5, <1>6 DEF TInv

LEMMA CrashKeepsTypes ==
    ASSUME TInv, NEW l \in [Users -> Int], NEW w \in [Users -> 0 .. Window],
           DieAndRestart(l, w)
    PROVE  TInv'
<1>1. PICK down \in 0 .. Window :
        LET seen == {u \in Users : w[u] > down} IN
        /\ cache' = Reconciled(seen, l, inflight')
        /\ recent' = [u \in Users |-> IF u \in seen THEN w[u] - down - 1 ELSE 0]
        /\ suspect' = {u \in Users \ seen : cache[u] # NoRow}
  BY DEF DieAndRestart
<1>2. /\ pc' = [r \in Requests |-> IF Live(r) THEN "killed" ELSE pc[r]]
      /\ ledger' = l
      /\ inflight' = [u \in Users |-> 0]
      /\ crashes' = crashes + 1
      /\ UNCHANGED <<owner, est, conn, settles, charged, grants>>
  BY DEF DieAndRestart
<1>3. inflight' \in [Users -> Nat]
  BY <1>2
<1>4. cache' \in [Users -> Int \cup {NoRow}]
  BY <1>1, <1>3, ReconciledTypes DEF TInv
<1>5. recent' \in [Users -> 0 .. Window]
  <2>1. SUFFICES ASSUME NEW u \in Users
                 PROVE  (IF w[u] > down THEN w[u] - down - 1 ELSE 0) \in 0 .. Window
    BY <1>1
  <2>2. w[u] \in 0 .. Window /\ down \in 0 .. Window /\ Window \in Nat
    BY BillingAssumption
  <2>3. QED
    BY <2>2
<1>6. suspect' \subseteq Users
  BY <1>1
<1>7. /\ pc' \in [Requests -> {"new", "calling", "streaming", "done", "refused", "killed"}]
      /\ \A r \in Requests : ~ Live(r)' /\ (pc'[r] = "new" => pc[r] = "new")
  BY <1>2 DEF TInv, TypeOK, Live
<1>8. TypeOK'
  BY <1>2, <1>3, <1>4, <1>5, <1>6, <1>7 DEF TInv, TypeOK
<1>9. NewIsBlank'
  BY <1>2, <1>7 DEF TInv, NewIsBlank
<1>10. LiveHasRow'
  BY <1>7 DEF LiveHasRow
<1>11. QED
  BY <1>8, <1>9, <1>10 DEF TInv

\* The steps that are not of a handler under way, in which no request is
\* settled.
OtherStep ==
    \/ \E r \in Requests, u \in Users, e \in Estimates, s \in BOOLEAN : Admit(r, u, e, s)
    \/ \E r \in Requests, u \in Users, e \in Estimates : Refuse(r, u, e)
    \/ \E r \in Requests, e \in Estimates, s \in BOOLEAN : AdmitAnonymous(r, e, s)
    \/ \E u \in Users : ViewBilling(u) \/ \E d \in Deltas : Grant(u, d)
    \/ SettlementRun
    \/ \E l \in [Users -> Int], w \in [Users -> 0 .. Window] : DieAndRestart(l, w)

\* There are no others.
LEMMA NextCases ==
    ASSUME TypeOK, Next
    PROVE  (\E r \in Requests : HandlerStep(r)) \/ OtherStep
<1> DEFINE Goal == \E l \in [Users -> Int], w \in [Users -> 0 .. Window] : DieAndRestart(l, w)
<1>1. CASE Crash
  BY <1>1 DEF Crash, TypeOK, OtherStep
<1>2. ASSUME NEW u \in Users, NEW d \in Deltas, CrashInGrant(u, d)
      PROVE  Goal
  <2>1. /\ [ledger EXCEPT ![u] = @ + d] \in [Users -> Int]
        /\ [recent EXCEPT ![u] = Window] \in [Users -> 0 .. Window]
    BY BillingAssumption DEF TypeOK
  <2>2. QED
    BY <1>2, <2>1 DEF CrashInGrant
<1>3. ASSUME NEW r \in Requests, NEW c \in Costs, CrashInSettle(r, c)
      PROVE  Goal
  <2>1. owner[r] \in Users
    BY <1>3 DEF CrashInSettle, TypeOK
  <2>2. /\ [ledger EXCEPT ![owner[r]] = @ - c] \in [Users -> Int]
        /\ [recent EXCEPT ![owner[r]] = Window] \in [Users -> 0 .. Window]
    BY <2>1, BillingAssumption DEF TypeOK
  <2>3. QED
    BY <1>3, <2>2 DEF CrashInSettle
<1>4. CASE \/ \E r \in Requests : \E c \in Costs : CrashInSettle(r, c)
           \/ \E u \in Users : \E d \in Deltas : CrashInGrant(u, d)
           \/ Crash
  BY <1>1, <1>2, <1>3, <1>4 DEF OtherStep
<1>5. CASE \E r \in Requests :
             \/ FetchFails(r)
             \/ ClientError(r)
             \/ StreamStarts(r)
             \/ StreamFails(r)
             \/ \E f \in BOOLEAN : Chunk(r, f)
             \/ \E c \in Costs : Answer(r, c) \/ StreamEnds(r, c)
  BY <1>5, HandlerSteps
<1>6. QED
  BY <1>4, <1>5 DEF Next, OtherStep

\* TInv is inductive.
LEMMA TypeStep == TInv /\ [Next]_vars => TInv'
<1> SUFFICES ASSUME TInv, [Next]_vars
             PROVE  TInv'
  OBVIOUS
<1>1. CASE UNCHANGED vars
  BY <1>1 DEF TInv, TypeOK, NewIsBlank, LiveHasRow, Live, vars, handlers, money, counters
<1>2. CASE Next
  <2>1. TypeOK
    BY DEF TInv
  <2>2. QED
    BY <1>2, <2>1, NextCases, HandlerKeepsTypes, AdmitKeepsTypes, RefuseKeepsTypes,
       AdmitAnonymousKeepsTypes, WritersKeepTypes, SettlementRunKeepsTypes, CrashKeepsTypes
       DEF OtherStep
<1>3. QED
  BY <1>1, <1>2

LEMMA TypeInit == Init => TInv
<1> SUFFICES ASSUME Init
             PROVE  TInv
  OBVIOUS
<1>1. NoConn \in Conn
  BY BillingAssumption DEF NoConn, Conn
<1>2. QED
  BY <1>1, BillingAssumption DEF Init, TInv, TypeOK, NewIsBlank, LiveHasRow, Live

\* Whatever the users, requests, estimates and costs: no estimate in flight
\* is ever negative, a balance row stays a number once precheck has written
\* it, and every handler is in a state the code has.
THEOREM TypeCorrect == Spec => []TypeOK
<1>1. TInv => TypeOK
  BY DEF TInv
<1>2. QED
  BY TypeInit, TypeStep, <1>1, PTL DEF Spec

-----------------------------------------------------------------------------
(* The cache row against the ledger *)

\* What the cache row and the estimates of u exceed the ledger by.
Gap(u) == cache[u] + inflight[u] - ledger[u]

\* A step that settles nothing leaves the gap of a user alone or closes it.
LEMMA OtherStepGap ==
    ASSUME TInv, OtherStep, NEW u \in Users, u \notin suspect', cache'[u] # NoRow
    PROVE  \/ Gap(u)' = 0
           \/ u \notin suspect /\ cache[u] # NoRow /\ Gap(u)' = Gap(u)
<1> USE DEF Gap
<1>1. ASSUME NEW r \in Requests, NEW v \in Users, NEW e \in Estimates, NEW s \in BOOLEAN,
             Admit(r, v, e, s)
      PROVE  \/ Gap(u)' = 0
             \/ u \notin suspect /\ cache[u] # NoRow /\ Gap(u)' = Gap(u)
  <2>1. e \in Nat
    BY BillingAssumption
  <2>2. /\ cache' = [cache EXCEPT ![v] = CachedOrRecomputed(v) - e]
        /\ inflight' = [inflight EXCEPT ![v] = @ + e]
        /\ suspect' = IF cache[v] = NoRow THEN suspect \ {v} ELSE suspect
        /\ ledger' = ledger
    BY <1>1 DEF Admit, Hold
  <2>3. CASE u # v
    BY <2>2, <2>3 DEF TInv, TypeOK
  <2>4. CASE u = v /\ cache[v] = NoRow
    <3>1. cache'[u] = ledger[u] - inflight[u] - e /\ inflight'[u] = inflight[u] + e
      BY <2>2, <2>4 DEF CachedOrRecomputed, Recomputed, TInv, TypeOK
    <3>2. QED
      BY <2>1, <2>2, <3>1 DEF TInv, TypeOK
  <2>5. CASE u = v /\ cache[v] # NoRow
    <3>1. /\ cache'[u] = cache[u] - e /\ inflight'[u] = inflight[u] + e
          /\ suspect' = suspect /\ cache[u] \in Int
      BY <2>2, <2>5 DEF CachedOrRecomputed, TInv, TypeOK
    <3>2. QED
      BY <2>1, <2>2, <2>5, <3>1 DEF TInv, TypeOK
  <2>6. QED
    BY <2>3, <2>4, <2>5
<1>2. CASE \E r \in Requests, v \in Users, e \in Estimates : Refuse(r, v, e)
  BY <1>2 DEF Refuse, RecomputeUser, Recomputed, TInv, TypeOK
<1>3. CASE \E r \in Requests, e \in Estimates, s \in BOOLEAN : AdmitAnonymous(r, e, s)
  BY <1>3 DEF AdmitAnonymous, money
<1>4. CASE \E v \in Users : ViewBilling(v)
  BY <1>4 DEF ViewBilling, RecomputeUser, Recomputed, TInv, TypeOK
<1>5. CASE \E v \in Users, d \in Deltas : Grant(v, d)
  <2>1. PICK v \in Users, d \in Deltas : Grant(v, d)
    BY <1>5
  <2>2. d \in Int
    BY BillingAssumption
  <2>3. QED
    BY <2>1, <2>2 DEF Grant, RecomputeUser, Recomputed, TInv, TypeOK
<1>6. CASE SettlementRun
  BY <1>6 DEF SettlementRun, Reconciled, Recomputed, TInv, TypeOK
<1>7. ASSUME NEW l \in [Users -> Int], NEW w \in [Users -> 0 .. Window], DieAndRestart(l, w)
      PROVE  Gap(u)' = 0
  <2>1. PICK down \in 0 .. Window :
          /\ cache' = Reconciled({v \in Users : w[v] > down}, l, inflight')
          /\ suspect' = {v \in Users \ {x \in Users : w[x] > down} : cache[v] # NoRow}
    BY <1>7 DEF DieAndRestart
  <2>2. ledger' = l /\ inflight' = [v \in Users |-> 0]
    BY <1>7 DEF DieAndRestart
  <2>3. w[u] > down
    BY <2>1 DEF Reconciled
  <2>4. cache'[u] = l[u] - 0
    BY <2>1, <2>2, <2>3 DEF Reconciled, Recomputed
  <2>5. QED
    BY <2>2, <2>4
<1>8. QED
  BY <1>1, <1>2, <1>3, <1>4, <1>5, <1>6, <1>7 DEF OtherStep

\* A settlement of at least what is in flight opens a gap in favour of the
\* user; any other leaves it alone.
LEMMA HandlerStepGap ==
    ASSUME TInv, NEW r \in Requests, HandlerStep(r), NEW u \in Users, cache'[u] # NoRow
    PROVE  /\ suspect' = suspect
           /\ cache[u] # NoRow
           /\ Gap(u)' >= Gap(u)
           /\ \/ Gap(u)' = Gap(u)
              \/ /\ owner[r] = u
                 /\ \E n \in 1 .. 2, c \in Nat : Settle(r, n, c) /\ n * est[r] > inflight[u]
<1> USE DEF Gap
<1>1. CASE UNCHANGED <<money, settles, charged>>
  BY <1>1 DEF money, TInv, TypeOK
<1>2. ASSUME NEW n \in 1 .. 2, NEW c \in Nat, Settle(r, n, c)
      PROVE  /\ suspect' = suspect
             /\ cache[u] # NoRow
             /\ Gap(u)' >= Gap(u)
             /\ Gap(u)' = Gap(u) \/ (owner[r] = u /\ n * est[r] > inflight[u])
  <2>1. CASE owner[r] # u
    BY <1>2, <2>1 DEF Settle, money, TInv, TypeOK
  <2>2. CASE owner[r] = u
    <3>1. owner[r] # NoUser
      BY <2>2, BillingAssumption
    <3>2. cache[u] \in Int /\ n * est[r] \in Nat /\ inflight[u] \in Nat /\ ledger[u] \in Int
      BY <2>2, <3>1 DEF HandlerStep, TInv, TypeOK, LiveHasRow
    <3>3. /\ ledger' = [ledger EXCEPT ![u] = @ - c]
          /\ inflight' = [inflight EXCEPT ![u] = Released(@, n * est[r])]
          /\ cache' = [cache EXCEPT ![u] = @ + Correction(n * est[r], c)]
          /\ suspect' = suspect
      BY <1>2, <2>2, <3>1 DEF Settle
    <3>4. /\ ledger'[u] = ledger[u] - c
          /\ inflight'[u] = Monus(inflight[u], n * est[r])
          /\ cache'[u] = cache[u] + (n * est[r] - c)
      BY <3>3 DEF TInv, TypeOK, Released, Correction
    <3>5. cache[u] # NoRow /\ suspect' = suspect
      BY <3>2, <3>3, BillingAssumption
    <3>6. CASE n * est[r] <= inflight[u]
      <4>1. inflight'[u] = inflight[u] - n * est[r]
        BY <3>2, <3>4, <3>6, MonusFacts
      <4>2. Gap(u)' = Gap(u)
        BY <3>2, <3>4, <4>1
      <4>3. QED
        BY <3>2, <3>5, <4>2
    <3>7. CASE n * est[r] > inflight[u]
      <4>1. inflight'[u] = 0
        BY <3>2, <3>4, <3>7 DEF Monus
      <4>2. Gap(u)' >= Gap(u)
        BY <3>2, <3>4, <3>7, <4>1
      <4>3. QED
        BY <2>2, <3>5, <3>7, <4>2
    <3>8. QED
      BY <3>2, <3>6, <3>7
  <2>3. QED
    BY <2>1, <2>2
<1>3. QED
  BY <1>1, <1>2 DEF HandlerStep

\* A user never has less than the ledger says, whatever the order of the
\* steps and even when a request is settled more than once.
LEMMA ShortchangedStep == TInv /\ NeverShortchanged /\ [Next]_vars => NeverShortchanged'
<1> SUFFICES ASSUME TInv, NeverShortchanged, [Next]_vars,
                    NEW u \in Users, u \notin suspect', cache'[u] # NoRow
             PROVE  cache'[u] + inflight'[u] >= ledger'[u]
  BY DEF NeverShortchanged
<1>1. TInv'
  BY TypeStep
<1>2. cache'[u] \in Int /\ inflight'[u] \in Nat /\ ledger'[u] \in Int
  BY <1>1 DEF TInv, TypeOK
<1>3. ASSUME u \notin suspect, cache[u] # NoRow
      PROVE  Gap(u) \in Int /\ Gap(u) >= 0
  BY <1>3 DEF Gap, TInv, TypeOK, NeverShortchanged
<1>4. Gap(u)' >= 0
  <2>1. CASE UNCHANGED vars
    BY <1>3, <2>1 DEF vars, money, Gap
  <2>2. CASE OtherStep
    BY <1>3, <2>2, OtherStepGap
  <2>3. ASSUME NEW r \in Requests, HandlerStep(r)
        PROVE  Gap(u)' >= 0
    <3>1. u \notin suspect /\ cache[u] # NoRow /\ Gap(u)' >= Gap(u)
      BY <2>3, HandlerStepGap
    <3>2. Gap(u)' \in Int
      BY <1>2 DEF Gap
    <3>3. QED
      BY <1>3, <3>1, <3>2
  <2>4. QED
    BY <2>1, <2>2, <2>3, NextCases DEF TInv
<1>5. QED
  BY <1>2, <1>4 DEF Gap

\* An error of the gateway, a request settled twice included, is never at
\* the expense of the user: the row in llm_balance_cache plus the estimates
\* in flight is at least the ledger.
THEOREM NeverShortchangedHolds == Spec => []NeverShortchanged
<1>1. Init => NeverShortchanged
  BY DEF Init, NeverShortchanged
<1>2. QED
  BY TypeInit, TypeStep, ShortchangedStep, <1>1, PTL DEF Spec

-----------------------------------------------------------------------------
(* The estimates in flight *)

\* A request that is not among the holders adds its block of tokens, and
\* taking it away removes the block.
TokensOf(H, e) == UNION {{r} \X (1 .. e[r]) : r \in H}

LEMMA BlockOfTokens ==
    ASSUME NEW r, NEW n \in Nat
    PROVE  IsFiniteSet({r} \X (1 .. n)) /\ Cardinality({r} \X (1 .. n)) = n
<1>1. IsFiniteSet({r}) /\ Cardinality({r}) = 1
  BY FS_Singleton
<1>2. IsFiniteSet(1 .. n) /\ Cardinality(1 .. n) = n
  BY FS_Interval
<1>3. /\ IsFiniteSet({r} \X (1 .. n))
      /\ Cardinality({r} \X (1 .. n)) = Cardinality({r}) * Cardinality(1 .. n)
  BY <1>1, <1>2, FS_Product, Zenon
<1>4. QED
  BY <1>1, <1>2, <1>3

LEMMA AddBlock ==
    ASSUME NEW H, NEW r, r \notin H, NEW G, G = H \cup {r}, NEW e1, NEW e2,
           \A q \in H : e1[q] = e2[q], e2[r] \in Nat
    PROVE  /\ IsFiniteSet(TokensOf(G, e2)) <=> IsFiniteSet(TokensOf(H, e1))
           /\ IsFiniteSet(TokensOf(H, e1)) =>
                Cardinality(TokensOf(G, e2)) = Cardinality(TokensOf(H, e1)) + e2[r]
<1> DEFINE old == TokensOf(H, e1)
           block == {r} \X (1 .. e2[r])
<1>1. TokensOf(G, e2) = old \cup block
  BY DEF TokensOf
<1>2. old \cap block = {}
  BY DEF TokensOf
<1>3. IsFiniteSet(block) /\ Cardinality(block) = e2[r]
  BY BlockOfTokens
<1> HIDE DEF old, block
<1>4. ASSUME IsFiniteSet(old)
      PROVE  IsFiniteSet(old \cup block) /\ Cardinality(old \cup block) = Cardinality(old) + e2[r]
  <2>1. /\ IsFiniteSet(old \cup block)
        /\ Cardinality(old \cup block) =
             Cardinality(old) + Cardinality(block) - Cardinality(old \cap block)
    BY <1>3, <1>4, FS_Union
  <2>2. Cardinality(old \cap block) = 0
    BY <1>2, FS_EmptySet
  <2>3. Cardinality(old) \in Nat
    BY <1>4, FS_CardinalityType
  <2>4. QED
    BY <1>3, <2>1, <2>2, <2>3
<1>5. ASSUME IsFiniteSet(old \cup block)
      PROVE  IsFiniteSet(old)
  BY <1>5, FS_Subset
<1>6. QED
  BY <1>1, <1>4, <1>5 DEF old

\* A user with a request settled twice stays one.
LEMMA DoubleSettledStays ==
    ASSUME TInv, Next, NEW u \in Users, DoubleSettled(u)
    PROVE  DoubleSettled(u)'
<1>1. PICK r \in Requests : owner[r] = u /\ settles[r] > 1
  BY DEF DoubleSettled
<1>2. pc[r] # "new"
  BY <1>1 DEF TInv, TypeOK, NewIsBlank
<1>3. CASE OtherStep
  <2>1. settles' = settles
    BY <1>3 DEF OtherStep, Admit, Refuse, AdmitAnonymous, ViewBilling, Grant, SettlementRun,
                DieAndRestart
  <2>2. owner'[r] = owner[r]
    BY <1>2, <1>3 DEF OtherStep, Admit, Refuse, AdmitAnonymous, ViewBilling, Grant,
                      SettlementRun, DieAndRestart, handlers, TInv, TypeOK
  <2>3. QED
    BY <1>1, <2>1, <2>2 DEF DoubleSettled
<1>4. CASE \E q \in Requests : HandlerStep(q)
  <2>1. PICK q \in Requests : HandlerStep(q)
    BY <1>4
  <2>2. owner' = owner /\ settles'[r] >= settles[r]
    BY <2>1 DEF HandlerStep, Settle, TInv, TypeOK
  <2>3. settles[r] \in Nat /\ settles'[r] \in Nat
    BY <2>1, HandlerKeepsTypes DEF TInv, TypeOK
  <2>4. QED
    BY <1>1, <2>2, <2>3 DEF DoubleSettled
<1>5. QED
  BY <1>3, <1>4, NextCases DEF TInv

\* A step that settles nothing leaves the holders of a user alone, adds one
\* with its estimate, or removes them all with the process.
LEMMA OtherStepHolders ==
    ASSUME TInv, OtherStep, NEW u \in Users
    PROVE  \/ /\ HoldersOf(u)' = HoldersOf(u)
              /\ inflight'[u] = inflight[u]
              /\ \A q \in HoldersOf(u) : est'[q] = est[q]
           \/ \E r \in Requests :
                /\ r \notin HoldersOf(u) /\ est'[r] \in Nat
                /\ HoldersOf(u)' = HoldersOf(u) \cup {r}
                /\ inflight'[u] = inflight[u] + est'[r]
                /\ \A q \in HoldersOf(u) : est'[q] = est[q]
           \/ HoldersOf(u)' = {} /\ inflight'[u] = 0
<1> USE DEF HoldersOf, Live, TInv, TypeOK
<1>1. ASSUME NEW r \in Requests, NEW v \in Users, NEW e \in Estimates, NEW s \in BOOLEAN,
             Admit(r, v, e, s)
      PROVE  \/ /\ HoldersOf(u)' = HoldersOf(u)
                /\ inflight'[u] = inflight[u]
                /\ \A q \in HoldersOf(u) : est'[q] = est[q]
             \/ /\ r \notin HoldersOf(u) /\ est'[r] \in Nat
                /\ HoldersOf(u)' = HoldersOf(u) \cup {r}
                /\ inflight'[u] = inflight[u] + est'[r]
                /\ \A q \in HoldersOf(u) : est'[q] = est[q]
  <2>1. /\ r \notin HoldersOf(u)
        /\ est'[r] = e /\ e \in Nat
        /\ \A q \in HoldersOf(u) : est'[q] = est[q]
        /\ settles[r] = 0 /\ settles' = settles
    BY <1>1, BillingAssumption DEF Admit, NewIsBlank
  <2>2. /\ pc' = [pc EXCEPT ![r] = "calling"]
        /\ owner' = [owner EXCEPT ![r] = v]
        /\ inflight' = [inflight EXCEPT ![v] = @ + e]
    BY <1>1 DEF Admit, Hold
  <2>3. CASE u = v
    BY <2>1, <2>2, <2>3
  <2>4. CASE u # v
    BY <2>1, <2>2, <2>4
  <2>5. QED
    BY <2>3, <2>4
<1>2. CASE \E r \in Requests, v \in Users, e \in Estimates : Refuse(r, v, e)
  BY <1>2 DEF Refuse
<1>3. CASE \E r \in Requests, e \in Estimates, s \in BOOLEAN : AdmitAnonymous(r, e, s)
  BY <1>3, BillingAssumption DEF AdmitAnonymous, NewIsBlank, money
<1>4. CASE \/ \E v \in Users : ViewBilling(v) \/ \E d \in Deltas : Grant(v, d)
           \/ SettlementRun
  BY <1>4 DEF ViewBilling, Grant, SettlementRun, handlers
<1>5. CASE \E l \in [Users -> Int], w \in [Users -> 0 .. Window] : DieAndRestart(l, w)
  BY <1>5 DEF DieAndRestart
<1>6. QED
  BY <1>1, <1>2, <1>3, <1>4, <1>5 DEF OtherStep

\* A step of a handler leaves the holders of a user alone, or takes the
\* handler's request away with its estimate; then the request is settled, and
\* if that was not its first settlement the user is marked.
LEMMA HandlerStepHolders ==
    ASSUME TInv, NEW r \in Requests, HandlerStep(r), NEW u \in Users, ~ DoubleSettled(u)'
    PROVE  /\ est' = est
           /\ \/ HoldersOf(u)' = HoldersOf(u) /\ inflight'[u] = inflight[u]
              \/ /\ r \in HoldersOf(u)
                 /\ HoldersOf(u)' = HoldersOf(u) \ {r}
                 /\ inflight'[u] = Monus(inflight[u], est[r])
<1> USE DEF TInv, TypeOK
<1>1. est' = est /\ owner' = owner
  BY DEF HandlerStep
<1>2. \A q \in Requests : q # r => pc'[q] = pc[q]
  BY DEF HandlerStep
<1>3. CASE UNCHANGED <<money, settles, charged>> /\ Live(r)'
  <2>1. \A q \in Requests : Live(q)' <=> Live(q)
    BY <1>2, <1>3 DEF HandlerStep, Live
  <2>2. QED
    BY <1>1, <1>3, <2>1 DEF HoldersOf, money
<1>4. ASSUME NEW n \in 1 .. 2, NEW c \in Nat, Settle(r, n, c)
      PROVE  \/ HoldersOf(u)' = HoldersOf(u) /\ inflight'[u] = inflight[u]
             \/ /\ r \in HoldersOf(u)
                /\ HoldersOf(u)' = HoldersOf(u) \ {r}
                /\ inflight'[u] = Monus(inflight[u], est[r])
  <2>1. settles' = [settles EXCEPT ![r] = @ + n]
    BY <1>4 DEF Settle
  <2>2. \A q \in Requests : q # r => (Live(q)' <=> Live(q)) /\ settles'[q] = settles[q]
    BY <1>2, <2>1 DEF Live
  <2>3. CASE owner[r] # u
    <3>1. inflight'[u] = inflight[u]
      BY <1>4, <2>3 DEF Settle, money
    <3>2. QED
      BY <1>1, <2>2, <2>3, <3>1 DEF HoldersOf
  <2>4. CASE owner[r] = u
    <3>1. settles[r] + n <= 1
      BY <1>1, <2>1, <2>4 DEF DoubleSettled
    <3>2. settles[r] = 0 /\ n = 1 /\ settles'[r] = 1
      BY <2>1, <3>1
    <3>3. inflight'[u] = Monus(inflight[u], est[r])
      <4>1. inflight'[u] = Monus(inflight[u], n * est[r])
        BY <1>4, <2>4, BillingAssumption DEF Settle, Released
      <4>2. QED
        BY <3>2, <4>1
    <3>4. r \in HoldersOf(u)
      BY <2>4, <3>2 DEF HoldersOf, HandlerStep
    <3>5. HoldersOf(u)' = HoldersOf(u) \ {r}
      BY <1>1, <2>2, <3>2 DEF HoldersOf
    <3>6. QED
      BY <3>3, <3>4, <3>5
  <2>5. QED
    BY <2>3, <2>4
<1>5. QED
  BY <1>1, <1>3, <1>4 DEF HandlerStep

\* The tokens are finitely many, so that they can be counted.
FiniteTokens == \A u \in Users : ~ DoubleSettled(u) => IsFiniteSet(HeldTokens(u))

\* The estimates in flight are inductive together with the finiteness of the
\* tokens.
HoldInv == TInv /\ FiniteTokens /\ InFlightIsOutstanding

LEMMA HeldTokensOf == \A u \in Users : /\ HeldTokens(u) = TokensOf(HoldersOf(u), est)
                                       /\ HeldTokens(u)' = TokensOf(HoldersOf(u)', est')
BY DEF HeldTokens, TokensOf

\* The ways in which holders H with estimates e and their sum f change.
Moves(H, e, f, H2, e2, f2) ==
    /\ \A q \in H \cap H2 : e2[q] = e[q]
    /\ \/ H2 = H /\ f2 = f
       \/ \E r : r \notin H /\ e2[r] \in Nat /\ H2 = H \cup {r} /\ f2 = f + e2[r]
       \/ \E r \in H : e[r] \in Nat /\ H2 = H \ {r} /\ f2 = Monus(f, e[r])
       \/ H2 = {} /\ f2 = 0

\* They keep the count.
LEMMA CountKept ==
    ASSUME NEW H, NEW e, NEW f \in Nat, NEW H2, NEW e2, NEW f2,
           IsFiniteSet(TokensOf(H, e)), f = Cardinality(TokensOf(H, e)),
           Moves(H, e, f, H2, e2, f2)
    PROVE  IsFiniteSet(TokensOf(H2, e2)) /\ f2 = Cardinality(TokensOf(H2, e2))
<1> USE DEF Moves
<1>1. CASE H2 = H /\ f2 = f
  <2>1. TokensOf(H2, e2) = TokensOf(H, e)
    BY <1>1 DEF TokensOf
  <2>2. QED
    BY <1>1, <2>1
<1>2. CASE \E r : r \notin H /\ e2[r] \in Nat /\ H2 = H \cup {r} /\ f2 = f + e2[r]
  <2>1. PICK r : r \notin H /\ e2[r] \in Nat /\ H2 = H \cup {r} /\ f2 = f + e2[r]
    BY <1>2
  <2>2. \A q \in H : e[q] = e2[q]
    BY <2>1
  <2>3. /\ IsFiniteSet(TokensOf(H2, e2)) <=> IsFiniteSet(TokensOf(H, e))
        /\ IsFiniteSet(TokensOf(H, e)) =>
             Cardinality(TokensOf(H2, e2)) = Cardinality(TokensOf(H, e)) + e2[r]
    BY <2>1, <2>2, AddBlock
  <2>4. QED
    BY <2>1, <2>3
<1>3. CASE \E r \in H : e[r] \in Nat /\ H2 = H \ {r} /\ f2 = Monus(f, e[r])
  <2>1. PICK r \in H : e[r] \in Nat /\ H2 = H \ {r} /\ f2 = Monus(f, e[r])
    BY <1>3
  <2>2. r \notin H2 /\ H = H2 \cup {r} /\ \A q \in H2 : e2[q] = e[q]
    BY <2>1
  <2>3. /\ IsFiniteSet(TokensOf(H, e)) <=> IsFiniteSet(TokensOf(H2, e2))
        /\ IsFiniteSet(TokensOf(H2, e2)) =>
             Cardinality(TokensOf(H, e)) = Cardinality(TokensOf(H2, e2)) + e[r]
    BY <2>1, <2>2, AddBlock
  <2>4. Cardinality(TokensOf(H2, e2)) \in Nat
    BY <2>3, FS_CardinalityType
  <2>5. f = Cardinality(TokensOf(H2, e2)) + e[r]
    BY <2>3
  <2>6. Monus(f, e[r]) = Cardinality(TokensOf(H2, e2))
    BY <2>1, <2>4, <2>5 DEF Monus
  <2>7. QED
    BY <2>1, <2>3, <2>6
<1>4. CASE H2 = {} /\ f2 = 0
  <2>1. TokensOf(H2, e2) = {}
    BY <1>4 DEF TokensOf
  <2>2. QED
    BY <1>4, <2>1, FS_EmptySet
<1>5. QED
  BY <1>1, <1>2, <1>3, <1>4

LEMMA HoldStep == HoldInv /\ [Next]_vars => HoldInv'
<1> SUFFICES ASSUME HoldInv, [Next]_vars
             PROVE  HoldInv'
  OBVIOUS
<1>1. TInv /\ TInv'
  BY TypeStep DEF HoldInv
<1>2. CASE UNCHANGED vars
  BY <1>1, <1>2 DEF HoldInv, FiniteTokens, InFlightIsOutstanding, DoubleSettled, Outstanding,
                    HeldTokens, HoldersOf, Live, vars, handlers, money
<1>3. ASSUME Next, NEW u \in Users, ~ DoubleSettled(u)'
      PROVE  IsFiniteSet(HeldTokens(u)') /\ inflight'[u] = Cardinality(HeldTokens(u)')
  <2>1. /\ IsFiniteSet(TokensOf(HoldersOf(u), est))
        /\ inflight[u] \in Nat /\ inflight[u] = Cardinality(TokensOf(HoldersOf(u), est))
    BY <1>1, <1>3, DoubleSettledStays, HeldTokensOf
       DEF HoldInv, FiniteTokens, InFlightIsOutstanding, Outstanding, TInv, TypeOK
  <2> DEFINE H == HoldersOf(u)
             H2 == HoldersOf(u)'
             e2 == est'
             f2 == inflight'[u]
             Change == Moves(H, est, inflight[u], H2, e2, f2)
  <2>2. ASSUME OtherStep
        PROVE  Change
    BY <1>1, <2>2, OtherStepHolders DEF Moves
  <2>3. ASSUME NEW r \in Requests, HandlerStep(r)
        PROVE  Change
    <3>1. est[r] \in Nat
      BY <1>1 DEF TInv, TypeOK
    <3>2. QED
      BY <1>1, <1>3, <2>3, <3>1, HandlerStepHolders DEF Moves
  <2>4. Change
    BY <1>1, <1>3, <2>2, <2>3, NextCases DEF TInv
  <2> HIDE DEF H, H2, e2, f2
  <2>5. /\ IsFiniteSet(TokensOf(H, est))
        /\ inflight[u] \in Nat /\ inflight[u] = Cardinality(TokensOf(H, est))
    BY <2>1 DEF H
  <2>6. IsFiniteSet(TokensOf(H2, e2)) /\ f2 = Cardinality(TokensOf(H2, e2))
    BY <2>4, <2>5, CountKept
  <2>7. QED
    BY <2>6, HeldTokensOf DEF H2, e2, f2
<1>4. CASE Next
  BY <1>1, <1>3, <1>4 DEF HoldInv, FiniteTokens, InFlightIsOutstanding, Outstanding
<1>5. QED
  BY <1>2, <1>4

LEMMA HoldInit == Init => HoldInv
<1> SUFFICES ASSUME Init
             PROVE  HoldInv
  OBVIOUS
<1>1. TInv
  BY TypeInit
<1>2. \A u \in Users : HeldTokens(u) = {} /\ inflight[u] = 0
  BY DEF Init, HeldTokens, HoldersOf, Live
<1>3. QED
  BY <1>1, <1>2, FS_EmptySet DEF HoldInv, FiniteTokens, InFlightIsOutstanding, Outstanding

\* inFlightEstimate is the sum of the estimates of the requests under way,
\* for any number of users and requests in any order: no way of ending a
\* request, and no crash, leaks a hold or gives back somebody else's.
THEOREM InFlightIsOutstandingHolds == Spec => []InFlightIsOutstanding
<1>1. HoldInv => InFlightIsOutstanding
  BY DEF HoldInv
<1>2. QED
  BY HoldInit, HoldStep, <1>1, PTL DEF Spec

-----------------------------------------------------------------------------
(* The cache row is exact *)

IInv == HoldInv /\ CacheIsLedgerMinusHolds

\* The first settlement of a request finds its estimate in flight.
LEMMA FirstSettlementCovered ==
    ASSUME HoldInv, NEW r \in Requests, HandlerStep(r), NEW n \in 1 .. 2, NEW c \in Nat,
           Settle(r, n, c), NEW u \in Users, owner[r] = u, ~ DoubleSettled(u)'
    PROVE  n * est[r] <= inflight[u]
<1> USE DEF TInv, TypeOK
<1>1. TInv
  BY DEF HoldInv
<1>2. settles' = [settles EXCEPT ![r] = @ + n] /\ owner' = owner /\ Live(r)
  BY DEF Settle, HandlerStep
<1>3. settles'[r] <= 1
  BY <1>1, <1>2 DEF DoubleSettled
<1>4. settles[r] = 0 /\ n = 1
  BY <1>1, <1>2, <1>3
<1>5. r \in HoldersOf(u)
  BY <1>2, <1>4 DEF HoldersOf
<1>6. ~ DoubleSettled(u)
  BY <1>1, <1>2, <1>4 DEF DoubleSettled
<1>7. /\ IsFiniteSet(TokensOf(HoldersOf(u), est))
      /\ inflight[u] = Cardinality(TokensOf(HoldersOf(u), est))
  BY <1>6, HeldTokensOf DEF HoldInv, FiniteTokens, InFlightIsOutstanding, Outstanding
<1>8. est[r] \in Nat
  BY <1>1
<1>9. {r} \X (1 .. est[r]) \subseteq TokensOf(HoldersOf(u), est)
  BY <1>5 DEF TokensOf
<1>10. Cardinality({r} \X (1 .. est[r])) <= Cardinality(TokensOf(HoldersOf(u), est))
  BY <1>7, <1>9, FS_Subset
<1>11. est[r] <= inflight[u]
  BY <1>7, <1>8, <1>10, BlockOfTokens
<1>12. QED
  BY <1>4, <1>8, <1>11

LEMMA CacheStep == IInv /\ [Next]_vars => IInv'
<1> SUFFICES ASSUME IInv, [Next]_vars
             PROVE  IInv'
  OBVIOUS
<1>1. HoldInv /\ HoldInv' /\ TInv /\ TInv'
  BY HoldStep DEF IInv, HoldInv
<1>2. ASSUME NEW u \in Users, u \notin suspect', ~ DoubleSettled(u)', cache'[u] # NoRow
      PROVE  cache'[u] + inflight'[u] = ledger'[u]
  <2>1. cache'[u] \in Int /\ inflight'[u] \in Nat /\ ledger'[u] \in Int
    BY <1>1, <1>2 DEF TInv, TypeOK
  <2>2. ASSUME u \notin suspect, ~ DoubleSettled(u), cache[u] # NoRow
        PROVE  Gap(u) = 0
    <3>1. cache[u] \in Int /\ inflight[u] \in Nat /\ ledger[u] \in Int
      BY <1>1, <2>2 DEF TInv, TypeOK
    <3>2. cache[u] + inflight[u] = ledger[u]
      BY <2>2 DEF IInv, CacheIsLedgerMinusHolds
    <3>3. QED
      BY <3>1, <3>2 DEF Gap
  <2>3. Gap(u)' = 0
    <3>1. CASE UNCHANGED vars
      BY <1>2, <2>2, <3>1 DEF vars, money, handlers, Gap, DoubleSettled
    <3>2. CASE Next
      <4>1. ~ DoubleSettled(u)
        BY <1>1, <1>2, <3>2, DoubleSettledStays
      <4>2. CASE OtherStep
        BY <1>1, <1>2, <2>2, <4>1, <4>2, OtherStepGap
      <4>3. ASSUME NEW r \in Requests, HandlerStep(r)
            PROVE  Gap(u)' = 0
        <5>1. /\ suspect' = suspect /\ cache[u] # NoRow
              /\ \/ Gap(u)' = Gap(u)
                 \/ /\ owner[r] = u
                    /\ \E n \in 1 .. 2, c \in Nat : Settle(r, n, c) /\ n * est[r] > inflight[u]
          BY <1>1, <1>2, <4>3, HandlerStepGap
        <5>2. ASSUME NEW n \in 1 .. 2, NEW c \in Nat, Settle(r, n, c), owner[r] = u
              PROVE  ~ (n * est[r] > inflight[u])
          <6>1. n * est[r] <= inflight[u]
            BY <1>1, <1>2, <4>3, <5>2, FirstSettlementCovered
          <6>2. est[r] \in Nat /\ inflight[u] \in Nat
            BY <1>1 DEF TInv, TypeOK
          <6>3. QED
            BY <6>1, <6>2
        <5>3. Gap(u)' = Gap(u)
          BY <5>1, <5>2
        <5>4. QED
          BY <1>2, <2>2, <4>1, <5>1, <5>3
      <4>4. QED
        BY <1>1, <3>2, <4>2, <4>3, NextCases DEF TInv
    <3>3. QED
      BY <3>1, <3>2
  <2>4. QED
    BY <2>1, <2>3 DEF Gap
<1>3. QED
  BY <1>1, <1>2 DEF IInv, CacheIsLedgerMinusHolds

\* "The ledger is one, the balance is in one place", for any number of users
\* and requests: the cache row is the ledger minus the estimates in flight
\* whatever the order of holds, settlements, grants, page views and runs.
THEOREM CacheIsLedgerMinusHoldsHolds == Spec => []CacheIsLedgerMinusHolds
<1>1. Init => IInv
  BY HoldInit DEF Init, IInv, CacheIsLedgerMinusHolds
<1>2. IInv => CacheIsLedgerMinusHolds
  BY DEF IInv
<1>3. QED
  BY <1>1, <1>2, CacheStep, PTL DEF Spec

-----------------------------------------------------------------------------
(* The gate of precheck *)

\* What precheck compares with is the ledger minus the estimates of the
\* requests under way.
LEMMA RowIsAvailable ==
    ASSUME IInv, NEW u \in Users, u \notin suspect, ~ DoubleSettled(u)
    PROVE  CachedOrRecomputed(u) = ledger[u] - Outstanding(u)
<1>1. inflight[u] = Outstanding(u) /\ inflight[u] \in Nat /\ ledger[u] \in Int
  BY DEF IInv, HoldInv, InFlightIsOutstanding, TInv, TypeOK
<1>2. CASE cache[u] = NoRow
  BY <1>1, <1>2 DEF CachedOrRecomputed, Recomputed
<1>3. CASE cache[u] # NoRow
  <2>1. cache[u] \in Int
    BY <1>3 DEF IInv, HoldInv, TInv, TypeOK
  <2>2. cache[u] + inflight[u] = ledger[u]
    BY <1>3 DEF IInv, CacheIsLedgerMinusHolds
  <2>3. QED
    BY <1>1, <1>3, <2>1, <2>2 DEF CachedOrRecomputed
<1>4. QED
  BY <1>2, <1>3

\* A request leaves the gateway exactly when the ledger covers its estimate
\* beyond the estimates of all concurrent requests of its user: no two
\* concurrent requests can be admitted on the same money.
THEOREM GateIsExactHolds == Spec => GateIsExact
<1> DEFINE Exactly(r) ==
             /\ pc[r] = "new" /\ pc'[r] \in {"calling", "refused"}
             /\ owner'[r] \in Users \ suspect /\ ~ DoubleSettled(owner'[r])
             => (pc'[r] = "calling"
                 <=> ledger[owner'[r]] - Outstanding(owner'[r]) >= est'[r])
<1>1. ASSUME IInv, Next, NEW r \in Requests
      PROVE  Exactly(r)
  <2>1. SUFFICES ASSUME pc[r] = "new", pc'[r] \in {"calling", "refused"},
                        owner'[r] \in Users, owner'[r] \notin suspect,
                        ~ DoubleSettled(owner'[r])
                 PROVE  pc'[r] = "calling"
                        <=> ledger[owner'[r]] - Outstanding(owner'[r]) >= est'[r]
    OBVIOUS
  <2>2. TInv /\ TypeOK
    BY <1>1 DEF IInv, HoldInv, TInv
  <2>3. \/ \E u \in Users, e \in Estimates, s \in BOOLEAN : Admit(r, u, e, s)
        \/ \E u \in Users, e \in Estimates : Refuse(r, u, e)
    <3>1. CASE \E q \in Requests : HandlerStep(q)
      BY <2>1, <2>2, <3>1 DEF HandlerStep, Live, TypeOK
    <3>2. CASE OtherStep
      <4>1. owner[r] \notin Users
        BY <2>1, <2>2, BillingAssumption DEF TInv, NewIsBlank
      <4>2. owner'[r] # owner[r]
        BY <2>1, <4>1
      <4>3. QED
        BY <2>2, <3>2, <4>2 DEF OtherStep, Admit, Refuse, AdmitAnonymous, ViewBilling, Grant,
                                SettlementRun, DieAndRestart, handlers, TypeOK
    <3>3. QED
      BY <1>1, <2>2, <3>1, <3>2, NextCases
  <2>4. ASSUME NEW u \in Users, NEW e \in Estimates, NEW s \in BOOLEAN, Admit(r, u, e, s)
        PROVE  pc'[r] = "calling" /\ ledger[owner'[r]] - Outstanding(owner'[r]) >= est'[r]
    <3>1. pc'[r] = "calling" /\ owner'[r] = u /\ est'[r] = e /\ CachedOrRecomputed(u) >= e
      BY <2>2, <2>4 DEF Admit, Hold, Covers, TypeOK
    <3>2. QED
      BY <1>1, <2>1, <3>1, RowIsAvailable
  <2>5. ASSUME NEW u \in Users, NEW e \in Estimates, Refuse(r, u, e)
        PROVE  pc'[r] # "calling" /\ ~ (ledger[owner'[r]] - Outstanding(owner'[r]) >= est'[r])
    <3>1. /\ pc'[r] = "refused" /\ owner'[r] = u /\ est'[r] = e
          /\ ~ (CachedOrRecomputed(u) >= e)
      BY <2>2, <2>5 DEF Refuse, Covers, TypeOK
    <3>2. QED
      BY <1>1, <2>1, <3>1, RowIsAvailable
  <2>6. QED
    BY <2>3, <2>4, <2>5
<1>2. IInv /\ [Next]_vars => [\A r \in Requests : Exactly(r)]_vars
  BY <1>1
<1>3. Init => IInv
  BY HoldInit DEF Init, IInv, CacheIsLedgerMinusHolds
<1>4. QED
  BY <1>2, <1>3, CacheStep, PTL DEF Spec, GateIsExact

-----------------------------------------------------------------------------
(* What users spend, when no upstream stream breaks after its headers      *)
(* (~ StreamsBreak) and the process does not die between two SQL           *)
(* statements (~ HalfWrites).  Each theorem states which of the two it     *)
(* needs.  They end in the refinement of CreditLine.                       *)
(*                                                                         *)
(* What the invariants add to those above is that the headers of a request *)
(* that still has a candidate to try are not out, so that it is settled as *)
(* it returns and at no other time.                                        *)

\* Nothing has been sent for a request that may be tried again.
NothingSent ==
    \A r \in Requests :
        pc[r] \in {"new", "refused", "calling"} => ~ conn[r].sent /\ ~ conn[r].got

\* Only a request that is done is charged.
ChargedIsDone == \A r \in Requests : pc[r] # "done" => charged[r] = 0

OnceInv == NothingSent /\ ChargedIsDone /\ SettledOnce

-----------------------------------------------------------------------------
(* Steps *)

\* The handler of r goes on and settles nothing.
GoesOn(r) ==
    /\ Live(r)
    /\ \E x \in {"calling", "streaming"} :
         /\ pc' = [pc EXCEPT ![r] = x]
         /\ x = "calling" => ~ conn'[r].sent /\ ~ conn'[r].got
    /\ \A q \in Requests \ {r} : conn'[q] = conn[q]
    /\ UNCHANGED <<owner, est, money, settles, charged, counters>>

\* The handler of r returns, and settles r once.
Ends(r) ==
    /\ Live(r)
    /\ pc' = [pc EXCEPT ![r] = "done"]
    /\ UNCHANGED <<conn, owner, est, counters>>
    /\ \E c \in Costs : Settle(r, 1, c)

\* Where no stream breaks a handler has no other step.
LEMMA WholeSteps ==
    ASSUME TypeOK, OnceInv, ~ StreamsBreak, NEW r \in Requests,
           \/ FetchFails(r)
           \/ ClientError(r)
           \/ StreamStarts(r)
           \/ StreamFails(r)
           \/ \E f \in BOOLEAN : Chunk(r, f)
           \/ \E c \in Costs : Answer(r, c) \/ StreamEnds(r, c)
    PROVE  GoesOn(r) \/ Ends(r)
<1>1. /\ pc \in [Requests -> {"new", "calling", "streaming", "done", "refused", "killed"}]
      /\ conn \in [Requests -> Conn]
      /\ conn[r] \in Conn
      /\ 0 \in Costs
  BY BillingAssumption DEF TypeOK
<1>2. pc[r] = "calling" => ~ conn[r].sent /\ ~ conn[r].got /\ Live(r)
  BY DEF OnceInv, NothingSent, Live
<1>3. ASSUME pc[r] = "calling", TryNext(r), UNCHANGED <<money, settles, charged>>, UNCHANGED <<owner, est, counters>>
      PROVE  GoesOn(r)
  <2>1. conn'[r] = [conn[r] EXCEPT !.cand = conn[r].cand + 1] /\ \A q \in Requests \ {r} : conn'[q] = conn[q]
    BY <1>1, <1>3 DEF TryNext
  <2>2. conn'[r].sent = conn[r].sent /\ conn'[r].got = conn[r].got
    BY <1>1, <2>1 DEF Conn
  <2>3. QED
    BY <1>2, <1>3, <2>1, <2>2 DEF GoesOn, TryNext
<1>4. ASSUME pc[r] = "calling", NEW c \in Costs, Return(r), Settle(r, 1, c), UNCHANGED <<owner, est, counters>>
      PROVE  Ends(r)
  BY <1>2, <1>4 DEF Ends, Return
<1>5. CASE FetchFails(r)
  BY <1>1, <1>3, <1>4, <1>5 DEF FetchFails, GiveUp
<1>6. CASE ClientError(r)
  BY <1>1, <1>2, <1>4, <1>6 DEF ClientError
<1>7. CASE StreamStarts(r)
  BY <1>1, <1>2, <1>7 DEF StreamStarts, GoesOn
<1>8. CASE \E f \in BOOLEAN : Chunk(r, f)
  <2>1. pc[r] = "streaming" /\ pc' = pc /\ \A q \in Requests \ {r} : conn'[q] = conn[q]
    BY <1>1, <1>8 DEF Chunk
  <2>2. pc' = [pc EXCEPT ![r] = "streaming"]
    BY <1>1, <2>1
  <2>3. QED
    BY <1>8, <2>1, <2>2 DEF Chunk, GoesOn, Live
<1>9. CASE \E c \in Costs : Answer(r, c)
  BY <1>4, <1>9 DEF Answer
<1>10. CASE \E c \in Costs : StreamEnds(r, c)
  BY <1>10 DEF StreamEnds, Ends, Return, Live
<1>11. QED
  BY <1>5, <1>6, <1>7, <1>8, <1>9, <1>10 DEF StreamFails

\* Every step, where no stream breaks.
LEMMA WholeCases ==
    ASSUME TypeOK, OnceInv, ~ StreamsBreak, Next
    PROVE  (\E r \in Requests : GoesOn(r) \/ Ends(r)) \/ OtherStep
<1>1. CASE \E r \in Requests :
             \/ FetchFails(r)
             \/ ClientError(r)
             \/ StreamStarts(r)
             \/ StreamFails(r)
             \/ \E f \in BOOLEAN : Chunk(r, f)
             \/ \E c \in Costs : Answer(r, c) \/ StreamEnds(r, c)
  BY <1>1, WholeSteps
<1>2. CASE \/ \E r \in Requests : \E c \in Costs : CrashInSettle(r, c)
           \/ \E u \in Users : \E d \in Deltas : CrashInGrant(u, d)
           \/ Crash
  <2>1. ASSUME NEW l, NEW w, l \in [Users -> Int], w \in [Users -> 0 .. Window], DieAndRestart(l, w)
        PROVE  OtherStep
    BY <2>1 DEF OtherStep
  <2>2. CASE Crash
    BY <2>1, <2>2 DEF Crash, TypeOK
  <2>3. ASSUME NEW u \in Users, NEW d \in Int, NEW l, NEW w,
               l = [ledger EXCEPT ![u] = @ + d], w = [recent EXCEPT ![u] = Window]
        PROVE  l \in [Users -> Int] /\ w \in [Users -> 0 .. Window]
    BY <2>3, BillingAssumption DEF TypeOK
  <2>4. ASSUME NEW u \in Users, NEW d \in Deltas, CrashInGrant(u, d) PROVE OtherStep
    BY <2>1, <2>3, <2>4, BillingAssumption DEF CrashInGrant
  <2>5. ASSUME NEW r \in Requests, NEW c \in Costs, CrashInSettle(r, c) PROVE OtherStep
    <3>1. owner[r] \in Users /\ c \in Nat
      BY <2>5, BillingAssumption DEF CrashInSettle, TypeOK
    <3>2. /\ [ledger EXCEPT ![owner[r]] = @ - c] \in [Users -> Int]
          /\ [recent EXCEPT ![owner[r]] = Window] \in [Users -> 0 .. Window]
      BY <3>1, BillingAssumption DEF TypeOK
    <3>3. QED
      BY <2>1, <2>5, <3>2 DEF CrashInSettle
  <2>6. QED
    BY <1>2, <2>2, <2>4, <2>5
<1>3. QED
  BY <1>1, <1>2 DEF Next, OtherStep

-----------------------------------------------------------------------------
(* Settled once *)

\* The requests an action leaves as they are.
Same(q) ==
    /\ pc'[q] = pc[q] /\ settles'[q] = settles[q] /\ charged'[q] = charged[q]
    /\ conn'[q] = conn[q]

\* OnceInv of one request.
OnceOf(q) ==
    /\ pc[q] \in {"new", "refused", "calling"} => ~ conn[q].sent /\ ~ conn[q].got
    /\ pc[q] # "done" => charged[q] = 0
    /\ settles[q] = IF pc[q] = "done" THEN 1 ELSE 0

LEMMA OnceOfEach == /\ OnceInv <=> \A q \in Requests : OnceOf(q)
                    /\ OnceInv' <=> \A q \in Requests : OnceOf(q)'
BY DEF OnceInv, OnceOf, NothingSent, ChargedIsDone, SettledOnce

LEMMA SameOnce == \A q : OnceOf(q) /\ Same(q) => OnceOf(q)'
BY DEF OnceOf, Same

LEMMA OnceStep == ~ StreamsBreak /\ TInv /\ OnceInv /\ [Next]_vars => OnceInv'
<1> SUFFICES ASSUME ~ StreamsBreak, TInv, OnceInv, [Next]_vars, NEW q \in Requests
             PROVE  OnceOf(q)'
  BY OnceOfEach
<1>0. OnceOf(q) /\ TypeOK
  BY OnceOfEach DEF TInv
<1>1. CASE UNCHANGED vars
  BY <1>0, <1>1 DEF vars, handlers, OnceOf
<1>2. ASSUME NEW r \in Requests, GoesOn(r) PROVE OnceOf(q)'
  <2>1. CASE q # r
    BY <1>0, <1>2, <2>1, SameOnce DEF GoesOn, Same, TypeOK
  <2>2. CASE q = r
    <3>1. pc[q] # "done" /\ pc'[q] # "done" /\ settles' = settles /\ charged' = charged
      BY <1>0, <1>2, <2>2 DEF GoesOn, Live, TypeOK
    <3>2. pc'[q] \in {"new", "refused", "calling"} => ~ conn'[q].sent /\ ~ conn'[q].got
      BY <1>0, <1>2, <2>2 DEF GoesOn, TypeOK
    <3>3. QED
      BY <1>0, <3>1, <3>2 DEF OnceOf
  <2>3. QED
    BY <2>1, <2>2
<1>3. ASSUME NEW r \in Requests, Ends(r) PROVE OnceOf(q)'
  <2>1. PICK c \in Costs : Settle(r, 1, c)
    BY <1>3 DEF Ends
  <2>2. /\ settles' = [settles EXCEPT ![r] = @ + 1]
        /\ charged' = [charged EXCEPT ![r] = @ + c]
        /\ pc' = [pc EXCEPT ![r] = "done"] /\ conn' = conn
        /\ pc[r] # "done" /\ c \in Nat
    BY <1>3, <2>1, BillingAssumption DEF Settle, Ends, Live
  <2>3. CASE q # r
    BY <1>0, <2>2, <2>3, SameOnce DEF Same, TypeOK
  <2>4. CASE q = r
    BY <1>0, <2>1, <2>2, <2>4 DEF OnceOf, TypeOK
  <2>5. QED
    BY <2>3, <2>4
<1>4. CASE OtherStep
  <2>1. ASSUME NEW r \in Requests, pc[r] = "new", pc' = [pc EXCEPT ![r] = "calling"], NEW s \in BOOLEAN,
               conn' = [conn EXCEPT ![r] = [NoConn EXCEPT !.stream = s]], UNCHANGED <<settles, charged>>
        PROVE  OnceOf(q)'
    <3>1. CASE q # r
      BY <1>0, <2>1, <3>1, SameOnce DEF Same, TypeOK
    <3>2. CASE q = r
      <4>1. conn'[q] = [NoConn EXCEPT !.stream = s]
        BY <1>0, <2>1, <3>2 DEF TypeOK
      <4>2. ~ conn'[q].sent /\ ~ conn'[q].got
        BY <4>1 DEF NoConn
      <4>3. QED
        BY <1>0, <2>1, <3>2, <4>2 DEF OnceOf, TypeOK
    <3>3. QED
      BY <3>1, <3>2
  <2>2. CASE \E r \in Requests, u \in Users, e \in Estimates, s \in BOOLEAN : Admit(r, u, e, s)
    BY <2>1, <2>2 DEF Admit
  <2>3. CASE \E r \in Requests, e \in Estimates, s \in BOOLEAN : AdmitAnonymous(r, e, s)
    BY <2>1, <2>3 DEF AdmitAnonymous
  <2>4. CASE \E r \in Requests, u \in Users, e \in Estimates : Refuse(r, u, e)
    BY <1>0, <2>4 DEF Refuse, OnceOf, TypeOK
  <2>5. CASE \E u \in Users : ViewBilling(u) \/ \E d \in Deltas : Grant(u, d)
    BY <1>0, <2>5, SameOnce DEF ViewBilling, Grant, handlers, Same
  <2>6. CASE SettlementRun
    BY <1>0, <2>6, SameOnce DEF SettlementRun, handlers, Same
  <2>7. CASE \E l \in [Users -> Int], w \in [Users -> 0 .. Window] : DieAndRestart(l, w)
    <3>1. /\ pc'[q] = IF Live(q) THEN "killed" ELSE pc[q]
          /\ UNCHANGED <<conn, settles, charged>>
      BY <2>7 DEF DieAndRestart
    <3>2. QED
      BY <1>0, <3>1 DEF OnceOf, Live
  <2>8. QED
    BY <1>4, <2>2, <2>3, <2>4, <2>5, <2>6, <2>7 DEF OtherStep
<1>5. QED
  BY <1>0, <1>1, <1>2, <1>3, <1>4, WholeCases

LEMMA OnceInit == Init => OnceInv
BY DEF Init, NoConn, OnceInv, NothingSent, ChargedIsDone, SettledOnce

\* Every hold is given back exactly once, on each of the ways a request ends,
\* whatever fails before its headers are out and wherever the process dies.
THEOREM SettledOnceHolds ==
    ASSUME ~ StreamsBreak
    PROVE  Spec => []SettledOnce
<1>1. TInv /\ OnceInv /\ [Next]_vars => OnceInv'
  BY OnceStep
<1>2. OnceInv => SettledOnce
  BY DEF OnceInv
<1>3. QED
  BY <1>1, <1>2, OnceInit, TypeInit, TypeStep, PTL DEF Spec

-----------------------------------------------------------------------------
(* A crash never credits *)

\* The steps that settle nothing when no two statements are torn apart.
CleanStep ==
    \/ \E r \in Requests, u \in Users, e \in Estimates, s \in BOOLEAN : Admit(r, u, e, s)
    \/ \E r \in Requests, u \in Users, e \in Estimates : Refuse(r, u, e)
    \/ \E r \in Requests, e \in Estimates, s \in BOOLEAN : AdmitAnonymous(r, e, s)
    \/ \E u \in Users : ViewBilling(u) \/ \E d \in Deltas : Grant(u, d)
    \/ SettlementRun
    \/ Crash

LEMMA CleanIsOther == TypeOK /\ CleanStep => OtherStep
BY DEF CleanStep, OtherStep, Crash, TypeOK

LEMMA CleanCases ==
    ASSUME TypeOK, ~ HalfWrites, Next
    PROVE  (\E r \in Requests : HandlerStep(r)) \/ CleanStep
<1>1. CASE \E r \in Requests :
             \/ FetchFails(r)
             \/ ClientError(r)
             \/ StreamStarts(r)
             \/ StreamFails(r)
             \/ \E f \in BOOLEAN : Chunk(r, f)
             \/ \E c \in Costs : Answer(r, c) \/ StreamEnds(r, c)
  BY <1>1, HandlerSteps
<1>2. QED
  BY <1>1 DEF Next, CleanStep, CrashInSettle, CrashInGrant

\* A step that settles nothing, when no two statements are torn apart, gives
\* no user more than before: the holds a crash forgets stay deducted.
LEMMA CleanStepGap ==
    ASSUME TInv, CleanStep, NEW u \in Users, cache'[u] # NoRow
    PROVE  \/ Gap(u)' = 0
           \/ cache[u] # NoRow /\ Gap(u)' <= Gap(u)
<1>0. TypeOK /\ OtherStep
  BY CleanIsOther DEF TInv
<1>1. ASSUME u \notin suspect' PROVE Gap(u)' = 0 \/ (cache[u] # NoRow /\ Gap(u)' <= Gap(u))
  <2>1. Gap(u)' = 0 \/ (cache[u] # NoRow /\ Gap(u)' = Gap(u))
    BY <1>0, <1>1, OtherStepGap
  <2>2. CASE cache[u] # NoRow
    <3>1. cache[u] \in Int /\ inflight[u] \in Int /\ ledger[u] \in Int
      BY <1>0, <2>2 DEF TypeOK
    <3>2. Gap(u) \in Int
      BY <3>1 DEF Gap
    <3>3. Gap(u)' = Gap(u) => Gap(u)' <= Gap(u)
      BY <3>2
    <3>4. QED
      BY <2>1, <2>2, <3>3
  <2>3. QED
    BY <2>1, <2>2
<1>2. ASSUME NEW r \in Requests, NEW v \in Users, NEW e \in Estimates, NEW s \in BOOLEAN,
             Admit(r, v, e, s), u \in suspect'
      PROVE  cache[u] # NoRow /\ Gap(u)' = Gap(u)
  <2>1. /\ cache' = [cache EXCEPT ![v] = CachedOrRecomputed(v) - e]
        /\ inflight' = [inflight EXCEPT ![v] = @ + e]
        /\ suspect' = IF cache[v] = NoRow THEN suspect \ {v} ELSE suspect
        /\ ledger' = ledger /\ e \in Nat
    BY <1>2, BillingAssumption DEF Admit, Hold
  <2>2. CASE u # v
    BY <1>0, <2>1, <2>2 DEF Gap, TypeOK
  <2>3. CASE u = v
    <3>1. cache[u] # NoRow /\ cache[u] \in Int
      BY <1>0, <1>2, <2>1, <2>3 DEF TypeOK
    <3>2. cache'[u] = cache[u] - e /\ inflight'[u] = inflight[u] + e
      BY <1>0, <2>1, <2>3, <3>1 DEF CachedOrRecomputed, TypeOK
    <3>3. QED
      BY <1>0, <2>1, <3>1, <3>2 DEF Gap, TypeOK
  <2>4. QED
    BY <2>2, <2>3
<1>3. ASSUME UNCHANGED <<ledger, inflight>>, cache'[u] = cache[u] PROVE Gap(u)' = Gap(u) /\ cache[u] # NoRow
  BY <1>3 DEF Gap
<1>4. ASSUME UNCHANGED <<ledger, inflight>>, cache'[u] = cache[u]
      PROVE  cache[u] # NoRow /\ Gap(u)' <= Gap(u)
  <2>1. Gap(u) \in Int
    BY <1>0, <1>3, <1>4 DEF Gap, TypeOK
  <2>2. QED
    BY <1>3, <1>4, <2>1
<1>5. CASE \E r \in Requests, v \in Users, e \in Estimates : Refuse(r, v, e)
  <2>1. u \in suspect' => cache'[u] = cache[u] /\ UNCHANGED <<ledger, inflight>>
    BY <1>0, <1>5 DEF Refuse, RecomputeUser, TypeOK
  <2>2. QED
    BY <1>1, <1>4, <2>1
<1>6. CASE \E r \in Requests, e \in Estimates, s \in BOOLEAN : AdmitAnonymous(r, e, s)
  BY <1>4, <1>6 DEF AdmitAnonymous, money
<1>7. CASE \E v \in Users : ViewBilling(v)
  <2>1. u \in suspect' => cache'[u] = cache[u] /\ UNCHANGED <<ledger, inflight>>
    BY <1>0, <1>7 DEF ViewBilling, RecomputeUser, TypeOK
  <2>2. QED
    BY <1>1, <1>4, <2>1
<1>8. CASE \E v \in Users, d \in Deltas : Grant(v, d)
  <2>1. PICK v \in Users, d \in Deltas : Grant(v, d)
    BY <1>8
  <2>2. /\ cache' = [cache EXCEPT ![v] = Recomputed(ledger[v] + d, inflight[v])]
        /\ suspect' = suspect \ {v}
        /\ ledger' = [ledger EXCEPT ![v] = @ + d]
        /\ inflight' = inflight
    BY <2>1 DEF Grant, RecomputeUser
  <2>3. CASE u = v
    BY <1>1, <2>2, <2>3
  <2>4. CASE u # v
    <3>1. cache'[u] = cache[u] /\ inflight'[u] = inflight[u] /\ ledger'[u] = ledger[u]
      BY <1>0, <2>2, <2>4 DEF TypeOK
    <3>2. cache[u] \in Int /\ inflight[u] \in Int /\ ledger[u] \in Int
      BY <1>0, <3>1 DEF TypeOK
    <3>3. QED
      BY <3>1, <3>2 DEF Gap
  <2>5. QED
    BY <2>3, <2>4
<1>9. CASE SettlementRun
  <2>1. u \in suspect' => cache'[u] = cache[u] /\ UNCHANGED <<ledger, inflight>>
    BY <1>0, <1>9 DEF SettlementRun, Reconciled, TypeOK
  <2>2. QED
    BY <1>1, <1>4, <2>1
<1>10. CASE Crash
  <2>1. PICK down \in 0 .. Window :
          /\ cache' = Reconciled({v \in Users : recent[v] > down}, ledger, inflight')
          /\ suspect' = {v \in Users \ {x \in Users : recent[x] > down} : cache[v] # NoRow}
    BY <1>10 DEF Crash, DieAndRestart
  <2>2. ledger' = ledger /\ inflight' = [v \in Users |-> 0]
    BY <1>10 DEF Crash, DieAndRestart
  <2>3. ASSUME u \in suspect' PROVE cache[u] # NoRow /\ Gap(u)' <= Gap(u)
    <3>1. cache'[u] = cache[u] /\ cache[u] # NoRow
      BY <2>1, <2>3 DEF Reconciled
    <3>2. cache[u] \in Int /\ inflight[u] \in Nat /\ ledger[u] \in Int /\ inflight'[u] = 0
      BY <1>0, <2>2, <3>1 DEF TypeOK
    <3>3. QED
      BY <2>2, <3>1, <3>2 DEF Gap
  <2>4. QED
    BY <1>1, <2>3
<1>11. CASE \E r \in Requests, v \in Users, e \in Estimates, s \in BOOLEAN : Admit(r, v, e, s)
  <2>1. PICK r \in Requests, v \in Users, e \in Estimates, s \in BOOLEAN : Admit(r, v, e, s)
    BY <1>11
  <2>2. CASE u \in suspect'
    <3>1. cache[u] # NoRow /\ Gap(u)' = Gap(u)
      BY <1>2, <2>1, <2>2
    <3>2. Gap(u) \in Int
      BY <1>0, <3>1 DEF Gap, TypeOK
    <3>3. QED
      BY <3>1, <3>2
  <2>3. QED
    BY <1>1, <2>2
<1>12. QED
  BY <1>5, <1>6, <1>7, <1>8, <1>9, <1>10, <1>11 DEF CleanStep

LEMMA CreditStep == ~ HalfWrites /\ HoldInv /\ CrashNeverCredits /\ [Next]_vars => CrashNeverCredits'
<1> SUFFICES ASSUME ~ HalfWrites, HoldInv, CrashNeverCredits, [Next]_vars,
                    NEW u \in Users, ~ DoubleSettled(u)', cache'[u] # NoRow
             PROVE  cache'[u] + inflight'[u] <= ledger'[u]
  BY DEF CrashNeverCredits
<1>1. TInv /\ TInv' /\ TypeOK
  BY TypeStep DEF HoldInv, TInv
<1>2. cache'[u] \in Int /\ inflight'[u] \in Nat /\ ledger'[u] \in Int
  BY <1>1 DEF TInv, TypeOK
<1>3. ASSUME ~ DoubleSettled(u), cache[u] # NoRow
      PROVE  Gap(u) \in Int /\ Gap(u) <= 0
  BY <1>1, <1>3 DEF Gap, TypeOK, CrashNeverCredits
<1>4. Gap(u)' \in Int
  BY <1>2 DEF Gap
<1>5. Gap(u)' <= 0
  <2>1. CASE UNCHANGED vars
    BY <1>3, <2>1 DEF vars, money, handlers, Gap, DoubleSettled
  <2>2. CASE Next
    <3>1. ~ DoubleSettled(u)
      BY <1>1, <2>2, DoubleSettledStays
    <3>2. CASE CleanStep
      BY <1>1, <1>3, <1>4, <3>1, <3>2, CleanStepGap
    <3>3. ASSUME NEW r \in Requests, HandlerStep(r)
          PROVE  Gap(u)' <= 0
      <4>1. /\ cache[u] # NoRow
            /\ \/ Gap(u)' = Gap(u)
               \/ /\ owner[r] = u
                  /\ \E n \in 1 .. 2, c \in Nat : Settle(r, n, c) /\ n * est[r] > inflight[u]
        BY <1>1, <3>3, HandlerStepGap
      <4>2. ASSUME NEW n \in 1 .. 2, NEW c \in Nat, Settle(r, n, c), owner[r] = u
            PROVE  ~ (n * est[r] > inflight[u])
        <5>1. n * est[r] <= inflight[u]
          BY <3>3, <4>2, FirstSettlementCovered
        <5>2. est[r] \in Nat /\ inflight[u] \in Nat
          BY <1>1 DEF TypeOK
        <5>3. QED
          BY <5>1, <5>2
      <4>3. QED
        BY <1>3, <3>1, <4>1, <4>2
    <3>4. QED
      BY <1>1, <2>2, <3>2, <3>3, CleanCases
  <2>3. QED
    BY <2>1, <2>2
<1>6. QED
  BY <1>2, <1>5 DEF Gap

\* A crash forgets holds that were never charged, so the portal is too strict
\* until the next recomputation and never hands out money; a user whose row
\* was not recomputed since the crash included.
THEOREM CrashNeverCreditsHolds ==
    ASSUME ~ HalfWrites
    PROVE  Spec => []CrashNeverCredits
<1>1. HoldInv /\ CrashNeverCredits /\ [Next]_vars => CrashNeverCredits'
  BY CreditStep
<1>2. Init => CrashNeverCredits
  BY DEF Init, CrashNeverCredits
<1>3. QED
  BY <1>1, <1>2, HoldInit, HoldStep, PTL DEF Spec

-----------------------------------------------------------------------------
(* Nobody spends the same money twice *)

\* Every step of the handlers, and every other one, when streams do not break
\* and statements are not torn apart.
LEMMA SpendCases ==
    ASSUME TypeOK, OnceInv, ~ StreamsBreak, ~ HalfWrites, Next
    PROVE  (\E r \in Requests : GoesOn(r) \/ Ends(r)) \/ CleanStep
<1>1. CASE \E r \in Requests :
             \/ FetchFails(r)
             \/ ClientError(r)
             \/ StreamStarts(r)
             \/ StreamFails(r)
             \/ \E f \in BOOLEAN : Chunk(r, f)
             \/ \E c \in Costs : Answer(r, c) \/ StreamEnds(r, c)
  BY <1>1, WholeSteps
<1>2. QED
  BY <1>1 DEF Next, CleanStep, CrashInSettle, CrashInGrant

\* What requests cost above their estimates is a sum over the requests of u.
Payers(u) == {r \in Requests : owner[r] = u}
Excess == [r \in Requests |-> Monus(charged[r], est[r])]

LEMMA ExcessTokensOf == \A u \in Users : /\ ExcessTokens(u) = TokensOf(Payers(u), Excess)
                                         /\ ExcessTokens(u)' = TokensOf(Payers(u)', Excess')
BY DEF ExcessTokens, TokensOf, Payers, Excess

FiniteExcess == \A u \in Users : IsFiniteSet(ExcessTokens(u))

\* The inductive invariant of what users spend.
SpendInv == HoldInv /\ OnceInv /\ CrashNeverCredits /\ FiniteExcess /\ DebtIsUnderestimate

\* A step that charges nobody leaves the excess alone: new requests have none.
LEMMA ExcessKept ==
    ASSUME TypeOK, TypeOK', NEW u \in Users,
           \A q \in Requests : \/ owner'[q] = owner[q] /\ est'[q] = est[q] /\ charged'[q] = charged[q]
                               \/ charged[q] = 0 /\ charged'[q] = 0
                               \/ owner[q] # u /\ owner'[q] # u
    PROVE  ExcessTokens(u)' = ExcessTokens(u)
<1>1. ASSUME NEW q \in Requests, charged[q] = 0, charged'[q] = 0
      PROVE  /\ {q} \X (1 .. Monus(charged[q], est[q])) = {}
             /\ {q} \X (1 .. Monus(charged'[q], est'[q])) = {}
  <2>1. est[q] \in Nat /\ est'[q] \in Nat
    BY DEF TypeOK
  <2>2. Monus(charged[q], est[q]) = 0 /\ Monus(charged'[q], est'[q]) = 0
    BY <1>1, <2>1 DEF Monus
  <2>3. QED
    BY <2>2
<1>2. QED
  BY <1>1 DEF ExcessTokens

\* A settlement adds to the excess of its user what it costs above the
\* estimate.
LEMMA ExcessGrows ==
    ASSUME TypeOK, TypeOK', NEW u \in Users, NEW r \in Requests, owner[r] = u, UNCHANGED <<owner, est>>,
           NEW c \in Nat, charged[r] = 0, charged' = [charged EXCEPT ![r] = @ + c],
           IsFiniteSet(ExcessTokens(u))
    PROVE  /\ IsFiniteSet(ExcessTokens(u)')
           /\ Cardinality(ExcessTokens(u)') = Cardinality(ExcessTokens(u)) + Monus(c, est[r])
<1> DEFINE G == Payers(u)
           H == G \ {r}
           X2 == Excess'
<1>1. Payers(u)' = G /\ G = H \cup {r} /\ r \notin H
  BY DEF Payers
<1>2. est[r] \in Nat /\ \A q \in H : charged'[q] = charged[q]
  BY DEF TypeOK, Payers
<1>3. Excess[r] = 0 /\ X2[r] = Monus(c, est[r]) /\ Monus(c, est[r]) \in Nat
  <2>1. charged'[r] = c
    BY DEF TypeOK
  <2>2. Monus(charged[r], est[r]) = 0 /\ Monus(charged'[r], est'[r]) = Monus(c, est[r])
    BY <1>2, <2>1 DEF Monus
  <2>3. QED
    BY <1>2, <2>2, MonusFacts DEF Excess
<1>4. \A q \in H : Excess[q] = X2[q]
  BY <1>2 DEF Excess, Payers
<1>5. ExcessTokens(u) = TokensOf(G, Excess) /\ ExcessTokens(u)' = TokensOf(G, X2)
  BY <1>1, ExcessTokensOf
<1> HIDE DEF G, H, X2
<1>6. /\ IsFiniteSet(TokensOf(G, Excess)) <=> IsFiniteSet(TokensOf(H, Excess))
      /\ IsFiniteSet(TokensOf(H, Excess)) =>
           Cardinality(TokensOf(G, Excess)) = Cardinality(TokensOf(H, Excess)) + Excess[r]
  BY <1>1, <1>3, AddBlock
<1>7. /\ IsFiniteSet(TokensOf(G, X2)) <=> IsFiniteSet(TokensOf(H, Excess))
      /\ IsFiniteSet(TokensOf(H, Excess)) =>
           Cardinality(TokensOf(G, X2)) = Cardinality(TokensOf(H, Excess)) + X2[r]
  BY <1>1, <1>3, <1>4, AddBlock
<1>8. IsFiniteSet(TokensOf(H, Excess)) /\ Cardinality(TokensOf(H, Excess)) \in Nat
  BY <1>5, <1>6, FS_CardinalityType
<1>9. QED
  BY <1>3, <1>5, <1>6, <1>7, <1>8

\* What precheck deducts a hold from is covered by the ledger.
LEMMA HoldIsCovered ==
    ASSUME TypeOK, CrashNeverCredits, NEW u \in Users, ~ DoubleSettled(u), NEW e \in Nat,
           CachedOrRecomputed(u) >= e
    PROVE  ledger[u] - inflight[u] >= e
<1>1. ledger[u] \in Int /\ inflight[u] \in Nat
  BY DEF TypeOK
<1>2. CASE cache[u] = NoRow
  BY <1>1, <1>2 DEF CachedOrRecomputed, Recomputed
<1>3. CASE cache[u] # NoRow
  <2>1. cache[u] \in Int /\ cache[u] + inflight[u] <= ledger[u]
    BY <1>3 DEF TypeOK, CrashNeverCredits
  <2>2. QED
    BY <1>1, <1>3, <2>1 DEF CachedOrRecomputed
<1>4. QED
  BY <1>2, <1>3

LEMMA NoneDoubleSettled == /\ OnceInv => \A u \in Users : ~ DoubleSettled(u)
                           /\ OnceInv' => \A u \in Users : ~ DoubleSettled(u)'
BY DEF OnceInv, SettledOnce, DoubleSettled

\* The estimates in flight are what the requests of u hold.
LEMMA HeldIsInflight ==
    /\ HoldInv /\ OnceInv => \A u \in Users : Outstanding(u) = inflight[u]
    /\ HoldInv' /\ OnceInv' => \A u \in Users : Outstanding(u)' = inflight'[u]
BY NoneDoubleSettled DEF HoldInv, InFlightIsOutstanding

LEMMA SpendStep ==
    ~ StreamsBreak /\ ~ HalfWrites /\ Deltas \subseteq Nat /\ SpendInv /\ [Next]_vars => SpendInv'
<1> SUFFICES ASSUME ~ StreamsBreak, ~ HalfWrites, Deltas \subseteq Nat, SpendInv, [Next]_vars
             PROVE  SpendInv'
  OBVIOUS
<1>1. /\ HoldInv /\ HoldInv' /\ TInv /\ TInv' /\ TypeOK /\ TypeOK'
      /\ OnceInv /\ OnceInv' /\ CrashNeverCredits /\ CrashNeverCredits'
  BY HoldStep, OnceStep, CreditStep DEF SpendInv, HoldInv, TInv
<1> DEFINE Debt(u) == /\ IsFiniteSet(ExcessTokens(u))
                      /\ ledger[u] + Cardinality(ExcessTokens(u)) >= inflight[u]
<1>2. \A u \in Users : Debt(u)
  BY <1>1, HeldIsInflight DEF SpendInv, FiniteExcess, DebtIsUnderestimate
<1>3. \A u \in Users : Outstanding(u)' = inflight'[u]
  BY <1>1, HeldIsInflight
<1>4. ASSUME NEW u \in Users PROVE Debt(u)'
  <2>0. /\ ledger[u] \in Int /\ inflight[u] \in Nat /\ ledger'[u] \in Int /\ inflight'[u] \in Nat
        /\ Cardinality(ExcessTokens(u)) \in Nat
        /\ ~ DoubleSettled(u) /\ ~ DoubleSettled(u)'
        /\ IsFiniteSet(ExcessTokens(u))
        /\ ledger[u] + Cardinality(ExcessTokens(u)) >= inflight[u]
    BY <1>1, <1>2, NoneDoubleSettled, FS_CardinalityType DEF TypeOK
  <2>1. ASSUME ExcessTokens(u)' = ExcessTokens(u), ledger'[u] - ledger[u] >= inflight'[u] - inflight[u]
        PROVE  Debt(u)'
    BY <2>0, <2>1
  <2>2. ASSUME \A q \in Requests : \/ owner'[q] = owner[q] /\ est'[q] = est[q] /\ charged'[q] = charged[q]
                                   \/ charged[q] = 0 /\ charged'[q] = 0
                                   \/ owner[q] # u /\ owner'[q] # u,
               ledger'[u] - ledger[u] >= inflight'[u] - inflight[u]
        PROVE  Debt(u)'
    BY <1>1, <2>1, <2>2, ExcessKept
  <2>3. CASE UNCHANGED vars
    BY <2>0, <2>2, <2>3 DEF vars, handlers, money
  <2>4. ASSUME NEW r \in Requests, GoesOn(r) PROVE Debt(u)'
    BY <2>0, <2>2, <2>4 DEF GoesOn, money
  <2>5. ASSUME NEW r \in Requests, Ends(r) PROVE Debt(u)'
    <3>1. PICK c \in Costs : Settle(r, 1, c)
      BY <2>5 DEF Ends
    <3>2. /\ c \in Nat /\ owner' = owner /\ est' = est
          /\ charged' = [charged EXCEPT ![r] = @ + c]
          /\ charged[r] = 0 /\ est[r] \in Nat
      BY <1>1, <2>5, <3>1, BillingAssumption DEF Ends, Settle, Live, OnceInv, ChargedIsDone, TypeOK
    <3>3. CASE owner[r] # u
      <4>1. ledger'[u] = ledger[u] /\ inflight'[u] = inflight[u]
        BY <1>1, <3>1, <3>3 DEF Settle, money, TypeOK
      <4>2. \A q \in Requests : charged'[q] = charged[q] \/ owner[q] # u
        BY <1>1, <3>2, <3>3 DEF TypeOK
      <4>3. QED
        BY <2>0, <2>2, <3>2, <4>1, <4>2
    <3>4. CASE owner[r] = u
      <4>1. /\ ledger'[u] = ledger[u] - c
            /\ inflight'[u] = Monus(inflight[u], est[r])
        BY <1>1, <3>1, <3>2, <3>4, BillingAssumption DEF Settle, Released, TypeOK
      <4>2. HandlerStep(r)
        BY <1>1, <2>5, <3>1, <3>2 DEF Ends, HandlerStep, TypeOK
      <4>3. est[r] <= inflight[u]
        <5>1. 1 * est[r] <= inflight[u]
          BY <1>1, <2>0, <3>1, <3>2, <3>4, <4>2, FirstSettlementCovered
        <5>2. QED
          BY <3>2, <5>1
      <4>4. inflight'[u] = inflight[u] - est[r]
        BY <2>0, <3>2, <4>1, <4>3, MonusFacts
      <4>5. /\ IsFiniteSet(ExcessTokens(u)')
            /\ Cardinality(ExcessTokens(u)') = Cardinality(ExcessTokens(u)) + Monus(c, est[r])
        BY <1>1, <2>0, <3>2, <3>4, ExcessGrows
      <4>6. Monus(c, est[r]) >= c - est[r] /\ Monus(c, est[r]) \in Nat
        BY <3>2, MonusFacts
      <4>7. ledger'[u] + Cardinality(ExcessTokens(u)') >= inflight'[u]
        BY <2>0, <3>2, <4>1, <4>4, <4>5, <4>6
      <4>8. QED
        BY <4>5, <4>7
    <3>5. QED
      BY <3>3, <3>4
  <2>6. ASSUME CleanStep PROVE Debt(u)'
    <3>1. charged' = charged /\ \A q \in Requests : pc[q] = "new" => charged[q] = 0
      BY <1>1, <2>6 DEF CleanStep, Admit, Refuse, AdmitAnonymous, ViewBilling, Grant, SettlementRun, Crash,
                       DieAndRestart, OnceInv, ChargedIsDone
    <3>2. \A q \in Requests : pc[q] # "new" => owner'[q] = owner[q] /\ est'[q] = est[q]
      BY <1>1, <2>6 DEF CleanStep, Admit, Refuse, AdmitAnonymous, ViewBilling, Grant, SettlementRun, Crash,
                       DieAndRestart, handlers, TypeOK
    <3>3. ledger'[u] - ledger[u] >= inflight'[u] - inflight[u] \/ inflight'[u] <= ledger'[u]
                                                               \/ (ledger'[u] = ledger[u] /\ inflight'[u] = 0)
      <4>1. ASSUME NEW r \in Requests, NEW v \in Users, NEW e \in Estimates, NEW s \in BOOLEAN, Admit(r, v, e, s)
            PROVE  ledger'[u] - ledger[u] >= inflight'[u] - inflight[u] \/ inflight'[u] <= ledger'[u]
        <5>1. /\ CachedOrRecomputed(v) >= e /\ e \in Nat
              /\ inflight' = [inflight EXCEPT ![v] = @ + e]
              /\ ledger' = ledger
          BY <4>1, BillingAssumption DEF Admit, Hold, Covers
        <5>2. CASE u = v
          <6>1. ledger[u] - inflight[u] >= e
            BY <1>1, <2>0, <5>1, <5>2, HoldIsCovered
          <6>2. inflight'[u] = inflight[u] + e
            BY <1>1, <5>1, <5>2 DEF TypeOK
          <6>3. QED
            BY <2>0, <5>1, <6>1, <6>2
        <5>3. CASE u # v
          BY <1>1, <2>0, <5>1, <5>3 DEF TypeOK
        <5>4. QED
          BY <5>2, <5>3
      <4>2. ASSUME NEW v \in Users, NEW d \in Deltas, Grant(v, d)
            PROVE  ledger'[u] - ledger[u] >= inflight'[u] - inflight[u]
        <5>1. d \in Nat /\ ledger' = [ledger EXCEPT ![v] = @ + d] /\ inflight' = inflight
          BY <4>2 DEF Grant
        <5>2. ledger'[u] >= ledger[u]
          BY <1>1, <2>0, <5>1 DEF TypeOK
        <5>3. QED
          BY <2>0, <5>1, <5>2
      <4>3. CASE UNCHANGED <<ledger, inflight>>
        BY <2>0, <4>3
      <4>4. CASE Crash
        BY <4>4 DEF Crash, DieAndRestart
      <4>5. QED
        BY <2>6, <4>1, <4>2, <4>3, <4>4
        DEF CleanStep, Refuse, AdmitAnonymous, ViewBilling, SettlementRun, money
    <3>4. ExcessTokens(u)' = ExcessTokens(u)
      BY <1>1, <3>1, <3>2, ExcessKept
    <3>5. CASE ledger'[u] - ledger[u] >= inflight'[u] - inflight[u]
      BY <2>1, <3>4, <3>5
    <3>6. CASE inflight'[u] <= ledger'[u]
      BY <2>0, <3>4, <3>6
    <3>7. CASE ledger'[u] = ledger[u] /\ inflight'[u] = 0
      BY <2>0, <3>4, <3>7
    <3>8. QED
      BY <3>3, <3>5, <3>6, <3>7
  <2>7. QED
    BY <1>1, <2>3, <2>4, <2>5, <2>6, SpendCases
<1>5. QED
  BY <1>1, <1>3, <1>4 DEF SpendInv, FiniteExcess, DebtIsUnderestimate

LEMMA SpendInit == Init => SpendInv
<1> SUFFICES ASSUME Init PROVE SpendInv
  OBVIOUS
<1>1. HoldInv /\ OnceInv
  BY HoldInit, OnceInit
<1>2. CrashNeverCredits
  BY DEF Init, CrashNeverCredits
<1>3. ASSUME NEW u \in Users PROVE ExcessTokens(u) = {} /\ ledger[u] = 0 /\ inflight[u] = 0
  <2>1. \A q \in Requests : owner[q] # u
    BY BillingAssumption DEF Init
  <2>2. ExcessTokens(u) = {}
    BY <2>1 DEF ExcessTokens
  <2>3. QED
    BY <2>2 DEF Init
<1>4. \A u \in Users : Outstanding(u) = 0
  BY <1>1, <1>3, HeldIsInflight
<1>5. QED
  BY <1>1, <1>2, <1>3, <1>4, FS_EmptySet DEF SpendInv, FiniteExcess, DebtIsUnderestimate

\* Concurrent requests cannot spend the same money: with grants only, the
\* debt of a user is at most what single requests cost above their estimates,
\* beyond what the requests under way still hold; crashes included.
THEOREM DebtIsUnderestimateHolds ==
    ASSUME ~ StreamsBreak, ~ HalfWrites, Deltas \subseteq Nat
    PROVE  Spec => []DebtIsUnderestimate
<1>1. SpendInv /\ [Next]_vars => SpendInv'
  BY SpendStep
<1>2. SpendInv => DebtIsUnderestimate
  BY DEF SpendInv
<1>3. QED
  BY <1>1, <1>2, SpendInit, PTL DEF Spec

-----------------------------------------------------------------------------
(* The credit line *)

\* The refinement mapping, by name.
aStatus == [r \in Requests |-> AbstractStatus(r)]
aPayer == [r \in Requests |-> IF AbstractStatus(r) = "new" THEN NoUser ELSE owner[r]]
aAmount == [r \in Requests |-> IF AbstractStatus(r) = "new" THEN 0 ELSE est[r]]

\* A step that leaves the abstract view of every request alone.
Unseen == UNCHANGED <<aStatus, aPayer, aAmount>>

\* What a request looks like from its locals.
LEMMA StatusOf ==
    /\ \A r : AbstractStatus(r) \in {"new", "open", "closed"}
    /\ \A r : AbstractStatus(r) = "new" <=> owner[r] = NoUser \/ pc[r] \in {"new", "refused"}
    /\ \A r : AbstractStatus(r) = "open" <=> owner[r] # NoUser /\ Live(r) /\ settles[r] = 0
BY DEF AbstractStatus, Live

\* A request whose locals stay looks the same.
LEMMA SameStatus ==
    \A r : owner'[r] = owner[r] /\ pc'[r] = pc[r] /\ settles'[r] = settles[r]
           => AbstractStatus(r)' = AbstractStatus(r)
BY DEF AbstractStatus, Live

\* The abstract account has as many tokens reserved as the requests hold.
LEMMA ReservedIsOutstanding ==
    ASSUME NEW u \in Users
    PROVE  Abstract!Reserved(u) = Outstanding(u)
<1>1. \A q \in Requests : aStatus[q] = "open" /\ aPayer[q] = u <=> q \in HoldersOf(u)
  BY StatusOf, BillingAssumption DEF aStatus, aPayer, HoldersOf
<1>2. \A q \in HoldersOf(u) : aAmount[q] = est[q]
  BY StatusOf, BillingAssumption DEF aAmount, HoldersOf
<1>3. {q \in Requests : aStatus[q] = "open" /\ aPayer[q] = u} = HoldersOf(u)
  BY <1>1 DEF HoldersOf
<1>4. Abstract!Tokens(u) = UNION {{r} \X (1 .. aAmount[r]) :
                                    r \in {q \in Requests : aStatus[q] = "open" /\ aPayer[q] = u}}
  BY Zenon DEF Abstract!Tokens, aStatus, aPayer, aAmount
<1>5. Abstract!Tokens(u) = HeldTokens(u)
  BY <1>2, <1>3, <1>4 DEF HeldTokens
<1>6. QED
  <2>1. Abstract!Reserved(u) = Abstract!Cardinality(HeldTokens(u))
    BY <1>5 DEF Abstract!Reserved
  <2>2. Abstract!Cardinality(HeldTokens(u)) = Cardinality(HeldTokens(u))
    BY Zenon DEF Abstract!Cardinality, Cardinality
  <2>3. QED
    BY <2>1, <2>2 DEF Outstanding

\* The steps of the account, in these names.
LEMMA AbstractSteps ==
    /\ \A u \in Users, d \in Deltas : ledger' = [ledger EXCEPT ![u] = @ + d] /\ Unseen => Abstract!CLNext
    /\ \A r \in Requests, u \in Users, e \in Estimates :
          /\ aStatus[r] = "new" /\ ledger[u] - Outstanding(u) >= e
          /\ aStatus' = [aStatus EXCEPT ![r] = "open"]
          /\ aPayer' = [aPayer EXCEPT ![r] = u]
          /\ aAmount' = [aAmount EXCEPT ![r] = e]
          /\ ledger' = ledger
          => Abstract!CLNext
    /\ \A r \in Requests, c \in Costs :
          /\ aStatus[r] = "open"
          /\ aStatus' = [aStatus EXCEPT ![r] = "closed"]
          /\ ledger' = [ledger EXCEPT ![aPayer[r]] = @ - c]
          /\ aPayer' = aPayer /\ aAmount' = aAmount
          => Abstract!CLNext
    /\ /\ aStatus' = [r \in Requests |-> IF aStatus[r] = "open" THEN "closed" ELSE aStatus[r]]
       /\ UNCHANGED <<ledger, aPayer, aAmount>>
       => Abstract!CLNext
<1>1. ASSUME NEW u \in Users, NEW d \in Deltas, ledger' = [ledger EXCEPT ![u] = @ + d], Unseen
      PROVE  Abstract!CLNext
  <2>1. Abstract!Deposit(u, d)
    BY <1>1 DEF Abstract!Deposit, Unseen, aStatus, aPayer, aAmount
  <2>2. QED
    BY <2>1 DEF Abstract!CLNext
<1>2. ASSUME NEW r \in Requests, NEW u \in Users, NEW e \in Estimates,
             aStatus[r] = "new", ledger[u] - Outstanding(u) >= e,
             aStatus' = [aStatus EXCEPT ![r] = "open"],
             aPayer' = [aPayer EXCEPT ![r] = u],
             aAmount' = [aAmount EXCEPT ![r] = e],
             ledger' = ledger
      PROVE  Abstract!CLNext
  <2>1. Abstract!Available(u) >= e
    BY <1>2, ReservedIsOutstanding DEF Abstract!Available
  <2>2. Abstract!Reserve(r, u, e)
    BY <1>2, <2>1 DEF Abstract!Reserve, aStatus, aPayer, aAmount
  <2>3. QED
    BY <2>2 DEF Abstract!CLNext
<1>3. ASSUME NEW r \in Requests, NEW c \in Costs, aStatus[r] = "open",
             aStatus' = [aStatus EXCEPT ![r] = "closed"],
             ledger' = [ledger EXCEPT ![aPayer[r]] = @ - c],
             aPayer' = aPayer, aAmount' = aAmount
      PROVE  Abstract!CLNext
  <2>1. Abstract!Charge(r, c)
    BY <1>3 DEF Abstract!Charge, Abstract!Open, aStatus, aPayer, aAmount
  <2>2. QED
    BY <2>1 DEF Abstract!CLNext
<1>4. ASSUME aStatus' = [r \in Requests |-> IF aStatus[r] = "open" THEN "closed" ELSE aStatus[r]],
             UNCHANGED <<ledger, aPayer, aAmount>>
      PROVE  Abstract!CLNext
  <2>1. Abstract!DropAll
    BY <1>4 DEF Abstract!DropAll, Abstract!Open, aStatus, aPayer, aAmount
  <2>2. QED
    BY <2>1 DEF Abstract!CLNext
<1>5. QED
  BY <1>1, <1>2, <1>3, <1>4

\* What a request pays and holds does not change when its locals do not, nor
\* while nobody pays for it.
LEMMA SameView ==
    ASSUME \A q \in Requests : \/ /\ owner'[q] = owner[q] /\ est'[q] = est[q]
                                  /\ AbstractStatus(q)' = AbstractStatus(q)
                               \/ AbstractStatus(q) = "new" /\ AbstractStatus(q)' = "new"
    PROVE  Unseen
BY Zenon DEF Unseen, aStatus, aPayer, aAmount

LEMMA RefinementStep ==
    ~ StreamsBreak /\ ~ HalfWrites /\ HoldInv /\ OnceInv /\ CrashNeverCredits /\ [Next]_vars
    => [Abstract!CLNext]_(Abstract!clVars)
<1> SUFFICES ASSUME ~ StreamsBreak, ~ HalfWrites, HoldInv, OnceInv, CrashNeverCredits, [Next]_vars
             PROVE  Abstract!CLNext \/ (Unseen /\ ledger' = ledger)
  BY Zenon DEF Abstract!clVars, Unseen, aStatus, aPayer, aAmount
<1>1. TInv /\ TypeOK /\ TInv' /\ TypeOK'
  BY TypeStep DEF HoldInv, TInv
<1>2. CASE UNCHANGED vars
  <2>1. Unseen
    BY <1>2, SameView, SameStatus DEF vars, handlers
  <2>2. QED
    BY <1>2, <2>1 DEF vars, money
<1>3. ASSUME NEW r \in Requests, GoesOn(r) PROVE Unseen /\ ledger' = ledger
  <2>1. ASSUME NEW q \in Requests PROVE AbstractStatus(q)' = AbstractStatus(q)
    <3>1. CASE q # r
      BY <1>1, <1>3, <3>1, SameStatus DEF GoesOn, TypeOK
    <3>2. CASE q = r
      <4>1. Live(q) /\ Live(q)' /\ pc[q] \notin {"new", "refused"} /\ pc'[q] \notin {"new", "refused"}
        BY <1>1, <1>3, <3>2 DEF GoesOn, Live, TypeOK
      <4>2. QED
        BY <1>3, <4>1 DEF AbstractStatus, GoesOn
    <3>3. QED
      BY <3>1, <3>2
  <2>2. QED
    BY <1>3, <2>1, SameView DEF GoesOn, money
<1>4. ASSUME NEW r \in Requests, Ends(r) PROVE Abstract!CLNext \/ (Unseen /\ ledger' = ledger)
  <2>1. PICK c \in Costs : Settle(r, 1, c)
    BY <1>4 DEF Ends
  <2>2. /\ pc' = [pc EXCEPT ![r] = "done"] /\ owner' = owner /\ est' = est
        /\ settles' = [settles EXCEPT ![r] = @ + 1]
        /\ settles[r] = 0 /\ Live(r) /\ ~ Live(r)'
    BY <1>1, <1>4, <2>1 DEF Ends, Settle, OnceInv, SettledOnce, Live, TypeOK
  <2>3. \A q \in Requests \ {r} : AbstractStatus(q)' = AbstractStatus(q)
    BY <1>1, <2>2, SameStatus DEF TypeOK
  <2>4. CASE owner[r] = NoUser
    <3>1. AbstractStatus(r) = "new" /\ AbstractStatus(r)' = "new"
      BY <2>2, <2>4 DEF AbstractStatus
    <3>2. Unseen
      BY <2>2, <2>3, <3>1, SameView
    <3>3. QED
      BY <2>1, <2>4, <3>2 DEF Settle, money
  <2>5. CASE owner[r] # NoUser
    <3>1. AbstractStatus(r) = "open" /\ AbstractStatus(r)' = "closed"
      <4>1. pc[r] \notin {"new", "refused"} /\ pc'[r] \notin {"new", "refused"} /\ owner'[r] # NoUser
        BY <1>1, <2>2, <2>5 DEF Live, TypeOK
      <4>2. QED
        BY <2>2, <2>5, <4>1 DEF AbstractStatus
    <3>2. aStatus[r] = "open" /\ aPayer[r] = owner[r]
      BY <3>1 DEF aStatus, aPayer
    <3>3. aStatus' = [aStatus EXCEPT ![r] = "closed"]
      BY <2>3, <3>1 DEF aStatus
    <3>4. aPayer' = aPayer /\ aAmount' = aAmount
      BY <2>2, <2>3, <3>1 DEF aPayer, aAmount
    <3>5. ledger' = [ledger EXCEPT ![aPayer[r]] = @ - c]
      BY <2>1, <2>5, <3>2 DEF Settle
    <3>6. QED
      BY <3>2, <3>3, <3>4, <3>5, AbstractSteps
  <2>6. QED
    BY <2>4, <2>5
<1>5. ASSUME NEW r \in Requests, NEW u \in Users, NEW e \in Estimates, NEW s \in BOOLEAN, Admit(r, u, e, s)
      PROVE  Abstract!CLNext
  <2>1. /\ pc[r] = "new" /\ pc' = [pc EXCEPT ![r] = "calling"]
        /\ owner' = [owner EXCEPT ![r] = u] /\ est' = [est EXCEPT ![r] = e]
        /\ settles' = settles /\ ledger' = ledger
        /\ CachedOrRecomputed(u) >= e /\ e \in Nat
    BY <1>5, BillingAssumption DEF Admit, Hold, Covers
  <2>2. ledger[u] - Outstanding(u) >= e
    BY <1>1, <2>1, HoldIsCovered, HeldIsInflight, NoneDoubleSettled
  <2>3. AbstractStatus(r) = "new" /\ AbstractStatus(r)' = "open"
    <3>1. pc'[r] = "calling" /\ owner'[r] = u /\ settles'[r] = 0 /\ u # NoUser
      BY <1>1, <2>1, BillingAssumption DEF TypeOK, TInv, NewIsBlank
    <3>2. QED
      BY <2>1, <3>1 DEF AbstractStatus, Live
  <2>4. \A q \in Requests \ {r} : AbstractStatus(q)' = AbstractStatus(q)
    BY <1>1, <2>1, SameStatus DEF TypeOK
  <2>5. owner'[r] = u /\ est'[r] = e /\ \A q \in Requests \ {r} : owner'[q] = owner[q] /\ est'[q] = est[q]
    BY <1>1, <2>1 DEF TypeOK
  <2>6. aStatus[r] = "new" /\ aStatus' = [aStatus EXCEPT ![r] = "open"]
    BY <2>3, <2>4 DEF aStatus
  <2>7. aPayer' = [aPayer EXCEPT ![r] = u] /\ aAmount' = [aAmount EXCEPT ![r] = e]
    BY <2>3, <2>4, <2>5 DEF aPayer, aAmount
  <2>8. QED
    BY <2>1, <2>2, <2>6, <2>7, AbstractSteps
<1>6. ASSUME NEW r \in Requests, pc[r] = "new", NEW x \in {"refused", "calling"}, pc' = [pc EXCEPT ![r] = x],
             x = "refused" \/ owner' = owner,
             \A q \in Requests \ {r} : owner'[q] = owner[q] /\ est'[q] = est[q],
             UNCHANGED <<settles, ledger>>
      PROVE  Unseen /\ ledger' = ledger
  <2>1. \A q \in Requests \ {r} : AbstractStatus(q)' = AbstractStatus(q)
    BY <1>1, <1>6, SameStatus DEF TypeOK
  <2>2. AbstractStatus(r) = "new" /\ AbstractStatus(r)' = "new"
    <3>1. pc'[r] = x /\ owner[r] = NoUser
      BY <1>1, <1>6 DEF TypeOK, TInv, NewIsBlank
    <3>2. QED
      BY <1>6, <3>1, StatusOf DEF AbstractStatus
  <2>3. QED
    BY <1>6, <2>1, <2>2, SameView
<1>7. CASE \E r \in Requests, u \in Users, e \in Estimates : Refuse(r, u, e)
  <2>1. PICK r \in Requests, u \in Users, e \in Estimates : Refuse(r, u, e)
    BY <1>7
  <2>2. /\ pc[r] = "new" /\ pc' = [pc EXCEPT ![r] = "refused"]
        /\ \A q \in Requests \ {r} : owner'[q] = owner[q] /\ est'[q] = est[q]
        /\ UNCHANGED <<settles, ledger>>
    BY <1>1, <2>1 DEF Refuse, TypeOK
  <2>3. QED
    BY <1>6, <2>2
<1>8. CASE \E r \in Requests, e \in Estimates, s \in BOOLEAN : AdmitAnonymous(r, e, s)
  <2>1. PICK r \in Requests, e \in Estimates, s \in BOOLEAN : AdmitAnonymous(r, e, s)
    BY <1>8
  <2>2. /\ pc[r] = "new" /\ pc' = [pc EXCEPT ![r] = "calling"] /\ owner' = owner
        /\ \A q \in Requests \ {r} : owner'[q] = owner[q] /\ est'[q] = est[q]
        /\ UNCHANGED <<settles, ledger>>
    BY <1>1, <2>1 DEF AdmitAnonymous, money, TypeOK
  <2>3. QED
    BY <1>6, <2>2
<1>9. CASE \E u \in Users, d \in Deltas : Grant(u, d)
  <2>1. PICK u \in Users, d \in Deltas : Grant(u, d)
    BY <1>9
  <2>2. Unseen
    BY <2>1, SameView, SameStatus DEF Grant, handlers
  <2>3. QED
    BY <2>1, <2>2, AbstractSteps DEF Grant
<1>10. CASE (\E u \in Users : ViewBilling(u)) \/ SettlementRun
  <2>1. UNCHANGED <<handlers, ledger, settles>>
    BY <1>10 DEF ViewBilling, SettlementRun
  <2>2. Unseen
    BY <2>1, SameView, SameStatus DEF handlers
  <2>3. QED
    BY <2>1, <2>2
<1>11. CASE Crash
  <2>1. /\ pc' = [r \in Requests |-> IF Live(r) THEN "killed" ELSE pc[r]]
        /\ UNCHANGED <<ledger, owner, est, settles>>
    BY <1>11 DEF Crash, DieAndRestart
  <2>2. ASSUME NEW q \in Requests
        PROVE  AbstractStatus(q)' = IF AbstractStatus(q) = "open" THEN "closed" ELSE AbstractStatus(q)
    <3>1. CASE Live(q)
      <4>1. pc'[q] = "killed" /\ pc[q] \notin {"new", "refused"} /\ owner'[q] = owner[q]
        BY <2>1, <3>1 DEF Live
      <4>2. QED
        BY <3>1, <4>1 DEF AbstractStatus, Live
    <3>2. CASE ~ Live(q)
      <4>1. AbstractStatus(q)' = AbstractStatus(q)
        BY <2>1, <3>2, SameStatus
      <4>2. AbstractStatus(q) # "open"
        BY <3>2, StatusOf
      <4>3. QED
        BY <4>1, <4>2
    <3>3. QED
      BY <3>1, <3>2
  <2>3. aStatus' = [r \in Requests |-> IF aStatus[r] = "open" THEN "closed" ELSE aStatus[r]]
    BY <2>2 DEF aStatus
  <2>4. \A q \in Requests : AbstractStatus(q)' = "new" <=> AbstractStatus(q) = "new"
    BY <2>2, StatusOf
  <2>5. aPayer' = aPayer /\ aAmount' = aAmount
    BY <2>1, <2>4 DEF aPayer, aAmount
  <2>6. QED
    BY <2>1, <2>3, <2>5, AbstractSteps
<1>12. QED
  BY <1>1, <1>2, <1>3, <1>4, <1>5, <1>7, <1>8, <1>9, <1>10, <1>11, SpendCases DEF CleanStep

\* The billing code is the account of CreditLine: every user has a balance, a
\* request goes out on money that no open request has reserved, and what it
\* reserved is charged once or dropped; retries, refusals, runs of the loop
\* and recomputations are not to be seen.
THEOREM ImplementsCreditLineHolds ==
    ASSUME ~ StreamsBreak, ~ HalfWrites
    PROVE  Spec => ImplementsCreditLine
<1>1. Init => Abstract!CLInit
  BY DEF Init, Abstract!CLInit, AbstractStatus
<1>2. HoldInv /\ OnceInv /\ CrashNeverCredits /\ [Next]_vars => [Abstract!CLNext]_(Abstract!clVars)
  BY RefinementStep
<1>3. HoldInv /\ OnceInv /\ [Next]_vars => OnceInv'
  BY OnceStep DEF HoldInv
<1>4. HoldInv /\ CrashNeverCredits /\ [Next]_vars => CrashNeverCredits'
  BY CreditStep
<1>5. Init => CrashNeverCredits
  BY DEF Init, CrashNeverCredits
<1>6. QED
  BY <1>1, <1>2, <1>3, <1>4, <1>5, HoldInit, HoldStep, OnceInit, PTL
  DEF Spec, ImplementsCreditLine, Abstract!CLSpec
=============================================================================
