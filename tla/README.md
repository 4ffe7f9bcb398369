# ai-app-portal in TLA+

TLA+ models of the server of ai-app-portal (`src/apps/server/src`), the TLC
runs that check them on small instances, and TLAPS proofs of what matters most
for every instance. The portal is one Node.js process over SQLite: it lets
users log in, uploads and reviews their packages, runs them as child processes,
proxies to them, meters their calls to language models and bills for it.

Paths below are relative to `src/apps/server/src` unless they start with
another directory of the repository.

- [The shape of the system](#the-shape-of-the-system)
- [Inventory](#inventory)
- [Plan](#plan)
- [The modules](#the-modules)
- [The runs](#the-runs), their [bounds](#bounds) and [fairness](#fairness)
- [What is proved](#what-is-proved)
- [Disagreements found](#disagreements-found)
- [Not modelled](#not-modelled)

## The shape of the system

Two facts about the program decide how every module is written.

*One process, synchronous SQL.* `better-sqlite3` runs a statement, or a
transaction, to its end before anything else runs. What a handler does between
two `await`s is therefore atomic for every other handler, and it is one action.
What it reads before an `await` and uses after it may be stale, and there the
models have two actions with a record of what was read in between. The awaits
that matter are: the body of a request, the hash of a password (scrypt), the
check of a code (otplib) or a passkey (WebAuthn), a free port, the installation
of Python packages, the answer of an upstream and each chunk of its stream.

*A crash can fall between two statements.* Where a handler makes several writes
outside a transaction, a model that has crashes has an action for a crash in
between (`HalfWrites`, `Crashes`, `CrashIn...`). What lives in memory (holds of
requests under way, the run queue, the map of processes) is gone after it, what
lives in SQLite stays.

The components meet in the database rather than by messages: the LLM gateway
and the memberships share the ledger, the packages and their processes share
the row of an app, the sessions guard every route. Where one module needs only
little of another component it has that little as state of its own, with every
move that component can make: the row of an app in `Gateway` and `AppTokens`,
the sessions in `Directory`, the processes in `AppEnv`. Child processes,
upstreams, users, admins, disks and the certificate authority are the
environment.

## Inventory

| Component (code) | State | Operations | Hard behaviour | Correct when | Module |
|---|---|---|---|---|---|
| **LLM billing** (`lib/llm.ts`, `routes/llmGateway.ts`) | ledger, cached balance, estimates in flight, requests under way | precheck, failover, answer, stream, settle, grant, recompute, settlement loop | concurrent requests on one balance; seven ways a request ends; crash between ledger and cache | the cache is the ledger minus the holds; a request goes out exactly on money it can reserve; each is settled once; what is delivered is charged | `LlmBilling`, `CreditLine` |
| **Gateway tokens** (`lib/llm.ts`, `routes/adminLlm.ts`, `routes/llmGateway.ts`) | tokens, windows, the row of the app | issue, reuse, revoke, call | the app changes, goes, and its name comes back | a token spends for a declared app only, at most its limit | `AppTokens` |
| **Memberships, orders, redeem codes** (`lib/billing.ts`, `lib/redeem.ts`, `lib/groups.ts`) | plans, subscriptions, orders, codes, members of groups | order, confirm, cancel, redeem, renew, downgrade, edit, delete | renewal against expiry; two settlers of one order; a loop cut in the middle | an order or code takes effect once; renewals add up; the group follows the subscription; every expiry is noticed | `Membership` |
| **Invoked runs** (`lib/sandbox.ts`, first half) | counter, queue, limit | acquire, queue, reject, release | a limit that moves; release handing on a slot | no slot is lost or used twice; nobody waits while one is free; every run ends | `RunGate` |
| **Persistent processes** (`lib/sandbox.ts`, second half; `server.ts`) | map of processes, restarts, last use | first visit, restart, evict, recycle, stop, shutdown | the await for a port; late exits; crash loops | the map is exact; limits hold; changed configuration is used | `PersistentPool` |
| **Variables and secrets** (`lib/appEnv.ts`, `lib/cryptoSecrets.ts`, `routes/appsRun.ts`) | values, what they are encrypted with, the master key | save, clear, start, update, lose the key | manifest and values change separately; starts that pass no gate; a key that cannot be read | a package runs with what is saved | `AppEnv` |
| **Packages and review** (`routes/appsRun.ts`, `routes/adminApps.ts`, `gateway/registry.ts`) | row, directory, review status, visibility, the process that was started from the directory | submit, update, review, approve, reject, edit, delete, upload, start | row and directory written one after the other; uploads that await minutes; stale decisions; processes that outlive their files | others get vouched code, or such as slips in where nobody looks; the row describes the files | `AppReview` |
| **Package validation, signatures** (`gateway/staticApp.ts`, `lib/signing.ts`) | the directory being filled | unpack, digest, verify, place | sizes and names that lie, doubled entries | limits hold, a signature covers what is stored | `Package` |
| **Gateway** (`gateway/proxy.ts`, `gateway/wsproxy.ts`, `gateway/identity.ts`) | row, logins, ports, requests and runs under way, identities handed out, who knows the signing secret | gate, wait for a port, proxy, run, time out, sign, relay, change the secret | a port taken by another process; identities and the secret handed on | a user is charged by what he had access to, or by who has the secret; waits end | `Gateway` |
| **Rate limiter** (`gateway/limiter.ts`) | buckets | allow, clean | settings that move, buckets removed | bursts are bounded | `Limiter` |
| **Health** (`gateway/health.ts`) | rounds, probes | probe, write | overlapping rounds | what is shown comes true | `Health` |
| **Platform API** (`routes/aap.ts`) | manifest, allow-list, a chain of hops | admit, look up, fetch, redirect | names with several addresses, which change between two lookups | what is fetched was admitted | `Egress` |
| **Sessions, passwords, second factors** (`lib/session.ts`, `lib/mfa.ts`, `lib/passkey.ts`, `routes/auth.ts`, `routes/mfa.ts`) | sessions, flag, TOTP row, recovery codes, passkeys, failures | login, change and reset of the password, enrol, confirm, verify, disable, step-up, kick out | checks that overlap across an await; resets during logins | resets end sessions; no login around a factor; a code is used once; guesses are limited | `Accounts` |
| **Accounts and administration** (`routes/admin.ts`, `lib/bootstrap.ts`, `routes/user.ts`, `lib/audit.ts`) | accounts with role, status, deletion | first start, promote, demote, disable, delete, ask for deletion, purge | requests that carry the row of an actor who was demoted | an admin remains; nobody is purged unasked | `Directory` |
| **Registration, codes, invitations** (`lib/verification.ts`, `routes/auth.ts`, `routes/user.ts`) | codes, registrations, invitations, guesses | start, complete, approve, reset, bind | the send that is awaited and may fail | an address is proven; an invitation makes one account | `Registration` |
| **Bans, proof of work** (`lib/security.ts`, `lib/pow.ts`) | failures, bans, challenges, tokens | fail, ban, prove, spend | logins that overlap in the hash | guesses are limited | `IpGuard` |
| **Certificates** (`gateway/tls.ts`, `routes/adminTls.ts`, `lib/securityHeaders.ts`) | certificate and key files, the server, the ACME job | install, issue, renew, remove, start | two files; overlapping jobs; crashes | what is served is what a restart restores; renewal repairs | `TlsCert` |
| Database, audit log, guides, portal, web interface, shared types, deployment | — | — | — | decide nothing | — |

`PROJECT.json` lists every component with its status, and every hazard at its
line with the properties that cover it.

## Plan

The order was: money, then code that runs, then who may use it. `LlmBilling`
and its abstraction, `Membership`, `RunGate`, `PersistentPool`, `AppReview`
and `Accounts` came first; `Registration`, `Directory`, `Gateway`, `Package`,
`AppEnv`, `Egress`, `AppTokens`, `IpGuard`, `Limiter`, `TlsCert` and `Health`
followed, each where a hazard had no property yet.

The proofs came after the runs, in the same order, and now cover every safety
invariant and every action property that a passing run checks. Next:

1. Proofs of what the modules need beyond their properties: types of `Health`,
   and of the instances that have none of their own.
2. `DeployedApp`: `AppReview`, `AppEnv` and `PersistentPool` over one row.
   `AppReview` has the process that outlives its files and `AppEnv` the one that
   outlives its manifest; what is missing is the pool's races between them.
3. Crashes between the statements of the handlers of second factors.

## The modules

Every definition is translated from the code that `map` of `PROJECT.json` names
for it. A definition under a comment `Fault:` is a slip a programmer could make
(a dropped guard, an off-by-one, a missing reset); nothing refers to it, it
shows that a property depends on the code: with the fault in the place of the
definition after it the property fails.

### Money

**`CreditLine`** is what billing promises, without caches and crashes: an
account on which a request reserves an amount that nobody else has reserved,
and is charged once.

**`LlmBilling`** is the handler of `POST /v1/chat/completions` with everything
that writes the same rows. `ledger[u]` is the sum of `llm_ledger`, `cache[u]`
the row of `llm_balance_cache`, `inflight[u]` the map `inFlightEstimate`,
`pc`, `owner`, `est` and `conn` are the locals of a request. `Admit` and
`Refuse` are the handler up to its first await, `FetchFails`, `ClientError`,
`Answer`, `StreamStarts`, `Chunk`, `StreamEnds` and `StreamFails` what may come
back, with the failover loop inside; `Settle` is `recordUsage` with
`settleEstimate`. `Grant`, `ViewBilling` and `SettlementRun` are the other
writers, `Crash`, `CrashInGrant` and `CrashInSettle` the places to die.
`Costs` are what the usage frames of an upstream may come to, `Guesses` what the
gateway estimates of a stream without one; a route with multiplier 0 makes
either 0. `suspect` remembers whose cache a crash may have left wrong, `settles`
and `charged` what was done for a request.

**`AppTokens`** is who may come that far: the tokens of one app id, the row of
the app that the capability gate reads, and the window of a minute per token.
A deletion writes the row and the tokens in two statements, and an upload
inserts the row before it issues the token; crashes fall in between.

**`Membership`** is `lib/billing.ts` and `lib/redeem.ts`. Time is a counter;
`order`, `code`, `plan`, `sub` and `members` are the tables. A confirmation, a
redemption and an activation are transactions, a downgrade and the replacement
of a member list are not and may be cut (`HalfWrites`). `credited`, `byPlan` and
`bought` remember what took effect, whom a plan put into a group, and what was
bought.

### Code that runs

**`RunGate`** is `runInvoked` with `acquireRunSlot`: `active` is `activeRuns`,
`queue` is `runQueue`. Arrival and release are synchronous stretches and one
action each; the limit is a setting that moves at any time.

**`PersistentPool`** is `ensurePersistent` with all who stop processes. `call`
holds the calls that await `freePort`; `entry` is the map, `proc` the processes
outside, which end when they like and are heard of later. `Resume` is the
stretch after the await: the second look, eviction, spawn. `line` counts the
restarts since the last visit that started one. A save stops the process the
map knows and makes the configuration of every other one that runs outdated, so
that nobody has outdated values only as long as the map misses nobody.

**`AppEnv`** is what such a process is started with. Values are rows with the
key they were encrypted by; the master key is in memory, in its file, or new.
A start reads the manifest at its gate and the rows at its spawn; that of a
WebSocket handshake (`Upgrade`) and that after an exit (`Respawn`) have no gate.
A save may fail halfway. `proc` remembers what the process was given, whether
its start had passed the gate and what changed while it started.

**`AppReview`** is one app id: `row` of `apps`, `files` in its directory,
`proc` the process that was started from it, `starting` a start on its way,
`upload` the requests of admins that wait for dependencies. No handler that
exchanges or approves files stops the process, and a deletion leaves both.
`cleared` is the set of versions an admin has vouched for, by approving after a
look, by uploading them, or by opening the app by hand; `slipped` the versions
that came where nobody looks: while a decision was made on another one, with a
crash before their row, next to the row of another one, or as a process that
outlived the exchange of its files. `mixed` says that a crash within an exchange,
a deletion in the middle of an upload, or uploads that overlap may have left row
and files of different exchanges.

**`Package`** is what comes before: a zip entry by entry with the size it
claims and the size it has, the digest over the entries, the signature with
its embedded key, and the rename at the end. `Genuine` is the package that the
owner of the trusted key has signed.

**`Gateway`** is the way of a request through `gateway/proxy.ts` or
`gateway/wsproxy.ts`: the gate reads the row once, then the request waits for a
port, for a package that listens there, for an answer; a run of an invoked
package waits in the queue and is then a process of its own, with an identity of
who asked for it. `bound` says who really listens on a port, whatever the portal
thinks, and `held` the age of the youngest identity of a user by audience, which
any application may present once one was handed it. `signers` is who knows
`AAP_SIGN_SECRET`: each package with `passUser` from its spawn on, an application
behind an address when the administrator gives it the secret, and whoever is
told; they are accepted as whomever they name. `ChangeSecret` voids all of that.
`since` is how long ago a user last had access to an app. Who is to know his
visitors (`PassUser`) is a constant of the model.

**`Egress`** is one chain of redirects of `POST /api/aap/egress`. Addresses are
numbers of `Width` bits, so that the masks of the CIDR entries are computed as
the code does; exact entries of the allow-list are names or addresses. A name is
looked up by the portal and once more by the fetch, and `Moved` changes its
addresses at any time, between the two as well; `reached` keeps what was fetched
with what had been looked up for it.

**`Limiter`** and **`Health`** are the two loops beside the gateway: buckets
per user and address in units of a tick's refill, and rounds of probes of which
the next begins whether or not the one before has ended.

**`TlsCert`** has the two files, the pair the server uses, the cookie mode and
the header, and the one ACME issue with its awaits. Two crashes may fall
between any two writes.

### Who may use it

**`Accounts`** is one local account. A request is a record that remembers what
it read: `Load` is `sessionMiddleware`, which runs before `express.json` reads
the body, so that a request carries the level of its session over the wait for
its body; `BeginLogin`/`EndLogin`, `BeginConfirm`/`EndConfirm`,
`BeginVerify`/`Verified...`, `BeginRegister`/`EndRegister`, `BeginPasskey`/
`EndProof` are the two halves of the handlers around scrypt, otplib and
WebAuthn. `sess[s].pw` says whether the session was opened under the password
in force, `cleared` whether it has shown a second factor, `used` how often a
code was accepted.

**`Directory`** is all accounts, seen from outside: the first start with its
two writes, logins in two halves around the hash (a session that a login opens
for an account disabled meanwhile ends at its next request, `Begin`), OIDC
accounts with their approval, the requests of admins,
which carry the actor's row over the wait for the body and may await a hash as
well, the deletion an owner asks for and the purge that carries it out.

**`Registration`** has the codes of each address in the order of their rows,
the registrations, invitations, and calls that await the channel. Reset codes
have the counter of `resetFails` beside the table.

**`IpGuard`** has the failures of the window by address, kind and age, the bans
with what the next one lasts (which `repeat_count` determines), challenges and
tokens of the proof of work, and logins that await their hash between the checks
and the record.

## The runs

All configurations say `CHECK_DEADLOCK FALSE`: requests, orders, versions and
ticks are used up in every instance, and with nobody asking for anything the
server does nothing.

*Runs over several modules.* `people`, `packages`, `loops` and `processes`
instantiate modules that share no state. The variable `focus` picks one module
(or one of two instances of it) in the initial state, and only that one takes
steps, so the reachable states are those of the modules one by one, and each
property is checked of its module as in a run of its own. Fairness conditions
are those of the module in focus.

| Run | Instance | Shows |
|---|---|---|
| `billing` | 1 user, 2 requests, 2 candidates, estimates 1–2, costs 0, 1, 3, 1 grant or adjustment, 1 crash anywhere, broken streams | in every interleaving the cached balance is the ledger minus what is in flight (`CacheIsLedgerMinusHolds`); a request leaves exactly when the ledger covers it beyond all concurrent ones (`GateIsExact`); an error is never at the user's expense (`NeverShortchanged`); requests end and the loop repairs the cache of whom it sees (`EveryRequestEnds`, `SettlementHeals`) |
| `billing_spend` | the same with 2 grants, requests without a user, streams that do not break, crashes between handlers | each request is settled once, money is not spent twice, a crash hands out none, and the code refines `CreditLine` (`ImplementsCreditLine`) |
| `people`: `Membership` | 2 users, 2 plans of one group, 2 orders, 1 code | what is paid or used took effect once (`EffectIffSettled`); subscribers are in their group, and whom a plan put there has a subscription (`MembersFollowPlans`) |
| `people`: `Directory` | 2 local accounts with 2 requests; 1 local, 1 OIDC account with a crash | an admin who can act remains (`SomeAdminRemains`); nobody is purged who did not ask or was undone (`PurgedAsked`) |
| `people`: `Registration` | 2 registrations that overlap; resets and changes of an address with a crash | invitations make one account, guesses and the quota exceed their limits by no more than what overlaps (`LimitsHold`); an account has an address only by an unused code that was sent there (`AddressIsProven`) |
| `people`: `IpGuard` | 2 addresses, 2 logins, a window of 2 ticks, bans of 2 | guesses without proof of work stay within their threshold and what overlaps; guesses of an address within the threshold of a ban, or the logins that overlap its beginning, and what overlaps (`GuessesLimited`) |
| `people`: `Limiter` | 1 user, 2 addresses, capacities 1 and 2, a minute and an idle time of 2 ticks | no key gets more than a full bucket above the steady rate (`BurstBounded`) |
| `accounts` | 2 sessions, 2 requests, 2 secrets, 2 steps, 2 passkeys, 1 recovery code, limit 2 | no session of before outlives a change of the password (`KickedOut`); a full session has shown its factor and the flag follows the factors (`SecondFactorHolds`); overlapping checks use a code once and guess no more than the limit and they allow (`OneTimeCodes`) |
| `packages`: `Gateway` | a persistent package that is to know its visitors, an application behind an address, an invoked package, 1 port, 1 user, 1 request, 2 changes | a user is charged only by apps he had access to within the validity of an identity and the wait of its request, or by one that knows the secret of now (`ChargedHadAccess`) |
| `packages`: `AppReview` | 2 users and the admins, 3 versions (1 signed), 1 upload, starts and exits, crashes | manifest, files and process that strangers get were vouched for, or slipped in by one of the four named ways and no other; the row describes the files (`OpenIsVouched`) |
| `packages`: `Package` | zips of 4 entries, 4 units of space | a verified row has the genuine files, the disk is bounded, files come from the owner or an admin (`UploadsAreContained`) |
| `packages`: `AppEnv` | 2 names, 2 versions, 3 saves, 2 keys | a process has what is saved, however it was started, and what its manifest requires if it passed the gate; what is saved stays readable while the key does (`ConfiguredIsUsed`) |
| `packages`: `Egress` | 4 addresses, 2 names that move, 2 allow-lists (nothing; an exact name, an exact address and a range), 1 redirect | an address is fetched when the list has it, a name when it and all it was looked up with were admitted (`ReachedIsAdmitted`) |
| `packages`: `AppTokens` | 2 tokens, limits 1 and 2, a window of 2 ticks | a package's own token spends only while the row declares it, it is the only one, and no minute serves more than twice its limit (`TokensAreContained`) |
| `loops`: `RunGate` | 5 runs, queue of 2, limits 1–3 | no more runs than the limit and nobody waits while a slot is free, until the limit moves (`GateIsTight`); every accepted run ends whatever it does (`EveryRunEnds`) |
| `loops`: `TlsCert` | 3 pairs, 2 crashes | what is served is what a restart would restore, with its cookies and header (`HttpsIsConsistent`); with a domain a spoilt or due certificate is replaced (`RenewalHeals`) |
| `loops`: `Health` | an address and a package, 2 rounds | what is shown of an app that stops changing comes true and stays (`HealthConverges`) |
| `loops`: `Gateway` | a package and an address, 2 ports, 1 change | nobody waits for a port or an address for ever (`WaitsEnd`) |
| `processes`: `PersistentPool` | 2 packages, 3 processes, 2 calls, limits 1–2, 1 restart, a shutdown; and 3 packages with 1 call, without crashes and shutdown | the map is exact (`RegistryIsExact`), starts keep the limit and crash loops end (`ProcessesAreBounded`), a process that nobody told to stop was started with the saved configuration (`FreshEnvironment`), idle processes are recycled (`IdleIsRecycled`) |
| `processes`: `Membership` | 1 user, 2 plans with groups of their own, 1 order, 1 code, admins who edit and delete, crashes between statements | renewals add up and nobody is downgraded early (`SubscriptionsLast`), every expiry is noticed (`ExpiryIsNoticed`) |
| `billing_stream_free` | 1 candidate, no route with multiplier 0 | *violated:* `DeliveredIsPaid`, see below |
| `membership_switch` | 1 user, 2 plans with groups of their own | *violated:* `GroupsFollowSubscriptions` |
| `pool_half` | 1 package | *violated:* `StoredIsUsed` |
| `review_overtaken` | `AppReview` with 4 versions, no crashes | *violated:* `NoUnreviewedCode` |
| `gateway_ws_env` | `Gateway` of `packages`, one package lacks a variable | *violated:* `NotStartedWithoutEnv` |

`PROJECT.json` names for every property of a passing run a fault that breaks it.

### Bounds

- *Two* requests, calls, sessions, logins or orders of the same kind: every
  hazard here is between two actors at a time, or between one and a loop. The
  run gate has five runs because a full gate, a full queue and a newcomer are
  that many. Where a limit can be exceeded by what overlaps, the property says
  by how many, so that two show it.
- *Two candidates*: the first, and "one more". Costs 0, 1 and 3 against
  estimates 1 and 2 make a request cheaper than, equal to and dearer than its
  estimate.
- *No half writes in `billing_spend`*: a crash between a ledger row and the
  correction of the cache is a deposit, or a charge, and the loss of all open
  requests in one step of the model, which `CreditLine` has as two. `billing`
  has these crashes.
- *One crash*: the effects of a crash (empty memory, rows as they are) do not
  accumulate; the state after it is explored to the end. `TlsCert` has two, so
  that whoever repairs may be cut short as well; `AppReview` and `AppTokens`
  have no bound on them.
- *Clock up to 3, one tick per plan*: activation, last valid moment, expiry, and
  a renewal on either side of it. All other modules keep ages, capped just
  above the threshold they are compared with, and need no bound on time.
- *Window = 2* in `IpGuard`: failures that outlast a ban are those of the tick
  before its beginning; with a window of one tick there are none, and the bound
  looks smaller than it is. Bans last 2 ticks and do not grow in the run, which
  keeps it within minutes; the proof has any growth. `MaxLogged` bounds missed
  reset codes only, in the run.
- *Minute = 2, IdleFor = 2* in `Limiter`: a refill of half a bucket at a time,
  and the shortest idle time for which the cleanup is harmless.
- *Window = 2* in billing: a row that the settlement loop sees twice stands for
  one that it sees ten times; downtime from none to longer than the window.
- *Idle = 1, one restart*: under, at and over each threshold.
- *FailLimit = 2, MaxGuesses = 2, BanAt = 2*: one that passes the check together
  with the last one allowed. The code's values are 5, 5 and 10.
- *Four entries of a zip*: manifest, code, signature and one that doubles or
  leaves. *One redirect*: the second hop is admitted by the same code as any
  later one, from the same two inputs.
- *Ttl = 1, QueueWait = 2* in `Gateway`: under, at and over the validity of an
  identity and the longest wait before it is signed, which differ, so that an
  invoked run may be signed for later than a visit.
- *Names*: tokens, ids and versions are not used twice; a model value is free
  again when nobody speaks of it.

Symmetry is used only in runs without liveness, and only over sets that no
constant tells apart.

### Fairness

Fairness is assumed only of what the program's own timers and the operating
system drive:

- `LlmBilling`: an upstream call ends (the abort timer of fetch) and a stream
  ends (idle timer, assuming that no upstream sends chunks forever); the
  settlement loop is a `setInterval`.
- `Membership`: the same loop.
- `RunGate`: a run ends, because `runInvokedOnce` kills the child after its time.
- `PersistentPool`: time passes, the idle loop is a `setInterval`, `freePort`
  answers, and a process that got SIGTERM ends. A process that ignores SIGTERM
  is a leak the code does not handle; it sends no SIGKILL.
- `Health`: rounds go on, since each probe has a timer.
- `TlsCert`: the supervisor starts a process that died, the renewal loop is a
  `setInterval`, and the authority, asked again and again, in the end asks its
  challenge and issues (strong fairness: each single issue may fail).
- `Gateway`: a wait for a package ends by its port or its timer, that for an
  address by its timer; stopped processes end. A port is found if one is free
  again and again (strong fairness: the limit may be reached in between).

Users, admins, upstreams that answer well and crashes are never forced.

## What is proved

Every safety invariant and every action property that a passing run checks is a
theorem as well. The theorems hold for all values of the constants that satisfy
the named assumption of the module (`BillingAssumption`, `GuardAssumption`, ...,
one in each module), which TLC evaluates in every run of it. The assumptions ask
for natural bounds, for finiteness where something is counted, and that the
marks "nobody" and "no row" are not values. Two of them say more about the
configuration, and the theorem needs it:

- `LimiterAssumption`: a bucket has to be idle for a minute at least before it
  is taken away. The code's figure is 300 s (`gateway/limiter.ts:46`). A shorter
  time would give a key a full bucket for an empty one.
- `GuardAssumption`: the first ban lasts as long as the window at least, and
  later ones grow. The defaults are 3600 s and 600 s (`config/index.ts:119`). An
  admin may set them otherwise, and then an address has the failures of before
  its ban and those after it in one window.

What a theorem assumes beyond that is in its `ASSUME` and in this table.

| Module | Theorem | Assumes | States |
|---|---|---|---|
| `LlmBillingProofs` | `CacheIsLedgerMinusHoldsHolds`, `NeverShortchangedHolds`, `InFlightIsOutstandingHolds`, `GateIsExactHolds` | — | cache, ledger and requests under way agree; the gate lets through exactly what the ledger covers |
| | `SettledOnceHolds` | streams do not break | one settlement for each request |
| | `CrashNeverCreditsHolds` | no crash between statements | cache and holds together are never more than the ledger, whatever a crash forgets |
| | `DebtIsUnderestimateHolds` | both, grants are not negative | a debt comes from costs above their estimates only |
| | `ImplementsCreditLineHolds` | both | the refinement of `CreditLine` |
| `LoopsProofs` | `SlotsAreHeldHolds`, `GateIsTightHolds` | — | slots are exact and tight (`RunGate`) |
| | `HttpsIsConsistentHolds` | — | what is served is what a restart restores (`TlsCert`) |
| `PeopleProofs` | `EffectIffSettledHolds`, `SubscriptionsLastHolds` | — | one effect for each order and code; no subscription ends early (`Membership`) |
| | `SubscriberInGroupHolds` | no admin edits groups | subscribers are in the group of their plan |
| | `GroupsFollowHolds` | one group for all plans, no cut downgrade | whom a plan put into a group has a subscription |
| | `MembersFollowPlansHolds` | all three | both |
| | `BurstBoundedHolds` | — | no key gets more than a full bucket above the steady rate (`Limiter`) |
| | `GuessesLimitedHolds` | — | guesses stay within the thresholds and what overlaps (`IpGuard`) |
| | `SomeAdminRemainsHolds`, `PurgedAskedHolds`, `LimitsHoldHolds`, `AddressIsProvenHolds` | — | what the next two modules prove, of the instances of the run |
| `DirectoryProofs` | `SomeAdminRemainsHolds`, `PurgedAskedHolds` | — | an admin who can act remains, unless his own deletion came due or a request outlived the right of its actor (`lost`); nobody is purged unasked |
| `RegistrationProofs` | `LimitsHoldHolds`, `AddressIsProvenHolds` | — | invitations, guesses and quotas hold up to what overlaps; an address is proven |
| `PersistentPoolProofs` | `RegistryIsExactHolds`, `FreshEnvironmentHolds`, `ProcessesAreBoundedHolds` | — | the map is exact, no process is outdated, limits hold and crash loops end |
| `AccountsProofs` | `KickedOutHolds`, `SecondFactorAlwaysHolds`, `OneTimeCodesHold` | — | sessions end with the password, factors are asked for, codes are used once and guesses limited |
| `PackagesProofs` | `ChargedHadAccessHolds` | — | charges follow access, or knowledge of the secret (`Gateway`) |
| | `TokensAreContainedHolds` | — | tokens spend for what is declared, within twice their limit in a minute (`AppTokens`) |
| | `ConfiguredIsUsedHolds` | — | a process has what is saved, and what is required if it passed the gate; what is saved stays readable (`AppEnv`) |
| | `ReachedIsAdmittedHolds` | — | what is fetched was admitted: an address by itself, a name by itself and what was looked up (`Egress`) |
| | `UploadsAreContainedHolds` | — | signatures cover what is stored, the disk is bounded, files have one source (`Package`) |
| | `OpenIsVouchedHolds` | — | strangers get vouched code, or what slipped in by a named way; the row describes the files (`AppReview`) |

Types are proved with the invariants; each proof module has a `TypeCorrect`, of
its first component. `LoopsProofs`, `PeopleProofs` and `PackagesProofs` extend
the module of a run, because components that no run has to itself are instances
there, and state their theorems of the specification that the run checks: the
constants stay arbitrary, only which variable is whose is fixed. What such a
module proves of one component says nothing of the others, whose variables do
not move while that one is in focus. `Directory` and `Registration`, of which
`MCPeople` has two instances each with different constants, are proved about in
modules of their own, and `PeopleProofs` takes both instances from there.
`SubscriptionsLast`, which the run `processes` checks of an instance, is proved
of `Membership` itself.

The assumptions of the table are not for convenience: without them the theorems
are false. Runs show the counterexamples for streams that break
(`billing_stream_free`) and for plans of several groups (`membership_switch`).
A crash between a ledger row
and the correction of the cache leaves the cost in the cache until the
settlement loop finds it (`SettlementHeals`, in the run `billing`); one between
the two deletions of a downgrade leaves the member without a subscription; and
an admin who edits a group may remove a subscriber.

### Money

**`LlmBillingProofs`**, the balance:

- `TInv` adds two facts to the types: a new request is blank, and a request
  under way has a cache row. Without the second one a settlement could add to
  `NoRow`.
- `HoldInv` speaks of the sum of the estimates of the requests under way that
  are not settled. The sum is the cardinality of a set of tokens
  (`HeldTokens`), so that a hold adds, and a settlement removes, a disjoint
  finite set, and the library's facts on cardinalities apply. It is conditional
  on `~DoubleSettled(u)`, because the code does settle a request twice when a
  stream breaks and the next candidate answers 4xx; the condition is stable.
- `IInv` adds the gap between cache and ledger: it is never negative for a user
  who is not suspect, and zero when nobody was settled twice. Only a double
  settlement opens it, in favour of the user, because `releaseInFlightEstimate`
  stops at zero.
- The steps are grouped: those of a handler (`HandlerStep`) and all others
  (`OtherStep`), each with one lemma per invariant. `GateIsExact` follows by
  action: the comparison that `precheck` makes with the cache is, by the
  invariant, the comparison with the ledger and the requests under way.

What users spend is the second half. It adds the fact that nothing has gone out
for a request that still has a candidate to try (`NothingSent`): it is what
makes a return the only place of a settlement. The debt of a user is bounded by
a sum over requests again (`ExcessTokens`: what each cost beyond its estimate),
kept as the cardinality of a set whose finiteness is part of `SpendInv`. For the
refinement every step of `LlmBilling` is mapped: admission to a reservation, the
settlement to a charge, a grant to a deposit, a crash to the release of all
reservations at once, all others to a stutter. Here `CacheIsLedgerMinusHolds` is
needed once more, as `CreditLine` compares with the ledger where `precheck`
compares with the cache.

**`AppTokens`** (in `PackagesProofs`): `TokensInv` says that ids are given out
once and that a token of the runtime has an app to go with, `WindowsInv` that
windows are those of ids given out. `RateInv` cuts the minute in two: the calls
as young as the present window, no more than it counted, and those left of the
window before. Each part is at most the limit, hence twice the limit in all.

**`Membership`** (in `PeopleProofs`): `IInv` adds to the types that pending
orders have an account, plans for sale a group, and plans somebody has are kept
unless their group went; that a subscription lasts as long as what was bought
(`RenewalsAddUp`) is part of it, and the action property follows: a row goes
only when its last day is over. Whether groups follow subscriptions is proved on
top of it, in two halves with different assumptions.

### Code that runs

**`RunGate`** (in `LoopsProofs`): the counter is a natural number only because
it counts runs, so `GInv` proves types and slots together; two lemmas say what
joining and leaving a queue without repetitions does to its members.
`GateIsTight` is inductive relative to it: a release hands its slot to the first
in the queue, so that a slot is free only when nobody waits.

**`PersistentPoolProofs`**: `IInv` adds that a server that is gone has no map
and that the count of restarts is the length of the line of crashes
(`LinesCounted`). `RegistryIsExact` is inductive with the first of the two: the
second look after the await sees every process that began meanwhile.
`FreshEnvironment` rests on `RegistryIsExact` in the step of a save.

**`AppEnv`** (in `PackagesProofs`): `EnvInv` adds what a key is known by
(`KeyKnown`: a key in memory is the one in the file, and a process has a server
that knows it) and what a start that has passed the gate may rely on
(`StartConfigured`: what the manifest requires has a row, or the start knows of
the change). A start that has not passed it needs nothing: the spawn reads what
is saved then, and every save after it stops the process.

**`AppReview`** (in `PackagesProofs`): a version is known when it was vouched
for, signed, or slipped in. `RvInv` adds that a look not yet decided on contains
the version the row describes, unless that one is known (`LookIsOfRow`); that
files and process are of the row's version or known (`OthersAreKnown`), which is
what a decision on the row then extends to them; that an admin's upload is
vouched for (`UploadIsVouched`), and that one that waits will insert the row of
the files that are there (`UploadDescribesFiles`). The last one is true only
until two uploads of the same new name overlap; the model marks them `mixed`, see
*Disagreements found*.

**`Package`** (in `PackagesProofs`): while a request unpacks, its directory has
the last content of each entry that is digested and perhaps the signature, and
nothing else (`DigestCovers`), and what is on the disk was counted
(`CountCovers`). A verified digest is then that of the files that are stored, as
the digest joins all contents of an entry and equals the genuine one only when
there is one of each.

**`Gateway`** (in `PackagesProofs`): the time since a user lost access is
carried along the way of a request: none at the gate, as many ticks as it waits
for a port or in the queue (`WaitingHadAccess`), and for an identity that was
handed out its age and the longest such wait (`HeldHadAccess`). Where the identity
went plays no part, so the theorem holds for packages that take each other's
ports and hand on what they are given. Whoever knows the secret is excepted; the
set of those grows by spawns and by being told, and is empty after a change of
the secret, which voids the charges and identities of before.

**`Egress`** (in `PackagesProofs`): `HopAdmitted` says what each gate has left
behind for the next one, of what the request has read and looked up; that names
move meanwhile does not touch it. The bits are what is left to show: `PowerOfTwo` takes
from the library that a set has as many subsets as a power of two says, and
`CidrIsRange` that two numbers with the same quotient by 2^k are in one range of
2^k numbers, for any width.

**`TlsCert`** (in `LoopsProofs`): `TlsInv` is `HttpsIsConsistent` with the types
and the fact that a server that is down serves nothing.

### Who may use it

**`AccountsProofs`**: `IInv` speaks of requests that await something: a login
under way that was not asked for a factor began before there was one
(`LoginsKnow`); guesses and checks under way together stay below the limit plus
the number of requests (`ChecksCount`); no code of a step past the last accepted
one has been used (`CodesFresh`). The steps of the four kinds of handlers each
have a lemma that states what they may do to sessions, to logins and to checks.

**`DirectoryProofs`**: that an admin remains is a matter of counting. The check
for the last admin counts all of them, so it keeps one who can act as long as
those who count are those who can act, or the actor himself still can.
`AdminInv` is `AbleOrEmpty`, with the two moments of the first start in which
nobody can act yet (`FirstIsAble`). That nobody is purged unasked needs
`AskIsAsked`: a row that comes due says when its owner asked. That sessions and
hashes under way are those of accounts that are there is part of `TInv`.

**`RegistrationProofs`**: guesses are counted in two places, in `resetFails` and,
as history, by code. `Fits` says how the two go together: a code that can still
be compared has met what is counted and one less than the limit for each count
before. The quota of an address is kept by a sum, the registrations that count
and the starts that are on their way (`QuotaOf`): a start that ends moves one
from the second part to the first.

**`IpGuard`** (in `PeopleProofs`): the failures that can be in a window are
split by ban: while an address is banned, those that outlast the ban
(`Outlasting`) and the logins that still await their hash are together no more
than the logins that may overlap; without a ban what is in the window is at most
`Residue`. The other limit is a sum again, of failures without proof and logins
without proof that await.

**`Limiter`** (in `PeopleProofs`): what a key got above the steady rate is
missing in its bucket (`Missing`), measured by what the bucket can hold by now
had the largest setting filled it since the last look (`Most`). A bucket that is
taken away was idle for so long that nothing is missing in it.

### What the proofs corrected

Four properties that the runs agreed with were true only of their instances; the
attempt to prove them showed the counterexample, and TLC confirmed it.

- `SomeAdminRemains` was stated of accounts that exist as admins. With three
  accounts a request whose actor was demoted meanwhile takes the last one; the
  property now says who has lost his right (`lost`), and `RolesKeepOne` states
  what the comment in the code promises.
- `BurstBounded` is false if a bucket may be taken away sooner than it fills.
- `RateHeld` compared with the limit of the moment; a limit that was lowered
  within the minute breaks that. It now compares with the largest one.
- `GuessesBounded` allowed for an address the threshold of a ban and the logins
  that overlap. In a window longer than a tick the failures of logins that
  overlapped the beginning of a ban are still there when it ends, and do not ban
  again: the bound is the greater of the two, plus the logins that overlap, and
  it is reached.

### Only model-checked

The liveness properties: `EveryRequestEnds`, `SettlementHeals`, `ExpiryIsNoticed`,
`IdleIsRecycled`, `EveryRunEnds`, `RenewalHeals`, `HealthConverges` and
`WaitsEnd`. They rest on fairness and `ENABLED`, which the prover does not
handle; `Health` has no other property and hence no theorem.
The five violated properties of the next section are counterexamples of TLC.


## Disagreements found

Five runs exhibit them; each names the line of the code and quotes the document
in `PROJECT.json` under `findings`.

1. `billing_stream_free`: a stream that fails after content went out is taken
   for a failed candidate and settled for nothing, although unmetered content is
   to be charged by estimation. The instance has no route with multiplier 0, by
   which content is free on purpose.
2. `membership_switch`: changing to a plan of another group leaves the user in
   the first group for good.
3. `pool_half`: saving several values stops at the first bad one; those before
   it are stored, but the process with the old ones is not stopped.
4. `review_overtaken`: an approval names an app, not a version, and clears a
   version that arrived after the look.
5. `gateway_ws_env`: a WebSocket handshake starts a package that lacks a
   required variable.

The modules state others, which are not kept as runs: a definition with the
comment *Refuted* is violated in the instance named here.

| Module, instance | Definition | What happens |
|---|---|---|
| `LlmBilling`, `billing` | `SettledOnce` | a stream breaks, the next candidate answers 4xx with headers already out: the estimate is given back twice |
| `LlmBilling`, `billing` | `DriftAbsorbed` | after a crash with a hold but no ledger row in ten minutes, the cache stays too low until the user's next movement |
| `AppTokens`, `packages` | `DeclaredSpendAlways` | a crash between the deletion of the row and of the tokens leaves a token that the capability gate lets through, as for an id without app |
| `RunGate`, `loops` | `FifoAlways` | after the limit was raised a newcomer passes the queue, which only a release serves |
| `PersistentPool`, `processes` | `NoOrphans` | a start that awaits its port during shutdown spawns a process that nothing stops |
| `Gateway`, `packages` | `OnlyVisitorsPay` | a package with `passUser` has the secret that all identities are signed with (`lib/sandbox.ts:102-108`, `docs/DEVELOPMENT.md:40`), and the portal accepts what it signs for its own audience, of users who never visited it |
| `AppReview`, `packages` | `ProcessIsReviewed` | the process of the owner outlives update, approval and deletion: strangers of the approved version get the one before (`routes/appsRun.ts:358-371`, `docs/DEVELOPMENT.md:57`) |
| `AppReview`, `packages` | `NeverUnreviewed` | a crash between the exchange of the directory and the row leaves new files under the old approval |
| `AppReview`, `packages` | `AppHasFiles` | a failed installation removes the directory of an app of the same name |
| `AppReview`, `packages` | `ApprovalRestores` | a signed update approves a version but leaves the app offline |
| `AppEnv`, `packages` | `StartedComplete` | a handshake and a restart after an exit ask for nothing; the gate asks for rows, and one whose key was lost counts as configured |
| `Egress`, `packages` | `FetchedWasLookedUp` | the fetch looks the name up again (`routes/aap.ts:6`; `docs/DEVELOPMENT.md:124` names the gap) |
| `Egress`, `packages` | `LinkLocalNever` | "refused without condition" (`routes/aap.ts:340-341`, `docs/DEVELOPMENT.md:124`) is asked of what a name was looked up with; an address that an entry of the list covers is not asked, nor is what the fetch finds |
| `AppEnv`, `packages` | `SecretStaysSecret` | the answer of `GET /apps/:id/env` follows the present manifest, and an update may declare a saved secret plain |
| `Accounts`, `accounts` | `OldPasswordIsOut` | a login that awaits its hash while the password is reset opens a session afterwards |
| `Accounts`, `accounts` | `BoundSecretWasShown` | a second enrolment during a confirmation confirms a secret nobody has shown a code of |
| `Directory`, `people` | `RolesKeepOne` | the check for the last admin counts disabled ones: an actor who was disabled meanwhile demotes the only one who can act |
| `Directory`, `people` | `DisabledStaysOut` | a request for deletion that was under way overwrites the status of an account that was disabled meanwhile |
| `Limiter`, `people` | `CleanupFrees` | the cleanup looks at what is stored, not at what a bucket would have by now, and leaves full ones |
| `TlsCert`, `loops` | `HstsWithHttps` | a port that is taken ends the HTTPS server, not the header |

Behaviour the models contain that a reader may not expect, and that no
definition calls wrong:

- `Registration`: starts that overlap exceed the quota of an address. A reset
  code is compared with up to nine wrong guesses, as the count begins anew
  after the send. An activation that fails has used its code, and the name and
  address stay reserved until the purge. When the newest code is used, an older
  one of the same purpose is valid again.
- `Directory`: a crash between the insert of the first admin and the hash of
  his password leaves a site nobody can log in to. Accounts of the identity
  provider that an admin approves do not join the default group.
- `Gateway`: activity on a WebSocket does not touch the last use of a process,
  which may be recycled under it; sockets outlive a logout. On public apps an
  identity is signed for a user who still owes the second factor. The token of
  a disabled app still works.
- `AppTokens`: an update does not issue a token, so an app whose token was
  revoked, or whose upload was cut short, has none until it is deleted. After
  a crash in a deletion a new app of the same name takes over the old token.
- `AppEnv`: a stored variable that the manifest no longer declares cannot be
  cleared. An error while reading the file of the master key replaces the key.
- `AppReview`: of two uploads of one new name that overlap, the one that ends
  first inserts its row, and the files are those of the one that began last;
  the second insert fails and leaves it at that (`mixed`).
- `AppReview`: only a change of `passUser`, of a variable or of the signing
  secret, idleness, and the room for another package stop a process. One that is
  started while the files are exchanged is of the new ones, without the row
  being asked again.
- `TlsCert`: an ACME issue that ends after an administrator has installed a
  certificate takes its place; all parts agree on it, and nothing says it should
  not.
- `AppReview`, `Package`: an update keeps the runtime mode of the first version
  and installs no dependencies. Temporary directories of a crash stay.

## Not modelled

- *Computation on texts*: the fields of a manifest, headers, HTML rewriting,
  prompts, prices, formats of names and addresses; their verdicts are inputs.
- *What libraries compute*: scrypt, otplib, WebAuthn, JWT, adm-zip, pip; a check
  succeeds or fails.
- *Read-only routes*, the audit log, guides, the web interface, deployment.
- *Parts of modelled components*: the management of upstreams and routes; the
  OIDC and ACME protocols; the flag of enabled tokens, which nothing clears;
  group and account lists of restricted apps; phone numbers; the quota of
  uploads; the runtime mode and the dependencies of an updated package; the
  order in which equally old processes are evicted; two names of one file in a
  zip; the switch of `passUser` while identities are about; multipliers below 0,
  which nothing refuses.
- *Crashes between the statements of the handlers of second factors*
  (`lib/mfa.ts`): planned.
