------------------------------ MODULE IpGuard ------------------------------
(***************************************************************************)
(* What slows down guessing of passwords: failures in a sliding window,    *)
(* proofs of work once there are some, bans that grow (lib/security.ts,    *)
(* lib/pow.ts), as POST /auth/login and its neighbours use them.           *)
(*                                                                         *)
(* A login looks at ban and window, awaits the hash of the password, and   *)
(* records its failure afterwards: logins overlap in between.  All logins  *)
(* here are for one account.  Time goes by in ticks.                       *)
(*                                                                         *)
(*   login_attempts -> log[ip, how, t] : failures recorded t ticks ago, of *)
(*                     logins without and with a proof, of reset codes     *)
(*   ip_bans        -> ban : what is left of it, and what the next one of  *)
(*                     this address lasts, which repeat_count determines   *)
(*   pow_challenges, pow_tokens -> open, tokens, how many an address has;  *)
(*                     the proof itself is an input                        *)
(* The rate of challenges per minute and their difficulty are left out.    *)
(***************************************************************************)
EXTENDS Integers, FiniteSets

CONSTANTS
    Ips,
    Calls,      \* bound: logins that await their hash
    None,
    Window,     \* LOGIN_FAIL_WINDOW, in ticks
    PowAt,      \* LOGIN_FAIL_THRESHOLD
    BanAt,      \* IP_BAN_THRESHOLD
    FirstBan, Mult, Longest, \* IP_BAN_BASE_SECONDS, _MULTIPLIER, _MAX_SECONDS, in ticks
    MaxProofs,  \* bound: challenges and tokens at a time
    MaxLogged   \* bound: failures at which no more reset codes are missed

\* The default of a ban is longer than the window.
GuardAssumption ==
    /\ IsFiniteSet(Ips) /\ IsFiniteSet(Calls) /\ Calls # {}
    /\ None \notin [ip : Ips, how : {"free", "proof"}]
    /\ {Window, PowAt, BanAt, FirstBan, Longest, MaxProofs} \subseteq Nat \ {0} /\ Mult \in Nat \ {0, 1}
    /\ FirstBan >= Window /\ Longest >= FirstBan /\ MaxLogged \in Nat

VARIABLES
    log, ban, open, tokens,
    call        \* call[c] : a login that awaits its hash

vars == <<log, ban, open, tokens, call>>

Hows == {"free", "proof", "reset"}
Logins == {"free", "proof"}
Recents == 0 .. Window - 1

TypeOK ==
    /\ log \in [Ips \X Hows \X Recents -> Nat]
    /\ ban \in [Ips -> [left : 0 .. Longest, next : FirstBan .. Longest]]
    /\ open \in [Ips -> 0 .. MaxProofs] /\ tokens \in [Ips -> 0 .. MaxProofs]
    /\ call \in [Calls -> [ip : Ips, how : Logins] \cup {None}]

Init ==
    /\ log = [x \in Ips \X Hows \X Recents |-> 0]
    /\ ban = [ip \in Ips |-> [left |-> 0, next |-> FirstBan]]
    /\ open = [ip \in Ips |-> 0] /\ tokens = [ip \in Ips |-> 0]
    /\ call = [c \in Calls |-> None]

\* The rows of a table in which there are f[x] of the kind x, for the kinds K.
RowsOf(f, K) == UNION {{x} \X (1 .. f[x]) : x \in K}
CountOf(ips, hows) == Cardinality(RowsOf(log, ips \X hows \X Recents))

\* failuresInWindow, and accountFailuresInWindow of the one account.
Failures(ip) == CountOf({ip}, Hows)
LoginFailures(ip) == CountOf({ip}, Logins)
AccountFailures == CountOf(Ips, Logins)

Banned(ip) == ban[ip].left > 0

\* Fault: the failures of an account at other addresses do not count.
NeedsPowHere(ip) == Failures(ip) >= PowAt

NeedsPow(ip) == Failures(ip) >= PowAt \/ AccountFailures >= PowAt

-----------------------------------------------------------------------------
(* recordFailure *)

Least(S) == CHOOSE x \in S : \A y \in S : x <= y

MayBan(ip, n) == n >= BanAt /\ ~ Banned(ip)

BanNow(ip) ==
    ban' = [ban EXCEPT ![ip] = [left |-> @.next, next |-> Least({@.next * Mult, Longest})]]

RecordFailure(ip, how) ==
    /\ log' = [log EXCEPT ![<<ip, how, 0>>] = @ + 1]
    /\ IF MayBan(ip, Failures(ip) + 1) THEN BanNow(ip) ELSE UNCHANGED ban

-----------------------------------------------------------------------------
(* Proofs of work *)

Room == Cardinality(RowsOf(open, Ips)) + Cardinality(RowsOf(tokens, Ips)) < MaxProofs

\* POST /auth/pow.
Challenge(ip) ==
    /\ ~ Banned(ip)
    /\ Room
    /\ open' = [open EXCEPT ![ip] = @ + 1]
    /\ UNCHANGED <<log, ban, tokens, call>>

\* POST /auth/pow/verify: the challenge is used up by a wrong proof, too.
Solve(ip, right) ==
    /\ open[ip] > 0
    /\ open' = [open EXCEPT ![ip] = @ - 1]
    /\ tokens' = [tokens EXCEPT ![ip] = IF right THEN @ + 1 ELSE @]
    /\ UNCHANGED <<log, ban, call>>

\* POW_CHALLENGE_TTL, POW_TOKEN_TTL.
Lapse(ip) ==
    /\ \/ /\ open[ip] > 0
          /\ open' = [open EXCEPT ![ip] = @ - 1] /\ UNCHANGED tokens
       \/ /\ tokens[ip] > 0
          /\ tokens' = [tokens EXCEPT ![ip] = @ - 1] /\ UNCHANGED open
    /\ UNCHANGED <<log, ban, call>>

\* enforcePow, with a token; without one the answer is a challenge.
Consume(ip) == tokens[ip] > 0 /\ tokens' = [tokens EXCEPT ![ip] = @ - 1]

\* A registration or the reset of a password starts: always with a proof.
PassAlways(ip) ==
    /\ Consume(ip)
    /\ UNCHANGED <<log, ban, open, call>>

\* enforcePow refuses, and hands out a challenge.
Refuse(ip, always) ==
    /\ always \/ (~ Banned(ip) /\ NeedsPow(ip))
    /\ Room
    /\ open' = [open EXCEPT ![ip] = @ + 1]
    /\ UNCHANGED <<log, ban, tokens, call>>

-----------------------------------------------------------------------------
(* Logins *)

\* POST /auth/login until the hash.
BeginLogin(c, ip) ==
    /\ call[c] = None
    /\ ~ Banned(ip)
    /\ IF NeedsPow(ip)
       THEN Consume(ip) /\ call' = [call EXCEPT ![c] = [ip |-> ip, how |-> "proof"]]
       ELSE UNCHANGED tokens /\ call' = [call EXCEPT ![c] = [ip |-> ip, how |-> "free"]]
    /\ UNCHANGED <<log, ban, open>>

\* ... and after it.
EndLogin(c, right) ==
    /\ call[c] # None
    /\ call' = [call EXCEPT ![c] = None]
    /\ IF right THEN UNCHANGED <<log, ban>>   \* recordSuccess
       ELSE RecordFailure(call[c].ip, call[c].how)
    /\ UNCHANGED <<open, tokens>>

\* POST /auth/forgot/verify with a wrong code: nothing asks for a ban here.
MissReset(ip) ==
    /\ Failures(ip) < MaxLogged    \* bound
    /\ RecordFailure(ip, "reset")
    /\ UNCHANGED <<open, tokens, call>>

Elapsed(b) == [b EXCEPT !.left = IF @ > 0 THEN @ - 1 ELSE 0]

Tick ==
    /\ log' = [x \in Ips \X Hows \X Recents |-> IF x[3] = 0 THEN 0 ELSE log[<<x[1], x[2], x[3] - 1>>]]
    /\ ban' = [ip \in Ips |-> Elapsed(ban[ip])]
    /\ UNCHANGED <<open, tokens, call>>

\* The purge: thirty days after the end of a ban.
PurgeBan(ip) ==
    /\ ~ Banned(ip) /\ ban[ip].next # FirstBan
    /\ ban' = [ban EXCEPT ![ip].next = FirstBan]
    /\ UNCHANGED <<log, open, tokens, call>>

-----------------------------------------------------------------------------
Next ==
    \/ Tick
    \/ \E ip \in Ips :
          \/ Challenge(ip) \/ Lapse(ip) \/ PassAlways(ip) \/ MissReset(ip) \/ PurgeBan(ip)
          \/ \E right \in BOOLEAN : Solve(ip, right) \/ Refuse(ip, right)
          \/ \E c \in Calls : BeginLogin(c, ip)
    \/ \E c \in Calls, right \in BOOLEAN : EndLogin(c, right)

\* Time passes.
Spec == Init /\ [][Next]_vars

-----------------------------------------------------------------------------
(* Properties *)

Greater(x, y) == IF x <= y THEN y ELSE x

\* Logins that overlap pass the checks together.  Even so, no more passwords
\* of an account are tried without a proof of work, from all addresses in one
\* window, than the threshold and the number of logins that overlap ...
FreeGuessesBounded ==
    CountOf(Ips, {"free"}) <= PowAt + Cardinality(Calls) - 1

\* ... and no more at all by one address than until the ban.  What a ban that
\* ends may leave in the window are the failures of logins that overlapped its
\* beginning, which do not ban again by themselves.
GuessesBounded ==
    \A ip \in Ips : LoginFailures(ip) <= Greater(BanAt - 1, Cardinality(Calls)) + Cardinality(Calls)

\* Both limits of security.ts on guessing hold, up to the logins that overlap.
GuessesLimited == FreeGuessesBounded /\ GuessesBounded
=============================================================================
