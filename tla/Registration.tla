---------------------------- MODULE Registration ----------------------------
(***************************************************************************)
(* Codes sent by e-mail (lib/verification.ts) and the three flows that use *)
(* them: the two steps of a registration, the reset of a forgotten         *)
(* password (routes/auth.ts) and the change of an address (routes/user.ts).*)
(*                                                                         *)
(* Every look at the tables that leads to a write in a later statement is  *)
(* separated from it by awaits only in the handlers that send: the code is *)
(* stored, the channel is awaited, and what follows happens later.  Such a *)
(* handler is a call.  Everything else runs in one piece.                  *)
(*                                                                         *)
(*   verification_codes -> codes[e], in the order of their ids; a row that *)
(*                         is a day old decides nothing any more and is    *)
(*                         dropped                                         *)
(*   registrations      -> regs; age "open" for the 24 hours in which it   *)
(*                         can be completed and counts for its address     *)
(*   resetFails : Map   -> fails                                           *)
(*                                                                         *)
(* What is typed is right or wrong; where mail goes is not modelled.  The  *)
(* proof of work and the ban of an address are in IpGuard.                 *)
(***************************************************************************)
EXTENDS Integers, Sequences, FiniteSets

CONSTANTS
    Names, Emails, Invites, Ips,
    Calls,      \* bound: handlers that await a send at a time
    Rows,       \* bound: registrations at a time
    None,
    MaxGuesses, \* 5, in both flows that count
    MaxPerIp,   \* MAX_ACCOUNTS_PER_IP_24H
    Daily,      \* CODE_SEND_DAILY_LIMIT
    Purposes,   \* bound: flows that are used
    MaxOthers,  \* bound: accounts while another one is made elsewhere
    Crashes     \* bound: restarts

Code == [purpose : Purposes,
         age : {"young", "live", "old"},    \* for a minute; for five; after them
         used : BOOLEAN,
         guesses : Nat,     \* history: wrong guesses it was compared with
         fresh : Nat]       \* history: times the count of guesses began anew
Registration ==
    [name : Names, email : Emails, invite : Invites \cup {None}, ip : Ips,
     attempts : 0 .. MaxGuesses, done : BOOLEAN, age : {"open", "expired", "stale"}]
Account == [name : Names \cup {None}, email : Emails \cup {None}, local : BOOLEAN]
Call ==
    [purpose : {"register"}, name : Names, email : Emails,
     invite : Invites \cup {None}, ip : Ips] \cup
    [purpose : {"reset", "bind"}, email : Emails]

RegistrationAssumption ==
    /\ None \notin Names \cup Emails \cup Invites \cup Calls \cup Rows
    /\ None \notin Code /\ None \notin Registration /\ None \notin Call
    /\ IsFiniteSet(Calls) /\ Calls # {} /\ IsFiniteSet(Rows)
    /\ MaxGuesses \in Nat \ {0} /\ MaxPerIp \in Nat /\ Daily \in Nat
    /\ Crashes \in Nat /\ MaxOthers \in Nat
    /\ Purposes \subseteq {"register", "reset", "bind"}

VARIABLES
    codes,      \* codes[e] : the codes stored for e in a day
    regs,       \* regs[r] : a registration under way or completed
    accounts,   \* users
    invites,    \* invites[v] : how many accounts it has made, by used_by
    fails,      \* fails[e] : wrong guesses at reset codes of e in this window
    call,       \* call[c] : a handler that awaits its send
    crashes     \* bound

vars == <<codes, regs, accounts, invites, fails, call, crashes>>

TypeOK ==
    /\ codes \in [Emails -> Seq(Code)]
    /\ \A e \in Emails : Len(codes[e]) <= Daily
    /\ regs \in [Rows -> Registration \cup {None}]
    /\ accounts \subseteq Account
    /\ invites \in [Invites -> Nat]
    /\ fails \in [Emails -> [n : 0 .. MaxGuesses, from : 0 .. Daily]]
    /\ call \in [Calls -> Call \cup {None}]
    /\ crashes \in 0 .. Crashes

NoFails == [n |-> 0, from |-> 0]

Init ==
    /\ codes = [e \in Emails |-> <<>>]
    /\ regs = [r \in Rows |-> None]
    /\ accounts = {}
    /\ invites = [v \in Invites |-> 0]
    /\ fails = [e \in Emails |-> NoFails]
    /\ call = [c \in Calls |-> None]
    /\ crashes = 0

Taken(field, x) == \E a \in accounts : a[field] = x

-----------------------------------------------------------------------------
(* Codes *)

\* A minute between codes to one address, whatever they are for, and so many
\* a day.
MayIssue(e) ==
    /\ \A i \in DOMAIN codes[e] : codes[e][i].age # "young"
    /\ Len(codes[e]) < Daily

Issue(e, p) ==
    codes' = [codes EXCEPT ![e] =
                 Append(@, [purpose |-> p, age |-> "young", used |-> FALSE,
                            guesses |-> 0, fresh |-> 0])]

\* Fault: codes that were used pass again.
ValidUsed(e, p) ==
    {i \in DOMAIN codes[e] : codes[e][i].purpose = p /\ codes[e][i].age # "old"}

Valid(e, p) ==
    {i \in DOMAIN codes[e] : codes[e][i].purpose = p /\ codes[e][i].age # "old" /\ ~ codes[e][i].used}

\* The row that is compared: the newest valid one, 0 if there is none.
Newest(V) == {i \in V : \A j \in V : j <= i}
Compared(e, p) ==
    IF Newest(Valid(e, p)) = {} THEN 0 ELSE CHOOSE i \in Newest(Valid(e, p)) : TRUE

Accepted(i, right) == i # 0 /\ right
Use(e, i) == codes' = [codes EXCEPT ![e][i].used = TRUE]

\* The count of wrong guesses at the reset codes of e begins anew.
Renewed(e, cs) ==
    [i \in DOMAIN cs |->
        IF cs[i].purpose = "reset" /\ cs[i].age # "old" /\ fails[e].n > 0
        THEN [cs[i] EXCEPT !.fresh = @ + 1] ELSE cs[i]]

\* Time passes, for older codes first.
AgeCode(e, i) ==
    /\ \/ /\ codes[e][i].age = "young"
          /\ codes' = [codes EXCEPT ![e][i].age = "live"]
       \/ /\ codes[e][i].age = "live"
          /\ \A j \in 1 .. i - 1 : codes[e][j].age = "old"
          /\ codes' = [codes EXCEPT ![e][i].age = "old"]
    /\ UNCHANGED <<regs, accounts, invites, fails, call, crashes>>

\* A day passes, and any window of guesses with it.
DropCodes(e) ==
    /\ codes[e] # <<>> /\ fails[e].n = 0
    /\ \A i \in DOMAIN codes[e] : codes[e][i].age = "old"
    /\ codes' = [codes EXCEPT ![e] = <<>>]
    /\ UNCHANGED <<regs, accounts, invites, fails, call, crashes>>

Begin(c, what) == call[c] = None /\ call' = [call EXCEPT ![c] = what]
End(c) == call' = [call EXCEPT ![c] = None]

\* The channel fails: 502, and the code stays.
SendFails(c) ==
    /\ call[c] # None
    /\ End(c)
    /\ UNCHANGED <<codes, regs, accounts, invites, fails, crashes>>

-----------------------------------------------------------------------------
(* Registration *)

Pending(r) == regs[r] # None /\ ~ regs[r].done
\* Rows that count for the address: completed ones, too.
Recent(ip) == {r \in Rows : regs[r] # None /\ regs[r].ip = ip /\ regs[r].age = "open"}

\* Fault: only rows that are not completed count.
BelowQuotaPending(ip) == Cardinality({r \in Recent(ip) : Pending(r)}) < MaxPerIp

BelowQuota(ip) == Cardinality(Recent(ip)) < MaxPerIp

Reserved(field, x) == \E r \in Rows : Pending(r) /\ regs[r][field] = x

\* POST /auth/register/start up to the send.  The invitation is one if the
\* registration is by invitation at that time.
StartRegister(c, n, e, v, ip) ==
    /\ v # None => invites[v] = 0
    /\ BelowQuota(ip)
    /\ ~ Taken("name", n) /\ ~ Reserved("name", n)
    /\ ~ Taken("email", e) /\ ~ Reserved("email", e)
    /\ MayIssue(e)
    /\ Issue(e, "register")
    /\ Begin(c, [purpose |-> "register", name |-> n, email |-> e, invite |-> v, ip |-> ip])
    /\ UNCHANGED <<regs, accounts, invites, fails, crashes>>

\* ... and after it: the code is sent, the password hashed.
EndStart(c, r) ==
    /\ call[c] # None /\ call[c].purpose = "register"
    /\ regs[r] = None
    /\ regs' = [regs EXCEPT ![r] =
                   [name |-> call[c].name, email |-> call[c].email, invite |-> call[c].invite,
                    ip |-> call[c].ip, attempts |-> 0, done |-> FALSE, age |-> "open"]]
    /\ End(c)
    /\ UNCHANGED <<codes, accounts, invites, fails, crashes>>

\* A wrong guess; the fifth one ends the registration.
Missed(g) == IF g.attempts + 1 >= MaxGuesses THEN None ELSE [g EXCEPT !.attempts = @ + 1]

\* UPDATE ... WHERE used_by IS NULL changes a row.
Spendable(v) == v # None => invites[v] = 0

Spend(v) == IF v = None THEN invites ELSE [invites EXCEPT ![v] = @ + 1]

\* The transaction that makes the account: the columns are unique, the
\* invitation is still unused.  If it fails the registration is left as it is
\* and the code, used before it, is lost.
Activate(r) ==
    LET g == regs[r]
    IN  IF ~ Taken("name", g.name) /\ ~ Taken("email", g.email) /\ Spendable(g.invite)
        THEN /\ accounts' = accounts \cup {[name |-> g.name, email |-> g.email, local |-> TRUE]}
             /\ invites' = Spend(g.invite)
             /\ regs' = [regs EXCEPT ![r].done = TRUE]
        ELSE UNCHANGED <<accounts, invites, regs>>

\* POST /auth/register/verify.
VerifyRegister(r, right) ==
    /\ Pending(r) /\ regs[r].age = "open"
    /\ LET i == Compared(regs[r].email, "register")
       IN  IF Accepted(i, right)
           THEN Use(regs[r].email, i) /\ Activate(r)
           ELSE /\ regs' = [regs EXCEPT ![r] = Missed(@)]
                /\ UNCHANGED <<codes, accounts, invites>>
    /\ UNCHANGED <<fails, call, crashes>>

AgeReg(r) ==
    /\ regs[r] # None
    /\ \/ /\ regs[r].age = "open"
          /\ regs' = [regs EXCEPT ![r].age = "expired"]
       \/ /\ regs[r].age = "expired"
          /\ regs' = [regs EXCEPT ![r].age = "stale"]
    /\ UNCHANGED <<codes, accounts, invites, fails, call, crashes>>

\* Completed rows after a day, pending ones after REGISTRATION_PENDING_TTL_DAYS.
Purgeable(r) ==
    /\ regs[r] # None
    /\ IF regs[r].done THEN regs[r].age # "open" ELSE regs[r].age = "stale"

\* The two statements of the purge task.
PurgeRegistrations ==
    /\ \E r \in Rows : Purgeable(r)
    /\ regs' = [r \in Rows |-> IF Purgeable(r) THEN None ELSE regs[r]]
    /\ UNCHANGED <<codes, accounts, invites, fails, call, crashes>>

-----------------------------------------------------------------------------
(* The forgotten password *)

\* POST /auth/forgot/start for an address that is known; one that is not, or
\* that was sent a code just now, gets the same answer.
StartForgot(c, e) ==
    /\ Taken("email", e)
    /\ MayIssue(e)
    /\ Issue(e, "reset")
    /\ Begin(c, [purpose |-> "reset", email |-> e])
    /\ UNCHANGED <<regs, accounts, invites, fails, crashes>>

EndForgot(c) ==
    /\ call[c] # None /\ call[c].purpose = "reset"
    /\ codes' = [codes EXCEPT ![call[c].email] = Renewed(call[c].email, @)]
    /\ fails' = [fails EXCEPT ![call[c].email] = NoFails]
    /\ End(c)
    /\ UNCHANGED <<regs, accounts, invites, crashes>>

TooMany(n) == n >= MaxGuesses

Counted(e) ==
    IF fails[e].n = 0 THEN [n |-> 1, from |-> Len(codes[e])] ELSE [fails[e] EXCEPT !.n = @ + 1]

\* Wrong, or nothing to compare with: after five, all open codes go.  They
\* stay here as used, the count stays until its window passes.
WrongReset(e, i) ==
    LET n == fails[e].n + 1
        Met(j) == [codes[e][j] EXCEPT
                      !.used = codes[e][j].used \/ (TooMany(n) /\ j \in Valid(e, "reset")),
                      !.guesses = IF j = i THEN @ + 1 ELSE @]
    IN  /\ fails' = [fails EXCEPT ![e] = IF TooMany(n) THEN [fails[e] EXCEPT !.n = MaxGuesses]
                                         ELSE Counted(e)]
        /\ codes' = [codes EXCEPT ![e] = [j \in DOMAIN codes[e] |-> Met(j)]]

\* POST /auth/forgot/verify.  A code that is right is used although the
\* account is not a local one; the rest of a reset is in Accounts.
VerifyForgot(e, right) ==
    LET i == Compared(e, "reset")
        Own == \E a \in accounts : a.email = e /\ a.local
    IN  /\ IF Accepted(i, right)
           THEN IF Own THEN /\ codes' = [codes EXCEPT ![e] = Renewed(e, [@ EXCEPT ![i].used = TRUE])]
                            /\ fails' = [fails EXCEPT ![e] = NoFails]
                       ELSE Use(e, i) /\ UNCHANGED fails
           ELSE WrongReset(e, i)
        /\ UNCHANGED <<regs, accounts, invites, call, crashes>>

\* Ten minutes after the first wrong guess: codes of that time are invalid.
WindowPasses(e) ==
    /\ fails[e].n > 0
    /\ \A i \in 1 .. fails[e].from : codes[e][i].age = "old"
    /\ codes' = [codes EXCEPT ![e] = Renewed(e, @)]
    /\ fails' = [fails EXCEPT ![e] = NoFails]
    /\ UNCHANGED <<regs, accounts, invites, call, crashes>>

-----------------------------------------------------------------------------
(* The change of an address, and what else changes accounts *)

StartBind(c, a, e) ==
    /\ a \in accounts
    /\ \A b \in accounts \ {a} : b.email # e
    /\ MayIssue(e)
    /\ Issue(e, "bind")
    /\ Begin(c, [purpose |-> "bind", email |-> e])
    /\ UNCHANGED <<regs, accounts, invites, fails, crashes>>

EndBind(c) == call[c] # None /\ call[c].purpose = "bind" /\ SendFails(c)

\* The code is compared, and used, before the address is looked up.
VerifyBind(a, e) ==
    LET i == Compared(e, "bind")
    IN  /\ a \in accounts
        /\ Accepted(i, TRUE)
        /\ Use(e, i)
        /\ accounts' = IF \E b \in accounts \ {a} : b.email = e THEN accounts
                       ELSE (accounts \ {a}) \cup {[a EXCEPT !.email = e]}
        /\ UNCHANGED <<regs, invites, fails, call, crashes>>

\* An admin makes an account without an address; a login at the identity
\* provider makes one without a name, and fails if the address is taken.
OtherAccount(n, e) ==
    /\ (n = None) # (e = None)
    /\ Cardinality(accounts) < MaxOthers
    /\ n # None => ~ Taken("name", n)
    /\ e # None => ~ Taken("email", e)
    /\ accounts' = accounts \cup {[name |-> n, email |-> e, local |-> e = None]}
    /\ UNCHANGED <<codes, regs, invites, fails, call, crashes>>

\* An account is deleted; neither its invitation nor its registration is.
DeleteAccount(a) ==
    /\ a \in accounts
    /\ accounts' = accounts \ {a}
    /\ UNCHANGED <<codes, regs, invites, fails, call, crashes>>

\* A restart loses the calls and the counts of wrong guesses.
Crash ==
    /\ crashes < Crashes
    /\ crashes' = crashes + 1
    /\ call' = [c \in Calls |-> None]
    /\ fails' = [e \in Emails |-> NoFails]
    /\ codes' = [e \in Emails |-> Renewed(e, codes[e])]
    /\ UNCHANGED <<regs, accounts, invites>>

-----------------------------------------------------------------------------
Next ==
    \/ PurgeRegistrations \/ Crash
    \/ \E e \in Emails : DropCodes(e) \/ \E i \in DOMAIN codes[e] : AgeCode(e, i)
    \/ \E r \in Rows : AgeReg(r) \/ \E right \in BOOLEAN : VerifyRegister(r, right)
    \/ \E c \in Calls :
          \/ SendFails(c) \/ EndForgot(c) \/ EndBind(c)
          \/ \E r \in Rows : EndStart(c, r)
          \/ \E n \in Names, e \in Emails, v \in Invites \cup {None}, ip \in Ips :
                "register" \in Purposes /\ StartRegister(c, n, e, v, ip)
          \/ \E e \in Emails : "reset" \in Purposes /\ StartForgot(c, e)
          \/ \E a \in accounts, e \in Emails : "bind" \in Purposes /\ StartBind(c, a, e)
    \/ \E e \in Emails : WindowPasses(e)
    \/ \E e \in Emails, right \in BOOLEAN : "reset" \in Purposes /\ VerifyForgot(e, right)
    \/ \E a \in accounts, e \in Emails : VerifyBind(a, e)
    \/ \E n \in Names \cup {None}, e \in Emails \cup {None} : OtherAccount(n, e)
    \/ \E a \in accounts : DeleteAccount(a)

\* Time passes and the purge runs every hour.
Spec == Init /\ [][Next]_vars

-----------------------------------------------------------------------------
(* Properties *)

\* A reset code is compared with five wrong guesses at most, and with four
\* more for every time the count begins anew: after a restart, and when the
\* send, during which guesses are already counted, ends.
ResetGuessesBounded ==
    \A e \in Emails : \A i \in DOMAIN codes[e] :
        codes[e][i].guesses <= MaxGuesses + (MaxGuesses - 1) * codes[e][i].fresh

\* The addresses' quota is looked up before two awaits: starts that overlap
\* may exceed it, by as many as overlap and never more.
InFlight(ip) == {c \in Calls : call[c] # None /\ call[c].purpose = "register" /\ call[c].ip = ip}
QuotaHolds ==
    \A ip \in Ips :
        Cardinality(Recent(ip)) + Cardinality(InFlight(ip)) <= MaxPerIp + Cardinality(Calls) - 1

\* An invitation makes one account, although it is only looked up when a
\* registration starts and the account is made much later, by someone else's
\* leave perhaps.
InviteOnce == \A v \in Invites : invites[v] <= 1

\* What other flows count up to holds, up to what overlaps.
LimitsHold == InviteOnce /\ ResetGuessesBounded /\ QuotaHolds

\* A local account has an address only after a code that was sent there, for
\* this purpose, was used for it, and for nothing else: the step that gives it
\* the address uses the code.
Proven ==
    \A a \in accounts' \ accounts :
        (a.local /\ a.email # None) =>
            \E i \in DOMAIN codes[a.email] :
                LET k == codes[a.email][i]
                IN  /\ k.purpose # "reset" /\ k.age # "old"
                    /\ ~ k.used /\ codes'[a.email][i].used
AddressIsProven == [][Proven]_vars
=============================================================================
