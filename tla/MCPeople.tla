------------------------------ MODULE MCPeople ------------------------------
(***************************************************************************)
(* One run for the modules about people: Membership (the instance of       *)
(* MCMembership), Directory in two instances, Registration in two, IpGuard *)
(* and Limiter.  They share no state.  A behaviour picks one of them,      *)
(* focus, when it begins, and the others stay as they are: the states are  *)
(* those of the modules one by one.                                        *)
(*                                                                         *)
(* TLC tries every permutation of the symmetric values on every state, so  *)
(* the modules share two pairs of them: u1, u2 are users here and requests *)
(* or addresses there, o1, o2 orders here and rows or requests there.      *)
(***************************************************************************)
EXTENDS MCMembership

CONSTANTS
    None,
    acc1, acc2, \* accounts of Directory with a password
    oidc1,      \* ... and one at the identity provider
    name1, mail1, inv1, ip1,    \* a name, an e-mail address, an invitation, an IP address
    GuardIps, GuardCalls, Window, PowAt, BanAt, FirstBan, Mult, Longest, MaxProofs, MaxLogged,  \* IpGuard
    Visitors, Addresses, Minute, Caps, Full, IdleFor            \* Limiter

VARIABLES
    focus,
    users, sessions, req, phase, dCrashes, asked, dLost,            \* Directory
    codes, regs, rAccounts, invites, fails, rCall, rCrashes,        \* Registration
    log, ban, open, tokens, call,                                   \* IpGuard
    cap, bucket, above                                              \* Limiter

\* Two admins and users and two requests; a start, an account of the identity
\* provider and a crash.
Dir == INSTANCE Directory WITH
    Locals <- {acc1, acc2}, Subjects <- {}, First <- acc1, Calls <- {u1, u2}, Crashes <- 0,
    crashes <- dCrashes, lost <- dLost
DirOidc == INSTANCE Directory WITH
    Locals <- {acc1}, Subjects <- {oidc1}, First <- acc1, Calls <- {u1}, Crashes <- 1,
    crashes <- dCrashes, lost <- dLost

\* Two registrations that overlap; resets and changes of an address.
Reg == INSTANCE Registration WITH
    Names <- {name1}, Emails <- {mail1}, Invites <- {inv1}, Ips <- {ip1}, Calls <- {u1, u2}, Rows <- {o1, o2},
    MaxGuesses <- 2, MaxPerIp <- 1, Daily <- 2, Purposes <- {"register"}, MaxOthers <- 1, Crashes <- 0,
    accounts <- rAccounts, call <- rCall, crashes <- rCrashes
RegReset == INSTANCE Registration WITH
    Names <- {name1}, Emails <- {mail1}, Invites <- {inv1}, Ips <- {ip1}, Calls <- {u1}, Rows <- {},
    MaxGuesses <- 2, MaxPerIp <- 1, Daily <- 2, Purposes <- {"reset", "bind"}, MaxOthers <- 1, Crashes <- 1,
    accounts <- rAccounts, call <- rCall, crashes <- rCrashes

\* Two addresses, two logins that overlap, a window of two ticks.
Guard == INSTANCE IpGuard WITH Ips <- GuardIps, Calls <- GuardCalls

\* A user at two addresses; two ticks refill one request per minute, and are
\* as long as a bucket has to be idle.
Lim == INSTANCE Limiter WITH Users <- Visitors, Ips <- Addresses

ASSUME Dir!DirectoryAssumption /\ DirOidc!DirectoryAssumption
ASSUME Reg!RegistrationAssumption /\ RegReset!RegistrationAssumption
ASSUME Guard!GuardAssumption /\ Lim!LimiterAssumption

directory == <<users, sessions, req, phase, dCrashes, asked, dLost>>
registration == <<codes, regs, rAccounts, invites, fails, rCall, rCrashes>>
guard == <<log, ban, open, tokens, call>>
limiter == <<cap, bucket, above>>
mcVars == <<focus, vars, directory, registration, guard, limiter>>

MCInit ==
    /\ focus \in {"member", "dir", "oidc", "reg", "reset", "guard", "limiter"}
    /\ Init
    /\ IF focus = "oidc" THEN DirOidc!Init ELSE Dir!Init
    /\ IF focus = "reset" THEN RegReset!Init ELSE Reg!Init
    /\ Guard!Init
    /\ Lim!Init /\ (focus # "limiter" => cap = 1)

MCNext ==
    /\ UNCHANGED focus
    /\ \/ focus = "member" /\ Next /\ UNCHANGED <<directory, registration, guard, limiter>>
       \/ focus = "dir" /\ Dir!Next /\ UNCHANGED <<vars, registration, guard, limiter>>
       \/ focus = "oidc" /\ DirOidc!Next /\ UNCHANGED <<vars, registration, guard, limiter>>
       \/ focus = "reg" /\ Reg!Next /\ UNCHANGED <<vars, directory, guard, limiter>>
       \/ focus = "reset" /\ RegReset!Next /\ UNCHANGED <<vars, directory, guard, limiter>>
       \/ focus = "guard" /\ Guard!Next /\ UNCHANGED <<vars, directory, registration, limiter>>
       \/ focus = "limiter" /\ Lim!Next /\ UNCHANGED <<vars, directory, registration, guard>>

MCSpec == MCInit /\ [][MCNext]_mcVars

-----------------------------------------------------------------------------
(* The properties of the instances *)

\* Directory: a site that is up keeps an admin who can act.
SomeAdminRemains == IF focus = "oidc" THEN DirOidc!SomeAdminRemains ELSE Dir!SomeAdminRemains

\* Directory: an account is purged only when its owner still asks for it.
PurgedAsked ==
    [][IF focus = "oidc" THEN DirOidc!AskedOrOrdered ELSE Dir!AskedOrOrdered]_mcVars

\* Registration: invitations, guesses at reset codes and the quota of an
\* address, up to what overlaps.
LimitsHold == IF focus = "reset" THEN RegReset!LimitsHold ELSE Reg!LimitsHold

\* Registration: an account has an address only by a code that was sent there.
AddressIsProven ==
    [][IF focus = "reset" THEN RegReset!Proven ELSE Reg!Proven]_mcVars

\* IpGuard: guesses without a proof of work, and guesses of an address, up to
\* what overlaps.
GuessesLimited == Guard!GuessesLimited

\* Limiter: no more than a full bucket above the steady rate.
BurstBounded == Lim!BurstBounded
=============================================================================
