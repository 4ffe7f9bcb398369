------------------------------ MODULE TlsCert ------------------------------
(***************************************************************************)
(* The certificate of the portal (gateway/tls.ts, routes/adminTls.ts):     *)
(* upload and removal by an administrator, issue by ACME, the daily        *)
(* renewal, what a start restores, and the state of other modules that     *)
(* follows: HSTS and the Secure flag of the session cookie.                *)
(*                                                                         *)
(* A pair of certificate and key is a value; a certificate and a key match *)
(* when they are of one pair.  All of a handler between two awaits is one  *)
(* step, but the process may die, or the disk refuse, between two writes.  *)
(*                                                                         *)
(*   cert.pem, key.pem      -> cert, key                                   *)
(*   httpsServer            -> served : the pair in use                    *)
(*   secureCookieOverride   -> secure                                      *)
(*   hstsValue              -> hsts                                        *)
(*   ACME_DOMAIN, _EMAIL    -> acme                                        *)
(*   acmeInProgress         -> issue : where the one issue stands          *)
(*   pendingChallenges      -> part of issue : "challenged"                *)
(***************************************************************************)
EXTENDS Naturals

CONSTANTS
    Pairs,
    None,
    Torn,       \* the content of a file whose write failed
    Crashes     \* bound: crashes and restarts

TlsAssumption == None \notin Pairs /\ Torn \notin Pairs /\ None # Torn /\ Crashes \in Nat

VARIABLES
    cert, key,  \* on disk
    due,        \* the pair ends within thirty days
    acme,       \* tlsMode() = "acme"
    up,
    served, secure, hsts, issue,
    bound,      \* the server has its port
    crashes

vars == <<cert, key, due, acme, up, served, secure, hsts, issue, bound, crashes>>

Contents == Pairs \cup {None, Torn}

TypeOK ==
    /\ cert \in Contents /\ key \in Contents
    /\ due \in BOOLEAN /\ acme \in BOOLEAN /\ up \in BOOLEAN /\ hsts \in BOOLEAN /\ bound \in BOOLEAN
    /\ served \in Pairs \cup {None}
    /\ secure \in {"auto", "yes", "no"}
    /\ issue \in {"none", "account", "challenged"}
    /\ crashes \in 0 .. Crashes

Init ==
    /\ cert = None /\ key = None /\ due = FALSE /\ acme = FALSE
    /\ up = TRUE /\ issue = "none"
    /\ served = None /\ bound = FALSE /\ secure = "auto" /\ hsts = FALSE
    /\ crashes = 0

-----------------------------------------------------------------------------
(* What is stored *)

\* readStored, validate.
Stored(c, k) == c # None /\ k # None
Matches(c, k) == c \in Pairs /\ c = k

\* enableHsts, disableHsts
Hsts(on) == hsts' = on

\* Fault: a running server keeps its context.
ApplyNoSwap(c, k) ==
    IF ~ Stored(c, k)
    THEN secure' = "auto" /\ Hsts(FALSE) /\ UNCHANGED <<served, bound>>
    ELSE IF Matches(c, k)
         THEN /\ Hsts(TRUE)
              /\ served' = IF served = None THEN c ELSE served
              /\ secure' = IF served = None THEN "yes" ELSE secure
              /\ UNCHANGED bound
         ELSE UNCHANGED <<served, bound, secure, hsts>>

\* apply: a context that is in use is exchanged; what does not match throws
\* before anything is changed.
Apply(c, k) ==
    IF ~ Stored(c, k)
    THEN secure' = "auto" /\ Hsts(FALSE) /\ UNCHANGED <<served, bound>>
    ELSE IF Matches(c, k)
         THEN /\ Hsts(TRUE)
              /\ served' = c
              /\ secure' = IF served = None THEN "yes" ELSE secure
              /\ UNCHANGED bound
         ELSE UNCHANGED <<served, bound, secure, hsts>>

\* The process ends: the state in memory is lost.
Die ==
    /\ crashes < Crashes /\ crashes' = crashes + 1
    /\ up' = FALSE
    /\ served' = None /\ secure' = "auto" /\ Hsts(FALSE)
    /\ bound' = FALSE /\ issue' = "none"

Alive == up /\ UNCHANGED <<up, crashes>>

-----------------------------------------------------------------------------
(* The administrator *)

\* PUT /admin/tls: both files are written aside, then renamed one by one.
Install(p, old) ==
    /\ Alive
    /\ cert' = p /\ key' = p /\ due' = old
    /\ Apply(p, p)
    /\ UNCHANGED <<acme, issue>>

\* ... and the process dies between the renames.
InstallCut(p) ==
    /\ up /\ Die
    /\ cert' = p
    /\ UNCHANGED <<key, due, acme>>

\* DELETE /admin/tls.  The domain stays.
Remove ==
    /\ Alive
    /\ cert' = None /\ key' = None
    /\ served' = None /\ bound' = FALSE /\ secure' = "no" /\ Hsts(FALSE)
    /\ UNCHANGED <<due, acme, issue>>

\* POST /admin/tls/acme: the domain is kept, whether or not an issue starts.
Order ==
    /\ Alive
    /\ acme' = TRUE
    /\ issue' = IF issue = "none" THEN "account" ELSE issue
    /\ UNCHANGED <<cert, key, due, served, secure, hsts, bound>>

-----------------------------------------------------------------------------
(* An issue *)

\* The authority has the account and asks for the challenge.
Challenged ==
    /\ Alive
    /\ issue = "account"
    /\ issue' = "challenged"
    /\ UNCHANGED <<cert, key, due, acme, served, secure, hsts, bound>>

\* The authority has fetched the answer; the files are written in place.
Issued(p) ==
    /\ Alive
    /\ issue = "challenged"
    /\ cert' = p /\ key' = p /\ due' = FALSE
    /\ Apply(p, p)
    /\ issue' = "none"
    /\ UNCHANGED acme

\* ... the process dies between the writes ...
IssuedCut(p) ==
    /\ up /\ issue = "challenged"
    /\ Die
    /\ cert' = p
    /\ UNCHANGED <<key, due, acme>>

\* ... or the disk refuses the key.
IssuedTorn(p) ==
    /\ Alive
    /\ issue = "challenged"
    /\ cert' = p /\ key' = Torn
    /\ issue' = "none"
    /\ UNCHANGED <<due, acme, served, secure, hsts, bound>>

\* The authority refuses, or is not to be reached.
IssueFails ==
    /\ Alive
    /\ issue # "none"
    /\ issue' = "none"
    /\ UNCHANGED <<cert, key, due, acme, served, secure, hsts, bound>>

\* Fault: a pair that does not match is left to the administrator.
NeedsIssueValid == acme /\ (Matches(cert, key) => due) /\ (Stored(cert, key) => Matches(cert, key))

NeedsIssue == acme /\ (Matches(cert, key) => due)

\* The loop: thirty seconds after the start and daily.
Renew ==
    /\ Alive
    /\ NeedsIssue /\ issue = "none"
    /\ issue' = "account"
    /\ UNCHANGED <<cert, key, due, acme, served, secure, hsts, bound>>

-----------------------------------------------------------------------------
(* The process *)

\* Listening on the port of HTTPS succeeds or fails after the server was
\* created.  When it fails nothing but the server is taken back.
PortTaken ==
    /\ Alive
    /\ served # None /\ ~ bound
    /\ bound' = TRUE
    /\ UNCHANGED <<cert, key, due, acme, issue, served, secure, hsts>>

PortBusy ==
    /\ Alive
    /\ served # None /\ ~ bound
    /\ served' = None
    /\ UNCHANGED <<cert, key, due, acme, issue, bound, secure, hsts>>

\* tls.stop on SIGTERM, or the end without it.
Crash == up /\ Die /\ UNCHANGED <<cert, key, due, acme>>

\* restore; the error of a pair that does not match is swallowed.
Start ==
    /\ ~ up /\ up' = TRUE
    /\ Apply(cert, key)
    /\ UNCHANGED <<cert, key, due, acme, issue, crashes>>

\* What is stored comes within thirty days of its end.
Ages ==
    /\ ~ due /\ Matches(cert, key)
    /\ due' = TRUE
    /\ UNCHANGED <<cert, key, acme, up, served, secure, hsts, issue, bound, crashes>>

-----------------------------------------------------------------------------
Next ==
    \/ \E p \in Pairs :
          \/ InstallCut(p) \/ Issued(p) \/ IssuedCut(p) \/ IssuedTorn(p)
          \/ \E old \in BOOLEAN : Install(p, old)
    \/ Ages \/ Remove \/ Order \/ Challenged \/ IssueFails \/ Renew
    \/ PortTaken \/ PortBusy \/ Crash \/ Start

Spec == Init /\ [][Next]_vars

-----------------------------------------------------------------------------
(* Properties *)

\* Whatever was uploaded, issued, removed and cut short before: a server
\* that runs uses the pair that a restart would find, or a restart would
\* find none that matches.
ServedIsStored ==
    served # None => ~ Stored(cert, key) \/ ~ Matches(cert, key) \/ served = cert

\* ... and a browser that logs in there gets a cookie for HTTPS only.
CookieFollowsHttps == served # None => secure = "yes"

\* With a domain, what a crash, a full disk or time has spoilt is issued anew.
Fresh == Matches(cert, key) /\ ~ due
RenewalHeals == (acme /\ ~ Fresh) ~> Fresh

\* Uploads, issues, removals, busy ports and crashes in any order: a server
\* that runs serves what a restart would restore, with the cookies and the
\* header that go with it.
HttpsIsConsistent == ServedIsStored /\ CookieFollowsHttps /\ (served # None => hsts)

\* "while HTTPS really is enabled" (securityHeaders.ts:14).  Refuted: a port
\* that is taken ends the server, not the header.
HstsWithHttps == hsts => served # None
=============================================================================
