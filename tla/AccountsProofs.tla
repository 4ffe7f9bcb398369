--------------------------- MODULE AccountsProofs ---------------------------
(***************************************************************************)
(* Theorems about Accounts, for any number of sessions, requests, secrets, *)
(* steps and passkeys and any limits, for administrators and others.       *)
(*                                                                         *)
(* A factor is asked for by what a login has read before its await, so the *)
(* invariant speaks of the logins under way too; codes are used once since *)
(* none past the last accepted step was used; guesses are bounded together *)
(* with the checks that have begun.                                        *)
(***************************************************************************)
EXTENDS Accounts, TLAPS, FiniteSetTheorems

\* The kinds of requests.
BodyReq == [at : {"body"}, s : Sessions, level : Levels]
BareReq == [at : {"register", "primary"}]
LoginReq == [at : {"login"}, mfa : BOOLEAN, older : BOOLEAN, late : BOOLEAN]
ConfirmReq == [at : {"confirm"}, secret : Secrets, code : Steps]
VerifyReq == [at : {"verify"}, s : Sessions, for : Purposes, secret : Secrets \cup {None},
              code : Steps \cup {None}]
ProofReq == [at : {"proof"}, s : Sessions, for : Purposes]
TotpRow == [secret : Secrets \cup {None}, confirmed : BOOLEAN, last : Steps \cup {-1}]

-----------------------------------------------------------------------------
(* Records *)

\* A request is of the kind its tag says.
LEMMA RequestForms ==
    \A q \in Request :
        /\ q.at = "body" => q \in BodyReq
        /\ q.at = "login" => q \in LoginReq
        /\ q.at = "confirm" => q \in ConfirmReq
        /\ q.at = "verify" => q \in VerifyReq
        /\ q.at = "proof" => q \in ProofReq
<1> SUFFICES ASSUME NEW q \in Request
             PROVE  /\ q.at = "body" => q \in BodyReq
                    /\ q.at = "login" => q \in LoginReq
                    /\ q.at = "confirm" => q \in ConfirmReq
                    /\ q.at = "verify" => q \in VerifyReq
                    /\ q.at = "proof" => q \in ProofReq
  OBVIOUS
<1>1. \/ q = Idle \/ q \in BodyReq \/ q \in BareReq \/ q \in LoginReq \/ q \in ConfirmReq
      \/ q \in VerifyReq \/ q \in ProofReq
  BY DEF Request, BodyReq, BareReq, LoginReq, ConfirmReq, VerifyReq, ProofReq
<1>2. CASE q = Idle
  BY <1>2 DEF Idle
<1>3. CASE q \in BodyReq
  BY <1>3 DEF BodyReq
<1>4. CASE q \in BareReq
  BY <1>4 DEF BareReq
<1>5. CASE q \in LoginReq
  BY <1>5 DEF LoginReq
<1>6. CASE q \in ConfirmReq
  BY <1>6 DEF ConfirmReq
<1>7. CASE q \in VerifyReq
  BY <1>7 DEF VerifyReq
<1>8. CASE q \in ProofReq
  BY <1>8 DEF ProofReq
<1>9. QED
  BY <1>1, <1>2, <1>3, <1>4, <1>5, <1>6, <1>7, <1>8

\* Every kind is a request.
LEMMA RequestKinds ==
    /\ Idle \in Request /\ BodyReq \subseteq Request /\ BareReq \subseteq Request
    /\ LoginReq \subseteq Request /\ ConfirmReq \subseteq Request
    /\ VerifyReq \subseteq Request /\ ProofReq \subseteq Request
BY DEF Request, BodyReq, BareReq, LoginReq, ConfirmReq, VerifyReq, ProofReq

\* What is written to a login under way, and to a request whose step-up lapses.
LEMMA RequestUpdates ==
    /\ \A q \in LoginReq :
          /\ [q EXCEPT !.late = TRUE] \in LoginReq
          /\ [q EXCEPT !.late = TRUE].mfa = q.mfa
          /\ [q EXCEPT !.late = TRUE].older = q.older
          /\ [q EXCEPT !.older = TRUE] \in LoginReq
          /\ [q EXCEPT !.older = TRUE].older
    /\ \A q \in BodyReq :
          /\ [q EXCEPT !.level = "full"] \in BodyReq
          /\ [q EXCEPT !.level = "full"].at = "body"
<1>1. ASSUME NEW q \in LoginReq
      PROVE  /\ [q EXCEPT !.late = TRUE] \in LoginReq
             /\ [q EXCEPT !.late = TRUE].mfa = q.mfa
             /\ [q EXCEPT !.late = TRUE].older = q.older
             /\ [q EXCEPT !.older = TRUE] \in LoginReq
             /\ [q EXCEPT !.older = TRUE].older
  BY DEF LoginReq
<1>2. ASSUME NEW q \in BodyReq
      PROVE  /\ [q EXCEPT !.level = "full"] \in BodyReq
             /\ [q EXCEPT !.level = "full"].at = "body"
  BY DEF BodyReq, Levels
<1>3. QED
  BY <1>1, <1>2

\* What is written to the row of a session.
LEMMA SessionUpdates ==
    \A row \in Session :
        /\ \A pw \in {"now", "old"} : /\ [row EXCEPT !.pw = pw] \in Session
                                      /\ [row EXCEPT !.pw = pw].pw = pw
                                      /\ [row EXCEPT !.pw = pw].auth = row.auth
                                      /\ [row EXCEPT !.pw = pw].cleared = row.cleared
        /\ \A up \in BOOLEAN : /\ [row EXCEPT !.stepUp = up] \in Session
                               /\ [row EXCEPT !.stepUp = up].pw = row.pw
                               /\ [row EXCEPT !.stepUp = up].auth = row.auth
                               /\ [row EXCEPT !.stepUp = up].cleared = row.cleared
        /\ [row EXCEPT !.cleared = TRUE] \in Session
        /\ [row EXCEPT !.cleared = TRUE].pw = row.pw
        /\ [row EXCEPT !.cleared = TRUE].cleared
        /\ \A for \in Purposes : /\ Pass(row, for) \in Session
                                 /\ Pass(row, for).pw = row.pw
                                 /\ \/ Pass(row, for).cleared
                                    \/ /\ Pass(row, for).auth = row.auth
                                       /\ Pass(row, for).cleared = row.cleared
<1> SUFFICES ASSUME NEW row \in Session
             PROVE  /\ \A pw \in {"now", "old"} : /\ [row EXCEPT !.pw = pw] \in Session
                                                  /\ [row EXCEPT !.pw = pw].pw = pw
                                                  /\ [row EXCEPT !.pw = pw].auth = row.auth
                                                  /\ [row EXCEPT !.pw = pw].cleared = row.cleared
                    /\ \A up \in BOOLEAN : /\ [row EXCEPT !.stepUp = up] \in Session
                                           /\ [row EXCEPT !.stepUp = up].pw = row.pw
                                           /\ [row EXCEPT !.stepUp = up].auth = row.auth
                                           /\ [row EXCEPT !.stepUp = up].cleared = row.cleared
                    /\ [row EXCEPT !.cleared = TRUE] \in Session
                    /\ [row EXCEPT !.cleared = TRUE].pw = row.pw
                    /\ [row EXCEPT !.cleared = TRUE].cleared
                    /\ \A for \in Purposes : /\ Pass(row, for) \in Session
                                             /\ Pass(row, for).pw = row.pw
                                             /\ \/ Pass(row, for).cleared
                                                \/ /\ Pass(row, for).auth = row.auth
                                                   /\ Pass(row, for).cleared = row.cleared
  OBVIOUS
<1>1. ASSUME NEW pw \in {"now", "old"}
      PROVE  /\ [row EXCEPT !.pw = pw] \in Session
             /\ [row EXCEPT !.pw = pw].pw = pw
             /\ [row EXCEPT !.pw = pw].auth = row.auth
             /\ [row EXCEPT !.pw = pw].cleared = row.cleared
  BY DEF Session
<1>2. ASSUME NEW up \in BOOLEAN
      PROVE  /\ [row EXCEPT !.stepUp = up] \in Session
             /\ [row EXCEPT !.stepUp = up].pw = row.pw
             /\ [row EXCEPT !.stepUp = up].auth = row.auth
             /\ [row EXCEPT !.stepUp = up].cleared = row.cleared
  BY DEF Session
<1>3. /\ [row EXCEPT !.cleared = TRUE] \in Session
      /\ [row EXCEPT !.cleared = TRUE].pw = row.pw
      /\ [row EXCEPT !.cleared = TRUE].cleared
  BY DEF Session
<1>4. /\ [row EXCEPT !.auth = "full", !.cleared = TRUE] \in Session
      /\ [row EXCEPT !.auth = "full", !.cleared = TRUE].pw = row.pw
      /\ [row EXCEPT !.auth = "full", !.cleared = TRUE].cleared
  BY DEF Session
<1>5. ASSUME NEW for \in Purposes
      PROVE  /\ Pass(row, for) \in Session
             /\ Pass(row, for).pw = row.pw
             /\ \/ Pass(row, for).cleared
                \/ /\ Pass(row, for).auth = row.auth
                   /\ Pass(row, for).cleared = row.cleared
  <2>1. CASE for = "login"
    BY <1>4, <2>1 DEF Pass
  <2>2. CASE for # "login"
    BY <1>2, <2>2 DEF Pass
  <2>3. QED
    BY <2>1, <2>2
<1>6. QED
  BY <1>1, <1>2, <1>3, <1>5

-----------------------------------------------------------------------------
(* Sessions *)

\* What a step may make of the row of a session: the row is gone, or it was
\* there and lost nothing it has shown, or it is opened now.
Kept(s) ==
    /\ sess[s] # None
    /\ sess'[s].pw \in {sess[s].pw, "now"}
    /\ \/ sess'[s].cleared
       \/ sess'[s].auth = sess[s].auth /\ sess'[s].cleared = sess[s].cleared

Opened(s) ==
    /\ sess'[s].pw # "old"
    /\ sess'[s].auth = "full" /\ ~sess'[s].cleared =>
          \E r \in Requests : req[r].at = "login" /\ ~req[r].mfa /\ ~req[r].older

RowStep(s) ==
    /\ sess'[s] \in Session \cup {None}
    /\ sess'[s] # None => Kept(s) \/ Opened(s)

SessStep ==
    /\ sess' = [s \in Sessions |-> sess'[s]]
    /\ \A s \in Sessions : RowStep(s)

\* A row that is not written, or removed, is an allowed step of the row.
LEMMA RowUntouched ==
    ASSUME TypeOK, NEW s \in Sessions, sess'[s] = sess[s] \/ sess'[s] = None
    PROVE  RowStep(s)
<1>1. sess[s] \in Session \cup {None}
  BY DEF TypeOK
<1>2. QED
  BY <1>1 DEF RowStep, Kept

LEMMA SessUntouched ==
    ASSUME TypeOK, UNCHANGED sess
    PROVE  SessStep
<1>1. sess' = [s \in Sessions |-> sess'[s]]
  BY DEF TypeOK
<1>2. \A s \in Sessions : RowStep(s)
  BY RowUntouched
<1>3. QED
  BY <1>1, <1>2 DEF SessStep

\* One row is written.
LEMMA SessWritten ==
    ASSUME TypeOK, NEW s \in Sessions, NEW row,
           sess' = [sess EXCEPT ![s] = row],
           sess'[s] = row => RowStep(s)
    PROVE  SessStep
<1>1. /\ sess' = [t \in Sessions |-> sess'[t]]
      /\ sess'[s] = row
      /\ \A t \in Sessions : t # s => sess'[t] = sess[t]
  BY DEF TypeOK
<1>2. \A t \in Sessions : RowStep(t)
  BY <1>1, RowUntouched
<1>3. QED
  BY <1>1, <1>2 DEF SessStep

\* A row that exists is marked with what it may become.
LEMMA SessMarked ==
    ASSUME TypeOK, NEW s \in Sessions, NEW row, Mark(s, row),
           sess[s] # None =>
              \/ row = None
              \/ /\ row \in Session
                 /\ row.pw = sess[s].pw
                 /\ \/ row.cleared
                    \/ row.auth = sess[s].auth /\ row.cleared = sess[s].cleared
    PROVE  SessStep
<1>1. CASE sess[s] = None
  <2>1. sess' = [sess EXCEPT ![s] = None]
    BY <1>1 DEF Mark
  <2>2. sess'[s] = None => RowStep(s)
    BY RowUntouched
  <2>3. QED
    BY <2>1, <2>2, SessWritten
<1>2. CASE sess[s] # None
  <2>1. sess' = [sess EXCEPT ![s] = row]
    BY <1>2 DEF Mark
  <2>2. sess'[s] = row => RowStep(s)
    BY <1>2 DEF RowStep, Kept
  <2>3. QED
    BY <2>1, <2>2, SessWritten
<1>3. QED
  BY <1>1, <1>2

\* A session is opened.
LEMMA SessCreated ==
    ASSUME TypeOK, NEW s \in Sessions,
           NEW auth \in {"password_ok", "full"}, NEW pw \in {"now", "late"},
           NEW cleared \in BOOLEAN,
           CreateSession(s, auth, pw, cleared),
           auth = "full" /\ ~cleared =>
              \E r \in Requests : req[r].at = "login" /\ ~req[r].mfa /\ ~req[r].older
    PROVE  SessStep
<1> DEFINE row == [auth |-> auth, stepUp |-> TRUE, pw |-> pw, cleared |-> cleared]
<1>1. sess' = [sess EXCEPT ![s] = row]
  BY DEF CreateSession
<1>2. /\ row \in Session
      /\ row.pw # "old" /\ row.auth = auth /\ row.cleared = cleared
  BY DEF Session
<1> HIDE DEF row
<1>3. sess'[s] = row => RowStep(s)
  BY <1>2 DEF RowStep, Opened
<1>4. QED
  BY <1>1, <1>3, SessWritten

\* The password is written over and all sessions but at most one are removed.
LEMMA SessKickedOut ==
    ASSUME TypeOK, NEW k, sess' = KickOut(Rewritten(k), {k})
    PROVE  SessStep
<1>1. /\ sess' = [s \in Sessions |-> sess'[s]]
      /\ \A s \in Sessions : sess'[s] = IF s = k THEN Rewritten(k)[s] ELSE None
  BY DEF KickOut
<1>2. ASSUME NEW s \in Sessions PROVE RowStep(s)
  <2>1. CASE s # k \/ sess[s] = None
    BY <1>1, <2>1, RowUntouched DEF Rewritten
  <2>2. CASE s = k /\ sess[s] # None
    <3>1. sess[s] \in Session
      BY <2>2 DEF TypeOK
    <3>2. sess'[s] = [sess[s] EXCEPT !.pw = "now"]
      BY <1>1, <2>2 DEF Rewritten
    <3>3. /\ [sess[s] EXCEPT !.pw = "now"] \in Session
          /\ [sess[s] EXCEPT !.pw = "now"].pw = "now"
          /\ [sess[s] EXCEPT !.pw = "now"].auth = sess[s].auth
          /\ [sess[s] EXCEPT !.pw = "now"].cleared = sess[s].cleared
      BY <3>1, SessionUpdates, Zenon
    <3>4. QED
      BY <2>2, <3>2, <3>3 DEF RowStep, Kept
  <2>3. QED
    BY <2>1, <2>2
<1>3. QED
  BY <1>1, <1>2 DEF SessStep

\* mfa_enabled is set.
LEMMA SessFlagged ==
    ASSUME TypeOK, NEW r \in Requests, SetMfa(r)
    PROVE  /\ SessStep
           /\ ~mfa => \A s \in Sessions : sess'[s] # None => sess'[s].cleared
<1>1. /\ sess' = [s \in Sessions |-> sess'[s]]
      /\ \A s \in Sessions : sess'[s] = IF sess[s] = None \/ mfa THEN sess[s]
                                        ELSE [sess[s] EXCEPT !.cleared = TRUE]
  BY DEF SetMfa
<1>2. ASSUME NEW s \in Sessions, sess[s] # None, ~mfa
      PROVE  sess'[s] \in Session /\ sess'[s].pw = sess[s].pw /\ sess'[s].cleared
  <2>1. sess[s] \in Session
    BY <1>2 DEF TypeOK
  <2>2. sess'[s] = [sess[s] EXCEPT !.cleared = TRUE]
    BY <1>1, <1>2
  <2>3. /\ [sess[s] EXCEPT !.cleared = TRUE] \in Session
        /\ [sess[s] EXCEPT !.cleared = TRUE].pw = sess[s].pw
        /\ [sess[s] EXCEPT !.cleared = TRUE].cleared
    BY <2>1, SessionUpdates, Zenon
  <2>4. QED
    BY <2>2, <2>3
<1>3. ASSUME NEW s \in Sessions PROVE RowStep(s)
  <2>1. CASE sess[s] = None \/ mfa
    BY <1>1, <2>1, RowUntouched
  <2>2. CASE sess[s] # None /\ ~mfa
    BY <1>2, <2>2 DEF RowStep, Kept
  <2>3. QED
    BY <2>1, <2>2
<1>4. QED
  BY <1>1, <1>2, <1>3 DEF SessStep

-----------------------------------------------------------------------------
(* Requests *)

\* A login under way asks for the factor by what the flag was, or is older.
LoginStep(r) ==
    req'[r].at = "login" /\ ~req'[r].mfa =>
        \/ req'[r].older \/ ~mfa
        \/ req[r].at = "login" /\ ~req[r].mfa /\ ~req[r].older

NoCheckBegins == \A r \in Requests : req'[r].at = "verify" => req[r].at = "verify"

LoginsStep ==
    /\ req' \in [Requests -> Request]
    /\ \A r \in Requests : LoginStep(r)

ReqStep == LoginsStep /\ NoCheckBegins

LEMMA ReqUntouched ==
    ASSUME TypeOK, UNCHANGED req
    PROVE  ReqStep
BY DEF TypeOK, ReqStep, LoginsStep, LoginStep, NoCheckBegins

\* One request goes on, or ends.
LEMMA ReqGoesOn ==
    ASSUME TypeOK, NEW r \in Requests, NEW next \in Request, Become(r, next),
           next.at = "login" /\ ~next.mfa => ~mfa
    PROVE  LoginsStep /\ (next.at # "verify" => NoCheckBegins)
<1>1. /\ req' \in [Requests -> Request]
      /\ req'[r] = next
      /\ \A q \in Requests : q # r => req'[q] = req[q]
  BY DEF TypeOK, Become
<1>2. QED
  BY <1>1 DEF LoginsStep, LoginStep, NoCheckBegins

LEMMA ReqEnds ==
    ASSUME TypeOK, NEW r \in Requests, Done(r)
    PROVE  ReqStep
<1>1. Idle \in Request /\ Idle.at = "idle" /\ Become(r, Idle)
  BY RequestKinds DEF Idle, Done
<1>2. QED
  BY <1>1, ReqGoesOn DEF ReqStep

\* The password is written over: logins under way are late.
LEMMA ReqRewritten ==
    ASSUME TypeOK, NEW r \in Requests, RewriteAndDone(r)
    PROVE  ReqStep
<1>1. /\ req' = [q \in Requests |-> req'[q]]
      /\ \A q \in Requests :
            req'[q] = IF q = r THEN Idle
                      ELSE IF req[q].at = "login" THEN [req[q] EXCEPT !.late = TRUE]
                      ELSE req[q]
  BY DEF RewriteAndDone
<1>2. Idle \in Request /\ Idle.at = "idle"
  BY RequestKinds DEF Idle
<1>3. ASSUME NEW q \in Requests
      PROVE  /\ req'[q] \in Request /\ LoginStep(q)
             /\ req'[q].at = "verify" => req[q].at = "verify"
  <2>1. CASE q # r /\ req[q].at = "login"
    <3>1. req[q] \in LoginReq
      BY <2>1, RequestForms DEF TypeOK
    <3>2. /\ [req[q] EXCEPT !.late = TRUE] \in LoginReq
          /\ [req[q] EXCEPT !.late = TRUE].mfa = req[q].mfa
          /\ [req[q] EXCEPT !.late = TRUE].older = req[q].older
      BY <3>1, RequestUpdates, Zenon
    <3>3. [req[q] EXCEPT !.late = TRUE].at = "login"
      BY <3>2 DEF LoginReq
    <3>4. req'[q] = [req[q] EXCEPT !.late = TRUE]
      BY <1>1, <2>1
    <3>5. req[q].mfa \in BOOLEAN /\ req[q].older \in BOOLEAN
      BY <3>1 DEF LoginReq
    <3>6. QED
      BY <2>1, <3>2, <3>3, <3>4, <3>5, RequestKinds DEF LoginStep
  <2>2. CASE q # r /\ req[q].at # "login"
    BY <1>1, <2>2 DEF TypeOK, LoginStep
  <2>3. CASE q = r
    BY <1>1, <1>2, <2>3 DEF LoginStep
  <2>4. QED
    BY <2>1, <2>2, <2>3
<1>4. QED
  BY <1>1, <1>3 DEF ReqStep, LoginsStep, NoCheckBegins

\* mfa_enabled is set: logins under way are older.
LEMMA ReqFlagged ==
    ASSUME TypeOK, NEW r \in Requests, SetMfa(r)
    PROVE  /\ ReqStep
           /\ ~mfa => \A q \in Requests : req'[q].at = "login" => req'[q].older
<1>1. /\ req' = [q \in Requests |-> req'[q]]
      /\ \A q \in Requests :
            req'[q] = IF q = r THEN Idle
                      ELSE IF req[q].at = "login" /\ ~mfa
                           THEN [req[q] EXCEPT !.older = TRUE] ELSE req[q]
  BY DEF SetMfa
<1>2. Idle \in Request /\ Idle.at = "idle"
  BY RequestKinds DEF Idle
<1>3. ASSUME NEW q \in Requests
      PROVE  /\ req'[q] \in Request /\ LoginStep(q)
             /\ req'[q].at = "verify" => req[q].at = "verify"
             /\ ~mfa /\ req'[q].at = "login" => req'[q].older
  <2>1. CASE q # r /\ req[q].at = "login" /\ ~mfa
    <3>1. req[q] \in LoginReq
      BY <2>1, RequestForms DEF TypeOK
    <3>2. /\ [req[q] EXCEPT !.older = TRUE] \in LoginReq
          /\ [req[q] EXCEPT !.older = TRUE].older
      BY <3>1, RequestUpdates, Zenon
    <3>3. [req[q] EXCEPT !.older = TRUE].at = "login"
      BY <3>2 DEF LoginReq
    <3>4. req'[q] = [req[q] EXCEPT !.older = TRUE]
      BY <1>1, <2>1
    <3>5. QED
      BY <2>1, <3>2, <3>3, <3>4, RequestKinds DEF LoginStep
  <2>2. CASE q # r /\ ~(req[q].at = "login" /\ ~mfa)
    BY <1>1, <2>2 DEF TypeOK, LoginStep
  <2>3. CASE q = r
    BY <1>1, <1>2, <2>3 DEF LoginStep
  <2>4. QED
    BY <2>1, <2>2, <2>3
<1>4. QED
  BY <1>1, <1>3 DEF ReqStep, LoginsStep, NoCheckBegins

\* A step-up lapses for the requests that have read it.
LEMMA ReqLapses ==
    ASSUME TypeOK, NEW s \in Sessions, Lapse(s)
    PROVE  ReqStep
<1>1. /\ req' = [q \in Requests |-> req'[q]]
      /\ \A q \in Requests : req'[q] = IF SteppedUp(q) /\ req[q].s = s
                                       THEN [req[q] EXCEPT !.level = "full"] ELSE req[q]
  BY DEF Lapse
<1>2. ASSUME NEW q \in Requests
      PROVE  /\ req'[q] \in Request /\ LoginStep(q)
             /\ req'[q].at = "verify" => req[q].at = "verify"
  <2>1. CASE SteppedUp(q) /\ req[q].s = s
    <3>1. req[q] \in BodyReq
      BY <2>1, RequestForms DEF TypeOK, SteppedUp
    <3>2. /\ [req[q] EXCEPT !.level = "full"] \in BodyReq
          /\ [req[q] EXCEPT !.level = "full"].at = "body"
      BY <3>1, RequestUpdates, Zenon
    <3>3. QED
      BY <1>1, <2>1, <3>2, RequestKinds DEF LoginStep
  <2>2. CASE ~(SteppedUp(q) /\ req[q].s = s)
    BY <1>1, <2>2 DEF TypeOK, LoginStep
  <2>3. QED
    BY <2>1, <2>2
<1>3. QED
  BY <1>1, <1>2 DEF ReqStep, LoginsStep, NoCheckBegins

-----------------------------------------------------------------------------
(* Steps *)

\* The flag goes on only together with what marks who is older.
FlagStep ==
    mfa' => \/ mfa
            \/ /\ \A s \in Sessions : sess'[s] # None => sess'[s].cleared
               /\ \A r \in Requests : req'[r].at = "login" => req'[r].older

\* Checks that begin pass the limit first.
ChecksStep == NoCheckBegins \/ (guesses < FailLimit /\ guesses' = guesses)

StepOK == SessStep /\ LoginsStep /\ ChecksStep /\ FlagStep

\* Most steps write one session at most, and end one request.
LEMMA PlainStep ==
    ASSUME TypeOK, SessStep, ReqStep, mfa' => mfa
    PROVE  StepOK
BY DEF StepOK, ReqStep, ChecksStep, FlagStep

LEMMA FlaggedStep ==
    ASSUME TypeOK, NEW r \in Requests, SetMfa(r)
    PROVE  StepOK
<1>1. /\ SessStep
      /\ ~mfa => \A s \in Sessions : sess'[s] # None => sess'[s].cleared
  BY SessFlagged
<1>2. /\ ReqStep
      /\ ~mfa => \A q \in Requests : req'[q].at = "login" => req'[q].older
  BY ReqFlagged
<1>3. QED
  BY <1>1, <1>2 DEF StepOK, ReqStep, ChecksStep, FlagStep

LEMMA BecomesStep ==
    ASSUME TypeOK, UNCHANGED <<sess, mfa>>, NEW r \in Requests, NEW next \in Request,
           Become(r, next),
           next.at = "login" /\ ~next.mfa => ~mfa,
           next.at = "verify" => guesses < FailLimit /\ guesses' = guesses
    PROVE  StepOK
<1>1. SessStep
  BY SessUntouched
<1>2. LoginsStep /\ (next.at # "verify" => NoCheckBegins)
  BY ReqGoesOn
<1>3. QED
  BY <1>1, <1>2 DEF StepOK, ChecksStep, FlagStep

\* What a passed check makes of the row of its session.
LEMMA PassedStep ==
    ASSUME TypeOK, NEW s \in Sessions, NEW for \in Purposes, Mark(s, Pass(sess[s], for))
    PROVE  SessStep
<1>1. ASSUME sess[s] # None
      PROVE  /\ Pass(sess[s], for) \in Session
             /\ Pass(sess[s], for).pw = sess[s].pw
             /\ \/ Pass(sess[s], for).cleared
                \/ /\ Pass(sess[s], for).auth = sess[s].auth
                   /\ Pass(sess[s], for).cleared = sess[s].cleared
  <2>1. sess[s] \in Session
    BY <1>1 DEF TypeOK
  <2>2. QED
    BY <2>1, SessionUpdates, Zenon
<1>2. QED
  BY <1>1, SessMarked

LEMMA CountedStep ==
    ASSUME TypeOK, NEW s \in Sessions, CountFailure(s)
    PROVE  SessStep
<1>1. UNCHANGED sess \/ Mark(s, None)
  BY DEF CountFailure
<1>2. CASE UNCHANGED sess
  BY <1>2, SessUntouched
<1>3. CASE Mark(s, None)
  BY <1>3, SessMarked
<1>4. QED
  BY <1>1, <1>2, <1>3

\* A step-up is set, or lapses.
LEMMA StepUpStep ==
    ASSUME TypeOK, NEW s \in Sessions, NEW up \in BOOLEAN,
           Mark(s, [sess[s] EXCEPT !.stepUp = up])
    PROVE  SessStep
<1>1. ASSUME sess[s] # None
      PROVE  /\ [sess[s] EXCEPT !.stepUp = up] \in Session
             /\ [sess[s] EXCEPT !.stepUp = up].pw = sess[s].pw
             /\ [sess[s] EXCEPT !.stepUp = up].auth = sess[s].auth
             /\ [sess[s] EXCEPT !.stepUp = up].cleared = sess[s].cleared
  <2>1. sess[s] \in Session
    BY <1>1 DEF TypeOK
  <2>2. QED
    BY <2>1, SessionUpdates, Zenon
<1>2. QED
  BY <1>1, SessMarked

\* The sessions of requests.
LEMMA RequestSession ==
    ASSUME TypeOK, NEW r \in Requests, req[r].at \in {"body", "verify", "proof"}
    PROVE  req[r].s \in Sessions
<1>1. req[r] \in BodyReq \cup VerifyReq \cup ProofReq
  BY RequestForms DEF TypeOK
<1>2. QED
  BY <1>1 DEF BodyReq, VerifyReq, ProofReq

LEMMA RequestPurpose ==
    ASSUME TypeOK, NEW r \in Requests, req[r].at \in {"verify", "proof"}
    PROVE  req[r].for \in Purposes
<1>1. req[r] \in VerifyReq \cup ProofReq
  BY RequestForms DEF TypeOK
<1>2. QED
  BY <1>1 DEF VerifyReq, ProofReq

\* A session is loaded, or opened.
LEMMA OpeningActions ==
    ASSUME TypeOK, NEW r \in Requests, NEW s \in Sessions,
           Load(r, s) \/ EndLogin(r, s) \/ EndPasskeyLogin(r, s)
    PROVE  StepOK
<1>1. CASE Load(r, s)
  <2>1. sess[s] \in Session
    BY <1>1 DEF Load, TypeOK
  <2>2. [at |-> "body", s |-> s, level |-> Level(sess[s])] \in Request
    BY <2>1 DEF Level, Levels, Request
  <2>3. CASE active
    BY <1>1, <2>2, <2>3, BecomesStep DEF Load, factors
  <2>4. CASE ~active
    <3>1. sess' = [sess EXCEPT ![s] = None]
      BY <1>1, <2>4 DEF Load
    <3>2. SessStep
      BY <3>1, SessWritten, RowUntouched
    <3>3. QED
      BY <1>1, <2>4, <3>2, ReqUntouched, PlainStep DEF Load, factors
  <2>5. QED
    BY <2>3, <2>4
<1>2. CASE EndLogin(r, s)
  <2> DEFINE auth == IF req[r].mfa THEN "password_ok" ELSE "full"
             pw == IF req[r].late THEN "late" ELSE "now"
  <2>1. req[r] \in LoginReq /\ req[r].at = "login"
    BY <1>2, RequestForms DEF EndLogin, TypeOK
  <2>2. req[r].mfa \in BOOLEAN /\ req[r].older \in BOOLEAN
    BY <2>1 DEF LoginReq
  <2>3. auth \in {"password_ok", "full"} /\ pw \in {"now", "late"}
    OBVIOUS
  <2>4. auth = "full" => ~req[r].mfa
    OBVIOUS
  <2>5. CreateSession(s, auth, pw, req[r].older)
    BY <1>2 DEF EndLogin
  <2> HIDE DEF auth, pw
  <2>6. SessStep
    BY <2>1, <2>2, <2>3, <2>4, <2>5, SessCreated
  <2>7. QED
    BY <1>2, <2>6, ReqEnds, PlainStep DEF EndLogin, factors
<1>3. CASE EndPasskeyLogin(r, s)
  <2>1. SessStep
    BY <1>3, SessCreated DEF EndPasskeyLogin
  <2>2. QED
    BY <1>3, <2>1, ReqEnds, PlainStep DEF EndPasskeyLogin, factors
<1>4. QED
  BY <1>1, <1>2, <1>3

\* Logins and passwords.
LEMMA LoginActions ==
    ASSUME TypeOK, NEW r \in Requests,
           \/ Refuse(r) \/ BeginLogin(r) \/ BeginPasskeyLogin(r)
           \/ ChangePassword(r) \/ ResetPassword(r) \/ StepUpByPassword(r)
    PROVE  StepOK
<1>1. CASE Refuse(r)
  BY <1>1, SessUntouched, ReqEnds, PlainStep DEF Refuse, factors
<1>2. CASE BeginLogin(r)
  <2> DEFINE next == [at |-> "login", mfa |-> mfa, older |-> FALSE, late |-> FALSE]
  <2>1. next \in LoginReq /\ next.at = "login" /\ next.mfa = mfa
    BY DEF LoginReq, TypeOK
  <2>2. Become(r, next) /\ UNCHANGED <<sess, mfa>>
    BY <1>2 DEF BeginLogin, factors
  <2> HIDE DEF next
  <2>3. QED
    BY <2>1, <2>2, RequestKinds, BecomesStep
<1>3. CASE BeginPasskeyLogin(r)
  <2>1. [at |-> "primary"] \in Request
    BY RequestKinds DEF BareReq
  <2>2. QED
    BY <1>3, <2>1, BecomesStep DEF BeginPasskeyLogin, factors
<1>4. CASE ChangePassword(r)
  BY <1>4, SessKickedOut, ReqRewritten, PlainStep DEF ChangePassword, factors
<1>5. CASE ResetPassword(r)
  <2>1. KickOut(Rewritten(None), {}) = KickOut(Rewritten(None), {None})
    BY AccountsAssumption DEF KickOut
  <2>2. SessStep
    BY <1>5, <2>1, SessKickedOut DEF ResetPassword
  <2>3. QED
    BY <1>5, <2>2, ReqRewritten, PlainStep DEF ResetPassword, factors
<1>6. CASE StepUpByPassword(r)
  <2>1. req[r].s \in Sessions
    BY <1>6, RequestSession DEF StepUpByPassword, Full
  <2>2. SessStep
    BY <1>6, <2>1, StepUpStep DEF StepUpByPassword
  <2>3. QED
    BY <1>6, <2>2, ReqEnds, PlainStep DEF StepUpByPassword, factors
<1>7. QED
  BY <1>1, <1>2, <1>3, <1>4, <1>5, <1>6

\* What needs no request that goes on.
LEMMA OtherActions ==
    ASSUME TypeOK,
           \/ \E s \in Sessions : EndSession(s) \/ Lapse(s) \/ DeletePasskey(s)
           \/ \E on \in BOOLEAN : SetStatus(on)
           \/ WindowPasses \/ Crash
    PROVE  StepOK
<1>1. ASSUME NEW s \in Sessions, EndSession(s) PROVE StepOK
  <2>1. SessStep
    BY <1>1, SessWritten, RowUntouched DEF EndSession
  <2>2. QED
    BY <1>1, <2>1, ReqUntouched, PlainStep DEF EndSession, factors
<1>2. ASSUME NEW s \in Sessions, Lapse(s) PROVE StepOK
  <2>1. Mark(s, [sess[s] EXCEPT !.stepUp = FALSE])
    BY <1>2 DEF Lapse, Mark
  <2>2. SessStep
    BY <2>1, StepUpStep
  <2>3. QED
    BY <1>2, <2>2, ReqLapses, PlainStep DEF Lapse, factors
<1>3. ASSUME NEW s \in Sessions, DeletePasskey(s) PROVE StepOK
  BY <1>3, SessUntouched, ReqUntouched, PlainStep DEF DeletePasskey
<1>4. ASSUME NEW on \in BOOLEAN, SetStatus(on) PROVE StepOK
  <2>1. CASE on
    BY <1>4, <2>1, SessUntouched, ReqUntouched, PlainStep DEF SetStatus, factors
  <2>2. CASE ~on
    <3>1. sess' = [t \in Sessions |-> None]
      BY <1>4, <2>2 DEF SetStatus, KickOut
    <3>2. SessStep
      BY <3>1, RowUntouched DEF SessStep
    <3>3. QED
      BY <1>4, <3>2, ReqUntouched, PlainStep DEF SetStatus, factors
  <2>3. QED
    BY <2>1, <2>2
<1>5. CASE WindowPasses
  BY <1>5, SessUntouched, ReqUntouched, PlainStep DEF WindowPasses, factors
<1>6. CASE Crash
  <2>1. req' = [r \in Requests |-> Idle]
    BY <1>6 DEF Crash
  <2>2. Idle \in Request /\ Idle.at = "idle"
    BY RequestKinds DEF Idle
  <2>3. ReqStep
    BY <2>1, <2>2 DEF ReqStep, LoginsStep, LoginStep, NoCheckBegins
  <2>4. QED
    BY <1>6, <2>3, SessUntouched, PlainStep DEF Crash, factors
<1>7. QED
  BY <1>1, <1>2, <1>3, <1>4, <1>5, <1>6

\* Second factors.
LEMMA FactorActions ==
    ASSUME TypeOK, NEW r \in Requests,
           NEW for \in Purposes, NEW c \in Steps \cup {None},
           \/ (\E k \in Secrets : Enroll(r, k)) \/ (c \in Steps /\ BeginConfirm(r, c)) \/ EndConfirm(r)
           \/ Regenerate(r) \/ DisableTotp(r)
           \/ BeginVerify(r, for, c) \/ VerifyWithoutTotp(r)
           \/ VerifiedByCode(r) \/ VerifiedByRecovery(r) \/ VerifyFails(r)
           \/ BeginRegister(r) \/ EndRegister(r)
           \/ BeginPasskey(r, for) \/ EndProof(r)
    PROVE  StepOK
<1>1. CASE \E k \in Secrets : Enroll(r, k)
  BY <1>1, SessUntouched, ReqEnds, PlainStep DEF Enroll
<1>2. CASE c \in Steps /\ BeginConfirm(r, c)
  <2> DEFINE next == [at |-> "confirm", secret |-> totp.secret, code |-> c]
  <2>1. totp.secret \in Secrets
    BY <1>2 DEF BeginConfirm, TypeOK
  <2>2. next \in ConfirmReq /\ next.at = "confirm"
    BY <1>2, <2>1 DEF ConfirmReq
  <2>3. Become(r, next) /\ UNCHANGED <<sess, mfa>>
    BY <1>2 DEF BeginConfirm, factors
  <2> HIDE DEF next
  <2>4. QED
    BY <2>2, <2>3, RequestKinds, BecomesStep
<1>3. CASE EndConfirm(r)
  BY <1>3, FlaggedStep DEF EndConfirm
<1>4. CASE Regenerate(r)
  BY <1>4, SessUntouched, ReqEnds, PlainStep DEF Regenerate
<1>5. CASE DisableTotp(r)
  BY <1>5, SessUntouched, ReqEnds, PlainStep DEF DisableTotp
<1>6. CASE BeginVerify(r, for, c)
  <2> DEFINE next == [at |-> "verify", s |-> req[r].s, for |-> for,
                      secret |-> IF c = None THEN None ELSE totp.secret, code |-> c]
  <2>1. req[r].s \in Sessions
    BY <1>6, RequestSession DEF BeginVerify, MayVerify, Half, Full
  <2>2. totp.secret \in Secrets \cup {None}
    BY DEF TypeOK
  <2>3. next \in VerifyReq /\ next.at = "verify"
    BY <2>1, <2>2 DEF VerifyReq
  <2>4. /\ Become(r, next) /\ UNCHANGED <<sess, mfa>>
        /\ guesses < FailLimit /\ guesses' = guesses
    BY <1>6 DEF BeginVerify, MayVerify, factors
  <2> HIDE DEF next
  <2>5. QED
    BY <2>3, <2>4, RequestKinds, BecomesStep
<1>7. CASE VerifyWithoutTotp(r)
  <2>1. req[r].s \in Sessions
    BY <1>7, RequestSession DEF VerifyWithoutTotp, MayVerify, Half, Full
  <2>2. QED
    BY <1>7, <2>1, CountedStep, ReqEnds, PlainStep DEF VerifyWithoutTotp, factors
<1>8. CASE VerifiedByCode(r) \/ VerifiedByRecovery(r)
  <2>1. req[r].s \in Sessions /\ req[r].for \in Purposes
    BY <1>8, RequestSession, RequestPurpose DEF VerifiedByCode, VerifiedByRecovery
  <2>2. SessStep
    BY <1>8, <2>1, PassedStep DEF VerifiedByCode, VerifiedByRecovery, Verified
  <2>3. QED
    BY <1>8, <2>2, ReqEnds, PlainStep DEF VerifiedByCode, VerifiedByRecovery
<1>9. CASE VerifyFails(r)
  <2>1. req[r].s \in Sessions
    BY <1>9, RequestSession DEF VerifyFails
  <2>2. QED
    BY <1>9, <2>1, CountedStep, ReqEnds, PlainStep DEF VerifyFails, factors
<1>10. CASE BeginRegister(r)
  <2>1. [at |-> "register"] \in Request
    BY RequestKinds DEF BareReq
  <2>2. QED
    BY <1>10, <2>1, BecomesStep DEF BeginRegister, factors
<1>11. CASE EndRegister(r)
  BY <1>11, FlaggedStep DEF EndRegister
<1>12. CASE BeginPasskey(r, for)
  <2>1. req[r].s \in Sessions
    BY <1>12, RequestSession DEF BeginPasskey, Half, Full
  <2>2. [at |-> "proof", s |-> req[r].s, for |-> for] \in Request
    BY <2>1 DEF Request
  <2>3. QED
    BY <1>12, <2>2, BecomesStep DEF BeginPasskey, factors
<1>13. CASE EndProof(r)
  <2>1. req[r].s \in Sessions /\ req[r].for \in Purposes
    BY <1>13, RequestSession, RequestPurpose DEF EndProof
  <2>2. SessStep
    BY <1>13, <2>1, PassedStep DEF EndProof
  <2>3. QED
    BY <1>13, <2>2, ReqEnds, PlainStep DEF EndProof, factors
<1>14. QED
  BY <1>1, <1>2, <1>3, <1>4, <1>5, <1>6, <1>7, <1>8, <1>9, <1>10, <1>11, <1>12, <1>13

LEMMA NextStep ==
    ASSUME TypeOK, [Next]_vars
    PROVE  StepOK
<1>1. ASSUME NEW r \in Requests, NEW s \in Sessions,
             Load(r, s) \/ EndLogin(r, s) \/ EndPasskeyLogin(r, s)
      PROVE  StepOK
  BY <1>1, OpeningActions
<1>2. ASSUME NEW r \in Requests,
             \/ Refuse(r) \/ BeginLogin(r) \/ BeginPasskeyLogin(r)
             \/ ChangePassword(r) \/ ResetPassword(r) \/ StepUpByPassword(r)
      PROVE  StepOK
  BY <1>2, LoginActions
<1>3. ASSUME NEW r \in Requests,
             \/ \E k \in Secrets : Enroll(r, k)
             \/ \E c \in Steps : BeginConfirm(r, c)
             \/ EndConfirm(r) \/ Regenerate(r) \/ DisableTotp(r)
             \/ \E for \in Purposes, c \in Steps \cup {None} : BeginVerify(r, for, c)
             \/ VerifyWithoutTotp(r)
             \/ VerifiedByCode(r) \/ VerifiedByRecovery(r) \/ VerifyFails(r)
             \/ BeginRegister(r) \/ EndRegister(r)
             \/ \E for \in Purposes : BeginPasskey(r, for)
             \/ EndProof(r)
      PROVE  StepOK
  <2>1. "login" \in Purposes /\ None \in Steps \cup {None}
    BY DEF Purposes
  <2>2. ASSUME NEW c \in Steps, BeginConfirm(r, c) PROVE StepOK
    BY <2>1, <2>2, FactorActions
  <2>3. ASSUME NEW for \in Purposes, NEW c \in Steps \cup {None}, BeginVerify(r, for, c)
        PROVE  StepOK
    BY <2>3, FactorActions
  <2>4. ASSUME NEW for \in Purposes, BeginPasskey(r, for) PROVE StepOK
    BY <2>1, <2>4, FactorActions
  <2>5. QED
    BY <1>3, <2>1, <2>2, <2>3, <2>4, FactorActions
<1>4. CASE \/ \E s \in Sessions : EndSession(s) \/ Lapse(s) \/ DeletePasskey(s)
           \/ \E on \in BOOLEAN : SetStatus(on)
           \/ WindowPasses \/ Crash
  BY <1>4, OtherActions
<1>5. CASE UNCHANGED vars
  BY <1>5, SessUntouched, ReqUntouched, PlainStep DEF vars
<1>6. QED
  BY <1>1, <1>2, <1>3, <1>4, <1>5 DEF Next

-----------------------------------------------------------------------------
(* The factors and the guesses *)

\* The actions that change what is bound.
FactorStep ==
    \/ UNCHANGED factors
    \/ \E r \in Requests :
          \/ \E k \in Secrets : Enroll(r, k)
          \/ EndConfirm(r) \/ Regenerate(r) \/ DisableTotp(r)
          \/ VerifiedByCode(r) \/ VerifiedByRecovery(r) \/ EndRegister(r)
    \/ \E s \in Sessions : DeletePasskey(s)

\* A failure is counted as a check ends, or one that passed the limit.
GuessStep ==
    /\ guesses' \in Nat
    /\ \/ guesses' <= guesses
       \/ /\ guesses' = guesses + 1
          /\ \E r \in Requests : /\ req'[r].at # "verify"
                                 /\ req[r].at = "verify" \/ guesses < FailLimit

LEMMA NextFactors ==
    ASSUME TypeOK, [Next]_vars
    PROVE  FactorStep /\ active' \in BOOLEAN /\ GuessStep
<1>0. active \in BOOLEAN /\ guesses \in Nat
  BY DEF TypeOK
<1>1. ASSUME UNCHANGED <<active, factors, guesses>>
      PROVE  FactorStep /\ active' \in BOOLEAN /\ GuessStep
  BY <1>0, <1>1 DEF FactorStep, GuessStep
<1>2. ASSUME UNCHANGED <<active, guesses>>, FactorStep
      PROVE  FactorStep /\ active' \in BOOLEAN /\ GuessStep
  BY <1>0, <1>2 DEF GuessStep
<1>3. ASSUME NEW r \in Requests,
             \/ \E s \in Sessions : Load(r, s) \/ EndLogin(r, s) \/ EndPasskeyLogin(r, s)
             \/ Refuse(r) \/ BeginLogin(r) \/ BeginPasskeyLogin(r)
             \/ ChangePassword(r) \/ ResetPassword(r) \/ StepUpByPassword(r)
             \/ \E c \in Steps : BeginConfirm(r, c)
             \/ \E for \in Purposes, c \in Steps \cup {None} : BeginVerify(r, for, c)
             \/ BeginRegister(r) \/ EndProof(r)
             \/ \E for \in Purposes : BeginPasskey(r, for)
      PROVE  UNCHANGED <<active, factors, guesses>>
  BY <1>3 DEF Load, EndLogin, EndPasskeyLogin, Refuse, BeginLogin, BeginPasskeyLogin,
              ChangePassword, ResetPassword, StepUpByPassword, BeginConfirm, BeginVerify,
              BeginRegister, EndProof, BeginPasskey
<1>4. ASSUME NEW r \in Requests,
             \/ \E k \in Secrets : Enroll(r, k)
             \/ EndConfirm(r) \/ Regenerate(r) \/ DisableTotp(r) \/ EndRegister(r)
      PROVE  UNCHANGED <<active, guesses>> /\ FactorStep
  <2>1. FactorStep
    BY <1>4 DEF FactorStep
  <2>2. QED
    BY <1>4, <2>1 DEF Enroll, EndConfirm, Regenerate, DisableTotp, EndRegister
<1>5. ASSUME NEW r \in Requests, VerifiedByCode(r) \/ VerifiedByRecovery(r)
      PROVE  FactorStep /\ active' \in BOOLEAN /\ GuessStep
  <2>1. guesses' = 0 /\ active' = active
    BY <1>5 DEF VerifiedByCode, VerifiedByRecovery, Verified
  <2>2. QED
    BY <1>0, <1>5, <2>1 DEF FactorStep, GuessStep
<1>6. ASSUME NEW r \in Requests, VerifyWithoutTotp(r) \/ VerifyFails(r)
      PROVE  FactorStep /\ active' \in BOOLEAN /\ GuessStep
  <2>1. req'[r].at # "verify"
    BY <1>6 DEF VerifyWithoutTotp, VerifyFails, Done, Become, Idle, TypeOK
  <2>2. req[r].at = "verify" \/ guesses < FailLimit
    BY <1>6 DEF VerifyWithoutTotp, VerifyFails, MayVerify
  <2>3. guesses' = guesses + 1 /\ UNCHANGED <<active, factors>>
    BY <1>6 DEF VerifyWithoutTotp, VerifyFails, CountFailure
  <2>4. QED
    BY <1>0, <2>1, <2>2, <2>3 DEF FactorStep, GuessStep
<1>7. ASSUME NEW s \in Sessions, EndSession(s) \/ Lapse(s)
      PROVE  UNCHANGED <<active, factors, guesses>>
  BY <1>7 DEF EndSession, Lapse
<1>8. ASSUME NEW s \in Sessions, DeletePasskey(s)
      PROVE  UNCHANGED <<active, guesses>> /\ FactorStep
  BY <1>8 DEF DeletePasskey, FactorStep
<1>9. ASSUME NEW on \in BOOLEAN, SetStatus(on)
      PROVE  FactorStep /\ active' \in BOOLEAN /\ GuessStep
  BY <1>0, <1>9 DEF SetStatus, FactorStep, GuessStep
<1>10. CASE WindowPasses
  BY <1>0, <1>10 DEF WindowPasses, FactorStep, GuessStep
<1>11. CASE Crash
  BY <1>1, <1>11 DEF Crash
<1>12. CASE UNCHANGED vars
  BY <1>1, <1>12 DEF vars, factors
<1>13. QED
  BY <1>1, <1>2, <1>3, <1>4, <1>5, <1>6, <1>7, <1>8, <1>9, <1>10, <1>11, <1>12 DEF Next

FactorTypes ==
    /\ mfa \in BOOLEAN
    /\ totp \in TotpRow
    /\ recovery \in 0 .. Codes
    /\ passkeys \in 0 .. MaxPasskeys
    /\ used \in [Steps -> Nat]

\* The row of a secret before it was used.
LEMMA FreshTotp ==
    \A k \in Secrets \cup {None} :
        /\ [secret |-> k, confirmed |-> FALSE, last |-> -1] \in TotpRow
        /\ ~[secret |-> k, confirmed |-> FALSE, last |-> -1].confirmed
        /\ [secret |-> k, confirmed |-> FALSE, last |-> -1].last = -1
BY DEF TotpRow

\* The code of a request that checks one.
LEMMA RequestCode ==
    ASSUME TypeOK, NEW r \in Requests, EndConfirm(r) \/ VerifiedByCode(r)
    PROVE  req[r].code \in Steps
<1>1. CASE EndConfirm(r)
  <2>1. req[r] \in ConfirmReq
    BY <1>1, RequestForms DEF EndConfirm, TypeOK
  <2>2. QED
    BY <2>1 DEF ConfirmReq
<1>2. CASE VerifiedByCode(r)
  <2>1. req[r] \in VerifyReq /\ req[r].code # None
    BY <1>2, RequestForms DEF VerifiedByCode, TypeOK
  <2>2. QED
    BY <2>1 DEF VerifyReq
<1>3. QED
  BY <1>1, <1>2

\* No code past the last accepted step was used, and none twice.
CodesFresh ==
    \A c \in Steps : used[c] <= 1 /\ (c > totp.last => used[c] = 0)

\* A code that is still ahead is used: it becomes the last one.
LEMMA CodeIsUsed ==
    ASSUME TypeOK, NEW secret, NEW c \in Steps, Behind(c), Use(secret, c), totp'.last = c
    PROVE  used' \in [Steps -> Nat] /\ (CodesFresh => CodesFresh')
<1>1. used' = [used EXCEPT ![c] = @ + 1] \/ used' = used
  BY DEF Use
<1>2. /\ used \in [Steps -> Nat] /\ totp.last \in Steps \cup {-1} /\ Steps \subseteq Nat
      /\ totp.last < c
  BY AccountsAssumption DEF TypeOK, Steps, Behind
<1>3. used' \in [Steps -> Nat]
  BY <1>1, <1>2
<1>4. ASSUME CodesFresh, NEW d \in Steps
      PROVE  used'[d] <= 1 /\ (d > c => used'[d] = 0)
  <2>0. d \in Int /\ c \in Int /\ totp.last \in Int /\ totp.last < c
    <3>1. d \in Nat /\ c \in Nat
      BY <1>2
    <3>2. totp.last \in Nat \cup {-1}
      BY <1>2
    <3>3. QED
      BY <1>2, <3>1, <3>2
  <2>1. used[d] \in Nat /\ used[d] <= 1 /\ (d > totp.last => used[d] = 0)
    BY <1>2, <1>4 DEF CodesFresh
  <2>2. CASE used' = used
    BY <2>0, <2>1, <2>2
  <2>3. CASE used' = [used EXCEPT ![c] = @ + 1] /\ d = c
    <3>1. used'[d] = used[d] + 1 /\ d > totp.last
      BY <1>2, <2>0, <2>3
    <3>2. QED
      BY <2>0, <2>1, <2>3, <3>1
  <2>4. CASE used' = [used EXCEPT ![c] = @ + 1] /\ d # c
    <3>1. used'[d] = used[d]
      BY <1>2, <2>4
    <3>2. QED
      BY <2>0, <2>1, <3>1
  <2>5. QED
    BY <1>1, <2>2, <2>3, <2>4
<1>5. QED
  BY <1>3, <1>4 DEF CodesFresh

\* Every step keeps the types of what is bound, the flag true to it, and the codes
\* ahead unused.
LEMMA FactorsKept ==
    ASSUME TypeOK, FactorStep
    PROVE  /\ FactorTypes'
           /\ FlagMatchesFactors => FlagMatchesFactors'
           /\ CodesFresh => CodesFresh'
<1> DEFINE Goal == /\ FactorTypes'
                   /\ FlagMatchesFactors => FlagMatchesFactors'
                   /\ CodesFresh => CodesFresh'
<1>0. /\ FactorTypes
      /\ MaxPasskeys \in Nat /\ Codes \in Nat /\ Steps \subseteq Nat
  BY AccountsAssumption DEF TypeOK, FactorTypes, TotpRow, Steps
<1>1. CASE UNCHANGED factors
  BY <1>0, <1>1 DEF factors, FactorTypes, FlagMatchesFactors, CodesFresh
<1>2. ASSUME used' = [c \in Steps |-> 0]
      PROVE  used' \in [Steps -> Nat] /\ CodesFresh'
  BY <1>2 DEF CodesFresh
<1>3. ASSUME NEW r \in Requests, NEW k \in Secrets, Enroll(r, k) PROVE Goal
  <2>1. /\ totp' = [secret |-> k, confirmed |-> FALSE, last |-> -1]
        /\ used' = [c \in Steps |-> 0] /\ ~totp.confirmed
        /\ UNCHANGED <<mfa, recovery, passkeys>>
    BY <1>3 DEF Enroll
  <2>2. totp' \in TotpRow /\ ~totp'.confirmed
    BY <2>1, FreshTotp
  <2>3. QED
    BY <1>0, <1>2, <2>1, <2>2 DEF FactorTypes, FlagMatchesFactors
<1>4. ASSUME NEW r \in Requests, EndConfirm(r) PROVE Goal
  <2> DEFINE c == req[r].code
  <2>1. /\ totp' = [totp EXCEPT !.confirmed = TRUE, !.last = c]
        /\ Behind(c) /\ Use(req[r].secret, c)
        /\ recovery' = Codes /\ mfa' = TRUE /\ UNCHANGED passkeys
    BY <1>4 DEF EndConfirm, SetMfa
  <2>2. c \in Steps
    BY <1>4, RequestCode
  <2> HIDE DEF c
  <2>3. totp' \in TotpRow /\ totp'.last = c /\ totp'.confirmed
    <3>1. totp \in TotpRow
      BY <1>0 DEF FactorTypes
    <3>2. /\ [totp EXCEPT !.confirmed = TRUE, !.last = c] \in TotpRow
          /\ [totp EXCEPT !.confirmed = TRUE, !.last = c].last = c
          /\ [totp EXCEPT !.confirmed = TRUE, !.last = c].confirmed
      BY <2>2, <3>1 DEF TotpRow
    <3>3. QED
      BY <2>1, <3>2
  <2>4. used' \in [Steps -> Nat] /\ (CodesFresh => CodesFresh')
    BY <2>1, <2>2, <2>3, CodeIsUsed
  <2>5. FactorTypes' /\ FlagMatchesFactors'
    BY <1>0, <2>1, <2>3, <2>4 DEF FactorTypes, FlagMatchesFactors
  <2>6. QED
    BY <2>4, <2>5
<1>5. ASSUME NEW r \in Requests, Regenerate(r) PROVE Goal
  <2>1. recovery' = Codes /\ UNCHANGED <<mfa, totp, passkeys, used>>
    BY <1>5 DEF Regenerate
  <2>2. QED
    BY <1>0, <2>1 DEF FactorTypes, FlagMatchesFactors, CodesFresh
<1>6. ASSUME NEW r \in Requests, DisableTotp(r) PROVE Goal
  <2>1. /\ totp' = NoTotp /\ recovery' = 0 /\ mfa' = (mfa /\ passkeys > 0)
        /\ used' = [c \in Steps |-> 0] /\ UNCHANGED passkeys
    BY <1>6 DEF DisableTotp
  <2>2. totp' \in TotpRow /\ ~totp'.confirmed
    BY <2>1, FreshTotp DEF NoTotp
  <2>3. mfa' \in BOOLEAN
    BY <2>1
  <2>4. FactorTypes'
    BY <1>0, <1>2, <2>1, <2>2, <2>3 DEF FactorTypes
  <2>5. FlagMatchesFactors => FlagMatchesFactors'
    BY <2>1, <2>2 DEF FlagMatchesFactors
  <2>6. QED
    BY <1>2, <2>1, <2>4, <2>5
<1>7. ASSUME NEW r \in Requests, VerifiedByCode(r) PROVE Goal
  <2> DEFINE c == req[r].code
  <2>1. /\ totp' = [totp EXCEPT !.last = c]
        /\ Behind(c) /\ Use(req[r].secret, c)
        /\ UNCHANGED <<mfa, recovery, passkeys>>
    BY <1>7 DEF VerifiedByCode
  <2>2. c \in Steps
    BY <1>7, RequestCode
  <2> HIDE DEF c
  <2>3. totp' \in TotpRow /\ totp'.last = c /\ totp'.confirmed = totp.confirmed
    <3>1. totp \in TotpRow
      BY <1>0 DEF FactorTypes
    <3>2. /\ [totp EXCEPT !.last = c] \in TotpRow
          /\ [totp EXCEPT !.last = c].last = c
          /\ [totp EXCEPT !.last = c].confirmed = totp.confirmed
      BY <2>2, <3>1 DEF TotpRow
    <3>3. QED
      BY <2>1, <3>2, Zenon
  <2>4. used' \in [Steps -> Nat] /\ (CodesFresh => CodesFresh')
    BY <2>1, <2>2, <2>3, CodeIsUsed
  <2>5. FactorTypes'
    BY <1>0, <2>1, <2>3, <2>4 DEF FactorTypes
  <2>6. FlagMatchesFactors => FlagMatchesFactors'
    BY <2>1, <2>3 DEF FlagMatchesFactors
  <2>7. QED
    BY <2>4, <2>5, <2>6
<1>8. ASSUME NEW r \in Requests, VerifiedByRecovery(r) PROVE Goal
  <2>1. recovery > 0 /\ recovery' = recovery - 1 /\ UNCHANGED <<mfa, totp, passkeys, used>>
    BY <1>8 DEF VerifiedByRecovery
  <2>2. QED
    BY <1>0, <2>1 DEF FactorTypes, FlagMatchesFactors, CodesFresh
<1>9. ASSUME NEW r \in Requests, EndRegister(r) PROVE Goal
  <2>1. /\ passkeys < MaxPasskeys /\ passkeys' = passkeys + 1
        /\ mfa' = TRUE /\ UNCHANGED <<totp, recovery, used>>
    BY <1>9 DEF EndRegister, SetMfa
  <2>2. FactorTypes' /\ FlagMatchesFactors'
    BY <1>0, <2>1 DEF FactorTypes, FlagMatchesFactors
  <2>3. QED
    BY <2>1, <2>2 DEF CodesFresh
<1>10. ASSUME NEW s \in Sessions, DeletePasskey(s) PROVE Goal
  <2>1. /\ passkeys > 0 /\ passkeys' = passkeys - 1
        /\ mfa' = (mfa /\ (passkeys > 1 \/ totp.confirmed))
        /\ UNCHANGED <<totp, recovery, used>>
    BY <1>10 DEF DeletePasskey
  <2>2. passkeys' \in 0 .. MaxPasskeys /\ (passkeys' > 0 <=> passkeys > 1)
    BY <1>0, <2>1 DEF FactorTypes
  <2>3. mfa' \in BOOLEAN
    BY <2>1
  <2>4. FactorTypes'
    BY <1>0, <2>1, <2>2, <2>3 DEF FactorTypes
  <2>5. FlagMatchesFactors => FlagMatchesFactors'
    BY <2>1, <2>2 DEF FlagMatchesFactors
  <2>6. QED
    BY <2>1, <2>4, <2>5 DEF CodesFresh
<1>11. QED
  BY <1>1, <1>3, <1>4, <1>5, <1>6, <1>7, <1>8, <1>9, <1>10 DEF FactorStep

-----------------------------------------------------------------------------
(* Theorems *)

\* While a second factor is on, a login under way that will not ask for it is older.
LoginsKnow ==
    mfa => \A r \in Requests : req[r].at = "login" /\ ~req[r].mfa => req[r].older

Checking == {r \in Requests : req[r].at = "verify"}

\* The checks under way have passed the limit, each may count a failure.
ChecksCount == guesses + Cardinality(Checking) < FailLimit + Cardinality(Requests)

IInv ==
    /\ TypeOK
    /\ KickedOut
    /\ SecondFactorAsked /\ FlagMatchesFactors /\ LoginsKnow
    /\ CodesFresh /\ ChecksCount

LEMMA InitHolds ==
    ASSUME Init
    PROVE  IInv
<1>1. Idle \in Request /\ Idle.at = "idle"
  BY RequestKinds DEF Idle
<1>2. TypeOK
  <2>1. totp \in TotpRow
    BY FreshTotp DEF Init, NoTotp
  <2>2. recovery \in 0 .. Codes /\ passkeys \in 0 .. MaxPasskeys
    BY AccountsAssumption DEF Init
  <2>3. req \in [Requests -> Request] /\ sess \in [Sessions -> Session \cup {None}]
    BY <1>1 DEF Init
  <2>4. used \in [Steps -> Nat]
    BY DEF Init
  <2>5. QED
    BY <2>1, <2>2, <2>3, <2>4 DEF Init, TypeOK, TotpRow
<1>3. FlagMatchesFactors
  BY DEF Init, FlagMatchesFactors, NoTotp
<1>4. KickedOut /\ SecondFactorAsked /\ LoginsKnow /\ CodesFresh
  BY DEF Init, KickedOut, SecondFactorAsked, LoginsKnow, CodesFresh
<1>5. ChecksCount
  <2>1. Checking = {}
    BY <1>1 DEF Init, Checking
  <2>2. Cardinality(Requests) \in Nat /\ Cardinality(Checking) = 0
    BY <2>1, AccountsAssumption, FS_CardinalityType, FS_EmptySet
  <2>3. QED
    BY <2>2, AccountsAssumption DEF Init, ChecksCount
<1>6. QED
  BY <1>2, <1>3, <1>4, <1>5 DEF IInv

\* The next three lemmas, each for its own conjuncts of the invariant.
LEMMA TypesKept ==
    ASSUME TypeOK, [Next]_vars
    PROVE  TypeOK'
<1>1. StepOK /\ FactorTypes' /\ active' \in BOOLEAN /\ guesses' \in Nat
  BY NextStep, NextFactors, FactorsKept DEF GuessStep
<1>2. sess' \in [Sessions -> Session \cup {None}]
  BY <1>1 DEF StepOK, SessStep, RowStep
<1>3. req' \in [Requests -> Request]
  BY <1>1 DEF StepOK, LoginsStep
<1>4. QED
  BY <1>1, <1>2, <1>3 DEF TypeOK, FactorTypes, TotpRow

\* Rows keep what they have shown; the flag goes on with all marked older.
LEMMA SessionsKept ==
    ASSUME TypeOK, KickedOut, SecondFactorAsked, LoginsKnow, StepOK
    PROVE  KickedOut' /\ SecondFactorAsked' /\ LoginsKnow'
<1>1. ASSUME NEW s \in Sessions, sess'[s] # None
      PROVE  Kept(s) \/ Opened(s)
  BY <1>1 DEF StepOK, SessStep, RowStep
<1>2. KickedOut'
  <2>1. ASSUME NEW s \in Sessions, sess'[s] # None
        PROVE  sess'[s].pw # "old"
    BY <1>1, <2>1 DEF KickedOut, Kept, Opened
  <2>2. QED
    BY <2>1 DEF KickedOut
<1>3. CASE ~mfa'
  BY <1>2, <1>3 DEF SecondFactorAsked, LoginsKnow
<1>4. CASE mfa' /\ mfa
  <2>1. ASSUME NEW s \in Sessions, sess'[s] # None, sess'[s].auth = "full"
        PROVE  sess'[s].cleared
    <3>1. CASE Kept(s)
      BY <1>4, <2>1, <3>1 DEF Kept, SecondFactorAsked
    <3>2. CASE Opened(s)
      BY <1>4, <2>1, <3>2 DEF Opened, LoginsKnow
    <3>3. QED
      BY <1>1, <2>1, <3>1, <3>2
  <2>2. ASSUME NEW r \in Requests, req'[r].at = "login", ~req'[r].mfa
        PROVE  req'[r].older
    BY <1>4, <2>2 DEF StepOK, LoginsStep, LoginStep, LoginsKnow
  <2>3. QED
    BY <1>2, <2>1, <2>2 DEF SecondFactorAsked, LoginsKnow
<1>5. CASE mfa' /\ ~mfa
  BY <1>2, <1>5 DEF StepOK, FlagStep, SecondFactorAsked, LoginsKnow
<1>6. QED
  BY <1>3, <1>4, <1>5

\* A check that begins has passed the limit; one that fails is no longer under way.
LEMMA ChecksKept ==
    ASSUME ChecksCount, guesses \in Nat, ChecksStep, GuessStep
    PROVE  ChecksCount'
<1> DEFINE N == Cardinality(Requests)
           V == Cardinality(Checking)
<1>1. /\ IsFiniteSet(Requests) /\ FailLimit \in Nat \ {0}
      /\ Checking \subseteq Requests /\ Checking' \subseteq Requests
  BY AccountsAssumption DEF Checking
<1>2. /\ IsFiniteSet(Checking) /\ IsFiniteSet(Checking')
      /\ N \in Nat /\ V \in Nat /\ Cardinality(Checking') \in Nat /\ V <= N /\ Cardinality(Checking') <= N
  BY <1>1, FS_Subset, FS_CardinalityType
<1>3. guesses + V < FailLimit + N
  BY DEF ChecksCount
<1>4. /\ guesses' \in Nat
      /\ guesses' <= guesses \/ guesses' = guesses + 1
  BY DEF GuessStep
<1>5. NoCheckBegins => Checking' \subseteq Checking
  BY DEF NoCheckBegins, Checking
<1>6. Checking' \subseteq Checking => Cardinality(Checking') <= V
  BY <1>2, FS_Subset, Zenon
<1> HIDE DEF N, V
<1>7. guesses' + Cardinality(Checking') < FailLimit + N
  <2>1. CASE ~NoCheckBegins
    <3>1. guesses < FailLimit /\ guesses' = guesses
      BY <2>1 DEF ChecksStep
    <3>2. QED
      BY <1>1, <1>2, <3>1
  <2>2. CASE NoCheckBegins /\ guesses' <= guesses
    <3>1. Cardinality(Checking') <= V
      BY <1>5, <1>6, <2>2
    <3>2. FailLimit \in Nat /\ N \in Nat /\ V \in Nat /\ Cardinality(Checking') \in Nat
      BY <1>1, <1>2
    <3>3. guesses' \in Nat /\ guesses' <= guesses
      BY <1>4, <2>2
    <3>4. QED
      BY <1>3, <3>1, <3>2, <3>3
  <2>3. CASE NoCheckBegins /\ guesses' = guesses + 1
    <3>1. PICK r \in Requests : /\ req'[r].at # "verify"
                                /\ req[r].at = "verify" \/ guesses < FailLimit
      BY <2>3 DEF GuessStep
    <3>2. r \notin Checking'
      BY <3>1 DEF Checking
    <3>3. CASE r \in Checking
      <4>1. Checking' \subseteq Checking \ {r}
        BY <1>5, <2>3, <3>2
      <4>2. IsFiniteSet(Checking \ {r}) /\ Cardinality(Checking \ {r}) = V - 1
        BY <1>2, <3>3, FS_RemoveElement DEF V
      <4>3. Cardinality(Checking') <= Cardinality(Checking \ {r})
        BY <4>1, <4>2, FS_Subset
      <4>4. QED
        BY <1>1, <1>2, <1>3, <2>3, <4>2, <4>3
    <3>4. CASE r \notin Checking
      <4>1. guesses < FailLimit
        BY <3>1, <3>4 DEF Checking
      <4>2. Checking' \subseteq Requests \ {r}
        BY <1>1, <3>2
      <4>3. IsFiniteSet(Requests \ {r}) /\ Cardinality(Requests \ {r}) = N - 1
        BY <1>1, FS_RemoveElement DEF N
      <4>4. Cardinality(Checking') <= Cardinality(Requests \ {r})
        BY <4>2, <4>3, FS_Subset
      <4>5. QED
        BY <1>1, <1>2, <2>3, <4>1, <4>3, <4>4
    <3>5. QED
      BY <3>3, <3>4
  <2>4. QED
    BY <1>4, <2>1, <2>2, <2>3
<1>8. QED
  BY <1>7 DEF ChecksCount, N

LEMMA Inductive == Spec => []IInv
<1>1. Init => IInv
  BY InitHolds
<1>2. IInv /\ [Next]_vars => IInv'
  <2> SUFFICES ASSUME IInv, [Next]_vars PROVE IInv'
    OBVIOUS
  <2>1. TypeOK /\ guesses \in Nat
    BY DEF IInv, TypeOK
  <2>2. StepOK /\ FactorStep /\ GuessStep
    BY <2>1, NextStep, NextFactors
  <2>3. TypeOK'
    BY <2>1, TypesKept
  <2>4. KickedOut' /\ SecondFactorAsked' /\ LoginsKnow'
    BY <2>1, <2>2, SessionsKept DEF IInv
  <2>5. FlagMatchesFactors' /\ CodesFresh'
    BY <2>1, <2>2, FactorsKept DEF IInv
  <2>6. ChecksCount'
    BY <2>1, <2>2, ChecksKept DEF IInv, StepOK
  <2>7. QED
    BY <2>3, <2>4, <2>5, <2>6 DEF IInv
<1>3. QED
  BY <1>1, <1>2, PTL DEF Spec

\* Every variable keeps its type, the requests under way theirs.
THEOREM TypeCorrect == Spec => []TypeOK
<1>1. IInv => TypeOK
  BY DEF IInv
<1>2. QED
  BY <1>1, Inductive, PTL

\* Changing or resetting the password leaves no session of the one before, also when
\* the change overlaps with logins, step-ups and other changes.
THEOREM KickedOutHolds == Spec => []KickedOut
<1>1. IInv => KickedOut
  BY DEF IInv
<1>2. QED
  BY <1>1, Inductive, PTL

\* While a second factor is on, every full session has shown one or began before it
\* was on; and it is on exactly when a factor is bound.
THEOREM SecondFactorAlwaysHolds == Spec => []SecondFactorHolds
<1>1. IInv => SecondFactorHolds
  BY DEF IInv, SecondFactorHolds
<1>2. QED
  BY <1>1, Inductive, PTL

\* No code is accepted twice, and the guesses of a window are bounded by the limit and
\* the requests that passed it together.
THEOREM OneTimeCodesHold == Spec => []OneTimeCodes
<1>1. ASSUME IInv PROVE OneCodeOneUse
  BY <1>1 DEF IInv, CodesFresh, OneCodeOneUse
<1>2. ASSUME IInv PROVE GuessesBounded
  <2>1. Checking \subseteq Requests /\ IsFiniteSet(Requests)
    BY AccountsAssumption DEF Checking
  <2>2. Cardinality(Checking) \in Nat /\ Cardinality(Requests) \in Nat
    BY <2>1, FS_Subset, FS_CardinalityType
  <2>3. guesses \in Nat /\ FailLimit \in Nat
    BY <1>2, AccountsAssumption DEF IInv, TypeOK
  <2>4. QED
    BY <1>2, <2>2, <2>3 DEF IInv, ChecksCount, GuessesBounded
<1>3. IInv => OneTimeCodes
  BY <1>1, <1>2 DEF OneTimeCodes
<1>4. QED
  BY <1>3, Inductive, PTL

=============================================================================
