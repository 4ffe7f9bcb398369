-------------------------- MODULE DirectoryProofs --------------------------
(***************************************************************************)
(* Theorems about Directory, for any accounts and any number of requests   *)
(* under way and of restarts.                                              *)
(*                                                                         *)
(* That an admin remains is a matter of counting: the check for the last   *)
(* admin counts all of them, so that it keeps one who can act as long as   *)
(* those who count are those who can act, or the actor himself still can.  *)
(***************************************************************************)
EXTENDS Directory, TLAPS, FiniteSetTheorems

\* Sessions are those of accounts; they go with them.
SessionsHaveUsers == \A u \in sessions : Exists(u)

\* A request that hashes a password does so for an account that is there, and
\* a login for its own.
HashesHaveUsers ==
    \A c \in Calls :
        (req[c] # None /\ req[c].hash # "no") =>
            /\ req[c].of \in Ids /\ Exists(req[c].of)
            /\ req[c].hash = "login" => req[c].of = req[c].by

\* Before the server listens there are no requests.
QuietUntilUp == phase # "up" => \A c \in Calls : req[c] = None

TInv == TypeOK /\ SessionsHaveUsers /\ HashesHaveUsers /\ QuietUntilUp

\* An empty site has had no first start; on any other an admin can act.
AbleOrEmpty == lost \/ Able # {} \/ (phase = "boot" /\ \A u \in Ids : ~ Exists(u))

\* The first admin waits for his password.
FirstIsAble == phase = "hashing" => First \in Able

AdminInv == IsFiniteSet(Admins) /\ AbleOrEmpty /\ FirstIsAble

\* A row that may come due says when its owner asked.
AskIsAsked ==
    \A u \in Ids : Exists(u) /\ users[u].status = "deletion_pending" => users[u].ask = asked[u]

\* The inductive invariant.
IInv == TInv /\ AdminInv /\ AskIsAsked

-----------------------------------------------------------------------------
(* Rows *)

LEMMA UserRows ==
    ASSUME NEW r \in User
    PROVE  /\ [r EXCEPT !.cred = TRUE] \in User
           /\ [r EXCEPT !.must = FALSE] \in User
           /\ [r EXCEPT !.cred = TRUE, !.must = TRUE] \in User
           /\ [r EXCEPT !.ask = "due"] \in User
           /\ [r EXCEPT !.status = "active", !.ask = "never"] \in User
           /\ Asking(r) \in User
           /\ \A role \in {"admin", "user"} : [r EXCEPT !.role = role] \in User
           /\ \A status \in {"active", "disabled"} : [r EXCEPT !.status = status] \in User
  BY DEF User, Asking, Asks

LEMMA NewRows ==
    ASSUME NEW role \in {"admin", "user"}, NEW status \in {"active", "pending_approval"},
           NEW cred \in BOOLEAN, NEW must \in BOOLEAN
    PROVE  NewUser(role, status, cred, must) \in User
  BY DEF NewUser, User, Asks

-----------------------------------------------------------------------------
(* Types *)

LEMMA InitHolds ==
    ASSUME DirectoryAssumption, Init
    PROVE  IInv
<1>0. Crashes \in Nat
  BY DEF DirectoryAssumption
<1>1. TypeOK
  <2>1. users \in [Ids -> User \cup {None}]
    BY DEF Init
  <2>2. req \in [Calls -> Request \cup {None}]
    BY DEF Init
  <2>3. asked \in [Ids -> Asks]
    BY DEF Init, Asks
  <2>4. crashes \in 0 .. Crashes
    BY <1>0 DEF Init
  <2>5. lost \in BOOLEAN /\ sessions \subseteq Ids /\ phase \in {"boot", "hashing", "up"}
    BY DEF Init
  <2>6. QED
    BY <2>1, <2>2, <2>3, <2>4, <2>5 DEF TypeOK
<1>2. Admins = {}
  BY DEF Init, Admins, Exists
<1>3. IsFiniteSet(Admins)
  BY <1>2, FS_EmptySet
<1>4. QED
  BY <1>1, <1>3 DEF Init, IInv, TInv, AdminInv, SessionsHaveUsers, HashesHaveUsers, QuietUntilUp,
     AbleOrEmpty, FirstIsAble, AskIsAsked, Exists

Users == [Ids -> User \cup {None}]

\* What a request may become: it ends, or is one whose account is there.
GoesOn(r) ==
    /\ r \in Request
    /\ r.hash # "no" => r.of \in Ids /\ users'[r.of] # None /\ (r.hash = "login" => r.of = r.by)

Writes(c) ==
    \E r \in Request \cup {None} :
        req' = [req EXCEPT ![c] = r] /\ (r # None => phase = "up" /\ GoesOn(r))

\* A step of one request, or of none, that deletes nobody.
KeepsAll ==
    /\ users' \in Users /\ \A u \in Ids : Exists(u) => Exists(u)'
    /\ sessions' \subseteq sessions \cup {u \in Ids : Exists(u)'}
    /\ req' = req \/ \E c \in Calls : Writes(c)
    /\ phase' = phase /\ crashes' = crashes
    /\ asked' \in [Ids -> Asks] /\ lost' \in BOOLEAN

LEMMA KeepsAllStep ==
    ASSUME DirectoryAssumption, TInv, KeepsAll
    PROVE  TInv'
<1> USE DEF KeepsAll, Writes
<1>0. None \notin Request
  BY DEF DirectoryAssumption
<1>1. req' \in [Calls -> Request \cup {None}]
  BY DEF TInv, TypeOK
<1>2. sessions' \subseteq Ids /\ SessionsHaveUsers'
  BY DEF TInv, TypeOK, SessionsHaveUsers
<1>3. TypeOK'
  BY <1>1, <1>2 DEF TInv, TypeOK, Users
<1>4. HashesHaveUsers'
  <2> SUFFICES ASSUME NEW d \in Calls, req'[d] # None, req'[d].hash # "no"
               PROVE  /\ req'[d].of \in Ids /\ users'[req'[d].of] # None
                      /\ req'[d].hash = "login" => req'[d].of = req'[d].by
    BY DEF HashesHaveUsers, Exists
  <2>1. CASE req'[d] = req[d]
    BY <2>1 DEF TInv, HashesHaveUsers, Exists
  <2>2. CASE req'[d] # req[d]
    BY <1>0, <2>2 DEF TInv, TypeOK, GoesOn
  <2>3. QED
    BY <2>1, <2>2
<1>5. QuietUntilUp'
  BY DEF TInv, TypeOK, QuietUntilUp
<1>6. QED
  BY <1>2, <1>3, <1>4, <1>5 DEF TInv

\* What TInv says, for use without its definition.
LEMMA TInvTypes ==
    ASSUME DirectoryAssumption, TInv
    PROVE  /\ users \in Users /\ sessions \subseteq Ids
           /\ req \in [Calls -> Request \cup {None}] /\ asked \in [Ids -> Asks]
           /\ lost \in BOOLEAN
           /\ \A u \in Ids : Exists(u) => users[u] \in User
           /\ \A u \in sessions : u \in Ids /\ Exists(u)
           /\ \A c \in Calls : req[c] # None => req[c] \in Request /\ phase = "up"
           /\ None \notin Ids /\ None \notin User /\ None \notin Request /\ First \in Ids
  BY DEF TInv, TypeOK, Users, Exists, SessionsHaveUsers, QuietUntilUp, DirectoryAssumption, Ids

\* One row is written and none deleted.
LEMMA RowWritten ==
    ASSUME DirectoryAssumption, TInv, NEW u \in Ids, NEW r \in User, users' = [users EXCEPT ![u] = r]
    PROVE  users' \in Users /\ Exists(u)' /\ \A v \in Ids : Exists(v) => Exists(v)'
  BY TInvTypes DEF Users, Exists

LEMMA RequestsKeepAll ==
    ASSUME DirectoryAssumption, TInv, NEW c \in Calls, NEW u \in Ids,
           \/ Login(c, u) \/ Begin(c, u) \/ ResetPassword(c, u)
           \/ \E role \in {"admin", "user"} : CreateUser(c, u, role)
    PROVE  KeepsAll
<1> USE TInvTypes
<1>1. CASE Login(c, u)
  <2> DEFINE r == [by |-> u, admin |-> FALSE, must |-> FALSE, hash |-> "login", of |-> u]
  <2>1. r \in Request /\ GoesOn(r)
    BY <1>1 DEF Login, Request, GoesOn, Exists
  <2>2. req' = [req EXCEPT ![c] = r] /\ phase = "up"
    BY <1>1 DEF Login
  <2>3. users' = users /\ UNCHANGED <<sessions, phase, crashes, asked, lost>>
    BY <1>1 DEF Login, history
  <2> HIDE DEF r
  <2>4. Writes(c)
    BY <2>1, <2>2 DEF Writes
  <2>5. QED
    BY <2>3, <2>4 DEF KeepsAll, Exists
<1>2. CASE Begin(c, u)
  <2> DEFINE r == [by |-> u, admin |-> users[u].role = "admin", must |-> users[u].must,
                   hash |-> "no", of |-> None]
  <2>1. u \in sessions /\ users[u] \in User
    BY <1>2 DEF Begin
  <2>2. r \in Request /\ GoesOn(r)
    BY <2>1 DEF Request, User, GoesOn
  <2>3. req' = req \/ Writes(c)
    BY <1>2, <2>2 DEF Begin, Writes
  <2>4. QED
    BY <1>2, <2>3 DEF Begin, KeepsAll, history, Exists
<1>3. CASE ResetPassword(c, u)
  <2> DEFINE r == [req[c] EXCEPT !.hash = "reset", !.of = u]
  <2>1. req[c] # None /\ req[c] \in Request /\ Exists(u)
    BY <1>3 DEF ResetPassword, MayAdmin, May, Ready
  <2>2. r \in Request /\ r.of = u /\ r.hash = "reset"
    BY <2>1 DEF Request
  <2>3. req' = [req EXCEPT ![c] = r] /\ users' = users
    BY <1>3, <2>1 DEF ResetPassword
  <2> HIDE DEF r
  <2>4. GoesOn(r)
    <3>1. users'[u] # None
      BY <2>1, <2>3 DEF Exists
    <3>2. QED
      BY <2>2, <3>1 DEF GoesOn
  <2>5. Writes(c)
    BY <2>1, <2>2, <2>3, <2>4 DEF Writes
  <2>6. QED
    BY <1>3, <2>5 DEF ResetPassword, KeepsAll, history, Exists
<1>4. ASSUME NEW role \in {"admin", "user"}, CreateUser(c, u, role)
      PROVE  KeepsAll
  <2> DEFINE r == [req[c] EXCEPT !.hash = "create", !.of = u]
  <2>1. req[c] # None /\ req[c] \in Request
    BY <1>4 DEF CreateUser, MayAdmin, May, Ready
  <2>2. users' \in Users /\ Exists(u)' /\ \A v \in Ids : Exists(v) => Exists(v)'
    BY <1>4, NewRows, RowWritten DEF CreateUser
  <2>3. r \in Request /\ r.of = u /\ r.hash = "create"
    BY <2>1 DEF Request
  <2>4. req' = [req EXCEPT ![c] = r]
    BY <1>4, <2>1 DEF CreateUser
  <2> HIDE DEF r
  <2>5. GoesOn(r)
    BY <2>2, <2>3 DEF GoesOn, Exists
  <2>6. Writes(c)
    BY <2>1, <2>3, <2>4, <2>5 DEF Writes
  <2>7. QED
    BY <1>4, <2>2, <2>6 DEF CreateUser, KeepsAll, history
<1>5. QED
  BY <1>1, <1>2, <1>3, <1>4

LEMMA HandlersKeepAll ==
    ASSUME DirectoryAssumption, TInv, NEW c \in Calls,
           \/ LoginHashed(c) \/ ChangePassword(c) \/ Hashed(c)
           \/ RequestDeletion(c) \/ CancelDeletion(c)
    PROVE  KeepsAll
<1> USE TInvTypes
<1>1. CASE LoginHashed(c)
  <2>1. req[c].by \in Ids /\ Exists(req[c].by)
    BY <1>1 DEF LoginHashed, TInv, HashesHaveUsers
  <2>2. Writes(c)
    BY <1>1 DEF LoginHashed, Writes
  <2>3. QED
    BY <1>1, <2>1, <2>2 DEF LoginHashed, KeepsAll, history, Exists
<1>2. ASSUME ChangePassword(c) \/ RequestDeletion(c) \/ CancelDeletion(c)
      PROVE  KeepsAll
  <2> DEFINE u == req[c].by
  <2>1. req[c] # None /\ u \in Ids /\ End(c)
    BY <1>2 DEF ChangePassword, RequestDeletion, CancelDeletion, May, Ready, Request
  <2>2. users' = users \/ (Exists(u) /\ \E r \in User : users' = [users EXCEPT ![u] = r])
    <3>1. CASE ~ Exists(u)
      BY <1>2, <3>1 DEF ChangePassword, RequestDeletion, CancelDeletion
    <3>2. CASE Exists(u)
      <4>1. users[u] \in User
        BY <2>1, <3>2
      <4>2. CASE ChangePassword(c)
        <5>1. users' = [users EXCEPT ![u] = [users[u] EXCEPT !.must = FALSE]]
          BY <3>2, <4>2 DEF ChangePassword
        <5>2. [users[u] EXCEPT !.must = FALSE] \in User
          BY <4>1, UserRows
        <5>3. QED
          BY <3>2, <5>1, <5>2
      <4>3. CASE RequestDeletion(c)
        <5>1. users' = [users EXCEPT ![u] = Asking(users[u])]
          BY <3>2, <4>3 DEF RequestDeletion
        <5>2. Asking(users[u]) \in User
          BY <4>1, UserRows
        <5>3. QED
          BY <3>2, <5>1, <5>2
      <4>4. CASE CancelDeletion(c)
        <5>1. users[u].status # "deletion_pending" => users' = users
          BY <4>4 DEF CancelDeletion
        <5>2. users[u].status = "deletion_pending" =>
                users' = [users EXCEPT ![u] = [users[u] EXCEPT !.status = "active", !.ask = "never"]]
          BY <2>1, <3>2, <4>1, <4>4, TInvTypes DEF CancelDeletion, Users
        <5>3. [users[u] EXCEPT !.status = "active", !.ask = "never"] \in User
          BY <4>1, UserRows
        <5>4. QED
          BY <3>2, <5>1, <5>2, <5>3
      <4>5. QED
        BY <1>2, <4>2, <4>3, <4>4
    <3>3. QED
      BY <3>1, <3>2
  <2>3. users' \in Users /\ \A v \in Ids : Exists(v) => Exists(v)'
    BY <2>1, <2>2, RowWritten DEF Exists
  <2>4. asked' = asked \/ (\E k \in Asks : asked' = [asked EXCEPT ![u] = k])
    BY <1>2 DEF ChangePassword, RequestDeletion, CancelDeletion, history, Undone, Asks
  <2>5. sessions' = sessions /\ phase' = phase /\ crashes' = crashes /\ lost' = lost
    BY <1>2 DEF ChangePassword, RequestDeletion, CancelDeletion, history
  <2>6. Writes(c)
    BY <2>1 DEF Writes, End
  <2>7. QED
    BY <2>1, <2>3, <2>4, <2>5, <2>6 DEF KeepsAll
<1>3. CASE Hashed(c)
  <2> DEFINE u == req[c].of
  <2>1. u \in Ids /\ Exists(u) /\ users[u] \in User
    BY <1>3 DEF Hashed, TInv, HashesHaveUsers
  <2>2. \E r \in User : users' = [users EXCEPT ![u] = r]
    <3>1. \/ users' = [users EXCEPT ![u] = [users[u] EXCEPT !.cred = TRUE]]
          \/ users' = [users EXCEPT ![u] = [users[u] EXCEPT !.cred = TRUE, !.must = TRUE]]
      <4>1. CASE req[c].hash = "create"
        BY <1>3, <4>1 DEF Hashed
      <4>2. CASE req[c].hash # "create"
        BY <1>3, <2>1, <4>2, TInvTypes DEF Hashed, Users
      <4>3. QED
        BY <4>1, <4>2
    <3>2. QED
      BY <2>1, <3>1, UserRows
  <2>3. Writes(c)
    BY <1>3 DEF Hashed, Writes, End
  <2>4. users' \in Users /\ \A v \in Ids : Exists(v) => Exists(v)'
    BY <2>1, <2>2, RowWritten
  <2>5. QED
    BY <1>3, <2>3, <2>4 DEF Hashed, KeepsAll, history
<1>4. QED
  BY <1>1, <1>2, <1>3

LEMMA SetUserWrites ==
    ASSUME DirectoryAssumption, TInv, NEW c \in Calls, NEW u \in Ids,
           NEW role \in {"admin", "user", None}, NEW status \in {"active", "disabled", None},
           SetUser(c, u, role, status)
    PROVE  /\ users' = users \/ \E r \in User : users' = [users EXCEPT ![u] = r]
           /\ KeepsAll
<1> USE TInvTypes
<1>1. users[u] \in User /\ req[c] # None
  BY DEF SetUser, MayAdmin, May, Ready
<1>2. WithRole(u, role) \in User
  BY <1>1, UserRows DEF WithRole
<1>3. users' = users \/ \E r \in User : users' = [users EXCEPT ![u] = r]
  BY <1>2, UserRows DEF SetUser
<1>4. users' \in Users /\ \A v \in Ids : Exists(v) => Exists(v)'
  BY <1>3, RowWritten DEF Exists
<1>5. asked' \in [Ids -> Asks] /\ lost' \in BOOLEAN /\ sessions' \subseteq sessions
  BY DEF SetUser, Undone, Asks, Note
<1>6. Writes(c)
  BY DEF SetUser, Writes, End
<1>7. QED
  BY <1>3, <1>4, <1>5, <1>6 DEF SetUser, KeepsAll

LEMMA AccountsKeepAll ==
    ASSUME DirectoryAssumption, TInv, NEW u \in Ids,
           \/ Register(u) \/ OidcAgain(u) \/ AgeAsk(u)
           \/ \E listed, approval \in BOOLEAN : OidcNew(u, listed, approval)
    PROVE  KeepsAll
<1> USE TInvTypes
<1>1. (users' = users /\ Exists(u)) \/ \E r \in User : users' = [users EXCEPT ![u] = r]
  BY NewRows, UserRows DEF Register, OidcAgain, AgeAsk, OidcNew
<1>2. users' \in Users /\ Exists(u)' /\ \A v \in Ids : Exists(v) => Exists(v)'
  BY <1>1, RowWritten DEF Exists
<1>3. asked' \in [Ids -> Asks] /\ lost' = lost /\ sessions' \subseteq sessions \cup {u}
  BY DEF Register, OidcAgain, AgeAsk, OidcNew, history, Asks
<1>4. req' = req /\ phase' = phase /\ crashes' = crashes
  BY DEF Register, OidcAgain, AgeAsk, OidcNew, history
<1>5. QED
  BY <1>2, <1>3, <1>4 DEF KeepsAll

\* The rows of S go, with their sessions and the requests that hash for them.
LEMMA DeletionKeepsTypes ==
    ASSUME DirectoryAssumption, TInv, NEW S \in SUBSET Ids, NEW x,
           users' = [u \in Ids |-> IF u \in S THEN None ELSE users[u]],
           sessions' = sessions \ S, EndFor(S, x),
           phase' = phase, crashes' = crashes, asked' \in [Ids -> Asks], lost' \in BOOLEAN
    PROVE  TInv'
<1> USE TInvTypes
<1>1. users' \in Users /\ req' \in [Calls -> Request \cup {None}]
  BY DEF Users, EndFor
<1>2. TypeOK'
  BY <1>1 DEF TInv, TypeOK, Users
<1>3. SessionsHaveUsers'
  BY DEF SessionsHaveUsers, Exists
<1>4. HashesHaveUsers'
  BY DEF TInv, HashesHaveUsers, Exists, EndFor
<1>5. QuietUntilUp'
  BY DEF TInv, QuietUntilUp, EndFor
<1>6. QED
  BY <1>2, <1>3, <1>4, <1>5 DEF TInv

\* A step of the server leaves the requests alone, or ends them all.
LEMMA ServerKeepsTypes ==
    ASSUME DirectoryAssumption, TInv, FirstIsAble, Boot \/ BootHashed \/ Crash
    PROVE  TInv' /\ \A v \in Ids : Exists(v) => Exists(v)'
<1> USE TInvTypes
<1>1. CASE Boot
  <2>1. users' = users \/ \E r \in User : users' = [users EXCEPT ![First] = r]
    BY <1>1, NewRows DEF Boot
  <2>2. users' \in Users /\ \A v \in Ids : Exists(v) => Exists(v)'
    BY <2>1, RowWritten DEF Exists
  <2>3. /\ sessions' = sessions /\ req' = req /\ crashes' = crashes
        /\ asked' = asked /\ lost' = lost /\ phase' \in {"up", "hashing"} /\ phase = "boot"
    BY <1>1 DEF Boot, history
  <2>4. \A c \in Calls : req[c] = None
    BY <2>3 DEF TInv, QuietUntilUp
  <2>5. TypeOK'
    BY <2>2, <2>3 DEF TInv, TypeOK, Users
  <2>6. QED
    BY <2>2, <2>3, <2>4, <2>5 DEF TInv, SessionsHaveUsers, HashesHaveUsers, QuietUntilUp
<1>2. CASE BootHashed
  <2>1. \E r \in User : users' = [users EXCEPT ![First] = r]
    <3>1. Exists(First)
      BY <1>2 DEF BootHashed, FirstIsAble, Able, Admins
    <3>2. users' = [users EXCEPT ![First] = [users[First] EXCEPT !.cred = TRUE]]
      BY <1>2 DEF BootHashed
    <3>3. QED
      BY <3>1, <3>2, UserRows
  <2>2. users' \in Users /\ \A v \in Ids : Exists(v) => Exists(v)'
    BY <2>1, RowWritten DEF Exists
  <2>3. /\ sessions' = sessions /\ req' = req /\ crashes' = crashes
        /\ asked' = asked /\ lost' = lost /\ phase' = "up" /\ phase = "hashing"
    BY <1>2 DEF BootHashed, history
  <2>4. \A c \in Calls : req[c] = None
    BY <2>3 DEF TInv, QuietUntilUp
  <2>5. TypeOK'
    BY <2>2, <2>3 DEF TInv, TypeOK, Users
  <2>6. QED
    BY <2>2, <2>3, <2>4, <2>5 DEF TInv, SessionsHaveUsers, HashesHaveUsers, QuietUntilUp
<1>3. CASE Crash
  <2>1. TypeOK'
    BY <1>3 DEF Crash, TInv, TypeOK, DirectoryAssumption
  <2>2. QED
    BY <1>3, <2>1 DEF Crash, TInv, SessionsHaveUsers, HashesHaveUsers, QuietUntilUp, Exists
<1>4. QED
  BY <1>1, <1>2, <1>3

LEMMA DeleteUserKeepsTypes ==
    ASSUME DirectoryAssumption, TInv, NEW c \in Calls, NEW u \in Ids, DeleteUser(c, u)
    PROVE  TInv'
<1> USE TInvTypes
<1>1. users' = [v \in Ids |-> IF v \in {u} THEN None ELSE users[v]]
  BY DEF DeleteUser, Users
<1>2. asked' \in [Ids -> Asks] /\ lost' \in BOOLEAN
  BY DEF DeleteUser, Undone, Note, Asks
<1>3. sessions' = sessions \ {u} /\ EndFor({u}, c) /\ phase' = phase /\ crashes' = crashes
  BY DEF DeleteUser
<1>4. QED
  BY <1>1, <1>2, <1>3, DeletionKeepsTypes

LEMMA PurgeKeepsTypes ==
    ASSUME DirectoryAssumption, TInv, Purge
    PROVE  TInv'
<1> USE TInvTypes
<1>1. Due \subseteq Ids
  BY DEF Due
<1>2. asked' \in [Ids -> Asks] /\ lost' \in BOOLEAN
  BY DEF Purge, Asks
<1>3. QED
  BY <1>1, <1>2, DeletionKeepsTypes DEF Purge

\* Every step, as the lemmas above group them.
LEMMA StepCases ==
    ASSUME Next
    PROVE  \/ Boot \/ BootHashed \/ Crash \/ Purge
           \/ \E c \in Calls, u \in Ids : DeleteUser(c, u)
           \/ \E u \in Ids :
                 \/ Register(u) \/ OidcAgain(u) \/ AgeAsk(u)
                 \/ \E listed, approval \in BOOLEAN : OidcNew(u, listed, approval)
           \/ \E c \in Calls :
                 \/ LoginHashed(c) \/ ChangePassword(c) \/ Hashed(c)
                 \/ RequestDeletion(c) \/ CancelDeletion(c)
           \/ \E c \in Calls, u \in Ids :
                 \/ Login(c, u) \/ Begin(c, u) \/ ResetPassword(c, u)
                 \/ \E role \in {"admin", "user"} : CreateUser(c, u, role)
           \/ \E c \in Calls, u \in Ids, role \in {"admin", "user", None},
                 status \in {"active", "disabled", None} : SetUser(c, u, role, status)
  BY DEF Next

LEMMA TypesKept ==
    ASSUME DirectoryAssumption, TInv, FirstIsAble, Next
    PROVE  TInv'
  BY StepCases, ServerKeepsTypes, PurgeKeepsTypes, DeleteUserKeepsTypes, AccountsKeepAll,
     HandlersKeepAll, RequestsKeepAll, SetUserWrites, KeepsAllStep

-----------------------------------------------------------------------------
(* An admin remains *)

\* Rows as they were, in what the two properties look at.
Like(v) ==
    /\ users'[v] # None <=> Exists(v)
    /\ Exists(v) => /\ users'[v].role = users[v].role /\ users'[v].status = users[v].status
                    /\ users'[v].ask = users[v].ask

LEMMA LikeMeansSame ==
    ASSUME \A v \in Ids : Like(v)
    PROVE  Admins' = Admins /\ Able' = Able
  BY DEF Like, Admins, Able, Exists

LEMMA RowAlike ==
    ASSUME DirectoryAssumption, TInv, NEW u \in Ids, Exists(u), NEW r \in User,
           users' = [users EXCEPT ![u] = r],
           r.role = users[u].role, r.status = users[u].status, r.ask = users[u].ask
    PROVE  \A v \in Ids : Like(v)
  BY TInvTypes DEF Like, Exists, Users

LEMMA HashedRows ==
    ASSUME DirectoryAssumption, TInv, NEW c \in Calls, Hashed(c)
    PROVE  \A v \in Ids : Like(v)
<1> DEFINE u == req[c].of
<1> USE TInvTypes
<1>1. u \in Ids /\ Exists(u) /\ users[u] \in User
  BY DEF Hashed, TInv, HashesHaveUsers
<1>2. \A v \in Ids : v # u => users'[v] = users[v]
  BY DEF Hashed, Users
<1>3. \/ users'[u] = [users[u] EXCEPT !.cred = TRUE]
      \/ users'[u] = [users[u] EXCEPT !.cred = TRUE, !.must = TRUE]
  <2>1. CASE req[c].hash = "create"
    BY <1>1, <2>1 DEF Hashed, Users
  <2>2. CASE req[c].hash # "create"
    BY <1>1, <2>2 DEF Hashed, Users
  <2>3. QED
    BY <2>1, <2>2
<1>4. users'[u] # None
  BY <1>1, <1>3, UserRows
<1>5. Like(u)
  BY <1>1, <1>3, <1>4 DEF Like, Exists, User
<1>6. QED
  BY <1>2, <1>5 DEF Like, Exists

\* Logins, the beginning of a request, and passwords.
RowsStay ==
    \/ \E u \in Ids : OidcAgain(u)
    \/ \E c \in Calls :
          \/ LoginHashed(c) \/ ChangePassword(c) \/ Hashed(c)
          \/ \E u \in Ids : Login(c, u) \/ Begin(c, u) \/ ResetPassword(c, u)

LEMMA RowsAlike ==
    ASSUME DirectoryAssumption, TInv, RowsStay
    PROVE  (\A v \in Ids : Like(v)) /\ asked' = asked /\ lost' = lost /\ phase' = phase
<1> USE TInvTypes
<1>1. asked' = asked /\ lost' = lost /\ phase' = phase
  BY DEF RowsStay, Login, LoginHashed, Begin, OidcAgain, ChangePassword, ResetPassword, Hashed, history
<1>2. CASE users' = users
  BY <1>1, <1>2 DEF Like, Exists
<1>3. ASSUME NEW c \in Calls, ChangePassword(c)
      PROVE  \A v \in Ids : Like(v)
  <2> DEFINE u == req[c].by
             r == [users[u] EXCEPT !.must = FALSE]
  <2>1. u \in Ids
    BY <1>3 DEF ChangePassword, Ready, Request
  <2>2. CASE ~ Exists(u)
    BY <1>3, <2>2 DEF ChangePassword, Like, Exists
  <2>3. CASE Exists(u)
    <3>1. users[u] \in User
      BY <2>1, <2>3
    <3>2. r \in User
      BY <3>1, UserRows
    <3>3. r.role = users[u].role /\ r.status = users[u].status /\ r.ask = users[u].ask
      BY <3>1 DEF User
    <3> HIDE DEF r
    <3>4. users' = [users EXCEPT ![u] = r]
      BY <1>3, <2>3 DEF ChangePassword, r
    <3>5. QED
      BY <2>1, <2>3, <3>2, <3>3, <3>4, RowAlike
  <2>4. QED
    BY <2>2, <2>3
<1>4. QED
  BY <1>1, <1>2, <1>3, HashedRows DEF RowsStay, Login, LoginHashed, Begin, OidcAgain, ResetPassword

\* What keeps those who can act, and adds at most one admin.
LEMMA AbleGrows ==
    ASSUME DirectoryAssumption, AdminInv, phase = "up", phase' = "up", lost => lost',
           Able \subseteq Able', NEW u, Admins' \subseteq Admins \cup {u}
    PROVE  AdminInv'
<1>1. IsFiniteSet(Admins \cup {u})
  BY FS_AddElement DEF AdminInv
<1>2. IsFiniteSet(Admins')
  BY <1>1, FS_Subset
<1>3. QED
  BY <1>2 DEF AdminInv, AbleOrEmpty, FirstIsAble

\* One of those who can act stays.
LEMMA OneStaysAble ==
    ASSUME DirectoryAssumption, AdminInv, phase = "up", phase' = "up",
           lost' \/ Able' # {}, Admins' \subseteq Admins
    PROVE  AdminInv'
<1>1. IsFiniteSet(Admins')
  BY FS_Subset DEF AdminInv
<1>2. QED
  BY <1>1 DEF AdminInv, AbleOrEmpty, FirstIsAble

LEMMA ServerKeepsAdmins ==
    ASSUME DirectoryAssumption, TInv, AdminInv, Boot \/ BootHashed \/ Crash
    PROVE  AdminInv'
<1> USE TInvTypes
<1>1. CASE Boot /\ \E u \in Ids : Exists(u)
  <2>1. users' = users /\ lost' = lost /\ phase = "boot" /\ phase' = "up"
    BY <1>1 DEF Boot, history
  <2>2. Admins' = Admins /\ Able' = Able
    BY <2>1 DEF Admins, Able, Exists
  <2>3. QED
    BY <1>1, <2>1, <2>2 DEF AdminInv, AbleOrEmpty, FirstIsAble
<1>2. CASE Boot /\ ~ \E u \in Ids : Exists(u)
  <2>1. users' = [users EXCEPT ![First] = NewUser("admin", "active", FALSE, TRUE)]
    BY <1>2 DEF Boot
  <2>2. NewUser("admin", "active", FALSE, TRUE) \in User
    BY NewRows
  <2>3. Admins' = {First} /\ First \in Able'
    BY <1>2, <2>1, <2>2 DEF Admins, Able, Exists, Users, NewUser
  <2>4. IsFiniteSet({First})
    BY FS_Singleton
  <2>5. QED
    BY <2>3, <2>4 DEF AdminInv, AbleOrEmpty, FirstIsAble
<1>3. CASE BootHashed
  <2>1. First \in Able /\ Exists(First) /\ phase' = "up"
    BY <1>3 DEF BootHashed, AdminInv, FirstIsAble, Able, Admins
  <2>2. users' = [users EXCEPT ![First] = [users[First] EXCEPT !.cred = TRUE]]
    BY <1>3 DEF BootHashed
  <2>3. \A v \in Ids : Like(v)
    <3>1. users[First] \in User
      BY <2>1
    <3> DEFINE r == [users[First] EXCEPT !.cred = TRUE]
    <3>2. r \in User
      BY <3>1, UserRows
    <3>3. r.role = users[First].role /\ r.status = users[First].status /\ r.ask = users[First].ask
      BY <3>1 DEF User
    <3> HIDE DEF r
    <3>4. users' = [users EXCEPT ![First] = r]
      BY <2>2 DEF r
    <3>5. QED
      BY <2>1, <3>2, <3>3, <3>4, RowAlike
  <2>4. QED
    BY <2>1, <2>3, LikeMeansSame DEF AdminInv, AbleOrEmpty, FirstIsAble
<1>4. CASE Crash
  <2>1. users' = users /\ lost' = lost /\ phase' = "boot"
    BY <1>4 DEF Crash
  <2>2. Admins' = Admins /\ Able' = Able /\ \A u \in Ids : Exists(u)' = Exists(u)
    BY <2>1 DEF Admins, Able, Exists
  <2>3. QED
    BY <2>1, <2>2 DEF AdminInv, AbleOrEmpty, FirstIsAble
<1>5. QED
  BY <1>1, <1>2, <1>3, <1>4

\* A new account, the age of a request for deletion, and both requests of an
\* owner: nobody loses his role, and who may come to act was an admin.
LEMMA OwnersKeepAdmins ==
    ASSUME DirectoryAssumption, TInv, AdminInv, NEW u \in Ids,
           \/ \E r \in User : users' = [users EXCEPT ![u] = r] /\ ~ Exists(u)
           \/ \E r \in User : /\ users' = [users EXCEPT ![u] = r] /\ Exists(u)
                              /\ r.role = users[u].role
                              /\ u \in Able => r.status \in {"active", "deletion_pending"},
           phase = "up", phase' = "up", lost' = lost
    PROVE  AdminInv'
<1>1. Able \subseteq Able'
  BY TInvTypes DEF Able, Admins, Exists, Users
<1>2. Admins' \subseteq Admins \cup {u}
  BY TInvTypes DEF Admins, Exists, Users
<1>3. QED
  BY <1>1, <1>2, AbleGrows

LEMMA AccountsKeepAdmins ==
    ASSUME DirectoryAssumption, TInv, AdminInv, NEW u \in Ids,
           \/ Register(u) \/ \E listed, approval \in BOOLEAN : OidcNew(u, listed, approval)
           \/ \E c \in Calls, role \in {"admin", "user"} : CreateUser(c, u, role)
    PROVE  AdminInv'
<1>1. \E r \in User : users' = [users EXCEPT ![u] = r] /\ ~ Exists(u)
  BY NewRows DEF Register, OidcNew, CreateUser
<1>2. phase = "up" /\ phase' = phase /\ lost' = lost
  BY TInvTypes DEF Register, OidcNew, CreateUser, MayAdmin, May, Ready, history
<1>3. QED
  BY <1>1, <1>2, OwnersKeepAdmins

LEMMA DeletionsKeepAdmins ==
    ASSUME DirectoryAssumption, TInv, AdminInv, NEW c \in Calls,
           RequestDeletion(c) \/ CancelDeletion(c)
    PROVE  AdminInv'
<1> DEFINE u == req[c].by
<1> USE TInvTypes
<1>1. u \in Ids /\ phase = "up" /\ phase' = phase /\ lost' = lost
  BY DEF RequestDeletion, CancelDeletion, May, Ready, Request
<1>2. CASE users' = users
  <2>1. Admins' = Admins /\ Able' = Able
    BY <1>2 DEF Admins, Able, Exists
  <2>2. QED
    BY <1>1, <2>1, AbleGrows
<1>3. CASE RequestDeletion(c) /\ Exists(u)
  <2> DEFINE r == Asking(users[u])
  <2>1. users[u] \in User
    BY <1>1, <1>3
  <2>2. r \in User /\ r.role = users[u].role /\ r.status = "deletion_pending"
    BY <2>1, UserRows DEF Asking, User
  <2> HIDE DEF r
  <2>3. users' = [users EXCEPT ![u] = r]
    BY <1>3 DEF RequestDeletion, r
  <2>4. QED
    BY <1>1, <1>3, <2>2, <2>3, OwnersKeepAdmins
<1>4. CASE CancelDeletion(c) /\ Exists(u) /\ users[u].status = "deletion_pending"
  <2> DEFINE r == [users[u] EXCEPT !.status = "active", !.ask = "never"]
  <2>1. users[u] \in User
    BY <1>1, <1>4
  <2>2. r \in User /\ r.role = users[u].role /\ r.status = "active"
    BY <2>1, UserRows DEF User
  <2>3. users' = [users EXCEPT ![u] = r]
    BY <1>1, <1>4, <2>1 DEF CancelDeletion, Users
  <2> HIDE DEF r
  <2>4. QED
    BY <1>1, <1>4, <2>2, <2>3, OwnersKeepAdmins
<1>5. QED
  BY <1>2, <1>3, <1>4 DEF RequestDeletion, CancelDeletion

LEMMA AgeAskKeepsAdmins ==
    ASSUME DirectoryAssumption, TInv, AdminInv, NEW u \in Ids, AgeAsk(u)
    PROVE  AdminInv'
<1> USE TInvTypes
<1>1. users[u] \in User /\ Exists(u) /\ phase' = phase /\ lost' = lost
  BY DEF AgeAsk
<1> DEFINE r == [users[u] EXCEPT !.ask = "due"]
<1>2. users' = [users EXCEPT ![u] = r] /\ r \in User
  BY <1>1, UserRows DEF AgeAsk
<1>3. r.role = users[u].role /\ r.status = users[u].status
  BY <1>1 DEF User
<1> HIDE DEF r
<1>4. Admins' = Admins /\ Able' = Able /\ \E v \in Ids : Exists(v)
  BY <1>1, <1>2, <1>3 DEF Admins, Able, Exists, Users
<1>5. QED
  BY <1>1, <1>4 DEF AdminInv, AbleOrEmpty, FirstIsAble

\* A set with more than one element has another one.
LEMMA AnotherOne ==
    ASSUME NEW S, IsFiniteSet(S), NEW u, Cardinality(S) > 1
    PROVE  \E a \in S : a # u
<1> SUFFICES ASSUME \A a \in S : a = u
             PROVE  FALSE
  OBVIOUS
<1>1. S \subseteq {u} /\ IsFiniteSet({u}) /\ Cardinality({u}) = 1
  BY FS_Singleton
<1>2. Cardinality(S) <= 1 /\ Cardinality(S) \in Nat
  BY <1>1, FS_Subset, FS_CardinalityType
<1>3. QED
  BY <1>2

\* Someone other than u whose row stays can still act.
LEMMA OthersStayAble ==
    ASSUME DirectoryAssumption, TInv, NEW u \in Ids, \A v \in Ids : v # u => users'[v] = users[v],
           NEW a \in Able, a # u
    PROVE  a \in Able'
  BY DEF Able, Admins, Exists

LEMMA SetUserKeepsAdmins ==
    ASSUME DirectoryAssumption, TInv, AdminInv, NEW c \in Calls, NEW u \in Ids,
           NEW role \in {"admin", "user", None}, NEW status \in {"active", "disabled", None},
           SetUser(c, u, role, status)
    PROVE  AdminInv'
<1> USE TInvTypes
<1>1. /\ phase = "up" /\ phase' = phase /\ Exists(u) /\ users[u] \in User
      /\ req[c].by \in Ids /\ None \notin {"admin", "user"}
  BY DEF SetUser, MayAdmin, May, Ready, Request, DirectoryAssumption
<1>2. \A v \in Ids : v # u => users'[v] = users[v]
  BY DEF SetUser, Users
<1>3. Admins' \subseteq Admins \cup {u}
  BY <1>2 DEF Admins, Exists
<1>4. CASE Refused(c, u, role)
  <2>1. users' = users /\ lost' = lost
    BY <1>4 DEF SetUser
  <2>2. Admins' = Admins /\ Able' = Able
    BY <2>1 DEF Admins, Able, Exists
  <2>3. QED
    BY <1>1, <2>1, <2>2, AbleGrows
<1>5. CASE ~ Refused(c, u, role) /\ (status = None \/ u = req[c].by)
  <2>1. /\ users'[u] = WithRole(u, role)
        /\ lost' = (lost \/ (Stale(c) /\ role = "user" /\ Able # Admins))
    BY <1>1, <1>5 DEF SetUser, Users
  <2>2. CASE role # "user"
    <3>1. users'[u].role \in {users[u].role, "admin"} /\ users'[u].status = users[u].status
      BY <1>1, <2>1, <2>2 DEF WithRole, User
    <3>2. users'[u] # None
      BY <1>1, <2>1, <2>2, UserRows DEF WithRole
    <3>3. Able \subseteq Able'
      BY <1>2, <3>1, <3>2 DEF Able, Admins, Exists
    <3>4. QED
      BY <1>1, <1>3, <2>1, <3>3, AbleGrows
  <2>3. CASE role = "user"
    <3>1. u # req[c].by /\ (u \in Admins => ~ (Cardinality(Admins) <= 1))
      BY <1>1, <1>5, <2>3 DEF Refused
    <3>2. users'[u].role = "user"
      BY <1>1, <2>1, <2>3 DEF WithRole, User
    <3>3. Admins' \subseteq Admins
      BY <1>3, <3>2 DEF Admins
    <3>4. lost' \/ Able' # {}
      <4>1. CASE ~ Stale(c)
        BY <1>2, <3>1, <4>1, OthersStayAble DEF Stale
      <4>2. CASE Able = Admins /\ u \in Admins
        <5>1. IsFiniteSet(Admins) /\ Cardinality(Admins) \in Nat
          BY FS_CardinalityType DEF AdminInv
        <5>2. \E a \in Admins : a # u
          BY <3>1, <4>2, <5>1, AnotherOne
        <5>3. QED
          BY <1>2, <4>2, <5>2, OthersStayAble
      <4>3. CASE u \notin Admins
        <5>1. Able # {} \/ lost
          BY <1>1 DEF AdminInv, AbleOrEmpty
        <5>2. u \notin Able
          BY <4>3 DEF Able
        <5>3. QED
          BY <1>2, <2>1, <5>1, <5>2, OthersStayAble
      <4>4. QED
        BY <2>1, <2>3, <4>1, <4>2, <4>3
    <3>5. QED
      BY <1>1, <3>3, <3>4, OneStaysAble
  <2>4. QED
    BY <2>2, <2>3
<1>6. CASE ~ Refused(c, u, role) /\ ~ (status = None \/ u = req[c].by)
  <2>1. lost' = (lost \/ Stale(c)) /\ u # req[c].by
    BY <1>6 DEF SetUser, Note
  <2>2. CASE Stale(c)
    <3>1. IsFiniteSet(Admins')
      BY <1>3, FS_AddElement, FS_Subset DEF AdminInv
    <3>2. QED
      BY <1>1, <2>1, <2>2, <3>1 DEF AdminInv, AbleOrEmpty, FirstIsAble
  <2>3. CASE ~ Stale(c)
    <3>1. req[c].by \in Able'
      BY <1>2, <2>1, <2>3, OthersStayAble DEF Stale
    <3>2. IsFiniteSet(Admins')
      BY <1>3, FS_AddElement, FS_Subset DEF AdminInv
    <3>3. QED
      BY <1>1, <3>1, <3>2 DEF AdminInv, AbleOrEmpty, FirstIsAble
  <2>4. QED
    BY <2>2, <2>3
<1>7. QED
  BY <1>4, <1>5, <1>6

LEMMA DeleteUserKeepsAdmins ==
    ASSUME DirectoryAssumption, TInv, AdminInv, NEW c \in Calls, NEW u \in Ids, DeleteUser(c, u)
    PROVE  AdminInv'
<1> USE TInvTypes
<1>1. /\ phase = "up" /\ phase' = phase /\ u # req[c].by /\ lost' = (lost \/ Stale(c))
      /\ \A v \in Ids : v # u => users'[v] = users[v]
  BY DEF DeleteUser, MayAdmin, May, Ready, Deletable, Note, Users
<1>2. users'[u] = None
  BY DEF DeleteUser, Users
<1>3. Admins' \subseteq Admins
  BY <1>1, <1>2 DEF Admins, Exists
<1>4. lost' \/ Able' # {}
  BY <1>1, OthersStayAble DEF Stale
<1>5. QED
  BY <1>1, <1>3, <1>4, OneStaysAble

LEMMA PurgeKeepsAdmins ==
    ASSUME DirectoryAssumption, TInv, AdminInv, Purge
    PROVE  AdminInv'
<1> USE TInvTypes
<1>1. /\ phase = "up" /\ phase' = phase /\ lost' = (lost \/ Due \cap Admins # {})
      /\ \A v \in Ids : users'[v] = IF v \in Due THEN None ELSE users[v]
  BY DEF Purge
<1>2. Admins' \subseteq Admins
  BY <1>1 DEF Admins, Exists
<1>3. CASE Due \cap Admins # {}
  BY <1>1, <1>2, <1>3, OneStaysAble
<1>4. CASE Due \cap Admins = {}
  <2>1. Able \subseteq Able'
    BY <1>1, <1>4 DEF Able, Admins, Exists
  <2>2. lost' \/ Able' # {}
    BY <1>1, <2>1 DEF AdminInv, AbleOrEmpty
  <2>3. QED
    BY <1>1, <1>2, <2>2, OneStaysAble
<1>5. QED
  BY <1>3, <1>4

LEMMA AdminsKept ==
    ASSUME DirectoryAssumption, TInv, AdminInv, Next
    PROVE  AdminInv'
<1>1. ASSUME RowsStay
      PROVE  AdminInv'
  <2>1. Admins' = Admins /\ Able' = Able /\ lost' = lost /\ phase' = phase
    BY <1>1, RowsAlike, LikeMeansSame
  <2>2. \A u \in Ids : Exists(u) => users'[u] # None
    BY <1>1, RowsAlike DEF Like
  <2>3. phase = "up"
    BY <1>1, TInvTypes DEF RowsStay, OidcAgain, LoginHashed, ChangePassword, Hashed, Ready,
       Login, Begin, ResetPassword, MayAdmin, May
  <2>4. QED
    BY <2>1, <2>3 DEF AdminInv, AbleOrEmpty, FirstIsAble
<1>2. QED
  BY <1>1, StepCases, ServerKeepsAdmins, AccountsKeepAdmins, DeletionsKeepAdmins, AgeAskKeepsAdmins,
     SetUserKeepsAdmins, DeleteUserKeepsAdmins, PurgeKeepsAdmins DEF RowsStay

-----------------------------------------------------------------------------
(* Who goes has asked *)

\* One row is written, to one of that status and date.
LEMMA AskWritten ==
    ASSUME DirectoryAssumption, TInv, AskIsAsked, NEW u \in Ids, NEW r \in User,
           users' = [users EXCEPT ![u] = r],
           \A v \in Ids : v # u => asked'[v] = asked[v],
           r.status = "deletion_pending" => r.ask = asked'[u]
    PROVE  AskIsAsked'
  BY TInvTypes DEF AskIsAsked, Users, Exists

LEMMA OwnersKeepAsks ==
    ASSUME DirectoryAssumption, TInv, AskIsAsked, NEW c \in Calls,
           RequestDeletion(c) \/ CancelDeletion(c)
    PROVE  AskIsAsked'
<1> DEFINE u == req[c].by
<1> USE TInvTypes
<1>1. u \in Ids
  BY DEF RequestDeletion, CancelDeletion, May, Ready, Request
<1>2. CASE users' = users /\ asked' = asked
  BY <1>2 DEF AskIsAsked, Exists
<1>3. CASE RequestDeletion(c) /\ Exists(u)
  <2> DEFINE r == Asking(users[u])
  <2>1. users[u] \in User
    BY <1>1, <1>3
  <2>2. r \in User /\ r.ask = "recent"
    BY <2>1, UserRows DEF Asking, User
  <2> HIDE DEF r
  <2>3. users' = [users EXCEPT ![u] = r] /\ asked' = [asked EXCEPT ![u] = "recent"]
    BY <1>3 DEF RequestDeletion, r
  <2>4. QED
    BY <1>1, <2>2, <2>3, AskWritten
<1>4. CASE CancelDeletion(c) /\ Exists(u) /\ users[u].status = "deletion_pending"
  <2> DEFINE r == [users[u] EXCEPT !.status = "active", !.ask = "never"]
  <2>1. users[u] \in User
    BY <1>1, <1>4
  <2>2. r \in User /\ r.status = "active"
    BY <2>1, UserRows DEF User
  <2>3. users' = [users EXCEPT ![u] = r] /\ asked' = [asked EXCEPT ![u] = "never"]
    BY <1>1, <1>4, <2>1 DEF CancelDeletion, Users, Undone
  <2> HIDE DEF r
  <2>4. QED
    BY <1>1, <2>2, <2>3, AskWritten
<1>5. QED
  BY <1>2, <1>3, <1>4 DEF RequestDeletion, CancelDeletion

LEMMA AgeAskKeepsAsks ==
    ASSUME DirectoryAssumption, TInv, AskIsAsked, NEW u \in Ids, AgeAsk(u)
    PROVE  AskIsAsked'
<1> USE TInvTypes
<1>1. users[u] \in User /\ Exists(u) /\ users[u].ask = "recent"
  BY DEF AgeAsk
<1> DEFINE r == [users[u] EXCEPT !.ask = "due"]
<1>2. users' = [users EXCEPT ![u] = r] /\ r \in User
  BY <1>1, UserRows DEF AgeAsk
<1>3. r.status = users[u].status /\ r.ask = "due"
  BY <1>1 DEF User
<1>4. asked' = [asked EXCEPT ![u] = IF asked[u] = "recent" THEN "due" ELSE asked[u]]
  BY DEF AgeAsk
<1> HIDE DEF r
<1>5. r.status = "deletion_pending" => r.ask = asked'[u]
  BY <1>1, <1>3, <1>4 DEF AskIsAsked
<1>6. QED
  BY <1>2, <1>4, <1>5, AskWritten

LEMMA SetUserKeepsAsks ==
    ASSUME DirectoryAssumption, TInv, AskIsAsked, NEW c \in Calls, NEW u \in Ids,
           NEW role \in {"admin", "user", None}, NEW status \in {"active", "disabled", None},
           SetUser(c, u, role, status)
    PROVE  AskIsAsked'
<1> USE TInvTypes
<1>1. Exists(u) /\ users[u] \in User
  BY DEF SetUser
<1>2. WithRole(u, role) \in User /\ WithRole(u, role).status = users[u].status
      /\ WithRole(u, role).ask = users[u].ask
  <2>1. CASE role = None
    BY <1>1, <2>1 DEF WithRole
  <2>2. CASE role # None
    BY <1>1, <2>2, UserRows DEF WithRole, User
  <2>3. QED
    BY <2>1, <2>2
<1>3. CASE users' = users /\ asked' = asked
  BY <1>3 DEF AskIsAsked, Exists
<1>4. CASE users' = [users EXCEPT ![u] = WithRole(u, role)] /\ asked' = asked
  BY <1>1, <1>2, <1>4, AskWritten DEF AskIsAsked
<1>5. CASE /\ users' = [users EXCEPT ![u] = [WithRole(u, role) EXCEPT !.status = status]]
           /\ Undone(u) /\ status # None
  <2> DEFINE r == [WithRole(u, role) EXCEPT !.status = status]
  <2>1. r \in User /\ r.status = status
    BY <1>2, <1>5, UserRows DEF User
  <2>2. users' = [users EXCEPT ![u] = r] /\ \A v \in Ids : v # u => asked'[v] = asked[v]
    BY <1>5 DEF Undone
  <2> HIDE DEF r
  <2>3. QED
    BY <1>5, <2>1, <2>2, AskWritten
<1>6. QED
  BY <1>3, <1>4, <1>5 DEF SetUser

LEMMA AccountsKeepAsks ==
    ASSUME DirectoryAssumption, TInv, AskIsAsked, NEW u \in Ids,
           \/ Register(u) \/ \E listed, approval \in BOOLEAN : OidcNew(u, listed, approval)
           \/ \E c \in Calls, role \in {"admin", "user"} : CreateUser(c, u, role)
    PROVE  AskIsAsked'
<1>1. \E r \in User : users' = [users EXCEPT ![u] = r] /\ r.status # "deletion_pending"
  BY NewRows DEF Register, OidcNew, CreateUser, NewUser
<1>2. asked' = asked
  BY DEF Register, OidcNew, CreateUser, history
<1>3. QED
  BY <1>1, <1>2, AskWritten

LEMMA ServerKeepsAsks ==
    ASSUME DirectoryAssumption, TInv, FirstIsAble, AskIsAsked, Boot \/ BootHashed \/ Crash
    PROVE  AskIsAsked'
<1> USE TInvTypes
<1>1. asked' = asked
  BY DEF Boot, BootHashed, Crash, history
<1>2. CASE users' = users
  BY <1>1, <1>2 DEF AskIsAsked, Exists
<1>3. CASE users' = [users EXCEPT ![First] = NewUser("admin", "active", FALSE, TRUE)]
  BY <1>1, <1>3, NewRows, AskWritten DEF NewUser
<1>4. CASE BootHashed
  <2>1. users[First] \in User /\ Exists(First)
    BY <1>4 DEF BootHashed, FirstIsAble, Able, Admins
  <2> DEFINE r == [users[First] EXCEPT !.cred = TRUE]
  <2>2. users' = [users EXCEPT ![First] = r] /\ r \in User
    BY <1>4, <2>1, UserRows DEF BootHashed
  <2>3. r.status = users[First].status /\ r.ask = users[First].ask
    BY <2>1 DEF User
  <2> HIDE DEF r
  <2>4. QED
    BY <1>1, <2>1, <2>2, <2>3, AskWritten DEF AskIsAsked
<1>5. QED
  BY <1>2, <1>3, <1>4 DEF Boot, Crash

LEMMA AsksKept ==
    ASSUME DirectoryAssumption, TInv, FirstIsAble, AskIsAsked, Next
    PROVE  AskIsAsked'
<1> USE TInvTypes
<1>1. ASSUME RowsStay
      PROVE  AskIsAsked'
  <2>1. (\A v \in Ids : Like(v)) /\ asked' = asked
    BY <1>1, RowsAlike
  <2>2. QED
    BY <2>1 DEF Like, AskIsAsked, Exists
<1>2. ASSUME NEW c \in Calls, NEW u \in Ids, DeleteUser(c, u)
      PROVE  AskIsAsked'
  BY <1>2 DEF DeleteUser, Undone, AskIsAsked, Exists, Users
<1>3. ASSUME Purge
      PROVE  AskIsAsked'
  BY <1>3 DEF Purge, AskIsAsked, Exists
<1>4. QED
  BY <1>1, <1>2, <1>3, StepCases, ServerKeepsAsks, AccountsKeepAsks, OwnersKeepAsks, AgeAskKeepsAsks,
     SetUserKeepsAsks DEF RowsStay

LEMMA StepAsked ==
    ASSUME DirectoryAssumption, IInv, Next
    PROVE  AskedOrOrdered
<1> USE TInvTypes DEF IInv
<1> SUFFICES ASSUME NEW u \in Ids, Exists(u), users'[u] = None
             PROVE  \/ asked[u] = "due"
                    \/ \E c \in Calls : Ready(c) /\ u # req[c].by /\ req'[c] = None
  BY DEF AskedOrOrdered
<1>1. CASE Purge
  BY <1>1 DEF Purge, Due, AskIsAsked
<1>2. ASSUME NEW c \in Calls, NEW v \in Ids, DeleteUser(c, v)
      PROVE  Ready(c) /\ u # req[c].by /\ req'[c] = None
  BY <1>2 DEF DeleteUser, Deletable, MayAdmin, May, EndFor, Users
<1>3. CASE ~ Purge /\ ~ \E c \in Calls, v \in Ids : DeleteUser(c, v)
  <2>1. users'[u] # None
    BY <1>3, StepCases, ServerKeepsTypes, AccountsKeepAll, HandlersKeepAll, RequestsKeepAll,
       SetUserWrites DEF KeepsAll, Exists, AdminInv
  <2>2. QED
    BY <2>1
<1>4. QED
  BY <1>1, <1>2, <1>3

-----------------------------------------------------------------------------
(* The theorems *)

LEMMA StepHolds ==
    ASSUME DirectoryAssumption, IInv, [Next]_vars
    PROVE  IInv'
<1>1. CASE Next
  BY <1>1, TypesKept, AdminsKept, AsksKept DEF IInv, AdminInv
<1>2. CASE UNCHANGED vars
  BY <1>2 DEF vars, history, IInv, TInv, TypeOK, SessionsHaveUsers, HashesHaveUsers, QuietUntilUp,
     AdminInv, AbleOrEmpty, FirstIsAble, AskIsAsked, Able, Admins, Exists
<1>3. QED
  BY <1>1, <1>2

\* The inductive invariant: the types, whose account a session and a hash are,
\* how many admins there are and which of them can act, and what a row that
\* may come due says.
THEOREM Invariant ==
    ASSUME DirectoryAssumption
    PROVE  Spec => []IInv
<1>1. Init => IInv
  BY InitHolds
<1>2. IInv /\ [Next]_vars => IInv'
  BY StepHolds
<1>3. QED
  BY <1>1, <1>2, PTL DEF Spec

\* The users, sessions and requests have the types the routes give them.
THEOREM TypeCorrect ==
    ASSUME DirectoryAssumption
    PROVE  Spec => []TypeOK
<1>1. IInv => TypeOK
  BY DEF IInv, TInv
<1>2. QED
  BY <1>1, Invariant, PTL

\* A site that is up has an admin who can act, whatever requests are under way
\* and whenever it is started again, apart from the ways that lost counts.
THEOREM SomeAdminRemainsHolds ==
    ASSUME DirectoryAssumption
    PROVE  Spec => []SomeAdminRemains
<1>1. IInv => SomeAdminRemains
  BY DEF IInv, AdminInv, AbleOrEmpty, SomeAdminRemains
<1>2. QED
  BY <1>1, Invariant, PTL

\* No account goes but by an admin's request or because its owner asked for it
\* and let the cool-down pass.
THEOREM PurgedAskedHolds ==
    ASSUME DirectoryAssumption
    PROVE  Spec => PurgedAsked
<1>1. IInv /\ [Next]_vars => [AskedOrOrdered]_vars
  BY StepAsked
<1>2. QED
  BY <1>1, Invariant, PTL DEF Spec, PurgedAsked
=============================================================================
