----------------------------- MODULE CreditLine -----------------------------
(***************************************************************************)
(* What the LLM billing of the portal promises, without caches, processes  *)
(* or upstreams: every user has a balance, a request reserves an amount    *)
(* that the balance covers beyond all open reservations, and an open       *)
(* reservation is closed once, either charged or dropped.                  *)
(*                                                                         *)
(* Sums of amounts are cardinalities of disjoint sets of tokens, so that   *)
(* facts about them follow from the library's facts about finite sets.     *)
(***************************************************************************)
EXTENDS Integers, FiniteSets

CONSTANTS
    Users,      \* the users that can pay
    NoUser,     \* "nobody yet"
    Requests,   \* the requests, each used once
    Deposits,   \* the movements that no request causes, of either sign
    Amounts,    \* the amounts a request may reserve
    Charges     \* the amounts a request may finally cost

VARIABLES
    balance,    \* balance[u] : the sum of the movements of u
    status,     \* status[r] : "new", "open" or "closed"
    payer,      \* payer[r] : the user who pays for r, once it is open
    amount      \* amount[r] : what r reserves, once it is open

clVars == <<balance, status, payer, amount>>

\* One token per unit that an open request of u reserves.
Tokens(u) ==
    UNION {{r} \X (1 .. amount[r]) :
             r \in {q \in Requests : status[q] = "open" /\ payer[q] = u}}

Reserved(u) == Cardinality(Tokens(u))

Available(u) == balance[u] - Reserved(u)

-----------------------------------------------------------------------------
CLInit ==
    /\ balance = [u \in Users |-> 0]
    /\ status = [r \in Requests |-> "new"]
    /\ payer = [r \in Requests |-> NoUser]
    /\ amount = [r \in Requests |-> 0]

\* A grant, a purchase or an adjustment moves the balance of u.
Deposit(u, d) ==
    /\ balance' = [balance EXCEPT ![u] = @ + d]
    /\ UNCHANGED <<status, payer, amount>>

\* A request goes out only on money that nobody else has reserved.
Reserve(r, u, a) ==
    /\ status[r] = "new"
    /\ Available(u) >= a
    /\ status' = [status EXCEPT ![r] = "open"]
    /\ payer' = [payer EXCEPT ![r] = u]
    /\ amount' = [amount EXCEPT ![r] = a]
    /\ UNCHANGED balance

Open == {r \in Requests : status[r] = "open"}

\* The reservation is replaced by the actual cost.
Charge(r, c) ==
    /\ r \in Open
    /\ status' = [status EXCEPT ![r] = "closed"]
    /\ balance' = [balance EXCEPT ![payer[r]] = @ - c]
    /\ UNCHANGED <<payer, amount>>

\* The process dies: whatever was open is closed and nothing is charged.
DropAll ==
    /\ status' = [r \in Requests |-> IF r \in Open THEN "closed" ELSE status[r]]
    /\ UNCHANGED <<balance, payer, amount>>

CLNext ==
    \/ \E u \in Users, d \in Deposits : Deposit(u, d)
    \/ \E r \in Requests, u \in Users, a \in Amounts : Reserve(r, u, a)
    \/ \E r \in Requests, c \in Charges : Charge(r, c)
    \/ DropAll

CLSpec == CLInit /\ [][CLNext]_clVars
=============================================================================
