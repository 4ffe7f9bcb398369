---------------------------- MODULE MCProcesses ----------------------------
(***************************************************************************)
(* One run for the larger modules with liveness: PersistentPool (the       *)
(* instance of MCPersistentPool) and an instance of Membership with admins *)
(* and crashes.  As in MCPeople a behaviour picks one of them when it      *)
(* begins and the other stays as it is.  The pool has two bounds: calls    *)
(* that overlap and two apps; or three apps, as it takes three for a visit *)
(* to find too many after one was stopped, and one call at a time, without *)
(* crashes, failed spawns and shutdown.                                    *)
(***************************************************************************)
EXTENDS MCPersistentPool

CONSTANTS
    u, p1, p2, g1, g2, o, k, Tokens, NoPlan     \* a user, plans, groups, an order, a code

VARIABLES
    focus,
    now, accounts, groups, plan, sub, members, order, code, credited, byPlan, bought    \* Membership

\* A subscriber, a plan for each of two groups, an order and a code.
Member == INSTANCE Membership WITH
    Users <- {u}, Plans <- {p1, p2}, Groups <- {g1, g2},
    GroupOf <- [x \in {p1, p2} |-> IF x = p1 THEN g1 ELSE g2],
    Orders <- {o}, Codes <- {k}, Durations <- {1},
    AdminEdits <- TRUE, HalfWrites <- TRUE, MaxTime <- 3

membership == <<now, accounts, groups, plan, sub, members, order, code, credited, byPlan, bought>>
mcVars == <<focus, vars, membership>>

Pool == focus # "member"

MCInit ==
    /\ focus \in {"two", "three", "member"}
    /\ Init /\ (focus = "member" => limit = 1)
    /\ Member!Init

MCNext ==
    /\ UNCHANGED focus
    /\ \/ /\ focus = "two" /\ Next /\ UNCHANGED membership
          /\ \A x \in Calls : call'[x] # None => call'[x].app # a3
       \/ /\ focus = "three" /\ Next /\ UNCHANGED membership
          /\ phase' = "up" /\ call'[c2] = None
          /\ call'[c1] # None => call'[c1].restarts = 0
          /\ \A x \in Procs : proc'[x] # None => proc'[x].st # "unborn" /\ proc'[x].env = "fresh"
       \/ focus = "member" /\ Member!Next /\ UNCHANGED vars

\* The fairness of PersistentPool and of Membership.
MCFairSpec ==
    /\ MCInit /\ [][MCNext]_mcVars
    /\ WF_vars(Pool /\ Tick) /\ WF_vars(Pool /\ IdleRecycle)
    /\ \A x \in Calls : WF_vars(Pool /\ Resume(x))
    /\ \A x \in Procs : WF_vars(Pool /\ Exit(x) /\ proc[x].st = "term")
    /\ WF_membership(focus = "member" /\ Member!DowngradeExpired)

-----------------------------------------------------------------------------
(* The properties of the instances *)

\* Membership: a subscription lasts as long as was bought.
SubscriptionsLast == Member!SubscriptionsLast

\* Membership: every subscription that is over is ended or renewed.
ExpiryIsNoticed == Member!ExpiryIsNoticed
=============================================================================
