----------------------------- MODULE Membership -----------------------------
(***************************************************************************)
(* Subscriptions, orders and redeem codes: lib/billing.ts, lib/redeem.ts,  *)
(* lib/groups.ts and the routes that call them.                            *)
(*                                                                         *)
(* A handler runs without an await from its checks to its last write, so a *)
(* handler is one action; confirmOrder, redeem and activateMembership are  *)
(* SQL transactions besides, downgradeExpired and setGroupMembers are not  *)
(* and a crash can cut them.  Ids are AUTOINCREMENT: a plan, an order, a   *)
(* code or an account that is gone does not come back.                     *)
(*                                                                         *)
(* Time is counted in ticks of an arbitrary length; a plan lasts a number  *)
(* of ticks.  What a token order or code credits, and the tokens a plan    *)
(* adds, are rows of the ledger of LlmBilling: here only that they were    *)
(* written, in the same transaction as everything else.                    *)
(***************************************************************************)
EXTENDS Integers, FiniteSets

CONSTANTS
    Users, Plans, Groups, Orders, Codes,
    GroupOf,        \* GroupOf[p] : membershipPlans.groupId, never updated
    Durations,      \* possible durationDays
    Tokens,         \* the item of a token order or code
    NoPlan,         \* NULL
    AdminEdits,     \* do admins save member lists, delete groups and accounts?
    HalfWrites,     \* may the process die between two SQL statements?
    MaxTime         \* bound: the clock

ASSUME MembershipAssumption ==
    /\ GroupOf \in [Plans -> Groups]
    /\ Durations \subseteq Nat \ {0}
    /\ NoPlan \notin Plans /\ Tokens \notin Plans
    /\ {AdminEdits, HalfWrites} \subseteq BOOLEAN
    /\ MaxTime \in Nat
    /\ Orders \cap Codes = {}

VARIABLES
    now,        \* Date.now()
    accounts,   \* the rows of users
    groups,     \* the rows of user_groups
    plan,       \* plan[p].row : its row; plan[p].days : durationDays
    sub,        \* sub[u] : membershipPlanId and membershipExpiresAt
    members,    \* user_group_members, pairs <<group, user>>
    order,      \* topup_orders
    code,       \* redeem_codes
    credited,   \* history: how often an order or code took effect
    byPlan,     \* history: the members that an activation put into a group
    bought      \* history: the ticks of the running subscription, from when

vars == <<now, accounts, groups, plan, sub, members, order, code, credited, byPlan, bought>>

Items == Plans \cup {Tokens}
Free == [plan |-> NoPlan, until |-> 0]
NoPurchase == [since |-> 0, ticks |-> 0]

TypeOK ==
    /\ now \in 0 .. MaxTime
    /\ accounts \subseteq Users
    /\ groups \subseteq Groups
    /\ plan \in [Plans -> [row : {"on", "off", "deleted"}, days : Durations]
                          \cup {[row |-> "none", days |-> 0]}]
    /\ sub \in [Users -> [plan : Plans \cup {NoPlan}, until : Nat]]
    /\ members \subseteq Groups \X Users
    /\ order \in [Orders -> [status : {"none", "pending", "paid", "cancelled", "purged"},
                             user : Users, item : Items] \cup {[status |-> "none"]}]
    /\ code \in [Codes -> [status : {"unused", "used", "disabled"}, item : Items, dies : 0 .. MaxTime + 1]
                          \cup {[status |-> "none"]}]
    /\ credited \in [Orders \cup Codes -> Nat]
    /\ byPlan \subseteq members
    /\ bought \in [Users -> [since : Nat, ticks : Nat]]

Init ==
    /\ now = 0
    /\ accounts = Users
    /\ groups = Groups
    /\ plan = [p \in Plans |-> [row |-> "none", days |-> 0]]
    /\ sub = [u \in Users |-> Free]
    /\ members = {}
    /\ order = [o \in Orders |-> [status |-> "none"]]
    /\ code = [c \in Codes |-> [status |-> "none"]]
    /\ credited = [s \in Orders \cup Codes |-> 0]
    /\ byPlan = {}
    /\ bought = [u \in Users |-> NoPurchase]

Exists(p) == plan[p].row \in {"on", "off"}

-----------------------------------------------------------------------------
(* Plans *)

CreatePlan(p, d) ==
    /\ plan[p].row = "none"
    /\ GroupOf[p] \in groups
    /\ plan' = [plan EXCEPT ![p] = [row |-> "on", days |-> d]]
    /\ UNCHANGED <<now, accounts, groups, sub, members, order, code, credited, byPlan, bought>>

\* updatePlan: the duration, or on and off sale.
UpdatePlan(p, d, s) ==
    /\ Exists(p)
    /\ plan' = [plan EXCEPT ![p] = [row |-> s, days |-> d]]
    /\ UNCHANGED <<now, accounts, groups, sub, members, order, code, credited, byPlan, bought>>

\* A plan with a running subscription cannot be deleted.
Deletable(p) == Exists(p) /\ \A u \in accounts : sub[u].plan # p

DeletePlan(p) ==
    /\ Deletable(p)
    /\ plan' = [plan EXCEPT ![p].row = "deleted"]
    /\ UNCHANGED <<now, accounts, groups, sub, members, order, code, credited, byPlan, bought>>

-----------------------------------------------------------------------------
(* What an order or a code brings *)

\* A renewal of the running plan goes on from its end, anything else from now.
Base(u, p) == IF sub[u].plan = p THEN sub[u].until ELSE now

\* activateMembership, for a plan that exists.
Activate(u, p) ==
    /\ Exists(p)
    /\ sub' = [sub EXCEPT ![u] = [plan |-> p, until |-> Base(u, p) + plan[p].days]]
    /\ members' = members \cup {<<GroupOf[p], u>>}
    /\ byPlan' = IF <<GroupOf[p], u>> \in members THEN byPlan ELSE byPlan \cup {<<GroupOf[p], u>>}
    /\ bought' = [bought EXCEPT ![u] =
                    IF sub[u].plan = p
                    THEN [since |-> @.since, ticks |-> @.ticks + plan[p].days]
                    ELSE [since |-> now, ticks |-> plan[p].days]]

\* The effect of s for u: a row of the ledger, or a membership.
TakeEffect(s, u, item) ==
    /\ credited' = [credited EXCEPT ![s] = @ + 1]
    /\ IF item = Tokens
       THEN UNCHANGED <<sub, members, byPlan, bought>>
       ELSE Activate(u, item)

-----------------------------------------------------------------------------
(* Orders *)

\* An amount of tokens, or a plan that is on sale.
Orderable(item) == item \in Plans => plan[item].row = "on"

\* POST /user/topup and /user/membership/subscribe.
CreateOrder(o, u, item) ==
    /\ order[o].status = "none"
    /\ u \in accounts
    /\ Orderable(item)
    /\ order' = [order EXCEPT ![o] = [status |-> "pending", user |-> u, item |-> item]]
    /\ UNCHANGED <<now, accounts, groups, plan, sub, members, code, credited, byPlan, bought>>

\* Fault: a paid order can be confirmed again.
ConfirmableTwice(o) == order[o].status \in {"pending", "paid"}

Pending(o) == order[o].status = "pending"

\* Any admin, at any time.  Without the plan the transaction is rolled back.
ConfirmOrder(o) ==
    /\ Pending(o)
    /\ order' = [order EXCEPT ![o].status = "paid"]
    /\ TakeEffect(o, order[o].user, order[o].item)
    /\ UNCHANGED <<now, accounts, groups, plan, code>>

\* By its user or by an admin.
CancelOrder(o) ==
    /\ order[o].status = "pending"
    /\ order' = [order EXCEPT ![o].status = "cancelled"]
    /\ UNCHANGED <<now, accounts, groups, plan, sub, members, code, credited, byPlan, bought>>

-----------------------------------------------------------------------------
(* Redeem codes *)

\* One code of generateBatch; dies is past the clock when it never expires.
\* The plan of a membership code is not looked up.
GenerateCode(c, item, dies) ==
    /\ code[c].status = "none"
    /\ code' = [code EXCEPT ![c] = [status |-> "unused", item |-> item, dies |-> dies]]
    /\ UNCHANGED <<now, accounts, groups, plan, sub, members, order, credited, byPlan, bought>>

DisableCode(c) ==
    /\ code[c].status = "unused"
    /\ code' = [code EXCEPT ![c].status = "disabled"]
    /\ UNCHANGED <<now, accounts, groups, plan, sub, members, order, credited, byPlan, bought>>

Redeemable(c) == code[c].status = "unused" /\ now < code[c].dies

Redeem(u, c) ==
    /\ u \in accounts
    /\ Redeemable(c)
    /\ code' = [code EXCEPT ![c].status = "used"]
    /\ TakeEffect(c, u, code[c].item)
    /\ UNCHANGED <<now, accounts, groups, plan, order>>

-----------------------------------------------------------------------------
(* The settlement loop *)

\* Fault: a subscription ends when its last tick begins.
ExpiredEarly(u) == sub[u].plan # NoPlan /\ sub[u].until <= now + 1

Expired(u) == sub[u].plan # NoPlan /\ sub[u].until < now

\* Fault: the condition on the user is missing.
LostMembersAll(S) == {GroupOf[sub[u].plan] : u \in {v \in S : Exists(sub[v].plan)}} \X Users

\* The members that the end of the subscriptions of S takes out of a group:
\* none when the plan is gone.
LostMembers(S) == {<<GroupOf[sub[u].plan], u>> : u \in {v \in S : Exists(sub[v].plan)}}

\* Fault: only the members are removed.
DowngradeMembers(S, lost) ==
    /\ members' = members \ lost
    /\ byPlan' = byPlan \ lost
    /\ UNCHANGED <<now, accounts, groups, plan, sub, order, code, credited, bought>>

\* The rows the end of the subscriptions of S leaves behind.
Downgrade(S, lost) ==
    /\ sub' = [u \in Users |-> IF u \in S THEN Free ELSE sub[u]]
    /\ bought' = [u \in Users |-> IF u \in S THEN NoPurchase ELSE bought[u]]
    /\ members' = members \ lost
    /\ byPlan' = byPlan \ lost
    /\ UNCHANGED <<now, accounts, groups, plan, order, code, credited>>

\* downgradeExpired, once per minute.
DowngradeExpired ==
    LET expired == {u \in accounts : Expired(u)} IN
    /\ expired # {}
    /\ Downgrade(expired, LostMembers(expired))

\* The process dies after some users, between the two statements of u.
CrashInDowngrade(u, done) ==
    /\ HalfWrites
    /\ {u} \cup done \subseteq {v \in accounts : Expired(v)}
    /\ Downgrade(done \cup {u}, LostMembers(done \ {u}))

-----------------------------------------------------------------------------
(* Admins and time *)

\* setGroupMembers: everything is deleted, then the list is inserted row by
\* row; it stops at an account that is gone, or where the process dies.
ReplaceMembers(g, list) ==
    /\ AdminEdits
    /\ g \in groups
    /\ \E kept \in SUBSET (list \cap accounts) :
         /\ kept = list \/ ~ list \subseteq accounts \/ HalfWrites
         /\ members' = {m \in members : m[1] # g} \cup {<<g, u>> : u \in kept}
    /\ byPlan' = {m \in byPlan : m[1] # g}
    /\ UNCHANGED <<now, accounts, groups, plan, sub, order, code, credited, bought>>

\* deleteGroup; members and plans of the group go by ON DELETE CASCADE.
DeleteGroup(g) ==
    /\ AdminEdits
    /\ g \in groups
    /\ groups' = groups \ {g}
    /\ members' = {m \in members : m[1] # g}
    /\ byPlan' = {m \in byPlan : m[1] # g}
    /\ plan' = [p \in Plans |-> IF GroupOf[p] = g /\ Exists(p)
                                THEN [plan[p] EXCEPT !.row = "deleted"] ELSE plan[p]]
    /\ UNCHANGED <<now, accounts, sub, order, code, credited, bought>>

\* DELETE /admin/users/:id, or the purge after the cooling-off period.
DeleteAccount(u) ==
    /\ AdminEdits
    /\ u \in accounts
    /\ accounts' = accounts \ {u}
    /\ members' = {m \in members : m[2] # u}
    /\ byPlan' = {m \in byPlan : m[2] # u}
    /\ sub' = [sub EXCEPT ![u] = Free]
    /\ bought' = [bought EXCEPT ![u] = NoPurchase]
    /\ order' = [o \in Orders |-> IF order[o].status # "none" /\ order[o].user = u
                                  THEN [order[o] EXCEPT !.status = "purged"] ELSE order[o]]
    /\ UNCHANGED <<now, groups, plan, code, credited>>

Tick ==
    /\ now < MaxTime
    /\ now' = now + 1
    /\ UNCHANGED <<accounts, groups, plan, sub, members, order, code, credited, byPlan, bought>>

Next ==
    \/ \E p \in Plans :
         \/ \E d \in Durations : CreatePlan(p, d) \/ \E s \in {"on", "off"} : UpdatePlan(p, d, s)
         \/ DeletePlan(p)
    \/ \E o \in Orders :
         \/ \E u \in Users, item \in Items : CreateOrder(o, u, item)
         \/ ConfirmOrder(o)
         \/ CancelOrder(o)
    \/ \E c \in Codes :
         \/ \E item \in Items, dies \in 1 .. MaxTime + 1 : GenerateCode(c, item, dies)
         \/ DisableCode(c)
         \/ \E u \in Users : Redeem(u, c)
    \/ DowngradeExpired
    \/ \E u \in Users, done \in SUBSET Users : CrashInDowngrade(u, done)
    \/ \E g \in Groups : DeleteGroup(g) \/ \E list \in SUBSET Users : ReplaceMembers(g, list)
    \/ \E u \in Users : DeleteAccount(u)
    \/ Tick

Spec == Init /\ [][Next]_vars

\* The settlement loop is a setInterval.
FairSpec == Spec /\ WF_vars(DowngradeExpired)

-----------------------------------------------------------------------------
(* Properties *)

Settled(s) ==
    IF s \in Orders THEN order[s].status = "paid" ELSE code[s].status = "used"

\* DEVELOPMENT.md: to be paid, or used, and to take effect live and die
\* together, and nothing takes effect twice, whoever confirms, cancels,
\* redeems or disables in between.
EffectIffSettled ==
    \A s \in Orders \cup Codes :
        IF s \in Orders /\ order[s].status = "purged"
        THEN credited[s] <= 1
        ELSE credited[s] = IF Settled(s) THEN 1 ELSE 0

\* Renewals add up: a subscription lasts as many ticks as were bought since
\* it began, however its renewals and the settlement loop interleave.
RenewalsAddUp ==
    \A u \in Users :
        sub[u].plan # NoPlan => sub[u].until = bought[u].since + bought[u].ticks

\* ... and nobody is downgraded before they are over.
NoEarlyDowngrade ==
    [][\A u \in accounts \cap accounts' :
         sub[u].plan # NoPlan /\ sub'[u].plan = NoPlan
         => now > bought[u].since + bought[u].ticks]_vars

\* billing.ts, D1: opening a plan puts the user into its group.  While the
\* subscription runs nothing but an admin takes the user out again.
SubscriberInGroup ==
    \A u \in accounts :
        sub[u].plan # NoPlan => <<GroupOf[sub[u].plan], u>> \in members

\* billing.ts, D1: at the end of a subscription the user is taken out of the
\* group of the plan, so whom a plan put into a group has a plan for it.
GroupsFollowSubscriptions ==
    \A m \in byPlan : sub[m[2]].plan # NoPlan /\ GroupOf[sub[m[2]].plan] = m[1]

\* Groups and subscriptions go together, in both directions.
MembersFollowPlans == SubscriberInGroup /\ GroupsFollowSubscriptions

\* What was bought is what one gets, whole and not twice.
SubscriptionsLast == []RenewalsAddUp /\ NoEarlyDowngrade

\* Every subscription that is over is ended by the loop or renewed.
ExpiryIsNoticed ==
    \A u \in Users : Expired(u) ~> ~ Expired(u)
=============================================================================
