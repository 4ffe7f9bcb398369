---------------------------- MODULE PeopleProofs ----------------------------
(***************************************************************************)
(* Theorems about the specification of MCPeople: about Membership, for any *)
(* users, plans, groups, orders and codes; Limiter, for any users,         *)
(* addresses and rates; IpGuard, for any addresses, logins that overlap,   *)
(* windows, thresholds and bans; and, by what DirectoryProofs and          *)
(* RegistrationProofs show for any constants, about their instances.       *)
(***************************************************************************)
EXTENDS MCPeople, TLAPS, FiniteSetTheorems

-----------------------------------------------------------------------------
(* Membership.  What takes effect when, and how long a subscription lasts, *)
(* hold in every instance: admins may edit and the process may die.  That  *)
(* groups and subscriptions go together needs what its two theorems        *)
(* assume: the first that no admin edits a group, the second that no crash *)
(* cuts a downgrade in two and that nobody can switch to a plan of another *)
(* group.                                                                  *)

\* What orders and plans refer to is there.
RowsAreAlive ==
    /\ \A o \in Orders : Pending(o) => order[o].user \in accounts
    /\ \A p \in Plans : Exists(p) => GroupOf[p] \in groups

\* A plan somebody has goes only with its group.
PlansAreKept ==
    \A u \in accounts :
        sub[u].plan # NoPlan => Exists(sub[u].plan) \/ GroupOf[sub[u].plan] \notin groups

\* Whom a plan put into a group has an account, and the group is there.
ByPlanIsAlive == \A m \in byPlan : m[1] \in groups /\ m[2] \in accounts

\* The inductive invariant, whatever the constants.
IInv == TypeOK /\ RowsAreAlive /\ PlansAreKept /\ ByPlanIsAlive /\ EffectIffSettled /\ RenewalsAddUp

\* The rows of the three tables.
PlanRow == [row : {"on", "off", "deleted"}, days : Durations] \cup {[row |-> "none", days |-> 0]}
OrderRow == [status : {"none", "pending", "paid", "cancelled", "purged"}, user : Users, item : Items]
            \cup {[status |-> "none"]}
CodeRow == [status : {"unused", "used", "disabled"}, item : Items, dies : 0 .. MaxTime + 1]
           \cup {[status |-> "none"]}
SubRow == [plan : Plans \cup {NoPlan}, until : Nat]
BoughtRow == [since : Nat, ticks : Nat]

-----------------------------------------------------------------------------
(* Rows *)

\* An order is its status, its user and its item, and only the first changes.
LEMMA OrderRows ==
    \A r \in OrderRow : r.status # "none" =>
        /\ r.user \in Users
        /\ r.item \in Items
        /\ \A st \in {"paid", "cancelled", "purged"} :
              /\ [r EXCEPT !.status = st] \in OrderRow
              /\ [r EXCEPT !.status = st].status = st
              /\ [r EXCEPT !.status = st].user = r.user
<1> SUFFICES ASSUME NEW r \in OrderRow, r.status # "none"
             PROVE  /\ r.user \in Users
                    /\ r.item \in Items
                    /\ \A st \in {"paid", "cancelled", "purged"} :
                          /\ [r EXCEPT !.status = st] \in OrderRow
                          /\ [r EXCEPT !.status = st].status = st
                          /\ [r EXCEPT !.status = st].user = r.user
  OBVIOUS
<1>1. r \in [status : {"none", "pending", "paid", "cancelled", "purged"}, user : Users, item : Items]
  BY DEF OrderRow
<1>2. QED
  BY <1>1 DEF OrderRow

\* A code is its status, its item and its date, and only the first changes.
LEMMA CodeRows ==
    \A r \in CodeRow : r.status # "none" =>
        /\ r.item \in Items
        /\ \A st \in {"used", "disabled"} :
              /\ [r EXCEPT !.status = st] \in CodeRow
              /\ [r EXCEPT !.status = st].status = st
<1> SUFFICES ASSUME NEW r \in CodeRow, r.status # "none"
             PROVE  /\ r.item \in Items
                    /\ \A st \in {"used", "disabled"} :
                          /\ [r EXCEPT !.status = st] \in CodeRow
                          /\ [r EXCEPT !.status = st].status = st
  OBVIOUS
<1>1. r \in [status : {"unused", "used", "disabled"}, item : Items, dies : 0 .. MaxTime + 1]
  BY DEF CodeRow
<1>2. QED
  BY <1>1 DEF CodeRow

\* A plan keeps its duration when it is deleted.
LEMMA PlanRows ==
    \A r \in PlanRow :
        /\ r.days \in Nat
        /\ r.row # "none" => /\ r.days \in Durations
                             /\ [r EXCEPT !.row = "deleted"] \in PlanRow
                             /\ [r EXCEPT !.row = "deleted"].row = "deleted"
<1> SUFFICES ASSUME NEW r \in PlanRow
             PROVE  /\ r.days \in Nat
                    /\ r.row # "none" => /\ r.days \in Durations
                                         /\ [r EXCEPT !.row = "deleted"] \in PlanRow
                                         /\ [r EXCEPT !.row = "deleted"].row = "deleted"
  OBVIOUS
<1>1. CASE r = [row |-> "none", days |-> 0]
  BY <1>1
<1>2. CASE r \in [row : {"on", "off", "deleted"}, days : Durations]
  <2>1. r.days \in Durations /\ Durations \subseteq Nat
    BY <1>2, MembershipAssumption
  <2>2. [r EXCEPT !.row = "deleted"] \in [row : {"on", "off", "deleted"}, days : Durations]
    BY <1>2
  <2>3. QED
    BY <1>2, <2>1, <2>2 DEF PlanRow
<1>3. QED
  BY <1>1, <1>2 DEF PlanRow

\* TypeOK in these names.
LEMMA TypesByRow ==
    TypeOK <=> /\ now \in 0 .. MaxTime
               /\ accounts \subseteq Users
               /\ groups \subseteq Groups
               /\ plan \in [Plans -> PlanRow]
               /\ sub \in [Users -> SubRow]
               /\ members \subseteq Groups \X Users
               /\ order \in [Orders -> OrderRow]
               /\ code \in [Codes -> CodeRow]
               /\ credited \in [Orders \cup Codes -> Nat]
               /\ byPlan \subseteq members
               /\ bought \in [Users -> BoughtRow]
BY DEF TypeOK, PlanRow, OrderRow, CodeRow, SubRow, BoughtRow

-----------------------------------------------------------------------------
(* Types *)

\* The memberships that are written, and the effect of an order or a code.
LEMMA EffectTypes ==
    ASSUME TypeOK, NEW s \in Orders \cup Codes, NEW u \in Users, NEW item \in Items,
           TakeEffect(s, u, item)
    PROVE  /\ credited' \in [Orders \cup Codes -> Nat]
           /\ sub' \in [Users -> SubRow]
           /\ members' \subseteq Groups \X Users
           /\ byPlan' \subseteq members'
           /\ bought' \in [Users -> BoughtRow]
<1> USE MembershipAssumption, TypesByRow
<1>1. credited' \in [Orders \cup Codes -> Nat]
  BY DEF TakeEffect
<1>2. CASE item = Tokens
  BY <1>1, <1>2 DEF TakeEffect
<1>3. CASE item # Tokens
  <2> DEFINE p == item
  <2>1. p \in Plans /\ Activate(u, p)
    BY <1>3 DEF Items, TakeEffect
  <2>2. plan[p].days \in Nat /\ now \in Nat /\ sub[u].until \in Nat /\ bought[u] \in BoughtRow
    <3>1. plan[p] \in PlanRow /\ sub[u] \in SubRow /\ bought[u] \in BoughtRow /\ now \in Nat
      BY <2>1
    <3>2. plan[p].days \in Nat
      BY <3>1, PlanRows
    <3>3. QED
      BY <3>1, <3>2 DEF SubRow
  <2>3. Base(u, p) + plan[p].days \in Nat
    BY <2>2 DEF Base
  <2>4. sub' \in [Users -> SubRow]
    <3>1. [plan |-> p, until |-> Base(u, p) + plan[p].days] \in SubRow
      BY <2>1, <2>3 DEF SubRow
    <3>2. QED
      BY <2>1, <3>1 DEF Activate
  <2>5. bought' \in [Users -> BoughtRow]
    <3>1. [since |-> bought[u].since, ticks |-> bought[u].ticks + plan[p].days] \in BoughtRow
      BY <2>2 DEF BoughtRow
    <3>2. [since |-> now, ticks |-> plan[p].days] \in BoughtRow
      BY <2>2 DEF BoughtRow
    <3>3. \/ bought' = [bought EXCEPT ![u] = [since |-> bought[u].since, ticks |-> bought[u].ticks + plan[p].days]]
          \/ bought' = [bought EXCEPT ![u] = [since |-> now, ticks |-> plan[p].days]]
      BY <2>1 DEF Activate
    <3>4. QED
      BY <3>1, <3>2, <3>3
  <2>6. members' \subseteq Groups \X Users /\ byPlan' \subseteq members'
    <3>1. <<GroupOf[p], u>> \in Groups \X Users
      BY <2>1
    <3>2. members' = members \cup {<<GroupOf[p], u>>}
      BY <2>1 DEF Activate
    <3>3. byPlan' = byPlan \/ byPlan' = byPlan \cup {<<GroupOf[p], u>>}
      BY <2>1 DEF Activate
    <3>4. QED
      BY <3>1, <3>2, <3>3
  <2>7. QED
    BY <1>1, <2>4, <2>5, <2>6
<1>4. QED
  BY <1>2, <1>3

\* The rows the end of subscriptions leaves behind.
LEMMA DowngradeTypes ==
    ASSUME TypeOK, NEW S, NEW lost, Downgrade(S, lost)
    PROVE  TypeOK'
<1> USE TypesByRow
<1>1. Free \in SubRow /\ NoPurchase \in BoughtRow
  BY DEF Free, NoPurchase, SubRow, BoughtRow
<1>2. sub' \in [Users -> SubRow] /\ bought' \in [Users -> BoughtRow]
  BY <1>1 DEF Downgrade
<1>3. members' \subseteq Groups \X Users /\ byPlan' \subseteq members'
  BY DEF Downgrade
<1>4. QED
  BY <1>2, <1>3, TypesByRow DEF Downgrade, TypeOK, SubRow, BoughtRow

LEMMA TypesInitially == Init => TypeOK
<1> SUFFICES ASSUME Init PROVE TypeOK
  OBVIOUS
<1>1. Free \in SubRow /\ NoPurchase \in BoughtRow
  BY DEF Free, NoPurchase, SubRow, BoughtRow
<1>2. QED
  BY <1>1, TypesByRow, MembershipAssumption DEF Init, PlanRow, OrderRow, CodeRow

LEMMA TypesStep == TypeOK /\ [Next]_vars => TypeOK'
<1> SUFFICES ASSUME TypeOK, [Next]_vars PROVE TypeOK'
  OBVIOUS
<1> USE MembershipAssumption
<1>0. /\ now \in 0 .. MaxTime
      /\ accounts \subseteq Users
      /\ groups \subseteq Groups
      /\ plan \in [Plans -> PlanRow]
      /\ sub \in [Users -> SubRow]
      /\ members \subseteq Groups \X Users
      /\ order \in [Orders -> OrderRow]
      /\ code \in [Codes -> CodeRow]
      /\ credited \in [Orders \cup Codes -> Nat]
      /\ byPlan \subseteq members
      /\ bought \in [Users -> BoughtRow]
  BY TypesByRow
<1>1. ASSUME NEW p \in Plans, NEW d \in Durations, CreatePlan(p, d) PROVE TypeOK'
  <2>1. [row |-> "on", days |-> d] \in PlanRow
    BY DEF PlanRow
  <2>2. plan' \in [Plans -> PlanRow]
    BY <1>0, <1>1, <2>1 DEF CreatePlan
  <2>3. QED
    BY <1>0, <1>1, <2>2, TypesByRow DEF CreatePlan, TypeOK, PlanRow
<1>2. ASSUME NEW p \in Plans, NEW d \in Durations, NEW s \in {"on", "off"}, UpdatePlan(p, d, s) PROVE TypeOK'
  <2>1. [row |-> s, days |-> d] \in PlanRow
    BY DEF PlanRow
  <2>2. plan' \in [Plans -> PlanRow]
    BY <1>0, <1>2, <2>1 DEF UpdatePlan
  <2>3. QED
    BY <1>0, <1>2, <2>2 DEF UpdatePlan, TypeOK, PlanRow
<1>3. ASSUME NEW p \in Plans, DeletePlan(p) PROVE TypeOK'
  <2>1. plan[p] \in PlanRow /\ plan[p].row # "none"
    BY <1>0, <1>3 DEF DeletePlan, Deletable, Exists
  <2>2. [plan[p] EXCEPT !.row = "deleted"] \in PlanRow
    BY <2>1, PlanRows
  <2>3. plan' \in [Plans -> PlanRow]
    BY <1>0, <1>3, <2>2 DEF DeletePlan
  <2>4. QED
    BY <1>0, <1>3, <2>3 DEF DeletePlan, TypeOK, PlanRow
<1>4. ASSUME NEW o \in Orders, NEW u \in Users, NEW item \in Items, CreateOrder(o, u, item) PROVE TypeOK'
  <2>1. [status |-> "pending", user |-> u, item |-> item] \in OrderRow
    BY DEF OrderRow
  <2>2. order' \in [Orders -> OrderRow]
    BY <1>0, <1>4, <2>1 DEF CreateOrder
  <2>3. QED
    BY <1>0, <1>4, <2>2 DEF CreateOrder, TypeOK, OrderRow
<1>5. ASSUME NEW o \in Orders, ConfirmOrder(o) PROVE TypeOK'
  <2>1. order[o] \in OrderRow /\ order[o].status # "none"
    BY <1>0, <1>5 DEF ConfirmOrder, Pending
  <2>2. order[o].user \in Users /\ order[o].item \in Items /\ [order[o] EXCEPT !.status = "paid"] \in OrderRow
    BY <2>1, OrderRows
  <2>3. order' \in [Orders -> OrderRow]
    BY <1>0, <1>5, <2>2 DEF ConfirmOrder
  <2>4. TakeEffect(o, order[o].user, order[o].item)
    BY <1>5 DEF ConfirmOrder
  <2>5. /\ credited' \in [Orders \cup Codes -> Nat]
        /\ sub' \in [Users -> SubRow]
        /\ members' \subseteq Groups \X Users
        /\ byPlan' \subseteq members'
        /\ bought' \in [Users -> BoughtRow]
    BY <2>2, <2>4, EffectTypes
  <2>6. QED
    BY <1>0, <1>5, <2>3, <2>5 DEF ConfirmOrder, TypeOK, OrderRow, SubRow, BoughtRow
<1>6. ASSUME NEW o \in Orders, CancelOrder(o) PROVE TypeOK'
  <2>1. order[o] \in OrderRow /\ order[o].status # "none"
    BY <1>0, <1>6 DEF CancelOrder
  <2>2. [order[o] EXCEPT !.status = "cancelled"] \in OrderRow
    BY <2>1, OrderRows
  <2>3. order' \in [Orders -> OrderRow]
    BY <1>0, <1>6, <2>2 DEF CancelOrder
  <2>4. QED
    BY <1>0, <1>6, <2>3 DEF CancelOrder, TypeOK, OrderRow
<1>7. ASSUME NEW c \in Codes, NEW item \in Items, NEW dies \in 1 .. MaxTime + 1, GenerateCode(c, item, dies)
      PROVE  TypeOK'
  <2>1. [status |-> "unused", item |-> item, dies |-> dies] \in CodeRow
    BY DEF CodeRow
  <2>2. code' \in [Codes -> CodeRow]
    BY <1>0, <1>7, <2>1 DEF GenerateCode
  <2>3. QED
    BY <1>0, <1>7, <2>2 DEF GenerateCode, TypeOK, CodeRow
<1>8. ASSUME NEW c \in Codes, DisableCode(c) PROVE TypeOK'
  <2>1. code[c] \in CodeRow /\ code[c].status # "none"
    BY <1>0, <1>8 DEF DisableCode
  <2>2. [code[c] EXCEPT !.status = "disabled"] \in CodeRow
    BY <2>1, CodeRows
  <2>3. code' \in [Codes -> CodeRow]
    BY <1>0, <1>8, <2>2 DEF DisableCode
  <2>4. QED
    BY <1>0, <1>8, <2>3 DEF DisableCode, TypeOK, CodeRow
<1>9. ASSUME NEW c \in Codes, NEW u \in Users, Redeem(u, c) PROVE TypeOK'
  <2>1. code[c] \in CodeRow /\ code[c].status # "none"
    BY <1>0, <1>9 DEF Redeem, Redeemable
  <2>2. code[c].item \in Items /\ [code[c] EXCEPT !.status = "used"] \in CodeRow
    BY <2>1, CodeRows
  <2>3. code' \in [Codes -> CodeRow]
    BY <1>0, <1>9, <2>2 DEF Redeem
  <2>4. TakeEffect(c, u, code[c].item)
    BY <1>9 DEF Redeem
  <2>5. /\ credited' \in [Orders \cup Codes -> Nat]
        /\ sub' \in [Users -> SubRow]
        /\ members' \subseteq Groups \X Users
        /\ byPlan' \subseteq members'
        /\ bought' \in [Users -> BoughtRow]
    BY <2>2, <2>4, EffectTypes
  <2>6. QED
    BY <1>0, <1>9, <2>3, <2>5 DEF Redeem, TypeOK, CodeRow, SubRow, BoughtRow
<1>10. CASE DowngradeExpired
  BY <1>10, DowngradeTypes DEF DowngradeExpired
<1>11. ASSUME NEW u \in Users, NEW done \in SUBSET Users, CrashInDowngrade(u, done) PROVE TypeOK'
  BY <1>11, DowngradeTypes DEF CrashInDowngrade
<1>12. ASSUME NEW g \in Groups, DeleteGroup(g) PROVE TypeOK'
  <2>1. ASSUME NEW p \in Plans PROVE (plan')[p] \in PlanRow
    <3>1. plan[p] \in PlanRow
      BY <1>0
    <3>2. Exists(p) => [plan[p] EXCEPT !.row = "deleted"] \in PlanRow
      BY <3>1, PlanRows DEF Exists
    <3>3. QED
      BY <1>12, <3>1, <3>2 DEF DeleteGroup
  <2>2. plan' \in [Plans -> PlanRow]
    BY <1>12, <2>1 DEF DeleteGroup
  <2>3. members' \subseteq Groups \X Users /\ byPlan' \subseteq members'
    BY <1>0, <1>12 DEF DeleteGroup
  <2>4. QED
    BY <1>0, <1>12, <2>2, <2>3 DEF DeleteGroup, TypeOK, PlanRow
<1>13. ASSUME NEW g \in Groups, NEW list \in SUBSET Users, ReplaceMembers(g, list) PROVE TypeOK'
  <2>1. members' \subseteq Groups \X Users /\ byPlan' \subseteq members'
    BY <1>0, <1>13 DEF ReplaceMembers
  <2>2. QED
    BY <1>0, <1>13, <2>1 DEF ReplaceMembers, TypeOK
<1>14. ASSUME NEW u \in Users, DeleteAccount(u) PROVE TypeOK'
  <2>1. ASSUME NEW o \in Orders PROVE (order')[o] \in OrderRow
    <3>1. order[o] \in OrderRow
      BY <1>0
    <3>2. order[o].status # "none" => [order[o] EXCEPT !.status = "purged"] \in OrderRow
      BY <3>1, OrderRows
    <3>3. QED
      BY <1>14, <3>1, <3>2 DEF DeleteAccount
  <2>2. order' \in [Orders -> OrderRow]
    BY <1>14, <2>1 DEF DeleteAccount
  <2>3. Free \in SubRow /\ NoPurchase \in BoughtRow
    BY DEF Free, NoPurchase, SubRow, BoughtRow
  <2>4. sub' \in [Users -> SubRow] /\ bought' \in [Users -> BoughtRow]
    BY <1>0, <1>14, <2>3 DEF DeleteAccount
  <2>5. members' \subseteq Groups \X Users /\ byPlan' \subseteq members'
    BY <1>0, <1>14 DEF DeleteAccount
  <2>6. accounts' \subseteq Users
    BY <1>0, <1>14 DEF DeleteAccount
  <2>7. QED
    BY <1>0, <1>14, <2>2, <2>4, <2>5, <2>6 DEF DeleteAccount, TypeOK, OrderRow, SubRow, BoughtRow
<1>15. CASE Tick
  BY <1>0, <1>15 DEF Tick, TypeOK
<1>16. CASE UNCHANGED vars
  BY <1>16 DEF vars, TypeOK
<1>17. QED
  BY <1>1, <1>2, <1>3, <1>4, <1>5, <1>6, <1>7, <1>8, <1>9, <1>10, <1>11, <1>12, <1>13, <1>14, <1>15, <1>16
  DEF Next

-----------------------------------------------------------------------------
(* What takes effect *)

\* The sources whose record and count an action leaves alone.
Kept(s) ==
    /\ credited'[s] = credited[s]
    /\ s \in Orders => order'[s].status = order[s].status
    /\ s \notin Orders => code'[s].status = code[s].status

\* EffectIffSettled for one source.
EffectOf(s) ==
    IF s \in Orders /\ order[s].status = "purged"
    THEN credited[s] <= 1
    ELSE credited[s] = IF Settled(s) THEN 1 ELSE 0

\* What keeps a source keeps what is said of it.
LEMMA KeptEffect ==
    \A s \in Orders \cup Codes : EffectOf(s) /\ Kept(s) => EffectOf(s)'
BY Zenon DEF EffectOf, Kept, Settled

\* The effect of a source counts at that source only.
LEMMA EffectCounts ==
    ASSUME TypeOK, NEW s \in Orders \cup Codes, NEW u, NEW item, TakeEffect(s, u, item)
    PROVE  /\ credited'[s] = credited[s] + 1
           /\ \A r \in (Orders \cup Codes) \ {s} : credited'[r] = credited[r]
BY DEF TakeEffect, TypeOK

LEMMA EffectStep == IInv /\ [Next]_vars => EffectIffSettled'
<1> SUFFICES ASSUME IInv, [Next]_vars, NEW s \in Orders \cup Codes
             PROVE  EffectOf(s)'
  BY Zenon DEF EffectIffSettled, EffectOf
<1> USE MembershipAssumption
<1>0. /\ EffectOf(s)
      /\ TypeOK
      /\ order \in [Orders -> OrderRow]
      /\ code \in [Codes -> CodeRow]
      /\ credited \in [Orders \cup Codes -> Nat]
  BY TypesByRow DEF IInv, EffectIffSettled, EffectOf
<1>1. CASE UNCHANGED <<order, code, credited>>
  BY <1>0, <1>1, KeptEffect DEF Kept
<1>2. ASSUME NEW o \in Orders, NEW u \in Users, NEW item \in Items, CreateOrder(o, u, item)
      PROVE  EffectOf(s)'
  <2>1. CASE s = o
    <3>1. order[s].status = "none" /\ order'[s].status = "pending" /\ credited' = credited
      BY <1>0, <1>2, <2>1 DEF CreateOrder
    <3>2. QED
      BY <1>0, <2>1, <3>1 DEF EffectOf, Settled
  <2>2. CASE s # o
    BY <1>0, <1>2, <2>2, KeptEffect DEF CreateOrder, Kept
  <2>3. QED
    BY <2>1, <2>2
<1>3. ASSUME NEW o \in Orders, ConfirmOrder(o)
      PROVE  EffectOf(s)'
  <2>1. /\ TakeEffect(o, order[o].user, order[o].item)
        /\ order' = [order EXCEPT ![o].status = "paid"]
        /\ code' = code
        /\ order[o].status = "pending"
    BY <1>3 DEF ConfirmOrder, Pending
  <2>2. /\ credited'[o] = credited[o] + 1
        /\ \A r \in (Orders \cup Codes) \ {o} : credited'[r] = credited[r]
    BY <1>0, <2>1, EffectCounts
  <2>3. CASE s = o
    <3>1. order[o] \in OrderRow
      BY <1>0
    <3>2. order'[o].status = "paid"
      BY <1>0, <2>1, <3>1, OrderRows
    <3>3. credited[o] = 0
      BY <1>0, <2>1, <2>3 DEF EffectOf, Settled
    <3>4. QED
      BY <2>2, <2>3, <3>2, <3>3 DEF EffectOf, Settled
  <2>4. CASE s # o
    BY <1>0, <2>1, <2>2, <2>4, KeptEffect DEF Kept
  <2>5. QED
    BY <2>3, <2>4
<1>4. ASSUME NEW o \in Orders, CancelOrder(o)
      PROVE  EffectOf(s)'
  <2>1. CASE s = o
    <3>1. order[o] \in OrderRow /\ order[o].status = "pending"
      BY <1>0, <1>4 DEF CancelOrder
    <3>2. order'[o].status = "cancelled" /\ credited' = credited
      BY <1>0, <1>4, <3>1, OrderRows DEF CancelOrder
    <3>3. QED
      BY <1>0, <2>1, <3>1, <3>2 DEF EffectOf, Settled
  <2>2. CASE s # o
    BY <1>0, <1>4, <2>2, KeptEffect DEF CancelOrder, Kept
  <2>3. QED
    BY <2>1, <2>2
<1>5. ASSUME NEW c \in Codes, NEW item \in Items, NEW dies \in 1 .. MaxTime + 1, GenerateCode(c, item, dies)
      PROVE  EffectOf(s)'
  <2>1. CASE s = c
    <3>1. code[s].status = "none" /\ code'[s].status = "unused" /\ credited' = credited /\ s \notin Orders
      BY <1>0, <1>5, <2>1 DEF GenerateCode
    <3>2. QED
      BY <1>0, <3>1 DEF EffectOf, Settled
  <2>2. CASE s # c
    BY <1>0, <1>5, <2>2, KeptEffect DEF GenerateCode, Kept
  <2>3. QED
    BY <2>1, <2>2
<1>6. ASSUME NEW c \in Codes, DisableCode(c)
      PROVE  EffectOf(s)'
  <2>1. CASE s = c
    <3>1. code[c] \in CodeRow /\ code[c].status = "unused" /\ s \notin Orders
      BY <1>0, <1>6, <2>1 DEF DisableCode
    <3>2. code'[c].status = "disabled" /\ credited' = credited
      BY <1>0, <1>6, <3>1, CodeRows DEF DisableCode
    <3>3. QED
      BY <1>0, <2>1, <3>1, <3>2 DEF EffectOf, Settled
  <2>2. CASE s # c
    BY <1>0, <1>6, <2>2, KeptEffect DEF DisableCode, Kept
  <2>3. QED
    BY <2>1, <2>2
<1>7. ASSUME NEW c \in Codes, NEW u \in Users, Redeem(u, c)
      PROVE  EffectOf(s)'
  <2>1. /\ TakeEffect(c, u, code[c].item)
        /\ code' = [code EXCEPT ![c].status = "used"]
        /\ order' = order
        /\ code[c].status = "unused"
    BY <1>7 DEF Redeem, Redeemable
  <2>2. /\ credited'[c] = credited[c] + 1
        /\ \A r \in (Orders \cup Codes) \ {c} : credited'[r] = credited[r]
    BY <1>0, <2>1, EffectCounts
  <2>3. CASE s = c
    <3>1. code[c] \in CodeRow /\ s \notin Orders
      BY <1>0, <2>3
    <3>2. code'[c].status = "used"
      BY <1>0, <2>1, <3>1, CodeRows
    <3>3. credited[c] = 0
      BY <1>0, <2>1, <2>3, <3>1 DEF EffectOf, Settled
    <3>4. QED
      BY <2>2, <2>3, <3>1, <3>2, <3>3 DEF EffectOf, Settled
  <2>4. CASE s # c
    BY <1>0, <2>1, <2>2, <2>4, KeptEffect DEF Kept
  <2>5. QED
    BY <2>3, <2>4
<1>8. ASSUME NEW u \in Users, DeleteAccount(u)
      PROVE  EffectOf(s)'
  <2>1. credited' = credited /\ code' = code
    BY <1>8 DEF DeleteAccount
  <2>2. CASE s \in Orders /\ order[s].status # "none" /\ order[s].user = u
    <3>1. order[s] \in OrderRow
      BY <1>0, <2>2
    <3>2. order'[s].status = "purged"
      BY <1>8, <2>2, <3>1, OrderRows DEF DeleteAccount
    <3>3. credited[s] <= 1
      BY <1>0, <2>2 DEF EffectOf, Settled
    <3>4. QED
      BY <2>1, <2>2, <3>2, <3>3 DEF EffectOf
  <2>3. CASE s \in Orders /\ ~ (order[s].status # "none" /\ order[s].user = u)
    <3>1. order'[s] = order[s]
      BY <1>8, <2>3 DEF DeleteAccount
    <3>2. QED
      BY <1>0, <2>1, <2>3, <3>1, KeptEffect DEF Kept
  <2>4. CASE s \notin Orders
    BY <1>0, <2>1, <2>4, KeptEffect DEF Kept
  <2>5. QED
    BY <2>2, <2>3, <2>4
<1>9. QED
  BY <1>1, <1>2, <1>3, <1>4, <1>5, <1>6, <1>7, <1>8
  DEF Next, vars, CreatePlan, UpdatePlan, DeletePlan, DowngradeExpired, CrashInDowngrade, Downgrade,
      DeleteGroup, ReplaceMembers, Tick

-----------------------------------------------------------------------------
(* How long it lasts *)

\* A subscription is what was bought: with one more purchase of any plan too.
LEMMA ActivationAddsUp ==
    ASSUME TypeOK, RenewalsAddUp, NEW s \in Orders \cup Codes, NEW u \in Users, NEW item \in Items,
           TakeEffect(s, u, item)
    PROVE  RenewalsAddUp'
<1>1. sub \in [Users -> SubRow] /\ bought \in [Users -> BoughtRow] /\ plan \in [Plans -> PlanRow] /\ now \in Nat
  BY TypesByRow, MembershipAssumption
<1>2. CASE item = Tokens
  BY <1>2 DEF TakeEffect, RenewalsAddUp
<1>3. CASE item # Tokens
  <2>1. item \in Plans /\ Activate(u, item)
    BY <1>3 DEF Items, TakeEffect
  <2>2. plan[item].days \in Nat /\ sub[u] \in SubRow /\ bought[u] \in BoughtRow
    <3>1. plan[item] \in PlanRow
      BY <1>1, <2>1
    <3>2. QED
      BY <1>1, <3>1, PlanRows
  <2>3. \A v \in Users \ {u} : sub'[v] = sub[v] /\ bought'[v] = bought[v]
    BY <1>1, <2>1 DEF Activate
  <2>4. sub'[u].until = bought'[u].since + bought'[u].ticks
    <3>1. CASE sub[u].plan = item
      <4>1. /\ sub'[u].until = sub[u].until + plan[item].days
            /\ bought'[u].since = bought[u].since
            /\ bought'[u].ticks = bought[u].ticks + plan[item].days
        BY <1>1, <2>1, <3>1 DEF Activate, Base
      <4>2. sub[u].until = bought[u].since + bought[u].ticks
        BY <2>1, <3>1, MembershipAssumption DEF RenewalsAddUp
      <4>3. bought[u].since \in Nat /\ bought[u].ticks \in Nat
        BY <2>2 DEF BoughtRow
      <4>4. QED
        BY <2>2, <4>1, <4>2, <4>3
    <3>2. CASE sub[u].plan # item
      BY <1>1, <2>1, <3>2 DEF Activate, Base
    <3>3. QED
      BY <3>1, <3>2
  <2>5. QED
    BY <2>3, <2>4 DEF RenewalsAddUp
<1>4. QED
  BY <1>2, <1>3

LEMMA RenewalStep == TypeOK /\ RenewalsAddUp /\ [Next]_vars => RenewalsAddUp'
<1> SUFFICES ASSUME TypeOK, RenewalsAddUp, [Next]_vars PROVE RenewalsAddUp'
  OBVIOUS
<1>0. /\ sub \in [Users -> SubRow] /\ bought \in [Users -> BoughtRow]
      /\ order \in [Orders -> OrderRow] /\ code \in [Codes -> CodeRow]
  BY TypesByRow
<1>1. CASE UNCHANGED <<sub, bought>>
  BY <1>1 DEF RenewalsAddUp
<1>2. ASSUME NEW o \in Orders, ConfirmOrder(o) PROVE RenewalsAddUp'
  <2>1. order[o] \in OrderRow /\ order[o].status # "none"
    BY <1>0, <1>2 DEF ConfirmOrder, Pending
  <2>2. order[o].user \in Users /\ order[o].item \in Items
    BY <2>1, OrderRows
  <2>3. TakeEffect(o, order[o].user, order[o].item)
    BY <1>2 DEF ConfirmOrder
  <2>4. QED
    BY <2>2, <2>3, ActivationAddsUp
<1>3. ASSUME NEW c \in Codes, NEW u \in Users, Redeem(u, c) PROVE RenewalsAddUp'
  <2>1. code[c] \in CodeRow /\ code[c].status # "none"
    BY <1>0, <1>3 DEF Redeem, Redeemable
  <2>2. code[c].item \in Items
    BY <2>1, CodeRows
  <2>3. TakeEffect(c, u, code[c].item)
    BY <1>3 DEF Redeem
  <2>4. QED
    BY <2>2, <2>3, ActivationAddsUp
<1>4. ASSUME NEW S, NEW lost, Downgrade(S, lost) PROVE RenewalsAddUp'
  BY <1>4 DEF Downgrade, Free, RenewalsAddUp
<1>5. ASSUME NEW u \in Users, DeleteAccount(u) PROVE RenewalsAddUp'
  BY <1>0, <1>5 DEF DeleteAccount, Free, RenewalsAddUp
<1>6. CASE DowngradeExpired
  BY <1>4, <1>6 DEF DowngradeExpired
<1>7. ASSUME NEW u \in Users, NEW done \in SUBSET Users, CrashInDowngrade(u, done) PROVE RenewalsAddUp'
  BY <1>4, <1>7 DEF CrashInDowngrade
<1>8. QED
  BY <1>1, <1>2, <1>3, <1>5, <1>6, <1>7
  DEF Next, vars, CreatePlan, UpdatePlan, DeletePlan, CreateOrder, CancelOrder, GenerateCode, DisableCode,
      DeleteGroup, ReplaceMembers, Tick

\* Whose subscription ends, account and all, has none left.
LEMMA DowngradeIsLate ==
    ASSUME TypeOK, RenewalsAddUp, [Next]_vars, NEW u \in accounts \cap accounts',
           sub[u].plan # NoPlan, sub'[u].plan = NoPlan
    PROVE  now > bought[u].since + bought[u].ticks
<1>0. /\ sub \in [Users -> SubRow] /\ bought \in [Users -> BoughtRow] /\ accounts \subseteq Users
      /\ now \in Nat /\ u \in Users
  BY TypesByRow, MembershipAssumption
<1>1. /\ sub[u].until = bought[u].since + bought[u].ticks
      /\ sub[u].until \in Nat
  BY <1>0 DEF RenewalsAddUp, SubRow
<1>2. ASSUME NEW S, NEW lost, Downgrade(S, lost), \A v \in S : Expired(v)
      PROVE  now > bought[u].since + bought[u].ticks
  <2>1. u \in S
    BY <1>0, <1>2 DEF Downgrade
  <2>2. QED
    BY <1>0, <1>1, <1>2, <2>1 DEF Expired
<1>3. CASE DowngradeExpired
  BY <1>2, <1>3 DEF DowngradeExpired
<1>4. ASSUME NEW v \in Users, NEW done \in SUBSET Users, CrashInDowngrade(v, done)
      PROVE  now > bought[u].since + bought[u].ticks
  BY <1>2, <1>4 DEF CrashInDowngrade
<1>5. ASSUME NEW v \in Users, NEW s, NEW item \in Items, TakeEffect(s, v, item)
      PROVE  FALSE
  <2>1. item \in Plans /\ Activate(v, item)
    BY <1>5 DEF TakeEffect, Items
  <2>2. sub'[u].plan = item \/ sub'[u] = sub[u]
    BY <1>0, <2>1 DEF Activate
  <2>3. QED
    BY <2>1, <2>2, MembershipAssumption
<1>6. ASSUME NEW o \in Orders, ConfirmOrder(o) PROVE FALSE
  <2>1. order[o] \in OrderRow /\ order[o].status # "none"
    BY TypesByRow, <1>6 DEF ConfirmOrder, Pending
  <2>2. order[o].user \in Users /\ order[o].item \in Items
    BY <2>1, OrderRows
  <2>3. QED
    BY <1>5, <1>6, <2>2 DEF ConfirmOrder
<1>7. ASSUME NEW c \in Codes, NEW v \in Users, Redeem(v, c) PROVE FALSE
  <2>1. code[c] \in CodeRow /\ code[c].status # "none"
    BY TypesByRow, <1>7 DEF Redeem, Redeemable
  <2>2. code[c].item \in Items
    BY <2>1, CodeRows
  <2>3. QED
    BY <1>5, <1>7, <2>2 DEF Redeem
<1>8. ASSUME NEW v \in Users, DeleteAccount(v) PROVE FALSE
  BY <1>0, <1>8 DEF DeleteAccount
<1>9. CASE UNCHANGED sub
  BY <1>9
<1>10. QED
  BY <1>3, <1>4, <1>6, <1>7, <1>8, <1>9
  DEF Next, vars, CreatePlan, UpdatePlan, DeletePlan, CreateOrder, CancelOrder, GenerateCode, DisableCode,
      DeleteGroup, ReplaceMembers, Tick

-----------------------------------------------------------------------------
(* What is there *)

\* Whom an order or a code may have an effect for, and which plan.
LEMMA WhoseEffect ==
    ASSUME TypeOK, RowsAreAlive
    PROVE  /\ \A o \in Orders : ConfirmOrder(o) =>
                 /\ order[o].user \in accounts /\ order[o].item \in Items
                 /\ TakeEffect(o, order[o].user, order[o].item)
           /\ \A c \in Codes, u \in Users : Redeem(u, c) =>
                 /\ u \in accounts /\ code[c].item \in Items
                 /\ TakeEffect(c, u, code[c].item)
<1>0. order \in [Orders -> OrderRow] /\ code \in [Codes -> CodeRow]
  BY TypesByRow
<1>1. ASSUME NEW o \in Orders, ConfirmOrder(o)
      PROVE  /\ order[o].user \in accounts /\ order[o].item \in Items
             /\ TakeEffect(o, order[o].user, order[o].item)
  <2>1. order[o] \in OrderRow /\ order[o].status # "none" /\ Pending(o)
    BY <1>0, <1>1 DEF ConfirmOrder, Pending
  <2>2. QED
    BY <1>1, <2>1, OrderRows DEF ConfirmOrder, RowsAreAlive
<1>2. ASSUME NEW c \in Codes, NEW u \in Users, Redeem(u, c)
      PROVE  u \in accounts /\ code[c].item \in Items /\ TakeEffect(c, u, code[c].item)
  <2>1. code[c] \in CodeRow /\ code[c].status # "none"
    BY <1>0, <1>2 DEF Redeem, Redeemable
  <2>2. QED
    BY <1>2, <2>1, CodeRows DEF Redeem
<1>3. QED
  BY <1>1, <1>2

\* A pending order has its user, a plan its group.
LEMMA AliveStep == TypeOK /\ RowsAreAlive /\ [Next]_vars => RowsAreAlive'
<1> SUFFICES ASSUME TypeOK, RowsAreAlive, [Next]_vars PROVE RowsAreAlive'
  OBVIOUS
<1>0. order \in [Orders -> OrderRow] /\ plan \in [Plans -> PlanRow]
  BY TypesByRow
<1>1. \A o \in Orders : Pending(o)' => order'[o].user \in accounts'
  <2>1. CASE UNCHANGED <<order, accounts>>
    BY <2>1 DEF RowsAreAlive, Pending
  <2>2. ASSUME NEW p \in Orders, NEW u \in Users, NEW item \in Items, CreateOrder(p, u, item),
               NEW o \in Orders, order'[o].status = "pending"
        PROVE  order'[o].user \in accounts'
    BY <1>0, <2>2 DEF CreateOrder, RowsAreAlive, Pending
  <2>3. ASSUME NEW p \in Orders, NEW st \in {"paid", "cancelled"}, order[p].status = "pending",
               order' = [order EXCEPT ![p].status = st], accounts' = accounts,
               NEW o \in Orders, order'[o].status = "pending"
        PROVE  order'[o].user \in accounts'
    <3>1. order[p] \in OrderRow
      BY <1>0
    <3>2. order'[p].status = st
      BY <1>0, <2>3, <3>1, OrderRows
    <3>3. order'[o] = order[o]
      BY <1>0, <2>3, <3>2
    <3>4. QED
      BY <2>3, <3>3 DEF RowsAreAlive, Pending
  <2>4. ASSUME NEW p \in Orders, ConfirmOrder(p) \/ CancelOrder(p)
        PROVE  \A o \in Orders : Pending(o)' => order'[o].user \in accounts'
    BY <2>3, <2>4 DEF ConfirmOrder, CancelOrder, Pending
  <2>5. ASSUME NEW u \in Users, DeleteAccount(u), NEW o \in Orders, order'[o].status = "pending"
        PROVE  order'[o].user \in accounts'
    <3>1. order[o] \in OrderRow
      BY <1>0
    <3>2. ~ (order[o].status # "none" /\ order[o].user = u)
      BY <2>5, <3>1, OrderRows DEF DeleteAccount
    <3>3. order'[o] = order[o]
      BY <2>5, <3>2 DEF DeleteAccount
    <3>4. QED
      BY <2>5, <3>2, <3>3 DEF DeleteAccount, RowsAreAlive, Pending
  <2>6. QED
    BY <2>1, <2>2, <2>4, <2>5
    DEF Next, vars, Pending, CreatePlan, UpdatePlan, DeletePlan, GenerateCode, DisableCode, Redeem,
        DowngradeExpired, CrashInDowngrade, Downgrade, DeleteGroup, ReplaceMembers, Tick
<1>2. \A p \in Plans : Exists(p)' => GroupOf[p] \in groups'
  <2>1. CASE UNCHANGED <<plan, groups>>
    BY <2>1 DEF RowsAreAlive, Exists
  <2>2. ASSUME NEW q \in Plans, NEW d \in Durations, CreatePlan(q, d)
        PROVE  \A p \in Plans : Exists(p)' => GroupOf[p] \in groups'
    BY <1>0, <2>2 DEF CreatePlan, RowsAreAlive, Exists
  <2>3. ASSUME NEW q \in Plans, NEW d \in Durations, NEW s \in {"on", "off"}, UpdatePlan(q, d, s)
        PROVE  \A p \in Plans : Exists(p)' => GroupOf[p] \in groups'
    BY <1>0, <2>3 DEF UpdatePlan, RowsAreAlive, Exists
  <2>4. ASSUME NEW q \in Plans, DeletePlan(q)
        PROVE  \A p \in Plans : Exists(p)' => GroupOf[p] \in groups'
    BY <1>0, <2>4 DEF DeletePlan, Deletable, RowsAreAlive, Exists
  <2>5. ASSUME NEW g \in Groups, DeleteGroup(g), NEW p \in Plans, Exists(p)'
        PROVE  GroupOf[p] \in groups'
    <3>1. plan[p] \in PlanRow
      BY <1>0
    <3>2. GroupOf[p] # g
      <4>1. SUFFICES ASSUME GroupOf[p] = g PROVE FALSE
        OBVIOUS
      <4>2. CASE Exists(p)
        <5>1. plan'[p] = [plan[p] EXCEPT !.row = "deleted"]
          BY <2>5, <4>1, <4>2 DEF DeleteGroup
        <5>2. plan'[p].row = "deleted"
          BY <3>1, <4>2, <5>1, PlanRows DEF Exists
        <5>3. QED
          BY <2>5, <5>2 DEF Exists
      <4>3. CASE ~ Exists(p)
        <5>1. plan'[p] = plan[p]
          BY <2>5, <4>3 DEF DeleteGroup
        <5>2. QED
          BY <2>5, <4>3, <5>1 DEF Exists
      <4>4. QED
        BY <4>2, <4>3
    <3>3. plan'[p] = plan[p]
      BY <2>5, <3>2 DEF DeleteGroup
    <3>4. Exists(p)
      BY <2>5, <3>3 DEF Exists
    <3>5. QED
      BY <2>5, <3>2, <3>4 DEF DeleteGroup, RowsAreAlive
  <2>6. QED
    BY <2>1, <2>2, <2>3, <2>4, <2>5
    DEF Next, vars, CreateOrder, ConfirmOrder, CancelOrder, GenerateCode, DisableCode, Redeem,
        DowngradeExpired, CrashInDowngrade, Downgrade, ReplaceMembers, DeleteAccount, Tick
<1>3. QED
  BY <1>1, <1>2 DEF RowsAreAlive

LEMMA PlansKeptStep == TypeOK /\ RowsAreAlive /\ PlansAreKept /\ [Next]_vars => PlansAreKept'
<1> SUFFICES ASSUME TypeOK, RowsAreAlive, PlansAreKept, [Next]_vars PROVE PlansAreKept'
  OBVIOUS
<1> USE MembershipAssumption
<1>0. sub \in [Users -> SubRow] /\ plan \in [Plans -> PlanRow] /\ accounts \subseteq Users
  BY TypesByRow
<1>1. \A u \in accounts : sub[u].plan \in Plans \cup {NoPlan}
  BY <1>0 DEF SubRow
<1>2. CASE UNCHANGED <<sub, plan, groups, accounts>>
  BY <1>2 DEF PlansAreKept, Exists
<1>3. ASSUME NEW q \in Plans, NEW d \in Durations, CreatePlan(q, d) PROVE PlansAreKept'
  BY <1>0, <1>1, <1>3 DEF CreatePlan, PlansAreKept, Exists
<1>4. ASSUME NEW q \in Plans, NEW d \in Durations, NEW s \in {"on", "off"}, UpdatePlan(q, d, s) PROVE PlansAreKept'
  BY <1>0, <1>1, <1>4 DEF UpdatePlan, PlansAreKept, Exists
<1>5. ASSUME NEW q \in Plans, DeletePlan(q) PROVE PlansAreKept'
  BY <1>0, <1>1, <1>5 DEF DeletePlan, Deletable, PlansAreKept, Exists
<1>6. ASSUME NEW u \in accounts, NEW s, NEW item \in Items, TakeEffect(s, u, item), UNCHANGED <<plan, groups, accounts>>
      PROVE  PlansAreKept'
  BY <1>0, <1>6 DEF TakeEffect, Activate, Items, PlansAreKept, Exists
<1>7. ASSUME NEW o \in Orders, ConfirmOrder(o) PROVE PlansAreKept'
  <2>1. UNCHANGED <<plan, groups, accounts>>
    BY <1>7 DEF ConfirmOrder
  <2>2. QED
    BY <1>6, <1>7, <2>1, WhoseEffect
<1>8. ASSUME NEW c \in Codes, NEW u \in Users, Redeem(u, c) PROVE PlansAreKept'
  <2>1. UNCHANGED <<plan, groups, accounts>>
    BY <1>8 DEF Redeem
  <2>2. QED
    BY <1>6, <1>8, <2>1, WhoseEffect
<1>9. ASSUME NEW S, NEW lost, Downgrade(S, lost) PROVE PlansAreKept'
  BY <1>0, <1>9 DEF Downgrade, Free, PlansAreKept, Exists
<1>10. CASE DowngradeExpired
  BY <1>9, <1>10 DEF DowngradeExpired
<1>11. ASSUME NEW u \in Users, NEW done \in SUBSET Users, CrashInDowngrade(u, done) PROVE PlansAreKept'
  BY <1>9, <1>11 DEF CrashInDowngrade
<1>12. ASSUME NEW g \in Groups, DeleteGroup(g) PROVE PlansAreKept'
  BY <1>0, <1>1, <1>12 DEF DeleteGroup, PlansAreKept, Exists
<1>13. ASSUME NEW u \in Users, DeleteAccount(u) PROVE PlansAreKept'
  BY <1>0, <1>13 DEF DeleteAccount, Free, PlansAreKept, Exists
<1>14. QED
  BY <1>2, <1>3, <1>4, <1>5, <1>7, <1>8, <1>10, <1>11, <1>12, <1>13
  DEF Next, vars, CreateOrder, CancelOrder, GenerateCode, DisableCode, ReplaceMembers, Tick

\* What a purchase does to members and byPlan.
LEMMA EffectMembers ==
    ASSUME TypeOK, RowsAreAlive, NEW u \in accounts, NEW s, NEW item \in Items, TakeEffect(s, u, item)
    PROVE  \/ UNCHANGED <<sub, members, byPlan>>
           \/ \E p \in Plans :
                /\ GroupOf[p] \in groups
                /\ sub'[u].plan = p
                /\ \A v \in Users \ {u} : sub'[v] = sub[v]
                /\ members' = members \cup {<<GroupOf[p], u>>}
                /\ byPlan' = byPlan \/ byPlan' = byPlan \cup {<<GroupOf[p], u>>}
<1>0. sub \in [Users -> SubRow] /\ accounts \subseteq Users
  BY TypesByRow
<1>1. CASE item = Tokens
  BY <1>1 DEF TakeEffect
<1>2. CASE item # Tokens
  <2>1. item \in Plans /\ Activate(u, item)
    BY <1>2 DEF TakeEffect, Items
  <2>2. GroupOf[item] \in groups
    BY <2>1 DEF Activate, RowsAreAlive
  <2>3. sub'[u].plan = item /\ \A v \in Users \ {u} : sub'[v] = sub[v]
    BY <1>0, <2>1 DEF Activate
  <2>4. /\ members' = members \cup {<<GroupOf[item], u>>}
        /\ byPlan' = byPlan \/ byPlan' = byPlan \cup {<<GroupOf[item], u>>}
    BY <2>1 DEF Activate
  <2>5. QED
    BY <2>1, <2>2, <2>3, <2>4
<1>3. QED
  BY <1>1, <1>2

LEMMA ByPlanStep == TypeOK /\ RowsAreAlive /\ ByPlanIsAlive /\ [Next]_vars => ByPlanIsAlive'
<1> SUFFICES ASSUME TypeOK, RowsAreAlive, ByPlanIsAlive, [Next]_vars PROVE ByPlanIsAlive'
  OBVIOUS
<1>1. ASSUME byPlan' \subseteq byPlan, groups' = groups, accounts' = accounts PROVE ByPlanIsAlive'
  BY <1>1 DEF ByPlanIsAlive
<1>2. ASSUME NEW u \in accounts, NEW s, NEW item \in Items, TakeEffect(s, u, item), UNCHANGED <<groups, accounts>>
      PROVE  ByPlanIsAlive'
  <2>1. CASE UNCHANGED <<sub, members, byPlan>>
    BY <1>1, <1>2, <2>1
  <2>2. ASSUME NEW p \in Plans, GroupOf[p] \in groups,
               byPlan' = byPlan \/ byPlan' = byPlan \cup {<<GroupOf[p], u>>}
        PROVE  ByPlanIsAlive'
    BY <1>2, <2>2 DEF ByPlanIsAlive
  <2>3. QED
    BY <1>2, <2>1, <2>2, EffectMembers
<1>3. ASSUME NEW o \in Orders, ConfirmOrder(o) PROVE ByPlanIsAlive'
  <2>1. UNCHANGED <<groups, accounts>>
    BY <1>3 DEF ConfirmOrder
  <2>2. QED
    BY <1>2, <1>3, <2>1, WhoseEffect
<1>4. ASSUME NEW c \in Codes, NEW u \in Users, Redeem(u, c) PROVE ByPlanIsAlive'
  <2>1. UNCHANGED <<groups, accounts>>
    BY <1>4 DEF Redeem
  <2>2. QED
    BY <1>2, <1>4, <2>1, WhoseEffect
<1>5. ASSUME NEW g \in Groups, DeleteGroup(g) PROVE ByPlanIsAlive'
  BY <1>5 DEF DeleteGroup, ByPlanIsAlive
<1>6. ASSUME NEW u \in Users, DeleteAccount(u) PROVE ByPlanIsAlive'
  BY <1>6 DEF DeleteAccount, ByPlanIsAlive
<1>7. ASSUME NEW g \in Groups, NEW list \in SUBSET Users, ReplaceMembers(g, list) PROVE ByPlanIsAlive'
  BY <1>1, <1>7 DEF ReplaceMembers
<1>8. CASE DowngradeExpired
  BY <1>1, <1>8 DEF DowngradeExpired, Downgrade
<1>9. ASSUME NEW u \in Users, NEW done \in SUBSET Users, CrashInDowngrade(u, done) PROVE ByPlanIsAlive'
  BY <1>1, <1>9 DEF CrashInDowngrade, Downgrade
<1>10. CASE UNCHANGED <<byPlan, groups, accounts>>
  BY <1>1, <1>10
<1>11. QED
  BY <1>3, <1>4, <1>5, <1>6, <1>7, <1>8, <1>9, <1>10
  DEF Next, vars, CreatePlan, UpdatePlan, DeletePlan, CreateOrder, CancelOrder, GenerateCode, DisableCode, Tick

-----------------------------------------------------------------------------
(* Groups and subscriptions *)

\* Nobody can switch to a plan of another group.
OneGroup == \A p, q \in Plans : GroupOf[p] = GroupOf[q]

LEMMA SubscriberStep ==
    ~ AdminEdits /\ IInv /\ SubscriberInGroup /\ [Next]_vars => SubscriberInGroup'
<1> SUFFICES ASSUME ~ AdminEdits, IInv, SubscriberInGroup, [Next]_vars PROVE SubscriberInGroup'
  OBVIOUS
<1> USE MembershipAssumption
<1>0. /\ TypeOK /\ RowsAreAlive
      /\ sub \in [Users -> SubRow] /\ accounts \subseteq Users
  BY TypesByRow DEF IInv
<1>1. CASE UNCHANGED <<sub, members, accounts>>
  BY <1>1 DEF SubscriberInGroup
<1>2. ASSUME NEW u \in accounts, NEW s, NEW item \in Items, TakeEffect(s, u, item), accounts' = accounts
      PROVE  SubscriberInGroup'
  <2>1. CASE UNCHANGED <<sub, members, byPlan>>
    BY <1>1, <1>2, <2>1
  <2>2. ASSUME NEW p \in Plans, sub'[u].plan = p, \A v \in Users \ {u} : sub'[v] = sub[v],
               members' = members \cup {<<GroupOf[p], u>>}
        PROVE  SubscriberInGroup'
    BY <1>0, <1>2, <2>2 DEF SubscriberInGroup
  <2>3. QED
    BY <1>0, <1>2, <2>1, <2>2, EffectMembers
<1>3. ASSUME NEW o \in Orders, ConfirmOrder(o) PROVE SubscriberInGroup'
  <2>1. accounts' = accounts
    BY <1>3 DEF ConfirmOrder
  <2>2. QED
    BY <1>0, <1>2, <1>3, <2>1, WhoseEffect
<1>4. ASSUME NEW c \in Codes, NEW u \in Users, Redeem(u, c) PROVE SubscriberInGroup'
  <2>1. accounts' = accounts
    BY <1>4 DEF Redeem
  <2>2. QED
    BY <1>0, <1>2, <1>4, <2>1, WhoseEffect
<1>5. ASSUME NEW S, NEW R \in SUBSET S, Downgrade(S, LostMembers(R)) PROVE SubscriberInGroup'
  <2>1. \A m \in LostMembers(R) : m[2] \in S
    BY DEF LostMembers
  <2>2. SUFFICES ASSUME NEW u \in accounts', sub'[u].plan # NoPlan
                 PROVE  <<GroupOf[sub'[u].plan], u>> \in members'
    BY DEF SubscriberInGroup
  <2>3. u \in accounts /\ u \notin S /\ sub'[u] = sub[u]
    BY <1>0, <1>5, <2>2 DEF Downgrade, Free
  <2>4. <<GroupOf[sub[u].plan], u>> \in members
    BY <2>2, <2>3 DEF SubscriberInGroup
  <2>5. <<GroupOf[sub[u].plan], u>> \notin LostMembers(R)
    BY <2>1, <2>3
  <2>6. QED
    BY <1>5, <2>3, <2>4, <2>5 DEF Downgrade
<1>6. CASE DowngradeExpired
  BY <1>5, <1>6 DEF DowngradeExpired
<1>7. ASSUME NEW u \in Users, NEW done \in SUBSET Users, CrashInDowngrade(u, done) PROVE SubscriberInGroup'
  <2>1. done \ {u} \in SUBSET (done \cup {u})
    OBVIOUS
  <2>2. QED
    BY <1>5, <1>7, <2>1 DEF CrashInDowngrade
<1>8. QED
  BY <1>1, <1>3, <1>4, <1>6, <1>7
  DEF Next, vars, CreatePlan, UpdatePlan, DeletePlan, CreateOrder, CancelOrder, GenerateCode, DisableCode,
      DeleteGroup, ReplaceMembers, DeleteAccount, Tick

LEMMA GroupsFollowStep ==
    OneGroup /\ ~ HalfWrites /\ IInv /\ GroupsFollowSubscriptions /\ [Next]_vars => GroupsFollowSubscriptions'
<1> SUFFICES ASSUME OneGroup, ~ HalfWrites, IInv, GroupsFollowSubscriptions, [Next]_vars
             PROVE  GroupsFollowSubscriptions'
  OBVIOUS
<1> USE MembershipAssumption
<1>0. /\ TypeOK /\ RowsAreAlive /\ PlansAreKept /\ ByPlanIsAlive
      /\ sub \in [Users -> SubRow] /\ accounts \subseteq Users
      /\ byPlan \subseteq Groups \X Users
  BY TypesByRow DEF IInv
<1>1. ASSUME byPlan' \subseteq byPlan, sub' = sub PROVE GroupsFollowSubscriptions'
  BY <1>1 DEF GroupsFollowSubscriptions
<1>2. ASSUME NEW u \in accounts, NEW s, NEW item \in Items, TakeEffect(s, u, item)
      PROVE  GroupsFollowSubscriptions'
  <2>1. CASE UNCHANGED <<sub, members, byPlan>>
    BY <1>1, <2>1
  <2>2. ASSUME NEW p \in Plans, sub'[u].plan = p, \A v \in Users \ {u} : sub'[v] = sub[v],
               byPlan' = byPlan \/ byPlan' = byPlan \cup {<<GroupOf[p], u>>}, NEW m \in byPlan'
        PROVE  sub'[m[2]].plan # NoPlan /\ GroupOf[sub'[m[2]].plan] = m[1]
    <3>1. CASE m \in byPlan /\ m[2] # u
      BY <1>0, <2>2, <3>1 DEF GroupsFollowSubscriptions
    <3>2. CASE m \in byPlan /\ m[2] = u
      <4>1. sub[u].plan # NoPlan /\ GroupOf[sub[u].plan] = m[1] /\ u \in Users
        BY <1>0, <3>2 DEF GroupsFollowSubscriptions
      <4>2. sub[u].plan \in Plans
        BY <1>0, <4>1 DEF SubRow
      <4>3. GroupOf[p] = m[1]
        BY <2>2, <4>1, <4>2 DEF OneGroup
      <4>4. QED
        BY <2>2, <3>2, <4>3
    <3>3. CASE m = <<GroupOf[p], u>>
      BY <2>2, <3>3
    <3>4. QED
      BY <2>2, <3>1, <3>2, <3>3
  <2>3. QED
    BY <1>0, <1>2, <2>1, <2>2, EffectMembers DEF GroupsFollowSubscriptions
<1>3. ASSUME NEW o \in Orders, ConfirmOrder(o) PROVE GroupsFollowSubscriptions'
  BY <1>0, <1>2, <1>3, WhoseEffect
<1>4. ASSUME NEW c \in Codes, NEW u \in Users, Redeem(u, c) PROVE GroupsFollowSubscriptions'
  BY <1>0, <1>2, <1>4, WhoseEffect
<1>5. CASE DowngradeExpired
  <2> DEFINE S == {u \in accounts : Expired(u)}
  <2>1. Downgrade(S, LostMembers(S))
    BY <1>5 DEF DowngradeExpired
  <2>2. SUFFICES ASSUME NEW m \in byPlan'
                 PROVE  sub'[m[2]].plan # NoPlan /\ GroupOf[sub'[m[2]].plan] = m[1]
    BY DEF GroupsFollowSubscriptions
  <2>3. m \in byPlan /\ m \notin LostMembers(S)
    BY <2>1, <2>2 DEF Downgrade
  <2>4. /\ m[2] \in accounts /\ m[1] \in groups /\ m = <<m[1], m[2]>>
        /\ sub[m[2]].plan # NoPlan /\ GroupOf[sub[m[2]].plan] = m[1]
    BY <1>0, <2>3 DEF ByPlanIsAlive, GroupsFollowSubscriptions
  <2>5. Exists(sub[m[2]].plan)
    BY <1>0, <2>4 DEF PlansAreKept
  <2>6. m[2] \notin S
    BY <2>3, <2>4, <2>5 DEF LostMembers
  <2>7. sub'[m[2]] = sub[m[2]]
    BY <1>0, <2>1, <2>4, <2>6 DEF Downgrade
  <2>8. QED
    BY <2>4, <2>7
<1>6. ASSUME NEW u \in Users, DeleteAccount(u) PROVE GroupsFollowSubscriptions'
  BY <1>0, <1>6 DEF DeleteAccount, GroupsFollowSubscriptions
<1>7. ASSUME NEW g \in Groups, DeleteGroup(g) PROVE GroupsFollowSubscriptions'
  BY <1>1, <1>7 DEF DeleteGroup
<1>8. ASSUME NEW g \in Groups, NEW list \in SUBSET Users, ReplaceMembers(g, list) PROVE GroupsFollowSubscriptions'
  BY <1>1, <1>8 DEF ReplaceMembers
<1>9. CASE UNCHANGED <<sub, byPlan>>
  BY <1>1, <1>9
<1>10. QED
  BY <1>3, <1>4, <1>5, <1>6, <1>7, <1>8, <1>9
  DEF Next, vars, CreatePlan, UpdatePlan, DeletePlan, CreateOrder, CancelOrder, GenerateCode, DisableCode,
      CrashInDowngrade, Tick

-----------------------------------------------------------------------------
(* Theorems *)

LEMMA IInvInitially == Init => IInv /\ MembersFollowPlans
<1> SUFFICES ASSUME Init PROVE IInv /\ MembersFollowPlans
  OBVIOUS
<1> USE MembershipAssumption
<1>1. TypeOK
  BY TypesInitially
<1>2. RowsAreAlive /\ PlansAreKept /\ ByPlanIsAlive
  BY DEF Init, RowsAreAlive, PlansAreKept, ByPlanIsAlive, Pending, Exists, Free
<1>3. EffectIffSettled
  BY DEF Init, EffectIffSettled, Settled
<1>4. RenewalsAddUp
  BY DEF Init, RenewalsAddUp, Free
<1>5. MembersFollowPlans
  BY DEF Init, MembersFollowPlans, SubscriberInGroup, GroupsFollowSubscriptions, Free
<1>6. QED
  BY <1>1, <1>2, <1>3, <1>4, <1>5 DEF IInv

LEMMA IInvStep == IInv /\ [Next]_vars => IInv'
BY TypesStep, AliveStep, PlansKeptStep, ByPlanStep, EffectStep, RenewalStep DEF IInv

LEMMA IInvHolds == Spec => []IInv
<1>1. Init => IInv
  BY IInvInitially
<1>2. QED
  BY <1>1, IInvStep, PTL DEF Spec

\* Every reachable state has the types of the model.
THEOREM TypeCorrect == Spec => []TypeOK
<1>1. IInv => TypeOK
  BY DEF IInv
<1>2. QED
  BY <1>1, IInvHolds, PTL

\* To be paid, or used, and to take effect live and die together: whoever
\* confirms, cancels, redeems, disables or deletes in between.
THEOREM EffectIffSettledHolds == Spec => []EffectIffSettled
<1>1. IInv => EffectIffSettled
  BY DEF IInv
<1>2. QED
  BY <1>1, IInvHolds, PTL

\* A subscription lasts as many ticks as were bought since it began, and
\* nobody is downgraded before they are over: with a settlement loop that
\* dies in between, and with admins that change the plans.
THEOREM SubscriptionsLastHolds == Spec => SubscriptionsLast
<1> DEFINE Early == \A u \in accounts \cap accounts' :
                      sub[u].plan # NoPlan /\ sub'[u].plan = NoPlan
                      => now > bought[u].since + bought[u].ticks
<1>1. IInv => RenewalsAddUp
  BY DEF IInv
<1>2. IInv /\ [Next]_vars => Early
  BY DowngradeIsLate DEF IInv
<1>3. IInv /\ [Next]_vars => [Early]_vars
  BY <1>2
<1> HIDE DEF Early
<1>4. Spec => [][Early]_vars
  BY <1>3, IInvHolds, PTL DEF Spec
<1>5. Spec => NoEarlyDowngrade
  BY <1>4 DEF NoEarlyDowngrade, Early
<1>6. QED
  BY <1>1, <1>5, IInvHolds, PTL DEF SubscriptionsLast

\* While a subscription runs its user is in the group of the plan, unless an
\* admin edits the group: whatever is bought, renewed and ended in between,
\* wherever a downgrade is cut, with any plans of any groups.
THEOREM SubscriberInGroupHolds ==
    ASSUME ~ AdminEdits
    PROVE  Spec => []SubscriberInGroup
<1>1. Init => SubscriberInGroup
  BY IInvInitially DEF MembersFollowPlans
<1>2. IInv /\ SubscriberInGroup /\ [Next]_vars => SubscriberInGroup'
  BY SubscriberStep
<1>3. QED
  BY <1>1, <1>2, IInvHolds, PTL DEF Spec

\* Whom a plan put into a group has a plan for it, whatever admins edit and
\* delete, where the plans share their group and downgrades run to the end.
THEOREM GroupsFollowHolds ==
    ASSUME OneGroup, ~ HalfWrites
    PROVE  Spec => []GroupsFollowSubscriptions
<1>1. Init => GroupsFollowSubscriptions
  BY IInvInitially DEF MembersFollowPlans
<1>2. IInv /\ GroupsFollowSubscriptions /\ [Next]_vars => GroupsFollowSubscriptions'
  BY GroupsFollowStep
<1>3. QED
  BY <1>1, <1>2, IInvHolds, PTL DEF Spec

\* Both directions, under the assumptions of both.
THEOREM MembersFollowPlansHolds ==
    ASSUME ~ AdminEdits, ~ HalfWrites, OneGroup
    PROVE  Spec => []MembersFollowPlans
<1>1. SubscriberInGroup /\ GroupsFollowSubscriptions => MembersFollowPlans
  BY DEF MembersFollowPlans
<1>2. QED
  BY <1>1, SubscriberInGroupHolds, GroupsFollowHolds, PTL

-----------------------------------------------------------------------------
(* Limiter: what a key got above the steady rate is missing in its bucket, *)
(* however long ago the bucket was looked at; a bucket that was taken away *)
(* was idle for so long that nothing was missing in it any more.           *)

\* The largest that a bucket can hold by now: it was filled with the largest
\* setting since the last look.
Most(b) == Lim!Least(Lim!CapMax * Minute, b.tokens + b.age * Lim!CapMax)

\* What a key got above the steady rate is missing in its bucket.
Missing ==
    \A k \in Lim!Keys : /\ bucket[k] = None => above[k] = 0
                        /\ bucket[k] # None => above[k] + Most(bucket[k]) <= Lim!CapMax * Minute

LimInv == Lim!TypeOK /\ Missing

LEMMA LimCaps ==
    ASSUME Lim!LimiterAssumption
    PROVE  /\ Lim!CapMax \in Caps /\ Lim!CapMax \in Nat \ {0} /\ \A c \in Caps : c \in Nat \ {0} /\ c <= Lim!CapMax
           /\ Lim!CapMax * Minute \in Nat \ {0} /\ Lim!Horizon \in Nat
           /\ \A c \in Caps : c * Minute \in Nat \ {0} /\ c * Minute <= Lim!CapMax * Minute /\ Minute <= c * Minute
<1>1. PICK m \in Caps : \A d \in Caps : d <= m
  BY DEF Lim!LimiterAssumption
<1>2. Lim!CapMax \in Caps /\ \A d \in Caps : d <= Lim!CapMax
  BY <1>1 DEF Lim!CapMax
<1>3. Lim!CapMax \in Nat \ {0} /\ Minute \in Nat \ {0} /\ IdleFor \in Nat /\ \A c \in Caps : c \in Nat \ {0}
  BY <1>2 DEF Lim!LimiterAssumption
<1>4. ASSUME NEW c \in Nat \ {0}, c <= Lim!CapMax
      PROVE  c * Minute \in Nat \ {0} /\ c * Minute <= Lim!CapMax * Minute /\ Minute <= c * Minute
  BY <1>3, <1>4
<1>5. QED
  BY <1>2, <1>3, <1>4 DEF Lim!Horizon

\* Products, which the leaves below treat as numbers.
LEMMA OneMoreTick ==
    ASSUME NEW x \in Nat, NEW y \in Nat
    PROVE  (x + 1) * y = x * y + y /\ x * y \in Nat
    OBVIOUS

LEMMA LimMost ==
    ASSUME Lim!LimiterAssumption, NEW b \in Lim!Bucket
    PROVE  /\ b.tokens \in Nat /\ b.age \in Nat /\ b.age * Lim!CapMax \in Nat
           /\ Most(b) \in Nat /\ Most(b) <= Lim!CapMax * Minute
           /\ b.age = 0 => Most(b) = b.tokens
           /\ b.age > IdleFor => Most(b) = Lim!CapMax * Minute
           /\ \A c \in Caps : Lim!Least(c * Minute, b.tokens + b.age * c) \in Nat
                           /\ Lim!Least(c * Minute, b.tokens + b.age * c) <= Most(b)
<1>1. b.tokens \in Nat /\ b.age \in Nat /\ b.tokens <= Lim!CapMax * Minute
  BY LimCaps DEF Lim!Bucket
<1>2. b.age * Lim!CapMax \in Nat
  BY <1>1, LimCaps
<1>3. b.age > IdleFor => b.age * Lim!CapMax >= Lim!CapMax * Minute
  <2>1. Minute \in Nat /\ Lim!CapMax \in Nat /\ (b.age > IdleFor => b.age >= Minute)
    BY <1>1, LimCaps DEF Lim!LimiterAssumption
  <2>2. b.age >= Minute => b.age * Lim!CapMax >= Minute * Lim!CapMax
    BY <1>1, <2>1
  <2>3. QED
    BY <2>1, <2>2
<1>4. ASSUME NEW c \in Caps
      PROVE  b.age * c \in Nat /\ b.age * c <= b.age * Lim!CapMax /\ c * Minute \in Nat /\ c * Minute <= Lim!CapMax * Minute
  <2>1. c \in Nat /\ c <= Lim!CapMax /\ Lim!CapMax \in Nat
    BY LimCaps
  <2>2. b.age * c \in Nat /\ b.age * c <= b.age * Lim!CapMax
    BY <1>1, <2>1
  <2>3. QED
    BY <2>2, LimCaps
<1>5. Lim!CapMax * Minute \in Nat
  BY LimCaps
<1>6. Most(b) = IF Lim!CapMax * Minute < b.tokens + b.age * Lim!CapMax THEN Lim!CapMax * Minute ELSE b.tokens + b.age * Lim!CapMax
  BY DEF Most, Lim!Least
<1>7. Most(b) \in Nat /\ Most(b) <= Lim!CapMax * Minute
  BY <1>1, <1>2, <1>5, <1>6
<1>8. b.age = 0 => Most(b) = b.tokens
  <2>1. Lim!CapMax \in Nat /\ (b.age = 0 => b.age * Lim!CapMax = 0)
    BY LimCaps
  <2>2. QED
    BY <1>1, <1>5, <1>6, <2>1
<1>9. b.age > IdleFor => Most(b) = Lim!CapMax * Minute
  BY <1>1, <1>2, <1>3, <1>5, <1>6
<1>10. ASSUME NEW c \in Caps
       PROVE  /\ Lim!Least(c * Minute, b.tokens + b.age * c) \in Nat
              /\ Lim!Least(c * Minute, b.tokens + b.age * c) <= Most(b)
  <2> DEFINE e == c * Minute
             g == b.age * c
             h == Lim!CapMax * Minute
             i == b.age * Lim!CapMax
  <2>1. e \in Nat /\ g \in Nat /\ h \in Nat /\ i \in Nat /\ g <= i /\ e <= h
    BY <1>2, <1>4, <1>5
  <2>2. Most(b) = IF h < b.tokens + i THEN h ELSE b.tokens + i
    BY <1>6
  <2>3. Lim!Least(e, b.tokens + g) = IF e < b.tokens + g THEN e ELSE b.tokens + g
    BY DEF Lim!Least
  <2> HIDE DEF e, g, h, i
  <2>4. Lim!Least(e, b.tokens + g) \in Nat /\ Lim!Least(e, b.tokens + g) <= Most(b)
    BY <1>1, <2>1, <2>2, <2>3
  <2>5. QED
    BY <2>4 DEF e, g
<1>11. QED
  BY <1>1, <1>2, <1>7, <1>8, <1>9, <1>10

LEMMA LimInit ==
    ASSUME Lim!LimiterAssumption, Lim!Init
    PROVE  LimInv
  BY DEF Lim!Init, LimInv, Lim!TypeOK, Missing

\* A look at a bucket: what is taken out is counted.
LEMMA LimLook ==
    ASSUME Lim!LimiterAssumption, LimInv, NEW k \in Lim!Keys,
           NEW r, r = [tokens |-> IF Lim!Allows(k) THEN Lim!Refilled(k) - Minute ELSE Lim!Refilled(k), age |-> 0]
    PROVE  /\ r \in Lim!Bucket
           /\ (IF Lim!Allows(k) THEN above[k] + Minute ELSE above[k]) + Most(r) <= Lim!CapMax * Minute
<1>1. Minute \in Nat /\ Lim!CapMax * Minute \in Nat /\ above[k] \in Nat /\ Lim!Horizon \in Nat
  BY LimCaps DEF LimInv, Lim!TypeOK, Lim!LimiterAssumption
<1>2. Lim!Refilled(k) \in Nat /\ above[k] + Lim!Refilled(k) <= Lim!CapMax * Minute
  <2>1. cap \in Caps
    BY DEF LimInv, Lim!TypeOK
  <2>2. CASE bucket[k] = None
    BY <2>1, <2>2, <1>1, LimCaps DEF Lim!Refilled, LimInv, Missing
  <2>3. CASE bucket[k] # None
    <3>1. bucket[k] \in Lim!Bucket
      BY <2>3 DEF LimInv, Lim!TypeOK
    <3>2. Lim!Refilled(k) \in Nat /\ Lim!Refilled(k) <= Most(bucket[k])
      BY <2>1, <2>3, <3>1, LimMost DEF Lim!Refilled
    <3>3. above[k] + Most(bucket[k]) <= Lim!CapMax * Minute /\ Most(bucket[k]) \in Nat
      BY <2>3, <3>1, LimMost DEF LimInv, Missing
    <3>4. QED
      BY <1>1, <3>2, <3>3
  <2>4. QED
    BY <2>2, <2>3
<1>3. r.tokens \in Nat /\ r.age = 0 /\ r.tokens <= Lim!CapMax * Minute
      /\ (IF Lim!Allows(k) THEN above[k] + Minute ELSE above[k]) + r.tokens <= Lim!CapMax * Minute
  BY <1>1, <1>2 DEF Lim!Allows
<1>4. r \in Lim!Bucket
  <2>1. r = [tokens |-> r.tokens, age |-> 0]
    OBVIOUS
  <2>2. QED
    BY <1>1, <1>3, <2>1 DEF Lim!Bucket
<1>5. QED
  BY <1>3, <1>4, LimMost

\* What a cleanup takes could be full by now.
LEMMA LimCleaned ==
    ASSUME Lim!LimiterAssumption, NEW b \in [Lim!Keys -> Lim!Bucket \cup {None}], NEW K \in SUBSET Lim!Keys, NEW k \in Lim!Keys
    PROVE  /\ Lim!Cleaned(b, K) \in [Lim!Keys -> Lim!Bucket \cup {None}]
           /\ Lim!Cleaned(b, K)[k] = b[k] \/ (Lim!Cleaned(b, K)[k] = None /\ b[k] \in Lim!Bucket /\ b[k].age > IdleFor)
  BY DEF Lim!Cleaned

\* What a bucket holds, and what its key got, after a look or a cleanup.
LimFits(b, a) ==
    b \in Lim!Bucket \cup {None} /\ a \in Nat /\ (IF b = None THEN a = 0 ELSE a + Most(b) <= Lim!CapMax * Minute)

LEMMA LimFitsAll ==
    ASSUME Lim!LimiterAssumption, LimInv, cap' \in Caps, bucket' \in [Lim!Keys -> Lim!Bucket \cup {None}],
           above' \in [Lim!Keys -> Nat], \A k \in Lim!Keys : LimFits(bucket'[k], above'[k])
    PROVE  LimInv'
  BY DEF LimInv, Lim!TypeOK, Missing, LimFits

LEMMA LimFitsNow ==
    ASSUME Lim!LimiterAssumption, LimInv, NEW k \in Lim!Keys
    PROVE  /\ LimFits(bucket[k], above[k])
           /\ LimFits(Lim!Looked(bucket, k)[k], IF Lim!Allows(k) THEN above[k] + Minute ELSE above[k])
<1>1. LimFits(bucket[k], above[k])
  BY DEF LimInv, Lim!TypeOK, Missing, LimFits
<1> DEFINE r == [tokens |-> IF Lim!Allows(k) THEN Lim!Refilled(k) - Minute ELSE Lim!Refilled(k), age |-> 0]
<1>2. Lim!Looked(bucket, k)[k] = r
  BY DEF Lim!Looked, LimInv, Lim!TypeOK
<1>3. r \in Lim!Bucket /\ (IF Lim!Allows(k) THEN above[k] + Minute ELSE above[k]) + Most(r) <= Lim!CapMax * Minute
  BY LimLook
<1>4. (IF Lim!Allows(k) THEN above[k] + Minute ELSE above[k]) \in Nat
  BY DEF LimInv, Lim!TypeOK, Lim!LimiterAssumption
<1>5. r # None
  BY <1>3 DEF Lim!LimiterAssumption
<1> HIDE DEF r
<1>6. QED
  BY <1>1, <1>2, <1>3, <1>4, <1>5 DEF LimFits

\* A cleanup takes a bucket only from a key that is owed nothing any more.
LEMMA LimCleanupFits ==
    ASSUME Lim!LimiterAssumption, NEW b \in [Lim!Keys -> Lim!Bucket \cup {None}], NEW K \in SUBSET Lim!Keys, NEW k \in Lim!Keys,
           NEW a, LimFits(b[k], a)
    PROVE  LimFits(Lim!Cleaned(b, K)[k], a)
<1>1. CASE Lim!Cleaned(b, K)[k] = b[k]
  BY <1>1
<1>2. CASE Lim!Cleaned(b, K)[k] = None /\ b[k] \in Lim!Bucket /\ b[k].age > IdleFor
  <2>1. Most(b[k]) = Lim!CapMax * Minute /\ Lim!CapMax * Minute \in Nat
    BY <1>2, LimMost, LimCaps
  <2>2. a + Lim!CapMax * Minute <= Lim!CapMax * Minute /\ a \in Nat
    BY <1>2, <2>1 DEF LimFits, Lim!LimiterAssumption
  <2>3. a = 0
    BY <2>1, <2>2
  <2>4. QED
    BY <1>2, <2>3 DEF LimFits
<1>3. QED
  BY <1>1, <1>2, LimCleaned

LEMMA LimLookedType ==
    ASSUME Lim!LimiterAssumption, LimInv, NEW b \in [Lim!Keys -> Lim!Bucket \cup {None}], NEW k \in Lim!Keys
    PROVE  /\ Lim!Looked(b, k) \in [Lim!Keys -> Lim!Bucket \cup {None}]
           /\ Lim!Looked(b, k)[k] = Lim!Looked(bucket, k)[k]
           /\ \A j \in Lim!Keys : j # k => Lim!Looked(b, k)[j] = b[j]
<1> DEFINE r == [tokens |-> IF Lim!Allows(k) THEN Lim!Refilled(k) - Minute ELSE Lim!Refilled(k), age |-> 0]
<1>1. r \in Lim!Bucket
  BY LimLook
<1>2. bucket \in [Lim!Keys -> Lim!Bucket \cup {None}]
  BY DEF LimInv, Lim!TypeOK
<1>3. Lim!Looked(b, k) = [b EXCEPT ![k] = r] /\ Lim!Looked(bucket, k) = [bucket EXCEPT ![k] = r]
  BY DEF Lim!Looked
<1> HIDE DEF r
<1>4. QED
  BY <1>1, <1>2, <1>3

LEMMA LimAsk ==
    ASSUME Lim!LimiterAssumption, LimInv, NEW u \in Visitors \cup {None}, NEW ip \in Addresses, Lim!Ask(u, ip)
    PROVE  LimInv'
<1>0. /\ bucket \in [Lim!Keys -> Lim!Bucket \cup {None}] /\ above \in [Lim!Keys -> Nat] /\ cap' \in Caps
      /\ Minute \in Nat /\ Visitors \in SUBSET Lim!Keys /\ Addresses \in SUBSET Lim!Keys /\ ip \in Lim!Keys
      /\ u # None => u \in Lim!Keys /\ u # ip
  BY DEF LimInv, Lim!TypeOK, Lim!Ask, Lim!LimiterAssumption, Lim!Keys
<1>1. CASE /\ u # None /\ ~ Lim!Allows(u)
           /\ bucket' = Lim!Cleaned(Lim!Looked(bucket, u), Visitors) /\ above' = above
  <2> DEFINE b == Lim!Looked(bucket, u)
  <2>1. b \in [Lim!Keys -> Lim!Bucket \cup {None}] /\ \A j \in Lim!Keys : j # u => b[j] = bucket[j]
    BY <1>0, <1>1, LimLookedType
  <2>2. \A j \in Lim!Keys : LimFits(b[j], above[j])
    BY <1>0, <1>1, <2>1, LimFitsNow
  <2> HIDE DEF b
  <2>3. \A j \in Lim!Keys : LimFits(bucket'[j], above'[j])
    BY <1>0, <1>1, <2>1, <2>2, LimCleanupFits DEF b
  <2>4. bucket' \in [Lim!Keys -> Lim!Bucket \cup {None}]
    BY <1>0, <1>1, <2>1, LimCleaned DEF b
  <2>5. QED
    BY <1>0, <1>1, <2>3, <2>4, LimFitsAll
<1>2. ASSUME u # None => Lim!Allows(u)
      PROVE  LET b == IF u = None THEN bucket ELSE Lim!Looked(bucket, u)
                 paid == (IF u = None THEN {} ELSE {u}) \cup (IF Lim!Allows(ip) THEN {ip} ELSE {})
             IN  /\ bucket' = (IF Lim!Allows(ip) THEN Lim!Looked(b, ip) ELSE Lim!Cleaned(Lim!Looked(b, ip), Addresses))
                 /\ above' = [k \in Lim!Keys |-> IF k \in paid THEN above[k] + Minute ELSE above[k]]
                 => LimInv'
  <2> DEFINE b == IF u = None THEN bucket ELSE Lim!Looked(bucket, u)
             c == Lim!Looked(b, ip)
             paid == (IF u = None THEN {} ELSE {u}) \cup (IF Lim!Allows(ip) THEN {ip} ELSE {})
             a == [k \in Lim!Keys |-> IF k \in paid THEN above[k] + Minute ELSE above[k]]
  <2>1. b \in [Lim!Keys -> Lim!Bucket \cup {None}] /\ (\A j \in Lim!Keys : j # u => b[j] = bucket[j])
        /\ (u # None => b[u] = Lim!Looked(bucket, u)[u])
    BY <1>0, LimLookedType
  <2> HIDE DEF b
  <2>2. c \in [Lim!Keys -> Lim!Bucket \cup {None}] /\ (\A j \in Lim!Keys : j # ip => c[j] = b[j])
        /\ c[ip] = Lim!Looked(bucket, ip)[ip]
    BY <1>0, <2>1, LimLookedType
  <2>3. a \in [Lim!Keys -> Nat]
    BY <1>0
  <2>4. ASSUME NEW j \in Lim!Keys
        PROVE  LimFits(c[j], a[j])
    <3>1. CASE j = ip
      <4>1. a[j] = IF Lim!Allows(ip) THEN above[ip] + Minute ELSE above[ip]
        BY <1>0, <3>1
      <4>2. QED
        BY <2>2, <3>1, <4>1, LimFitsNow
    <3>2. CASE u # None /\ j = u
      <4>1. a[j] = above[u] + Minute /\ Lim!Allows(u)
        BY <1>2, <3>2
      <4>2. c[j] = Lim!Looked(bucket, u)[u]
        BY <1>0, <2>1, <2>2, <3>2
      <4>3. QED
        BY <3>2, <4>1, <4>2, LimFitsNow
    <3>3. CASE j # ip /\ j # u
      <4>1. a[j] = above[j] /\ c[j] = bucket[j]
        BY <2>1, <2>2, <3>3
      <4>2. QED
        BY <4>1, LimFitsNow
    <3>4. j # None
      BY DEF Lim!LimiterAssumption, Lim!Keys
    <3> HIDE DEF c, a
    <3>5. QED
      BY <3>1, <3>2, <3>3, <3>4
  <2> HIDE DEF c, a
  <2>5. ASSUME bucket' = IF Lim!Allows(ip) THEN c ELSE Lim!Cleaned(c, Addresses), above' = a
        PROVE  LimInv'
    <3>1. bucket' \in [Lim!Keys -> Lim!Bucket \cup {None}]
      BY <1>0, <2>2, <2>5, LimCleaned
    <3>2. ASSUME NEW j \in Lim!Keys
          PROVE  LimFits(bucket'[j], above'[j])
      <4>1. CASE Lim!Allows(ip)
        BY <2>4, <2>5, <4>1
      <4>2. CASE ~ Lim!Allows(ip)
        <5>1. bucket' = Lim!Cleaned(c, Addresses)
          BY <2>5, <4>2
        <5>2. LimFits(c[j], a[j])
          BY <2>4
        <5>3. LimFits(Lim!Cleaned(c, Addresses)[j], a[j])
          BY <1>0, <2>2, <5>2, LimCleanupFits
        <5>4. QED
          BY <2>5, <5>1, <5>3
      <4>3. QED
        BY <4>1, <4>2
    <3>3. QED
      BY <1>0, <2>3, <2>5, <3>1, <3>2, LimFitsAll
  <2>6. QED
    BY <2>5 DEF a, b, c
<1>3. QED
  BY <1>1, <1>2 DEF Lim!Ask

LEMMA LimTick ==
    ASSUME Lim!LimiterAssumption, LimInv, Lim!Tick
    PROVE  LimInv'
<1>0. /\ Lim!CapMax \in Nat /\ Lim!CapMax * Minute \in Nat /\ Lim!Horizon \in Nat
      /\ bucket \in [Lim!Keys -> Lim!Bucket \cup {None}] /\ above \in [Lim!Keys -> Nat]
  BY LimCaps DEF LimInv, Lim!TypeOK
<1>1. ASSUME NEW k \in Lim!Keys
      PROVE  above'[k] \in Nat /\ above'[k] = (IF above[k] < Lim!CapMax THEN 0 ELSE above[k] - Lim!CapMax)
  BY <1>0 DEF Lim!Tick, Lim!Minus
<1>2. ASSUME NEW k \in Lim!Keys
      PROVE  LimFits(bucket'[k], above'[k])
  <2>1. LimFits(bucket[k], above[k])
    BY LimFitsNow
  <2>2. CASE bucket[k] = None
    <3>1. bucket'[k] = None /\ above[k] = 0
      BY <2>1, <2>2 DEF Lim!Tick, LimFits
    <3>2. above'[k] = 0
      BY <1>0, <1>1, <3>1
    <3>3. QED
      BY <3>1, <3>2 DEF LimFits
  <2>3. CASE bucket[k] # None
    <3> DEFINE b == bucket[k]
               d == bucket'[k]
    <3>1. b \in Lim!Bucket /\ above[k] + Most(b) <= Lim!CapMax * Minute
      BY <2>1, <2>3 DEF LimFits
    <3>2. b.tokens \in Nat /\ b.tokens <= Lim!CapMax * Minute /\ b.age \in Nat /\ b.age <= Lim!Horizon
      BY <1>0, <3>1 DEF Lim!Bucket
    <3>3. d = [b EXCEPT !.age = Lim!Least(Lim!Horizon, b.age + 1)]
      BY <2>3 DEF Lim!Tick
    <3>4. d.tokens = b.tokens /\ d.age = (IF Lim!Horizon < b.age + 1 THEN Lim!Horizon ELSE b.age + 1) /\ d \in Lim!Bucket
      BY <1>0, <3>1, <3>2, <3>3 DEF Lim!Bucket, Lim!Least
    <3>5. d # None
      BY <3>4 DEF Lim!LimiterAssumption
    <3>6. Most(d) <= Most(b) + Lim!CapMax
      <4>1. d.age = b.age \/ d.age = b.age + 1
        BY <1>0, <3>2, <3>4
      <4>2. CASE d.age = b.age
        <5>1. Most(d) = Most(b) /\ Most(b) \in Nat
          BY <3>1, <3>4, <4>2, LimMost DEF Most
        <5>2. QED
          BY <1>0, <5>1
      <4>3. CASE d.age = b.age + 1
        <5>1. d.age * Lim!CapMax = b.age * Lim!CapMax + Lim!CapMax /\ b.age * Lim!CapMax \in Nat
          <6>1. b.age \in Nat /\ Lim!CapMax \in Nat
            BY <1>0, <3>2
          <6>2. d.age * Lim!CapMax = (b.age + 1) * Lim!CapMax
            BY <4>3
          <6>3. QED
            BY <6>1, <6>2, OneMoreTick
        <5>2. Most(b) = (IF Lim!CapMax * Minute < b.tokens + b.age * Lim!CapMax THEN Lim!CapMax * Minute ELSE b.tokens + b.age * Lim!CapMax)
              /\ Most(d) = (IF Lim!CapMax * Minute < d.tokens + d.age * Lim!CapMax THEN Lim!CapMax * Minute ELSE d.tokens + d.age * Lim!CapMax)
          BY DEF Most, Lim!Least
        <5> DEFINE h == Lim!CapMax * Minute
                   i == b.age * Lim!CapMax
        <5>3. /\ Most(b) = (IF h < b.tokens + i THEN h ELSE b.tokens + i)
              /\ Most(d) = (IF h < b.tokens + (i + Lim!CapMax) THEN h ELSE b.tokens + (i + Lim!CapMax))
              /\ h \in Nat /\ i \in Nat /\ b.tokens \in Nat
          BY <1>0, <3>2, <3>4, <5>1, <5>2
        <5> HIDE DEF h, i, b, d
        <5>4. QED
          BY <1>0, <5>3
      <4>4. QED
        BY <4>1, <4>2, <4>3
    <3>7. Most(b) \in Nat /\ Most(d) \in Nat /\ Most(d) <= Lim!CapMax * Minute
      BY <3>1, <3>4, LimMost
    <3> HIDE DEF b, d
    <3>8. above'[k] + Most(d) <= Lim!CapMax * Minute
      BY <1>0, <1>1, <3>1, <3>6, <3>7
    <3>9. QED
      BY <1>1, <3>4, <3>5, <3>8 DEF LimFits, d
  <2>4. QED
    BY <2>2, <2>3
<1>3. bucket' \in [Lim!Keys -> Lim!Bucket \cup {None}] /\ above' \in [Lim!Keys -> Nat] /\ cap' \in Caps
  <2>1. \A k \in Lim!Keys : bucket'[k] \in Lim!Bucket \cup {None} /\ above'[k] \in Nat
    BY <1>1, <1>2 DEF LimFits
  <2>2. QED
    BY <2>1 DEF Lim!Tick, LimInv, Lim!TypeOK
<1>4. QED
  BY <1>2, <1>3, LimFitsAll

LEMMA LimStep ==
    ASSUME Lim!LimiterAssumption, LimInv, Lim!Next
    PROVE  LimInv'
<1>1. ASSUME NEW c \in Caps, Lim!SetCap(c)
      PROVE  LimInv'
  BY <1>1 DEF Lim!SetCap, LimInv, Lim!TypeOK, Missing
<1>2. QED
  BY <1>1, LimAsk, LimTick DEF Lim!Next

LEMMA LimBounded ==
    ASSUME Lim!LimiterAssumption, LimInv
    PROVE  Lim!BurstBounded
<1> SUFFICES ASSUME NEW k \in Lim!Keys
             PROVE  above[k] <= Lim!CapMax * Minute
  BY DEF Lim!BurstBounded
<1>1. Lim!CapMax * Minute \in Nat /\ LimFits(bucket[k], above[k])
  BY LimCaps, LimFitsNow
<1>2. CASE bucket[k] = None
  BY <1>1, <1>2 DEF LimFits
<1>3. CASE bucket[k] # None
  BY <1>1, <1>3, LimMost DEF LimFits
<1>4. QED
  BY <1>2, <1>3

\* However requests, refusals, cleanings and changes of the setting fall, no
\* key gets more than a full bucket above the largest steady rate: in every
\* behaviour of the run, which is one of Limiter or leaves its state.
THEOREM BurstBoundedHolds ==
    ASSUME Lim!LimiterAssumption
    PROVE  MCSpec => []BurstBounded
<1>1. MCInit => LimInv
  BY LimInit DEF MCInit
<1>2. LimInv /\ [MCNext]_mcVars => LimInv'
  <2>1. CASE Lim!Next
    BY <2>1, LimStep
  <2>2. CASE UNCHANGED limiter
    BY <2>2 DEF limiter, LimInv, Lim!TypeOK, Missing
  <2>3. QED
    BY <2>1, <2>2 DEF MCNext, mcVars
<1>3. LimInv => BurstBounded
  BY LimBounded DEF BurstBounded
<1>4. QED
  BY <1>1, <1>2, <1>3, PTL DEF MCSpec

-----------------------------------------------------------------------------
(* Directory: what DirectoryProofs proves for any accounts and requests,   *)
(* said of the two instances of the run.                                   *)

DirProved == INSTANCE DirectoryProofs WITH
    Locals <- {acc1, acc2}, Subjects <- {}, First <- acc1, Calls <- {u1, u2}, Crashes <- 0,
    crashes <- dCrashes, lost <- dLost
DirOidcProved == INSTANCE DirectoryProofs WITH
    Locals <- {acc1}, Subjects <- {oidc1}, First <- acc1, Calls <- {u1}, Crashes <- 1,
    crashes <- dCrashes, lost <- dLost

\* The definitions are the same ones.
LEMMA DirIsProved ==
    /\ Dir!DirectoryAssumption <=> DirProved!DirectoryAssumption
    /\ Dir!Init <=> DirProved!Init
    /\ Dir!Next <=> DirProved!Next
    /\ Dir!SomeAdminRemains <=> DirProved!SomeAdminRemains
    /\ Dir!AskedOrOrdered <=> DirProved!AskedOrOrdered
  BY DEF Dir!DirectoryAssumption, DirProved!DirectoryAssumption, Dir!Init, DirProved!Init,
           Dir!Next, DirProved!Next, Dir!SomeAdminRemains, DirProved!SomeAdminRemains,
           Dir!AskedOrOrdered, DirProved!AskedOrOrdered, Dir!Ids, DirProved!Ids,
           Dir!User, DirProved!User, Dir!Request, DirProved!Request,
           Dir!Boot, DirProved!Boot, Dir!BootHashed, DirProved!BootHashed,
           Dir!Crash, DirProved!Crash, Dir!Purge, DirProved!Purge,
           Dir!Register, DirProved!Register, Dir!OidcAgain, DirProved!OidcAgain,
           Dir!AgeAsk, DirProved!AgeAsk, Dir!OidcNew, DirProved!OidcNew,
           Dir!LoginHashed, DirProved!LoginHashed,
           Dir!ChangePassword, DirProved!ChangePassword, Dir!Hashed, DirProved!Hashed,
           Dir!RequestDeletion, DirProved!RequestDeletion,
           Dir!CancelDeletion, DirProved!CancelDeletion, Dir!Login, DirProved!Login,
           Dir!Begin, DirProved!Begin, Dir!ResetPassword, DirProved!ResetPassword,
           Dir!DeleteUser, DirProved!DeleteUser, Dir!CreateUser, DirProved!CreateUser,
           Dir!SetUser, DirProved!SetUser, Dir!Able, DirProved!Able,
           Dir!Exists, DirProved!Exists, Dir!Ready, DirProved!Ready,
           Dir!Asks, DirProved!Asks, Dir!NewUser, DirProved!NewUser,
           Dir!history, DirProved!history, Dir!Due, DirProved!Due,
           Dir!EndFor, DirProved!EndFor, Dir!Admins, DirProved!Admins,
           Dir!End, DirProved!End, Dir!May, DirProved!May, Dir!Asking, DirProved!Asking,
           Dir!Undone, DirProved!Undone, Dir!MayAdmin, DirProved!MayAdmin,
           Dir!Deletable, DirProved!Deletable, Dir!Note, DirProved!Note,
           Dir!Refused, DirProved!Refused, Dir!WithRole, DirProved!WithRole,
           Dir!Stale, DirProved!Stale, Dir!Cardinality, DirProved!Cardinality

LEMMA DirSteps ==
    ASSUME Dir!DirectoryAssumption, DirProved!IInv,
           Dir!Next \/ UNCHANGED directory
    PROVE  /\ DirProved!IInv'
           /\ Dir!Next => Dir!AskedOrOrdered
           /\ Dir!SomeAdminRemains
<1>1. [DirProved!Next]_DirProved!vars
  BY DirIsProved DEF directory, DirProved!vars, DirProved!history
<1>2. DirProved!SomeAdminRemains
  BY DEF DirProved!IInv, DirProved!AdminInv, DirProved!AbleOrEmpty, DirProved!SomeAdminRemains
<1>3. QED
  BY <1>1, <1>2, DirIsProved, DirProved!StepHolds, DirProved!StepAsked

LEMMA DirOidcIsProved ==
    /\ DirOidc!DirectoryAssumption <=> DirOidcProved!DirectoryAssumption
    /\ DirOidc!Init <=> DirOidcProved!Init
    /\ DirOidc!Next <=> DirOidcProved!Next
    /\ DirOidc!SomeAdminRemains <=> DirOidcProved!SomeAdminRemains
    /\ DirOidc!AskedOrOrdered <=> DirOidcProved!AskedOrOrdered
  BY DEF DirOidc!DirectoryAssumption, DirOidcProved!DirectoryAssumption,
           DirOidc!Init, DirOidcProved!Init, DirOidc!Next, DirOidcProved!Next,
           DirOidc!SomeAdminRemains, DirOidcProved!SomeAdminRemains,
           DirOidc!AskedOrOrdered, DirOidcProved!AskedOrOrdered,
           DirOidc!Ids, DirOidcProved!Ids, DirOidc!User, DirOidcProved!User,
           DirOidc!Request, DirOidcProved!Request, DirOidc!Boot, DirOidcProved!Boot,
           DirOidc!BootHashed, DirOidcProved!BootHashed, DirOidc!Crash, DirOidcProved!Crash,
           DirOidc!Purge, DirOidcProved!Purge, DirOidc!Register, DirOidcProved!Register,
           DirOidc!OidcAgain, DirOidcProved!OidcAgain, DirOidc!AgeAsk, DirOidcProved!AgeAsk,
           DirOidc!OidcNew, DirOidcProved!OidcNew,
           DirOidc!LoginHashed, DirOidcProved!LoginHashed,
           DirOidc!ChangePassword, DirOidcProved!ChangePassword,
           DirOidc!Hashed, DirOidcProved!Hashed,
           DirOidc!RequestDeletion, DirOidcProved!RequestDeletion,
           DirOidc!CancelDeletion, DirOidcProved!CancelDeletion,
           DirOidc!Login, DirOidcProved!Login, DirOidc!Begin, DirOidcProved!Begin,
           DirOidc!ResetPassword, DirOidcProved!ResetPassword,
           DirOidc!DeleteUser, DirOidcProved!DeleteUser,
           DirOidc!CreateUser, DirOidcProved!CreateUser,
           DirOidc!SetUser, DirOidcProved!SetUser, DirOidc!Able, DirOidcProved!Able,
           DirOidc!Exists, DirOidcProved!Exists, DirOidc!Ready, DirOidcProved!Ready,
           DirOidc!Asks, DirOidcProved!Asks, DirOidc!NewUser, DirOidcProved!NewUser,
           DirOidc!history, DirOidcProved!history, DirOidc!Due, DirOidcProved!Due,
           DirOidc!EndFor, DirOidcProved!EndFor, DirOidc!Admins, DirOidcProved!Admins,
           DirOidc!End, DirOidcProved!End, DirOidc!May, DirOidcProved!May,
           DirOidc!Asking, DirOidcProved!Asking, DirOidc!Undone, DirOidcProved!Undone,
           DirOidc!MayAdmin, DirOidcProved!MayAdmin,
           DirOidc!Deletable, DirOidcProved!Deletable, DirOidc!Note, DirOidcProved!Note,
           DirOidc!Refused, DirOidcProved!Refused, DirOidc!WithRole, DirOidcProved!WithRole,
           DirOidc!Stale, DirOidcProved!Stale,
           DirOidc!Cardinality, DirOidcProved!Cardinality

LEMMA DirOidcSteps ==
    ASSUME DirOidc!DirectoryAssumption, DirOidcProved!IInv,
           DirOidc!Next \/ UNCHANGED directory
    PROVE  /\ DirOidcProved!IInv'
           /\ DirOidc!Next => DirOidc!AskedOrOrdered
           /\ DirOidc!SomeAdminRemains
<1>1. [DirOidcProved!Next]_DirOidcProved!vars
  BY DirOidcIsProved DEF directory, DirOidcProved!vars, DirOidcProved!history
<1>2. DirOidcProved!SomeAdminRemains
  BY DEF DirOidcProved!IInv, DirOidcProved!AdminInv, DirOidcProved!AbleOrEmpty, DirOidcProved!SomeAdminRemains
<1>3. QED
  BY <1>1, <1>2, DirOidcIsProved, DirOidcProved!StepHolds, DirOidcProved!StepAsked

DirInv == IF focus = "oidc" THEN DirOidcProved!IInv ELSE DirProved!IInv

LEMMA DirInvariant ==
    ASSUME Dir!DirectoryAssumption, DirOidc!DirectoryAssumption
    PROVE  MCSpec => []DirInv
<1>1. MCInit => DirInv
  BY DirIsProved, DirOidcIsProved, DirProved!InitHolds, DirOidcProved!InitHolds DEF MCInit, DirInv
<1>2. DirInv /\ [MCNext]_mcVars => DirInv'
  BY DirSteps, DirOidcSteps DEF MCNext, mcVars, DirInv
<1>3. QED
  BY <1>1, <1>2, PTL DEF MCSpec

\* A site that is up keeps an admin who can act, whichever admins delete,
\* demote and disable each other at once, unless the last one lost it himself.
THEOREM SomeAdminRemainsHolds ==
    ASSUME Dir!DirectoryAssumption, DirOidc!DirectoryAssumption
    PROVE  MCSpec => []SomeAdminRemains
<1>1. DirInv => SomeAdminRemains
  BY DirIsProved, DirOidcIsProved
     DEF DirInv, SomeAdminRemains, DirProved!IInv, DirProved!AdminInv, DirProved!AbleOrEmpty,
         DirProved!SomeAdminRemains, DirOidcProved!IInv, DirOidcProved!AdminInv,
         DirOidcProved!AbleOrEmpty, DirOidcProved!SomeAdminRemains
<1>2. QED
  BY <1>1, DirInvariant, PTL

\* An account is purged only when its owner asked, still asks and his time is
\* over, or an admin who is still one orders it.
THEOREM PurgedAskedHolds ==
    ASSUME Dir!DirectoryAssumption, DirOidc!DirectoryAssumption
    PROVE  MCSpec => PurgedAsked
<1>1. DirInv /\ [MCNext]_mcVars
        => [IF focus = "oidc" THEN DirOidc!AskedOrOrdered ELSE Dir!AskedOrOrdered]_mcVars
  <2> SUFFICES ASSUME DirInv, MCNext
               PROVE  \/ IF focus = "oidc" THEN DirOidc!AskedOrOrdered ELSE Dir!AskedOrOrdered
                      \/ UNCHANGED mcVars
    OBVIOUS
  <2>1. UNCHANGED directory => Dir!AskedOrOrdered /\ DirOidc!AskedOrOrdered
    BY DEF directory, Dir!AskedOrOrdered, DirOidc!AskedOrOrdered, Dir!Exists, DirOidc!Exists
  <2>2. QED
    BY <2>1, DirSteps, DirOidcSteps DEF MCNext, DirInv
<1>2. QED
  BY <1>1, DirInvariant, PTL DEF MCSpec, PurgedAsked

-----------------------------------------------------------------------------
(* Registration: what RegistrationProofs proves for any names, addresses,  *)
(* requests and limits, said of the two instances of the run.              *)

RegProved == INSTANCE RegistrationProofs WITH
    Names <- {name1}, Emails <- {mail1}, Invites <- {inv1}, Ips <- {ip1}, Calls <- {u1, u2}, Rows <- {o1, o2},
    MaxGuesses <- 2, MaxPerIp <- 1, Daily <- 2, Purposes <- {"register"}, MaxOthers <- 1, Crashes <- 0,
    accounts <- rAccounts, call <- rCall, crashes <- rCrashes
RegResetProved == INSTANCE RegistrationProofs WITH
    Names <- {name1}, Emails <- {mail1}, Invites <- {inv1}, Ips <- {ip1}, Calls <- {u1}, Rows <- {},
    MaxGuesses <- 2, MaxPerIp <- 1, Daily <- 2, Purposes <- {"reset", "bind"}, MaxOthers <- 1, Crashes <- 1,
    accounts <- rAccounts, call <- rCall, crashes <- rCrashes

\* The definitions are the same ones.
LEMMA RegIsProved ==
    /\ Reg!RegistrationAssumption <=> RegProved!RegistrationAssumption
    /\ Reg!Init <=> RegProved!Init
    /\ Reg!Next <=> RegProved!Next
    /\ Reg!LimitsHold <=> RegProved!LimitsHold
    /\ Reg!Proven <=> RegProved!Proven
  BY DEF Reg!RegistrationAssumption, RegProved!RegistrationAssumption,
         Reg!Init, RegProved!Init, Reg!Next, RegProved!Next,
         Reg!LimitsHold, RegProved!LimitsHold, Reg!Proven, RegProved!Proven,
         Reg!Code, RegProved!Code, Reg!Registration, RegProved!Registration,
         Reg!Call, RegProved!Call, Reg!IsFiniteSet, RegProved!IsFiniteSet,
         Reg!NoFails, RegProved!NoFails,
         Reg!PurgeRegistrations, RegProved!PurgeRegistrations, Reg!Crash, RegProved!Crash,
         Reg!DropCodes, RegProved!DropCodes, Reg!AgeCode, RegProved!AgeCode,
         Reg!AgeReg, RegProved!AgeReg, Reg!VerifyRegister, RegProved!VerifyRegister,
         Reg!SendFails, RegProved!SendFails, Reg!EndForgot, RegProved!EndForgot,
         Reg!EndBind, RegProved!EndBind, Reg!EndStart, RegProved!EndStart,
         Reg!StartRegister, RegProved!StartRegister, Reg!StartForgot, RegProved!StartForgot,
         Reg!StartBind, RegProved!StartBind, Reg!WindowPasses, RegProved!WindowPasses,
         Reg!VerifyForgot, RegProved!VerifyForgot, Reg!VerifyBind, RegProved!VerifyBind,
         Reg!OtherAccount, RegProved!OtherAccount,
         Reg!DeleteAccount, RegProved!DeleteAccount, Reg!InviteOnce, RegProved!InviteOnce,
         Reg!ResetGuessesBounded, RegProved!ResetGuessesBounded,
         Reg!QuotaHolds, RegProved!QuotaHolds, Reg!Purgeable, RegProved!Purgeable,
         Reg!Renewed, RegProved!Renewed, Reg!Pending, RegProved!Pending,
         Reg!Compared, RegProved!Compared, Reg!Accepted, RegProved!Accepted,
         Reg!Use, RegProved!Use, Reg!Activate, RegProved!Activate,
         Reg!Missed, RegProved!Missed, Reg!End, RegProved!End,
         Reg!BelowQuota, RegProved!BelowQuota, Reg!Taken, RegProved!Taken,
         Reg!Reserved, RegProved!Reserved, Reg!MayIssue, RegProved!MayIssue,
         Reg!Issue, RegProved!Issue, Reg!Begin, RegProved!Begin,
         Reg!WrongReset, RegProved!WrongReset, Reg!Cardinality, RegProved!Cardinality,
         Reg!Recent, RegProved!Recent, Reg!InFlight, RegProved!InFlight,
         Reg!Newest, RegProved!Newest, Reg!Valid, RegProved!Valid,
         Reg!Spendable, RegProved!Spendable, Reg!Spend, RegProved!Spend,
         Reg!TooMany, RegProved!TooMany, Reg!Counted, RegProved!Counted

LEMMA RegSteps ==
    ASSUME Reg!RegistrationAssumption, RegProved!RegInv,
           Reg!Next \/ UNCHANGED registration
    PROVE  RegProved!RegInv' /\ (UNCHANGED registration \/ Reg!Proven)
<1>1. [RegProved!Next]_RegProved!vars
  BY RegIsProved DEF registration, RegProved!vars
<1>2. QED
  BY <1>1, RegIsProved, RegProved!StepHolds, RegProved!StepIsProven DEF registration, RegProved!vars

LEMMA RegResetIsProved ==
    /\ RegReset!RegistrationAssumption <=> RegResetProved!RegistrationAssumption
    /\ RegReset!Init <=> RegResetProved!Init
    /\ RegReset!Next <=> RegResetProved!Next
    /\ RegReset!LimitsHold <=> RegResetProved!LimitsHold
    /\ RegReset!Proven <=> RegResetProved!Proven
  BY DEF RegReset!RegistrationAssumption, RegResetProved!RegistrationAssumption,
         RegReset!Init, RegResetProved!Init, RegReset!Next, RegResetProved!Next,
         RegReset!LimitsHold, RegResetProved!LimitsHold,
         RegReset!Proven, RegResetProved!Proven, RegReset!Code, RegResetProved!Code,
         RegReset!Registration, RegResetProved!Registration,
         RegReset!Call, RegResetProved!Call,
         RegReset!IsFiniteSet, RegResetProved!IsFiniteSet,
         RegReset!NoFails, RegResetProved!NoFails,
         RegReset!PurgeRegistrations, RegResetProved!PurgeRegistrations,
         RegReset!Crash, RegResetProved!Crash, RegReset!DropCodes, RegResetProved!DropCodes,
         RegReset!AgeCode, RegResetProved!AgeCode, RegReset!AgeReg, RegResetProved!AgeReg,
         RegReset!VerifyRegister, RegResetProved!VerifyRegister,
         RegReset!SendFails, RegResetProved!SendFails,
         RegReset!EndForgot, RegResetProved!EndForgot,
         RegReset!EndBind, RegResetProved!EndBind,
         RegReset!EndStart, RegResetProved!EndStart,
         RegReset!StartRegister, RegResetProved!StartRegister,
         RegReset!StartForgot, RegResetProved!StartForgot,
         RegReset!StartBind, RegResetProved!StartBind,
         RegReset!WindowPasses, RegResetProved!WindowPasses,
         RegReset!VerifyForgot, RegResetProved!VerifyForgot,
         RegReset!VerifyBind, RegResetProved!VerifyBind,
         RegReset!OtherAccount, RegResetProved!OtherAccount,
         RegReset!DeleteAccount, RegResetProved!DeleteAccount,
         RegReset!InviteOnce, RegResetProved!InviteOnce,
         RegReset!ResetGuessesBounded, RegResetProved!ResetGuessesBounded,
         RegReset!QuotaHolds, RegResetProved!QuotaHolds,
         RegReset!Purgeable, RegResetProved!Purgeable,
         RegReset!Renewed, RegResetProved!Renewed, RegReset!Pending, RegResetProved!Pending,
         RegReset!Compared, RegResetProved!Compared,
         RegReset!Accepted, RegResetProved!Accepted, RegReset!Use, RegResetProved!Use,
         RegReset!Activate, RegResetProved!Activate, RegReset!Missed, RegResetProved!Missed,
         RegReset!End, RegResetProved!End, RegReset!BelowQuota, RegResetProved!BelowQuota,
         RegReset!Taken, RegResetProved!Taken, RegReset!Reserved, RegResetProved!Reserved,
         RegReset!MayIssue, RegResetProved!MayIssue, RegReset!Issue, RegResetProved!Issue,
         RegReset!Begin, RegResetProved!Begin,
         RegReset!WrongReset, RegResetProved!WrongReset,
         RegReset!Cardinality, RegResetProved!Cardinality,
         RegReset!Recent, RegResetProved!Recent, RegReset!InFlight, RegResetProved!InFlight,
         RegReset!Newest, RegResetProved!Newest, RegReset!Valid, RegResetProved!Valid,
         RegReset!Spendable, RegResetProved!Spendable, RegReset!Spend, RegResetProved!Spend,
         RegReset!TooMany, RegResetProved!TooMany, RegReset!Counted, RegResetProved!Counted

LEMMA RegResetSteps ==
    ASSUME RegReset!RegistrationAssumption, RegResetProved!RegInv,
           RegReset!Next \/ UNCHANGED registration
    PROVE  RegResetProved!RegInv' /\ (UNCHANGED registration \/ RegReset!Proven)
<1>1. [RegResetProved!Next]_RegResetProved!vars
  BY RegResetIsProved DEF registration, RegResetProved!vars
<1>2. QED
  BY <1>1, RegResetIsProved, RegResetProved!StepHolds, RegResetProved!StepIsProven DEF registration, RegResetProved!vars

RgInv == IF focus = "reset" THEN RegResetProved!RegInv ELSE RegProved!RegInv

LEMMA RgInvariant ==
    ASSUME Reg!RegistrationAssumption, RegReset!RegistrationAssumption
    PROVE  MCSpec => []RgInv
<1>1. MCInit => RgInv
  BY RegIsProved, RegResetIsProved, RegProved!InitHolds, RegResetProved!InitHolds DEF MCInit, RgInv
<1>2. RgInv /\ [MCNext]_mcVars => RgInv'
  BY RegSteps, RegResetSteps DEF MCNext, mcVars, RgInv
<1>3. QED
  BY <1>1, <1>2, PTL DEF MCSpec

\* Invitations make one account, guesses at a reset code and the registrations
\* of an IP address exceed their limits by no more than what overlaps.
THEOREM LimitsHoldHolds ==
    ASSUME Reg!RegistrationAssumption, RegReset!RegistrationAssumption
    PROVE  MCSpec => []LimitsHold
<1>1. RgInv => LimitsHold
  BY RegIsProved, RegResetIsProved, RegProved!LimitsAreImplied, RegResetProved!LimitsAreImplied
     DEF RgInv, LimitsHold
<1>2. QED
  BY <1>1, RgInvariant, PTL

\* An account has an e-mail address only by a code that was sent there for
\* this purpose.
THEOREM AddressIsProvenHolds ==
    ASSUME Reg!RegistrationAssumption, RegReset!RegistrationAssumption
    PROVE  MCSpec => AddressIsProven
<1>1. RgInv /\ [MCNext]_mcVars
        => [IF focus = "reset" THEN RegReset!Proven ELSE Reg!Proven]_mcVars
  <2> SUFFICES ASSUME RgInv, MCNext
               PROVE  \/ IF focus = "reset" THEN RegReset!Proven ELSE Reg!Proven
                      \/ UNCHANGED mcVars
    OBVIOUS
  <2>1. UNCHANGED registration => Reg!Proven /\ RegReset!Proven
    BY DEF registration, Reg!Proven, RegReset!Proven
  <2>2. QED
    BY <2>1, RegSteps, RegResetSteps DEF MCNext, RgInv
<1>2. QED
  BY <1>1, RgInvariant, PTL DEF MCSpec, AddressIsProven

-----------------------------------------------------------------------------
(* IpGuard: while an address is banned, the failures that outlast the ban  *)
(* are those of logins that began before it, and what else is in the       *)
(* window of an address without a ban is below the threshold.              *)

Kinds == GuardIps \X Guard!Hows \X Guard!Recents     \* of failures
FreeOnly == {"free"}

\* The ages whose failures are still in the window when the ban ends.
Outlasting(ip) == {t \in Guard!Recents : t + ban[ip].left < Window}

\* The logins that await their hash, from an address, and without a proof.
Awaits(ip) == {c \in GuardCalls : call[c] # None /\ call[c].ip = ip}
AwaitsFree == {c \in GuardCalls : call[c] # None /\ call[c].how = "free"}

\* What is in the window of an address without a ban.
Residue == Guard!Greater(BanAt - 1, Cardinality(GuardCalls))

GuardTyped ==
    /\ log \in [Kinds -> Nat] /\ IsFiniteSet(Guard!RowsOf(log, Kinds))
    /\ ban \in [GuardIps -> [left : 0 .. Longest, next : FirstBan .. Longest]]
    /\ call \in [GuardCalls -> [ip : GuardIps, how : Guard!Logins] \cup {None}]

FreeFits == Guard!CountOf(GuardIps, FreeOnly) + Cardinality(AwaitsFree) <= PowAt - 1 + Cardinality(GuardCalls)

AddressFits(ip) ==
    /\ Guard!LoginFailures(ip) + Cardinality(Awaits(ip)) <= Residue + Cardinality(GuardCalls)
    /\ ~ Guard!Banned(ip) => Guard!LoginFailures(ip) <= Residue
    /\ Guard!Banned(ip) => Cardinality(Guard!RowsOf(log, {ip} \X Guard!Logins \X Outlasting(ip)))
                        + Cardinality(Awaits(ip)) <= Cardinality(GuardCalls)

GuardInv == GuardTyped /\ FreeFits /\ \A ip \in GuardIps : AddressFits(ip)

-----------------------------------------------------------------------------
(* Rows *)

\* The instance counts as the library does.
LEMMA GuardCardinality ==
    \A S : Guard!Cardinality(S) = Cardinality(S) /\ (Guard!IsFiniteSet(S) <=> IsFiniteSet(S))
  BY DEF Guard!Cardinality, Cardinality, Guard!IsFiniteSet, IsFiniteSet

LEMMA RowsElems ==
    ASSUME NEW f, NEW K
    PROVE  /\ \A x, k : <<x, k>> \in Guard!RowsOf(f, K) <=> x \in K /\ k \in 1 .. f[x]
           /\ \A z \in Guard!RowsOf(f, K) : z = <<z[1], z[2]>>
  BY DEF Guard!RowsOf

LEMMA RowsParts ==
    ASSUME NEW f, NEW K, NEW J \in SUBSET K
    PROVE  Guard!RowsOf(f, J) \subseteq Guard!RowsOf(f, K)
  BY DEF Guard!RowsOf

LEMMA RowsNone ==
    ASSUME NEW f, NEW K, \A x \in K : f[x] = 0
    PROVE  Guard!RowsOf(f, K) = {}
<1>1. \A x \in K : 1 .. f[x] = {}
  OBVIOUS
<1>2. \A x, k : <<x, k>> \notin Guard!RowsOf(f, K)
  BY <1>1, RowsElems
<1>3. QED
  BY <1>2, RowsElems

\* One more row of the kind d.
LEMMA RowsMore ==
    ASSUME NEW D, NEW f \in [D -> Nat], NEW d \in D, NEW K \in SUBSET D,
           NEW g, g[d] = f[d] + 1, \A x \in D : x # d => g[x] = f[x]
    PROVE  Guard!RowsOf(g, K) = IF d \in K THEN Guard!RowsOf(f, K) \cup {<<d, f[d] + 1>>} ELSE Guard!RowsOf(f, K)
<1>1. f[d] \in Nat /\ g[d] = f[d] + 1 /\ \A x \in K : x # d => g[x] = f[x]
  OBVIOUS
<1>2. \A x, k : <<x, k>> \in Guard!RowsOf(g, K) <=>
              <<x, k>> \in Guard!RowsOf(f, K) \/ (d \in K /\ x = d /\ k = f[d] + 1)
  <2> TAKE x, k
  <2>0. /\ <<x, k>> \in Guard!RowsOf(g, K) <=> x \in K /\ k \in 1 .. g[x]
        /\ <<x, k>> \in Guard!RowsOf(f, K) <=> x \in K /\ k \in 1 .. f[x]
    BY RowsElems
  <2>1. CASE x = d /\ d \in K
    <3>1. k \in 1 .. g[d] <=> k \in 1 .. f[d] \/ k = f[d] + 1
      BY <1>1
    <3>2. QED
      BY <2>0, <2>1, <3>1
  <2>2. CASE ~ (x = d /\ d \in K)
    BY <1>1, <2>0, <2>2
  <2>3. QED
    BY <2>1, <2>2
<1>3. \A z : z \in Guard!RowsOf(g, K) <=> z \in Guard!RowsOf(f, K) \/ (d \in K /\ z = <<d, f[d] + 1>>)
  <2> DEFINE R == Guard!RowsOf(f, K)
             S == Guard!RowsOf(g, K)
  <2>1. /\ \A z \in R : z = <<z[1], z[2]>>
        /\ \A z \in S : z = <<z[1], z[2]>>
    BY RowsElems
  <2>2. \A x, k : <<x, k>> \in S <=> <<x, k>> \in R \/ (d \in K /\ x = d /\ k = f[d] + 1)
    BY <1>2
  <2> HIDE DEF R, S
  <2>3. \A z : z \in S <=> z \in R \/ (d \in K /\ z = <<d, f[d] + 1>>)
    BY <2>1, <2>2
  <2>4. QED
    BY <2>3 DEF R, S
<1>4. QED
  BY <1>3

\* A tick: the failures of the kinds K were of the kinds J.
LEMMA RowsOlder ==
    ASSUME NEW f, NEW K \in SUBSET Kinds, NEW J,
           \A x \in K : x[3] # 0 => <<x[1], x[2], x[3] - 1>> \in J,
           IsFiniteSet(Guard!RowsOf(f, J)),
           NEW g, g = [x \in Kinds |-> IF x[3] = 0 THEN 0 ELSE f[<<x[1], x[2], x[3] - 1>>]]
    PROVE  /\ IsFiniteSet(Guard!RowsOf(g, K))
           /\ Cardinality(Guard!RowsOf(g, K)) <= Cardinality(Guard!RowsOf(f, J))
<1> DEFINE S == Guard!RowsOf(g, K)
           T == Guard!RowsOf(f, J)
           h == [z \in S |-> <<<<z[1][1], z[1][2], z[1][3] - 1>>, z[2]>>]
<1>1. \A z \in S : /\ z = <<z[1], z[2]>> /\ z[1] \in K /\ z[1] = <<z[1][1], z[1][2], z[1][3]>>
                   /\ z[1][3] # 0 /\ z[1][3] \in Int
                   /\ z[2] \in 1 .. f[<<z[1][1], z[1][2], z[1][3] - 1>>]
  <2> TAKE z \in S
  <2>1. z = <<z[1], z[2]>> /\ z[1] \in K /\ z[2] \in 1 .. g[z[1]]
    BY RowsElems
  <2>2. z[1] = <<z[1][1], z[1][2], z[1][3]>> /\ z[1][3] \in Int
    BY <2>1 DEF Kinds, Guard!Recents
  <2>3. g[z[1]] = IF z[1][3] = 0 THEN 0 ELSE f[<<z[1][1], z[1][2], z[1][3] - 1>>]
    BY <2>1
  <2>4. QED
    BY <2>1, <2>2, <2>3
<1>2. \A z \in S : h[z] \in T
  <2> TAKE z \in S
  <2>1. <<z[1][1], z[1][2], z[1][3] - 1>> \in J /\ z[2] \in 1 .. f[<<z[1][1], z[1][2], z[1][3] - 1>>]
    BY <1>1
  <2>2. QED
    BY <2>1, RowsElems
<1>3. \A y, z \in S : h[y] = h[z] => y = z
  <2> TAKE y, z \in S
  <2>1. HAVE h[y] = h[z]
  <2>2. y[1][1] = z[1][1] /\ y[1][2] = z[1][2] /\ y[1][3] - 1 = z[1][3] - 1 /\ y[2] = z[2]
    BY <2>1
  <2>3. y[1][3] = z[1][3]
    <3> DEFINE a == y[1][3]
               b == z[1][3]
    <3>1. a \in Int /\ b \in Int
      BY <1>1
    <3>2. a - 1 = b - 1
      BY <2>2
    <3> HIDE DEF a, b
    <3>3. a = b
      BY <3>1, <3>2
    <3>4. QED
      BY <3>3 DEF a, b
  <2>4. y[1] = z[1]
    BY <1>1, <2>2, <2>3
  <2>5. QED
    BY <1>1, <2>2, <2>4
<1>4. h \in Injection(S, T)
  BY <1>2, <1>3 DEF Injection, IsInjective
<1>5. QED
  BY <1>4, FS_Injection

-----------------------------------------------------------------------------
(* Counting *)

LEMMA GuardSizes ==
    ASSUME Guard!GuardAssumption
    PROVE  /\ Cardinality(GuardCalls) \in Nat \ {0} /\ Residue \in Nat
           /\ BanAt - 1 <= Residue /\ Cardinality(GuardCalls) <= Residue
           /\ {Window, PowAt, BanAt, FirstBan, Longest} \subseteq Nat \ {0}
           /\ FirstBan >= Window
<1>1. Cardinality(GuardCalls) \in Nat \ {0}
  BY FS_CardinalityType, FS_EmptySet, GuardCardinality DEF Guard!GuardAssumption
<1>2. {Window, PowAt, BanAt} \subseteq Nat \ {0} /\ FirstBan >= Window /\ Longest >= FirstBan
      /\ FirstBan \in Nat /\ Longest \in Nat
  BY GuardCardinality DEF Guard!GuardAssumption
<1>3. QED
  BY <1>1, <1>2 DEF Residue, Guard!Greater

\* The logins that await their hash are some of all, and one that begins or ends is one of them.
LEMMA AwaitsAreCalls ==
    ASSUME Guard!GuardAssumption, NEW S \in SUBSET GuardCalls
    PROVE  IsFiniteSet(S) /\ Cardinality(S) \in Nat /\ Cardinality(S) <= Cardinality(GuardCalls)
  BY FS_Subset, FS_CardinalityType, GuardCardinality DEF Guard!GuardAssumption

LEMMA CountsAreNat ==
    ASSUME IsFiniteSet(Guard!RowsOf(log, Kinds)), NEW K \in SUBSET Kinds, NEW J \in SUBSET K
    PROVE  /\ IsFiniteSet(Guard!RowsOf(log, K)) /\ Cardinality(Guard!RowsOf(log, K)) \in Nat
           /\ IsFiniteSet(Guard!RowsOf(log, J)) /\ Cardinality(Guard!RowsOf(log, J)) \in Nat
           /\ Cardinality(Guard!RowsOf(log, J)) <= Cardinality(Guard!RowsOf(log, K))
<1>1. Guard!RowsOf(log, J) \subseteq Guard!RowsOf(log, K) /\ Guard!RowsOf(log, K) \subseteq Guard!RowsOf(log, Kinds)
  BY RowsParts
<1>2. QED
  BY <1>1, FS_Subset, FS_CardinalityType

\* The kinds that are counted.
LEMMA KindsOf ==
    ASSUME NEW ip \in GuardIps
    PROVE  /\ GuardIps \X FreeOnly \X Guard!Recents \in SUBSET (GuardIps \X Guard!Logins \X Guard!Recents)
           /\ GuardIps \X Guard!Logins \X Guard!Recents \in SUBSET Kinds
           /\ {ip} \X Guard!Logins \X Guard!Recents \in SUBSET ({ip} \X Guard!Hows \X Guard!Recents)
           /\ {ip} \X Guard!Hows \X Guard!Recents \in SUBSET Kinds
           /\ {ip} \X Guard!Logins \X Outlasting(ip) \in SUBSET ({ip} \X Guard!Logins \X Guard!Recents)
           /\ {ip} \X Guard!Logins \X Guard!Recents \in SUBSET Kinds
  BY DEF Kinds, FreeOnly, Guard!Logins, Guard!Hows, Outlasting

\* A failure is recorded.
OneMoreOf(d) ==
    /\ log' \in [Kinds -> Nat] /\ log'[d] = log[d] + 1
    /\ \A x \in Kinds : x # d => log'[x] = log[x]

LEMMA OneMore ==
    ASSUME GuardTyped, NEW d \in Kinds, OneMoreOf(d), NEW K \in SUBSET Kinds
    PROVE  /\ IsFiniteSet(Guard!RowsOf(log', K)) /\ Cardinality(Guard!RowsOf(log', K)) \in Nat
           /\ Cardinality(Guard!RowsOf(log', K)) = Cardinality(Guard!RowsOf(log, K)) + IF d \in K THEN 1 ELSE 0
<1>1. /\ log \in [Kinds -> Nat] /\ log[d] \in Nat /\ log' \in [Kinds -> Nat]
      /\ log'[d] = log[d] + 1 /\ \A x \in Kinds : x # d => log'[x] = log[x]
  BY DEF GuardTyped, OneMoreOf
<1>2. IsFiniteSet(Guard!RowsOf(log, K)) /\ Cardinality(Guard!RowsOf(log, K)) \in Nat
  BY CountsAreNat DEF GuardTyped
<1>3. Guard!RowsOf(log', K) = IF d \in K THEN Guard!RowsOf(log, K) \cup {<<d, log[d] + 1>>} ELSE Guard!RowsOf(log, K)
  BY <1>1, RowsMore
<1>4. <<d, log[d] + 1>> \notin Guard!RowsOf(log, K)
  <2>1. log[d] + 1 \notin 1 .. log[d]
    BY <1>1
  <2>2. QED
    BY <2>1, RowsElems
<1>5. CASE d \in K
  <2> DEFINE R == Guard!RowsOf(log, K)
             x == <<d, log[d] + 1>>
  <2>1. IsFiniteSet(R \cup {x}) /\ Cardinality(R \cup {x}) = Cardinality(R) + 1
    <3> HIDE DEF R, x
    <3>1. IsFiniteSet(R) /\ x \notin R
      BY <1>2, <1>4 DEF R, x
    <3>2. QED
      BY <3>1, FS_AddElement
  <2>2. QED
    BY <1>1, <1>2, <1>3, <1>5, <2>1
<1>6. CASE d \notin K
  BY <1>1, <1>2, <1>3, <1>6
<1>7. QED
  BY <1>5, <1>6

-----------------------------------------------------------------------------
(* Logins begin and end *)

\* A login of the address ip takes place on c.
LEMMA AwaitsMore ==
    ASSUME Guard!GuardAssumption, GuardTyped, NEW c \in GuardCalls, call[c] = None,
           NEW r \in [ip : GuardIps, how : Guard!Logins], call' = [call EXCEPT ![c] = r]
    PROVE  /\ call' \in [GuardCalls -> [ip : GuardIps, how : Guard!Logins] \cup {None}]
           /\ \A i \in GuardIps : i # r.ip => Awaits(i)' = Awaits(i)
           /\ r.how # "free" => AwaitsFree' = AwaitsFree
<1>1. /\ call' \in [GuardCalls -> [ip : GuardIps, how : Guard!Logins] \cup {None}]
      /\ call'[c] = r /\ \A x \in GuardCalls : x # c => call'[x] = call[x]
  BY DEF GuardTyped
<1>2. r # None
  BY GuardCardinality DEF Guard!GuardAssumption, Guard!Logins
<1>3. ASSUME NEW i \in GuardIps, i # r.ip
      PROVE  Awaits(i)' = Awaits(i)
  BY <1>1, <1>2, <1>3 DEF Awaits
<1>4. r.how # "free" => AwaitsFree' = AwaitsFree
  BY <1>1, <1>2 DEF AwaitsFree
<1>5. QED
  BY <1>1, <1>3, <1>4

LEMMA AwaitsLess ==
    ASSUME Guard!GuardAssumption, GuardTyped, NEW c \in GuardCalls, call[c] # None,
           call' = [call EXCEPT ![c] = None]
    PROVE  /\ call' \in [GuardCalls -> [ip : GuardIps, how : Guard!Logins] \cup {None}]
           /\ \A i \in GuardIps : Cardinality(Awaits(i)') =
                                Cardinality(Awaits(i)) - IF i = call[c].ip THEN 1 ELSE 0
           /\ Cardinality(AwaitsFree') =
                  Cardinality(AwaitsFree) - IF call[c].how = "free" THEN 1 ELSE 0
<1>1. /\ call' \in [GuardCalls -> [ip : GuardIps, how : Guard!Logins] \cup {None}]
      /\ call'[c] = None /\ \A x \in GuardCalls : x # c => call'[x] = call[x]
  BY DEF GuardTyped
<1>2. ASSUME NEW S \in SUBSET GuardCalls, NEW T, T = S \ {c}
      PROVE  Cardinality(T) = Cardinality(S) - IF c \in S THEN 1 ELSE 0
  <2>1. IsFiniteSet(S) /\ Cardinality(S) \in Nat
    BY AwaitsAreCalls
  <2>2. CASE c \in S
    BY <1>2, <2>1, <2>2, FS_RemoveElement
  <2>3. CASE c \notin S
    <3>1. T = S
      BY <1>2, <2>3
    <3>2. QED
      BY <2>1, <2>3, <3>1
  <2>4. QED
    BY <2>2, <2>3
<1>3. ASSUME NEW i \in GuardIps
      PROVE  Cardinality(Awaits(i)') = Cardinality(Awaits(i)) - IF i = call[c].ip THEN 1 ELSE 0
  <2>1. Awaits(i)' = Awaits(i) \ {c} /\ Awaits(i) \in SUBSET GuardCalls
    BY <1>1 DEF Awaits
  <2>2. c \in Awaits(i) <=> i = call[c].ip
    BY DEF Awaits
  <2> DEFINE S == Awaits(i)
             T == Awaits(i)'
  <2>3. S \in SUBSET GuardCalls /\ T = S \ {c} /\ (c \in S <=> i = call[c].ip)
    BY <2>1, <2>2
  <2> HIDE DEF S, T
  <2>4. Cardinality(T) = Cardinality(S) - IF c \in S THEN 1 ELSE 0
    BY <1>2, <2>3
  <2>5. QED
    BY <2>3, <2>4 DEF S, T
<1>4. Cardinality(AwaitsFree') = Cardinality(AwaitsFree) - IF call[c].how = "free" THEN 1 ELSE 0
  <2> DEFINE S == AwaitsFree
             T == AwaitsFree'
  <2>1. S \in SUBSET GuardCalls /\ T = S \ {c} /\ (c \in S <=> call[c].how = "free")
    BY <1>1 DEF AwaitsFree
  <2> HIDE DEF S, T
  <2>2. Cardinality(T) = Cardinality(S) - IF c \in S THEN 1 ELSE 0
    BY <1>2, <2>1
  <2>3. QED
    BY <2>1, <2>2 DEF S, T
<1>5. QED
  BY <1>1, <1>3, <1>4

\* All that is counted is a number.
LEMMA GuardNumbers ==
    ASSUME Guard!GuardAssumption, GuardTyped, NEW ip \in GuardIps
    PROVE  /\ Guard!CountOf(GuardIps, FreeOnly) \in Nat /\ Guard!AccountFailures \in Nat
           /\ Guard!CountOf(GuardIps, FreeOnly) <= Guard!AccountFailures
           /\ Guard!LoginFailures(ip) \in Nat /\ Guard!Failures(ip) \in Nat /\ Guard!LoginFailures(ip) <= Guard!Failures(ip)
           /\ Cardinality(Guard!RowsOf(log, {ip} \X Guard!Logins \X Outlasting(ip))) \in Nat
           /\ Cardinality(Awaits(ip)) \in Nat /\ Cardinality(Awaits(ip)) <= Cardinality(GuardCalls)
           /\ Cardinality(AwaitsFree) \in Nat /\ Cardinality(AwaitsFree) <= Cardinality(GuardCalls)
<1>1. IsFiniteSet(Guard!RowsOf(log, Kinds))
  BY DEF GuardTyped
<1>2. /\ GuardIps \X FreeOnly \X Guard!Recents \in SUBSET (GuardIps \X Guard!Logins \X Guard!Recents)
      /\ GuardIps \X Guard!Logins \X Guard!Recents \in SUBSET Kinds
      /\ {ip} \X Guard!Logins \X Guard!Recents \in SUBSET ({ip} \X Guard!Hows \X Guard!Recents)
      /\ {ip} \X Guard!Hows \X Guard!Recents \in SUBSET Kinds
      /\ {ip} \X Guard!Logins \X Outlasting(ip) \in SUBSET ({ip} \X Guard!Logins \X Guard!Recents)
      /\ {ip} \X Guard!Logins \X Guard!Recents \in SUBSET Kinds
  BY KindsOf
<1>3. Guard!CountOf(GuardIps, FreeOnly) \in Nat /\ Guard!AccountFailures \in Nat /\ Guard!CountOf(GuardIps, FreeOnly) <= Guard!AccountFailures
  BY <1>1, <1>2, CountsAreNat, GuardCardinality DEF Guard!CountOf, Guard!AccountFailures
<1>4. Guard!LoginFailures(ip) \in Nat /\ Guard!Failures(ip) \in Nat /\ Guard!LoginFailures(ip) <= Guard!Failures(ip)
  BY <1>1, <1>2, CountsAreNat, GuardCardinality DEF Guard!CountOf, Guard!LoginFailures, Guard!Failures
<1>5. Cardinality(Guard!RowsOf(log, {ip} \X Guard!Logins \X Outlasting(ip))) \in Nat
  BY <1>1, <1>2, CountsAreNat
<1>6. Awaits(ip) \in SUBSET GuardCalls /\ AwaitsFree \in SUBSET GuardCalls
  BY DEF Awaits, AwaitsFree
<1>7. QED
  BY <1>3, <1>4, <1>5, <1>6, AwaitsAreCalls

\* While nothing is recorded and no time goes by, fewer logins await.
LEMMA FewerAwait ==
    ASSUME Guard!GuardAssumption, GuardInv, UNCHANGED log, GuardTyped',
           \A i \in GuardIps : /\ ban'[i].left = ban[i].left
                               /\ Cardinality(Awaits(i)') <= Cardinality(Awaits(i)),
           Cardinality(AwaitsFree') <= Cardinality(AwaitsFree)
    PROVE  FreeFits' /\ \A i \in GuardIps : AddressFits(i)'
<1>0. /\ GuardTyped /\ FreeFits /\ \A i \in GuardIps : AddressFits(i)
      /\ Cardinality(GuardCalls) \in Nat /\ Residue \in Nat /\ PowAt \in Nat
  BY GuardSizes DEF GuardInv
<1>1. ASSUME NEW i \in GuardIps
      PROVE  AddressFits(i)'
  <2>1. Guard!LoginFailures(i)' = Guard!LoginFailures(i) /\ Outlasting(i)' = Outlasting(i) /\ (Guard!Banned(i)' <=> Guard!Banned(i))
    BY GuardCardinality DEF Guard!LoginFailures, Guard!CountOf, Outlasting, Guard!Banned
  <2>2. /\ Guard!LoginFailures(i) \in Nat /\ Cardinality(Awaits(i)) \in Nat
        /\ Cardinality(Guard!RowsOf(log, {i} \X Guard!Logins \X Outlasting(i))) \in Nat
    BY <1>0, GuardNumbers
  <2>3. Cardinality(Awaits(i)') \in Nat
    <3>1. Awaits(i)' \in SUBSET GuardCalls
      BY DEF Awaits
    <3>2. QED
      BY <3>1, AwaitsAreCalls
  <2>4. Cardinality(Guard!RowsOf(log, {i} \X Guard!Logins \X Outlasting(i)))'
            = Cardinality(Guard!RowsOf(log, {i} \X Guard!Logins \X Outlasting(i)))
    BY <2>1
  <2>5. Cardinality(Awaits(i)') <= Cardinality(Awaits(i)) /\ AddressFits(i)
    BY <1>0
  <2>6. QED
    BY <1>0, <2>1, <2>2, <2>3, <2>4, <2>5 DEF AddressFits, Residue
<1>2. FreeFits'
  <2>1. CASE GuardIps = {}
    <3>1. AwaitsFree' = AwaitsFree
      BY <1>0, <2>1 DEF GuardTyped, AwaitsFree
    <3>2. QED
      BY <1>0, <3>1, GuardCardinality DEF FreeFits, Guard!CountOf
  <2>2. CASE GuardIps # {}
    <3>1. Guard!CountOf(GuardIps, FreeOnly)' = Guard!CountOf(GuardIps, FreeOnly)
      BY GuardCardinality DEF Guard!CountOf
    <3>2. Guard!CountOf(GuardIps, FreeOnly) \in Nat /\ Cardinality(AwaitsFree) \in Nat
      BY <1>0, <2>2, GuardNumbers
    <3>3. AwaitsFree' \in SUBSET GuardCalls
      BY DEF AwaitsFree
    <3>4. Cardinality(AwaitsFree') \in Nat
      BY <3>3, AwaitsAreCalls
    <3>5. QED
      BY <1>0, <3>1, <3>2, <3>4 DEF FreeFits
  <2>3. QED
    BY <2>1, <2>2
<1>3. QED
  BY <1>1, <1>2

-----------------------------------------------------------------------------
(* Bans *)

LEMMA LeastOf ==
    ASSUME NEW x \in Nat, NEW y \in Nat
    PROVE  Guard!Least({x, y}) = IF x <= y THEN x ELSE y
  BY DEF Guard!Least

\* A ban lasts as long as the window at least, and so may the next one.
LEMMA BanLasts ==
    ASSUME Guard!GuardAssumption, GuardTyped, NEW ip \in GuardIps, Guard!BanNow(ip)
    PROVE  /\ ban' \in [GuardIps -> [left : 0 .. Longest, next : FirstBan .. Longest]]
           /\ ban'[ip].left >= Window
           /\ \A i \in GuardIps : i # ip => ban'[i] = ban[i]
<1> DEFINE d == ban[ip].next
           more == Guard!Least({d * Mult, Longest})
<1>1. /\ FirstBan \in Nat \ {0} /\ Longest \in Nat /\ FirstBan >= Window /\ Longest >= FirstBan
      /\ Window \in Nat \ {0} /\ Mult \in Nat \ {0, 1}
  BY GuardCardinality DEF Guard!GuardAssumption
<1>2. d \in FirstBan .. Longest
  BY DEF GuardTyped
<1>3. ban' = [ban EXCEPT ![ip] = [left |-> d, next |-> more]]
  BY DEF Guard!BanNow
<1> HIDE DEF d
<1>4. d * Mult \in Nat /\ d * Mult >= d
  BY <1>1, <1>2
<1>5. more = IF d * Mult <= Longest THEN d * Mult ELSE Longest
  BY <1>1, <1>4, LeastOf
<1> HIDE DEF more
<1>6. more \in FirstBan .. Longest /\ d \in 0 .. Longest /\ d >= Window
  <2> DEFINE m == d * Mult
  <2>1. m \in Nat /\ m >= d /\ more = IF m <= Longest THEN m ELSE Longest
    BY <1>4, <1>5
  <2> HIDE DEF m
  <2>2. QED
    BY <1>1, <1>2, <2>1
<1>7. [left |-> d, next |-> more] \in [left : 0 .. Longest, next : FirstBan .. Longest]
  BY <1>6
<1>8. QED
  BY <1>3, <1>6, <1>7 DEF GuardTyped

-----------------------------------------------------------------------------
(* A failure is recorded *)

LEMMA RecordedIsOne ==
    ASSUME Guard!GuardAssumption, GuardTyped, NEW ip \in GuardIps, NEW how \in Guard!Hows, Guard!RecordFailure(ip, how)
    PROVE  /\ <<ip, how, 0>> \in Kinds /\ OneMoreOf(<<ip, how, 0>>)
           /\ IsFiniteSet(Guard!RowsOf(log', Kinds))
<1>1. 0 \in Guard!Recents /\ <<ip, how, 0>> \in Kinds
  BY GuardCardinality DEF Guard!Recents, Kinds, Guard!GuardAssumption
<1>2. log' = [log EXCEPT ![<<ip, how, 0>>] = log[<<ip, how, 0>>] + 1]
  BY DEF Guard!RecordFailure
<1>3. OneMoreOf(<<ip, how, 0>>)
  <2> DEFINE d == <<ip, how, 0>>
  <2>1. d \in Kinds /\ log' = [log EXCEPT ![d] = log[d] + 1] /\ log \in [Kinds -> Nat]
    BY <1>1, <1>2 DEF GuardTyped
  <2> HIDE DEF d
  <2>2. OneMoreOf(d)
    BY <2>1 DEF OneMoreOf
  <2>3. QED
    BY <2>2 DEF d
<1>4. QED
  BY <1>1, <1>3, OneMore

\* What it adds to each count.
LEMMA RecordCounts ==
    ASSUME Guard!GuardAssumption, GuardTyped, NEW ip \in GuardIps, NEW how \in Guard!Hows, Guard!RecordFailure(ip, how), NEW i \in GuardIps
    PROVE  LET one == IF i = ip /\ how \in Guard!Logins THEN 1 ELSE 0
           IN  /\ Guard!CountOf(GuardIps, FreeOnly)' = Guard!CountOf(GuardIps, FreeOnly) + IF how = "free" THEN 1 ELSE 0
               /\ Guard!LoginFailures(i)' = Guard!LoginFailures(i) + one
               /\ Guard!Failures(ip)' = Guard!Failures(ip) + 1
               /\ Guard!LoginFailures(i)' <= Guard!Failures(i)'
               /\ ban'[i] = ban[i]
                    => Cardinality(Guard!RowsOf(log, {i} \X Guard!Logins \X Outlasting(i)))'
                          <= Cardinality(Guard!RowsOf(log, {i} \X Guard!Logins \X Outlasting(i))) + one
<1> DEFINE d == <<ip, how, 0>>
           O == {i} \X Guard!Logins \X Outlasting(i)
           one == IF i = ip /\ how \in Guard!Logins THEN 1 ELSE 0
<1>1. d \in Kinds /\ OneMoreOf(d) /\ IsFiniteSet(Guard!RowsOf(log', Kinds))
  BY RecordedIsOne
<1>2. 0 \in Guard!Recents
  BY GuardCardinality DEF Guard!Recents, Guard!GuardAssumption
<1>3. /\ d \in GuardIps \X FreeOnly \X Guard!Recents <=> how = "free"
      /\ d \in {i} \X Guard!Logins \X Guard!Recents <=> i = ip /\ how \in Guard!Logins
      /\ d \in {ip} \X Guard!Hows \X Guard!Recents
      /\ d \in O => i = ip /\ how \in Guard!Logins
  BY <1>2 DEF FreeOnly
<1>4. /\ GuardIps \X FreeOnly \X Guard!Recents \in SUBSET Kinds /\ {i} \X Guard!Logins \X Guard!Recents \in SUBSET Kinds
      /\ {ip} \X Guard!Hows \X Guard!Recents \in SUBSET Kinds /\ O \in SUBSET Kinds
      /\ {i} \X Guard!Logins \X Guard!Recents \subseteq {i} \X Guard!Hows \X Guard!Recents
      /\ {i} \X Guard!Hows \X Guard!Recents \in SUBSET Kinds
  BY KindsOf DEF Kinds, FreeOnly, Guard!Logins, Guard!Hows, Outlasting
<1> HIDE DEF d
<1>5. /\ Cardinality(Guard!RowsOf(log', GuardIps \X FreeOnly \X Guard!Recents))
           = Cardinality(Guard!RowsOf(log, GuardIps \X FreeOnly \X Guard!Recents)) + IF how = "free" THEN 1 ELSE 0
      /\ Cardinality(Guard!RowsOf(log', {i} \X Guard!Logins \X Guard!Recents))
           = Cardinality(Guard!RowsOf(log, {i} \X Guard!Logins \X Guard!Recents)) + one
      /\ Cardinality(Guard!RowsOf(log', {ip} \X Guard!Hows \X Guard!Recents))
           = Cardinality(Guard!RowsOf(log, {ip} \X Guard!Hows \X Guard!Recents)) + 1
  BY <1>1, <1>3, <1>4, OneMore
<1>6. Cardinality(Guard!RowsOf(log', O)) <= Cardinality(Guard!RowsOf(log, O)) + one
  <2> HIDE DEF O
  <2>1. /\ Cardinality(Guard!RowsOf(log', O)) = Cardinality(Guard!RowsOf(log, O)) + IF d \in O THEN 1 ELSE 0
        /\ Cardinality(Guard!RowsOf(log', O)) \in Nat
    BY <1>1, <1>4, OneMore
  <2>2. Cardinality(Guard!RowsOf(log, O)) \in Nat
    BY <1>4, CountsAreNat DEF GuardTyped
  <2>3. QED
    BY <1>3, <2>1, <2>2
<1>7. Cardinality(Guard!RowsOf(log', {i} \X Guard!Logins \X Guard!Recents)) <= Cardinality(Guard!RowsOf(log', {i} \X Guard!Hows \X Guard!Recents))
  <2>1. Guard!RowsOf(log', {i} \X Guard!Logins \X Guard!Recents) \subseteq Guard!RowsOf(log', {i} \X Guard!Hows \X Guard!Recents)
    BY <1>4, RowsParts
  <2>2. IsFiniteSet(Guard!RowsOf(log', {i} \X Guard!Hows \X Guard!Recents))
    BY <1>1, <1>4, OneMore
  <2>3. QED
    BY <2>1, <2>2, FS_Subset
<1>8. ban'[i] = ban[i] => ({i} \X Guard!Logins \X Outlasting(i))' = O
  BY DEF Outlasting
<1>9. QED
  BY <1>5, <1>6, <1>7, <1>8, GuardCardinality DEF Guard!CountOf, Guard!LoginFailures, Guard!Failures

\* The failure of a login that has ended, or of a reset code.
LEMMA RecordKeeps ==
    ASSUME Guard!GuardAssumption, GuardInv, NEW ip \in GuardIps, NEW how \in Guard!Hows, Guard!RecordFailure(ip, how),
           call' \in [GuardCalls -> [ip : GuardIps, how : Guard!Logins] \cup {None}],
           \A i \in GuardIps : Cardinality(Awaits(i)') =
                              Cardinality(Awaits(i)) - IF i = ip /\ how \in Guard!Logins THEN 1 ELSE 0,
           Cardinality(AwaitsFree') = Cardinality(AwaitsFree) - IF how = "free" THEN 1 ELSE 0
    PROVE  GuardInv'
<1>0. /\ GuardTyped /\ FreeFits /\ \A i \in GuardIps : AddressFits(i)
      /\ Cardinality(GuardCalls) \in Nat /\ Residue \in Nat /\ BanAt - 1 <= Residue
      /\ {PowAt, Window, BanAt} \subseteq Nat \ {0}
  BY GuardSizes DEF GuardInv
<1>1. \/ ~ Guard!MayBan(ip, Guard!Failures(ip) + 1) /\ UNCHANGED ban
      \/ Guard!BanNow(ip)
  BY DEF Guard!RecordFailure
<1>2. GuardTyped'
  <2>1. log' \in [Kinds -> Nat] /\ IsFiniteSet(Guard!RowsOf(log', Kinds))
    BY <1>0, RecordedIsOne DEF OneMoreOf
  <2>2. ban' \in [GuardIps -> [left : 0 .. Longest, next : FirstBan .. Longest]]
    BY <1>0, <1>1, BanLasts DEF GuardTyped
  <2>3. QED
    BY <2>1, <2>2 DEF GuardTyped, Kinds
<1>3. FreeFits'
  <2>1. /\ Guard!CountOf(GuardIps, FreeOnly)' = Guard!CountOf(GuardIps, FreeOnly) + IF how = "free" THEN 1 ELSE 0
        /\ Guard!CountOf(GuardIps, FreeOnly) \in Nat /\ Cardinality(AwaitsFree) \in Nat
    BY <1>0, RecordCounts, GuardNumbers
  <2>2. QED
    BY <1>0, <2>1 DEF FreeFits
<1>4. ASSUME NEW i \in GuardIps
      PROVE  AddressFits(i)'
  <2> DEFINE one == IF i = ip /\ how \in Guard!Logins THEN 1 ELSE 0
             L == Guard!LoginFailures(i)
             M == Guard!LoginFailures(i)'
             O == Cardinality(Guard!RowsOf(log, {i} \X Guard!Logins \X Outlasting(i)))
             P == Cardinality(Guard!RowsOf(log, {i} \X Guard!Logins \X Outlasting(i)))'
             A == Cardinality(Awaits(i))
             B == Cardinality(Awaits(i)')
             n == Cardinality(GuardCalls)
  <2>1. /\ M = L + one /\ M <= Guard!Failures(i)' /\ Guard!Failures(ip)' = Guard!Failures(ip) + 1
        /\ ban'[i] = ban[i] => P <= O + one
    BY <1>0, RecordCounts
  <2>2. L \in Nat /\ O \in Nat /\ A \in Nat /\ Guard!Failures(ip) \in Nat /\ B = A - one
    BY <1>0, GuardNumbers
  <2>3. B \in Nat /\ B <= n
    <3>1. Awaits(i)' \in SUBSET GuardCalls
      BY DEF Awaits
    <3>2. QED
      BY <3>1, AwaitsAreCalls
  <2>4. /\ L + A <= Residue + n
        /\ ~ Guard!Banned(i) => L <= Residue
        /\ Guard!Banned(i) => O + A <= n
    BY <1>0 DEF AddressFits
  <2>5. P \in Nat
    <3>1. ({i} \X Guard!Logins \X Outlasting(i))' \in SUBSET Kinds
      BY DEF Kinds, Guard!Logins, Guard!Hows, Outlasting
    <3>2. IsFiniteSet(Guard!RowsOf(log', Kinds))
      BY <1>0, RecordedIsOne
    <3>3. Guard!RowsOf(log, {i} \X Guard!Logins \X Outlasting(i))' \subseteq Guard!RowsOf(log', Kinds)
      BY <3>1, RowsParts
    <3>4. QED
      BY <3>2, <3>3, FS_Subset, FS_CardinalityType
  <2> HIDE DEF L, M, O, P, A, B, n
  <2>6. M + B <= Residue + n
    BY <1>0, <2>1, <2>2, <2>4
  <2>7. ~ Guard!Banned(i)' => M <= Residue
    <3>1. CASE ban'[i] = ban[i] /\ i # ip
      <4>1. Guard!Banned(i)' <=> Guard!Banned(i)
        BY <3>1 DEF Guard!Banned
      <4>2. one = 0
        BY <3>1
      <4>3. QED
        BY <2>1, <2>2, <2>4, <4>1, <4>2
    <3>2. CASE i = ip /\ ~ Guard!MayBan(ip, Guard!Failures(ip) + 1) /\ UNCHANGED ban
      <4>1. Guard!Banned(i)' <=> Guard!Banned(i)
        BY <3>2 DEF Guard!Banned
      <4>2. ~ Guard!Banned(i) => Guard!Failures(ip) + 1 < BanAt
        BY <1>0, <2>2, <3>2 DEF Guard!MayBan
      <4>3. M <= Guard!Failures(ip) + 1
        BY <2>1, <3>2
      <4>4. M \in Nat
        BY <2>1, <2>2
      <4>5. QED
        BY <1>0, <2>2, <4>1, <4>2, <4>3, <4>4
    <3>3. CASE i = ip /\ Guard!BanNow(ip)
      <4>1. ban'[i].left >= Window
        BY <1>0, <3>3, BanLasts
      <4>2. Guard!Banned(i)'
        BY <1>0, <1>2, <4>1 DEF Guard!Banned, GuardTyped
      <4>3. QED
        BY <4>2
    <3>4. QED
      BY <1>0, <1>1, <3>1, <3>2, <3>3, BanLasts
  <2>8. Guard!Banned(i)' => P + B <= n
    <3>1. CASE ban'[i] = ban[i]
      <4>1. Guard!Banned(i)' <=> Guard!Banned(i)
        BY <3>1 DEF Guard!Banned
      <4>2. P <= O + one
        BY <2>1, <3>1
      <4>3. one \in {0, 1}
        OBVIOUS
      <4>4. n \in Nat
        BY <1>0 DEF n
      <4> HIDE DEF one
      <4>5. QED
        BY <2>2, <2>3, <2>4, <2>5, <4>1, <4>2, <4>3, <4>4
    <3>2. CASE i = ip /\ Guard!BanNow(ip)
      <4>1. ban'[i].left >= Window /\ ban'[i].left \in Nat
        BY <1>0, <1>2, <3>2, BanLasts DEF GuardTyped
      <4>2. Outlasting(i)' = {}
        <5>1. \A t \in Guard!Recents : t \in Nat
          BY DEF Guard!Recents
        <5>2. \A t \in Nat : ~ (t + ban'[i].left < Window)
          BY <1>0, <4>1
        <5>3. QED
          BY <5>1, <5>2 DEF Outlasting
      <4>3. Guard!RowsOf(log, {i} \X Guard!Logins \X Outlasting(i))' = {}
        BY <4>2, RowsElems DEF Guard!RowsOf
      <4>4. P = 0
        BY <4>3, FS_EmptySet DEF P
      <4>5. n \in Nat
        BY <1>0 DEF n
      <4>6. QED
        BY <2>3, <4>4, <4>5
    <3>3. QED
      BY <1>0, <1>1, <3>1, <3>2, BanLasts
  <2>9. QED
    BY <2>6, <2>7, <2>8 DEF AddressFits, Residue, M, B, n, P
<1>5. QED
  BY <1>2, <1>3, <1>4 DEF GuardInv

-----------------------------------------------------------------------------
(* Time goes by *)

LEMMA GuardTickKeeps ==
    ASSUME Guard!GuardAssumption, GuardInv, Guard!Tick
    PROVE  GuardInv'
<1>0. /\ GuardTyped /\ FreeFits /\ \A i \in GuardIps : AddressFits(i)
      /\ Cardinality(GuardCalls) \in Nat /\ Residue \in Nat /\ Cardinality(GuardCalls) <= Residue
      /\ {PowAt, Window, BanAt} \subseteq Nat \ {0}
  BY GuardSizes DEF GuardInv
<1>1. /\ log' = [x \in Kinds |-> IF x[3] = 0 THEN 0 ELSE log[<<x[1], x[2], x[3] - 1>>]]
      /\ ban' = [ip \in GuardIps |-> Guard!Elapsed(ban[ip])] /\ call' = call
  BY DEF Guard!Tick, Kinds
<1>2. ASSUME NEW K \in SUBSET Kinds, NEW J \in SUBSET Kinds, \A x \in K : x[3] # 0 => <<x[1], x[2], x[3] - 1>> \in J
      PROVE  /\ IsFiniteSet(Guard!RowsOf(log', K)) /\ Cardinality(Guard!RowsOf(log', K)) \in Nat
             /\ Cardinality(Guard!RowsOf(log', K)) <= Cardinality(Guard!RowsOf(log, J))
  <2>1. IsFiniteSet(Guard!RowsOf(log, J))
    BY <1>0, CountsAreNat DEF GuardTyped
  <2>2. QED
    BY <1>1, <1>2, <2>1, RowsOlder, FS_CardinalityType
<1>3. \A x \in Kinds : x[3] # 0 => x[3] - 1 \in Guard!Recents /\ <<x[1], x[2], x[3] - 1>> \in Kinds
  <2> TAKE x \in Kinds
  <2>1. HAVE x[3] # 0
  <2>2. x[1] \in GuardIps /\ x[2] \in Guard!Hows /\ x[3] \in Guard!Recents
    BY DEF Kinds
  <2>3. x[3] - 1 \in Guard!Recents
    BY <1>0, <2>1, <2>2 DEF Guard!Recents
  <2>4. QED
    BY <2>2, <2>3 DEF Kinds
<1>4. ASSUME NEW i \in GuardIps
      PROVE  /\ ban'[i] \in [left : 0 .. Longest, next : FirstBan .. Longest]
             /\ ban[i].left \in Nat /\ ban[i].left <= Longest
             /\ ban'[i].left = IF ban[i].left > 0 THEN ban[i].left - 1 ELSE 0
  <2>1. ban[i] \in [left : 0 .. Longest, next : FirstBan .. Longest] /\ Longest \in Nat
    BY <1>0, GuardSizes DEF GuardTyped
  <2>2. ban'[i] = [ban[i] EXCEPT !.left = IF ban[i].left > 0 THEN ban[i].left - 1 ELSE 0]
    BY <1>1 DEF Guard!Elapsed
  <2>3. (IF ban[i].left > 0 THEN ban[i].left - 1 ELSE 0) \in 0 .. Longest
    BY <2>1
  <2>4. QED
    BY <2>1, <2>2, <2>3
<1>5. GuardTyped'
  <2>1. log' \in [Kinds -> Nat]
    BY <1>0, <1>1, <1>3 DEF GuardTyped
  <2>2. IsFiniteSet(Guard!RowsOf(log', Kinds))
    BY <1>2, <1>3
  <2>3. ban' \in [GuardIps -> [left : 0 .. Longest, next : FirstBan .. Longest]]
    BY <1>1, <1>4
  <2>4. QED
    BY <1>0, <1>1, <2>1, <2>2, <2>3 DEF GuardTyped, Kinds
<1>6. FreeFits'
  <2>1. GuardIps \X FreeOnly \X Guard!Recents \in SUBSET Kinds
    BY DEF Kinds, FreeOnly, Guard!Hows
  <2>2. \A x \in GuardIps \X FreeOnly \X Guard!Recents : x[3] # 0 => <<x[1], x[2], x[3] - 1>> \in GuardIps \X FreeOnly \X Guard!Recents
    BY <1>3, <2>1
  <2>3. /\ Guard!CountOf(GuardIps, FreeOnly)' <= Guard!CountOf(GuardIps, FreeOnly) /\ Guard!CountOf(GuardIps, FreeOnly)' \in Nat
    BY <1>2, <2>1, <2>2, GuardCardinality DEF Guard!CountOf
  <2>4. Guard!CountOf(GuardIps, FreeOnly) \in Nat /\ AwaitsFree' = AwaitsFree /\ Cardinality(AwaitsFree) \in Nat
    <3>1. Guard!CountOf(GuardIps, FreeOnly) \in Nat
      BY <1>0, <2>1, CountsAreNat, GuardCardinality DEF Guard!CountOf, GuardTyped
    <3>2. AwaitsFree' = AwaitsFree /\ AwaitsFree \in SUBSET GuardCalls
      BY <1>1 DEF AwaitsFree
    <3>3. QED
      BY <3>1, <3>2, AwaitsAreCalls
  <2>5. QED
    BY <1>0, <2>3, <2>4 DEF FreeFits
<1>7. ASSUME NEW i \in GuardIps
      PROVE  AddressFits(i)'
  <2> DEFINE All == {i} \X Guard!Logins \X Guard!Recents
             Out == {i} \X Guard!Logins \X Outlasting(i)
             L == Guard!LoginFailures(i)
             M == Guard!LoginFailures(i)'
             O == Cardinality(Guard!RowsOf(log, Out))
             P == Cardinality(Guard!RowsOf(log, {i} \X Guard!Logins \X Outlasting(i)))'
             A == Cardinality(Awaits(i))
             n == Cardinality(GuardCalls)
  <2>1. All \in SUBSET Kinds /\ Out \in SUBSET Kinds
    BY KindsOf DEF Kinds, Guard!Logins, Guard!Hows, Outlasting
  <2>2. \A x \in All : x[3] # 0 => <<x[1], x[2], x[3] - 1>> \in All
    BY <1>3, <2>1
  <2>3. M <= L /\ M \in Nat
    BY <1>2, <2>1, <2>2, GuardCardinality DEF Guard!CountOf, Guard!LoginFailures
  <2>4. L \in Nat /\ O \in Nat /\ A \in Nat /\ A <= n
    BY <1>0, GuardNumbers
  <2>5. Awaits(i)' = Awaits(i)
    BY <1>1 DEF Awaits
  <2>6. /\ L + A <= Residue + n
        /\ ~ Guard!Banned(i) => L <= Residue
        /\ Guard!Banned(i) => O + A <= n
    BY <1>0 DEF AddressFits
  <2>7. ~ Guard!Banned(i)' => M <= Residue
    <3>1. CASE ban[i].left = 0
      BY <1>0, <2>3, <2>4, <2>6, <3>1 DEF Guard!Banned
    <3>2. CASE ban[i].left = 1
      <4>1. \A x \in All : x[3] # 0 => <<x[1], x[2], x[3] - 1>> \in Out
        <5> TAKE x \in All
        <5>1. HAVE x[3] # 0
        <5>2. x[3] \in Guard!Recents /\ x[1] = i /\ x[2] \in Guard!Logins /\ x[3] - 1 \in Guard!Recents
          BY <1>3, <2>1, <5>1
        <5>3. x[3] - 1 + 1 < Window
          BY <1>0, <5>2 DEF Guard!Recents
        <5>4. x[3] - 1 \in Outlasting(i)
          BY <3>2, <5>2, <5>3 DEF Outlasting
        <5>5. QED
          BY <5>2, <5>4
      <4>2. M <= O
        BY <1>2, <2>1, <4>1, GuardCardinality DEF Guard!CountOf, Guard!LoginFailures
      <4>3. O + A <= n
        BY <2>6, <3>2 DEF Guard!Banned
      <4>4. n <= Residue /\ n \in Nat /\ Residue \in Nat
        BY <1>0
      <4> HIDE DEF M, O, A, n
      <4>5. QED
        BY <2>3, <2>4, <4>2, <4>3, <4>4
    <3>3. CASE ban[i].left > 1
      BY <1>4, <3>3 DEF Guard!Banned
    <3>4. QED
      BY <1>4, <3>1, <3>2, <3>3
  <2>8. Guard!Banned(i)' => P + A <= n
    <3> SUFFICES ASSUME Guard!Banned(i)'
                 PROVE  P + A <= n
      OBVIOUS
    <3>1. ban[i].left > 1 /\ ban'[i].left = ban[i].left - 1 /\ ban[i].left \in Nat
      BY <1>4 DEF Guard!Banned
    <3>2. O + A <= n
      BY <2>6, <3>1 DEF Guard!Banned
    <3> DEFINE Later == ({i} \X Guard!Logins \X Outlasting(i))'
    <3>3. Later \in SUBSET Kinds
      BY DEF Kinds, Guard!Logins, Guard!Hows, Outlasting
    <3>4. \A x \in Later : x[3] # 0 => <<x[1], x[2], x[3] - 1>> \in Out
      <4> TAKE x \in Later
      <4>1. HAVE x[3] # 0
      <4>2. x[3] \in Guard!Recents /\ x[1] = i /\ x[2] \in Guard!Logins /\ x[3] + ban'[i].left < Window
        BY DEF Outlasting
      <4>3. x[3] - 1 \in Guard!Recents /\ x[3] \in Int
        BY <1>0, <4>1, <4>2 DEF Guard!Recents
      <4>4. x[3] - 1 + ban[i].left < Window
        BY <3>1, <4>2, <4>3
      <4>5. x[3] - 1 \in Outlasting(i)
        BY <4>3, <4>4 DEF Outlasting
      <4>6. QED
        BY <4>2, <4>5
    <3>5. P <= O /\ P \in Nat
      <4> HIDE DEF Out
      <4>1. Cardinality(Guard!RowsOf(log', Later)) <= Cardinality(Guard!RowsOf(log, Out))
            /\ Cardinality(Guard!RowsOf(log', Later)) \in Nat
        BY <1>2, <2>1, <3>3, <3>4
      <4>2. QED
        BY <4>1
    <3>6. n \in Nat
      BY <1>0
    <3> HIDE DEF P, O, A, n
    <3>7. QED
      BY <2>4, <3>2, <3>5, <3>6
  <2>9. M + A <= Residue + n
    <3>1. n \in Nat /\ Residue \in Nat
      BY <1>0
    <3> HIDE DEF M, L, A, n
    <3>2. QED
      BY <2>3, <2>4, <2>6, <3>1
  <2>10. QED
    BY <2>5, <2>7, <2>8, <2>9 DEF AddressFits, Residue
<1>8. QED
  BY <1>5, <1>6, <1>7 DEF GuardInv

-----------------------------------------------------------------------------
(* The steps *)

LEMMA GuardInitHolds ==
    ASSUME Guard!GuardAssumption, Guard!Init
    PROVE  GuardInv
<1>0. /\ Cardinality(GuardCalls) \in Nat \ {0} /\ Residue \in Nat
      /\ {Window, PowAt, BanAt, FirstBan, Longest} \subseteq Nat \ {0}
  BY GuardSizes
<1>1. log = [x \in Kinds |-> 0] /\ \A x \in Kinds : log[x] = 0
  BY DEF Guard!Init, Kinds
<1>2. ASSUME NEW K \in SUBSET Kinds
      PROVE  Guard!RowsOf(log, K) = {} /\ Cardinality(Guard!RowsOf(log, K)) = 0
  <2>1. Guard!RowsOf(log, K) = {}
    BY <1>1, RowsNone
  <2>2. QED
    BY <2>1, FS_EmptySet
<1>3. GuardTyped
  <2>1. log \in [Kinds -> Nat] /\ IsFiniteSet(Guard!RowsOf(log, Kinds))
    BY <1>1, <1>2, FS_EmptySet
  <2>2. [left |-> 0, next |-> FirstBan] \in [left : 0 .. Longest, next : FirstBan .. Longest]
    BY <1>0, GuardCardinality DEF Guard!GuardAssumption
  <2>3. QED
    BY <2>1, <2>2 DEF GuardTyped, Guard!Init
<1>4. AwaitsFree = {} /\ \A i \in GuardIps : Awaits(i) = {} /\ ~ Guard!Banned(i)
  BY DEF AwaitsFree, Awaits, Guard!Init, Guard!Banned
<1>5. FreeFits
  <2>1. Guard!CountOf(GuardIps, FreeOnly) = 0
    BY <1>2, GuardCardinality DEF Guard!CountOf, Kinds, FreeOnly, Guard!Hows
  <2>2. QED
    BY <1>0, <1>4, <2>1, FS_EmptySet DEF FreeFits
<1>6. ASSUME NEW i \in GuardIps
      PROVE  AddressFits(i)
  <2>1. Guard!LoginFailures(i) = 0
    BY <1>2, KindsOf, GuardCardinality DEF Guard!LoginFailures, Guard!CountOf
  <2>2. QED
    BY <1>0, <1>4, <2>1, FS_EmptySet DEF AddressFits
<1>7. QED
  BY <1>3, <1>5, <1>6 DEF GuardInv

LEMMA GuardBeginKeeps ==
    ASSUME Guard!GuardAssumption, GuardInv, NEW c \in GuardCalls, NEW ip \in GuardIps, Guard!BeginLogin(c, ip)
    PROVE  GuardInv'
<1>0. /\ GuardTyped /\ FreeFits /\ \A i \in GuardIps : AddressFits(i)
      /\ Cardinality(GuardCalls) \in Nat /\ Residue \in Nat /\ PowAt \in Nat
  BY GuardSizes DEF GuardInv
<1> DEFINE r == [ip |-> ip, how |-> IF Guard!NeedsPow(ip) THEN "proof" ELSE "free"]
<1>1. /\ call[c] = None /\ ~ Guard!Banned(ip) /\ call' = [call EXCEPT ![c] = r]
      /\ UNCHANGED <<log, ban>>
  BY DEF Guard!BeginLogin
<1>2. r \in [ip : GuardIps, how : Guard!Logins] /\ r.ip = ip /\ (r.how = "free" => ~ Guard!NeedsPow(ip))
  BY DEF Guard!Logins
<1> HIDE DEF r
<1>3. /\ call' \in [GuardCalls -> [ip : GuardIps, how : Guard!Logins] \cup {None}]
      /\ \A i \in GuardIps : i # ip => Awaits(i)' = Awaits(i)
      /\ r.how # "free" => AwaitsFree' = AwaitsFree
  BY <1>0, <1>1, <1>2, AwaitsMore
<1>4. GuardTyped'
  BY <1>0, <1>1, <1>3 DEF GuardTyped, Kinds
<1>5. AwaitsFree' \in SUBSET GuardCalls /\ Awaits(ip)' \in SUBSET GuardCalls
  BY DEF AwaitsFree, Awaits
<1>6. FreeFits'
  <2>1. Guard!CountOf(GuardIps, FreeOnly)' = Guard!CountOf(GuardIps, FreeOnly) /\ Guard!CountOf(GuardIps, FreeOnly) \in Nat
        /\ Guard!CountOf(GuardIps, FreeOnly) <= Guard!AccountFailures /\ Guard!AccountFailures \in Nat
    BY <1>0, <1>1, GuardNumbers, GuardCardinality DEF Guard!CountOf
  <2>2. CASE r.how = "free"
    <3>1. Guard!AccountFailures < PowAt
      BY <1>0, <1>2, <2>1, <2>2 DEF Guard!NeedsPow
    <3>2. Cardinality(AwaitsFree') \in Nat /\ Cardinality(AwaitsFree') <= Cardinality(GuardCalls)
      BY <1>5, AwaitsAreCalls
    <3>3. QED
      BY <1>0, <2>1, <3>1, <3>2 DEF FreeFits
  <2>3. CASE r.how # "free"
    BY <1>0, <1>3, <2>1, <2>3 DEF FreeFits
  <2>4. QED
    BY <2>2, <2>3
<1>7. ASSUME NEW i \in GuardIps
      PROVE  AddressFits(i)'
  <2>1. /\ Guard!LoginFailures(i)' = Guard!LoginFailures(i) /\ (Guard!Banned(i)' <=> Guard!Banned(i))
        /\ Guard!RowsOf(log, {i} \X Guard!Logins \X Outlasting(i))' = Guard!RowsOf(log, {i} \X Guard!Logins \X Outlasting(i))
    BY <1>1, GuardCardinality DEF Guard!LoginFailures, Guard!CountOf, Guard!Banned, Outlasting
  <2>2. CASE i = ip
    <3>1. Guard!LoginFailures(i) \in Nat /\ Guard!LoginFailures(i) <= Residue
      BY <1>0, <1>1, <2>2, GuardNumbers DEF AddressFits
    <3>2. Cardinality(Awaits(i)') \in Nat /\ Cardinality(Awaits(i)') <= Cardinality(GuardCalls)
      BY <1>5, <2>2, AwaitsAreCalls
    <3>3. ~ Guard!Banned(i)'
      BY <1>1, <2>1, <2>2
    <3>4. QED
      BY <1>0, <2>1, <3>1, <3>2, <3>3 DEF AddressFits, Residue
  <2>3. CASE i # ip
    <3>1. Awaits(i)' = Awaits(i)
      BY <1>3, <2>3
    <3>2. QED
      BY <1>0, <2>1, <3>1 DEF AddressFits, Residue
  <2>4. QED
    BY <2>2, <2>3
<1>8. QED
  BY <1>4, <1>6, <1>7 DEF GuardInv

LEMMA GuardEndKeeps ==
    ASSUME Guard!GuardAssumption, GuardInv, NEW c \in GuardCalls, NEW right \in BOOLEAN, Guard!EndLogin(c, right)
    PROVE  GuardInv'
<1>0. GuardTyped /\ \A i \in GuardIps : AddressFits(i)
  BY DEF GuardInv
<1>1. call[c] # None /\ call' = [call EXCEPT ![c] = None]
  BY DEF Guard!EndLogin
<1>2. call[c] \in [ip : GuardIps, how : Guard!Logins] /\ call[c].ip \in GuardIps /\ call[c].how \in Guard!Logins
      /\ call[c].how \in Guard!Hows
  BY <1>0, <1>1 DEF GuardTyped, Guard!Logins, Guard!Hows
<1>3. /\ call' \in [GuardCalls -> [ip : GuardIps, how : Guard!Logins] \cup {None}]
      /\ \A i \in GuardIps : Cardinality(Awaits(i)') =
                           Cardinality(Awaits(i)) - IF i = call[c].ip THEN 1 ELSE 0
      /\ Cardinality(AwaitsFree') =
             Cardinality(AwaitsFree) - IF call[c].how = "free" THEN 1 ELSE 0
  BY <1>0, <1>1, AwaitsLess
<1>4. CASE right
  <2>1. UNCHANGED <<log, ban>>
    BY <1>4 DEF Guard!EndLogin
  <2>2. \A i \in GuardIps : Cardinality(Awaits(i)) \in Nat /\ Cardinality(AwaitsFree) \in Nat
    BY <1>0, GuardNumbers
  <2>3. /\ \A i \in GuardIps : Cardinality(Awaits(i)') <= Cardinality(Awaits(i))
        /\ Cardinality(AwaitsFree') <= Cardinality(AwaitsFree)
    BY <1>2, <1>3, <2>2
  <2>4. GuardTyped'
    BY <1>0, <1>3, <2>1 DEF GuardTyped, Kinds
  <2>5. QED
    BY <2>1, <2>3, <2>4, FewerAwait DEF GuardInv
<1>5. CASE ~ right
  <2>1. Guard!RecordFailure(call[c].ip, call[c].how)
    BY <1>5 DEF Guard!EndLogin
  <2>2. \A i \in GuardIps : Cardinality(Awaits(i)') =
            Cardinality(Awaits(i)) - IF i = call[c].ip /\ call[c].how \in Guard!Logins THEN 1 ELSE 0
    BY <1>2, <1>3
  <2>3. QED
    BY <1>2, <1>3, <2>1, <2>2, RecordKeeps
<1>6. QED
  BY <1>4, <1>5

\* Nothing is recorded, and no login begins or ends.
LEMMA OthersKeep ==
    ASSUME Guard!GuardAssumption, GuardInv, UNCHANGED <<log, call>>,
           \/ UNCHANGED ban
           \/ \E ip \in GuardIps : ban' = [ban EXCEPT ![ip].next = FirstBan]
    PROVE  GuardInv'
<1>1. GuardTyped /\ FirstBan \in FirstBan .. Longest
  BY GuardCardinality DEF GuardInv, Guard!GuardAssumption
<1>2. /\ ban' \in [GuardIps -> [left : 0 .. Longest, next : FirstBan .. Longest]]
      /\ \A i \in GuardIps : ban'[i].left = ban[i].left
  BY <1>1 DEF GuardTyped
<1>3. AwaitsFree' = AwaitsFree /\ \A i \in GuardIps : Awaits(i)' = Awaits(i)
  BY DEF AwaitsFree, Awaits
<1>4. GuardTyped'
  BY <1>1, <1>2 DEF GuardTyped, Kinds
<1>5. \A i \in GuardIps : Cardinality(Awaits(i)) \in Nat /\ Cardinality(AwaitsFree) \in Nat
  BY <1>1, GuardNumbers
<1>6. AwaitsFree \in SUBSET GuardCalls
  BY DEF AwaitsFree
<1>7. Cardinality(AwaitsFree) \in Nat
  BY <1>6, AwaitsAreCalls
<1>8. QED
  BY <1>2, <1>3, <1>4, <1>5, <1>7, FewerAwait DEF GuardInv

LEMMA MissKeeps ==
    ASSUME Guard!GuardAssumption, GuardInv, NEW ip \in GuardIps, Guard!MissReset(ip)
    PROVE  GuardInv'
<1>1. Guard!RecordFailure(ip, "reset") /\ call' = call /\ "reset" \in Guard!Hows /\ "reset" \notin Guard!Logins
  BY DEF Guard!MissReset, Guard!Hows, Guard!Logins
<1>2. AwaitsFree' = AwaitsFree /\ \A i \in GuardIps : Awaits(i)' = Awaits(i)
  BY <1>1 DEF AwaitsFree, Awaits
<1>3. \A i \in GuardIps : Cardinality(Awaits(i)) \in Nat /\ Cardinality(AwaitsFree) \in Nat
  BY GuardNumbers DEF GuardInv
<1>4. call' \in [GuardCalls -> [ip : GuardIps, how : Guard!Logins] \cup {None}]
  BY <1>1 DEF GuardInv, GuardTyped
<1>5. QED
  BY <1>1, <1>2, <1>3, <1>4, RecordKeeps

LEMMA GuardStep ==
    ASSUME Guard!GuardAssumption, GuardInv, Guard!Next
    PROVE  GuardInv'
<1>1. CASE Guard!Tick
  BY <1>1, GuardTickKeeps
<1>2. ASSUME NEW ip \in GuardIps,
             Guard!Challenge(ip) \/ Guard!Lapse(ip) \/ Guard!PassAlways(ip)
                \/ \E right \in BOOLEAN : Guard!Solve(ip, right) \/ Guard!Refuse(ip, right)
      PROVE  GuardInv'
  BY <1>2, OthersKeep DEF Guard!Challenge, Guard!Lapse, Guard!PassAlways, Guard!Consume, Guard!Solve, Guard!Refuse
<1>3. ASSUME NEW ip \in GuardIps, Guard!PurgeBan(ip)
      PROVE  GuardInv'
  BY <1>3, OthersKeep DEF Guard!PurgeBan
<1>4. ASSUME NEW ip \in GuardIps, Guard!MissReset(ip)
      PROVE  GuardInv'
  BY <1>4, MissKeeps
<1>5. ASSUME NEW ip \in GuardIps, NEW c \in GuardCalls, Guard!BeginLogin(c, ip)
      PROVE  GuardInv'
  BY <1>5, GuardBeginKeeps
<1>6. ASSUME NEW c \in GuardCalls, NEW right \in BOOLEAN, Guard!EndLogin(c, right)
      PROVE  GuardInv'
  BY <1>6, GuardEndKeeps
<1>7. QED
  BY <1>1, <1>2, <1>3, <1>4, <1>5, <1>6 DEF Guard!Next

LEMMA GuessesAreLimited ==
    ASSUME Guard!GuardAssumption, GuardInv
    PROVE  Guard!GuessesLimited
<1>0. /\ GuardTyped /\ FreeFits /\ \A i \in GuardIps : AddressFits(i)
      /\ Cardinality(GuardCalls) \in Nat \ {0} /\ Residue \in Nat /\ PowAt \in Nat \ {0}
  BY GuardSizes DEF GuardInv
<1>1. Guard!FreeGuessesBounded
  <2>1. AwaitsFree \in SUBSET GuardCalls
    BY DEF AwaitsFree
  <2>2. Cardinality(AwaitsFree) \in Nat
    BY <2>1, AwaitsAreCalls
  <2>3. Guard!CountOf(GuardIps, FreeOnly) \in Nat
    <3>1. GuardIps \X FreeOnly \X Guard!Recents \in SUBSET Kinds
      BY DEF Kinds, FreeOnly, Guard!Hows
    <3>2. QED
      BY <1>0, <3>1, CountsAreNat, GuardCardinality DEF Guard!CountOf, GuardTyped
  <2>4. QED
    BY <1>0, <2>2, <2>3, GuardCardinality DEF FreeFits, Guard!FreeGuessesBounded, FreeOnly
<1>2. ASSUME NEW i \in GuardIps
      PROVE  Guard!LoginFailures(i) <= Residue + Cardinality(GuardCalls)
  <2>1. Guard!LoginFailures(i) \in Nat /\ Cardinality(Awaits(i)) \in Nat
    BY <1>0, GuardNumbers
  <2>2. Guard!LoginFailures(i) + Cardinality(Awaits(i)) <= Residue + Cardinality(GuardCalls)
    BY <1>0 DEF AddressFits
  <2>3. QED
    BY <1>0, <2>1, <2>2
<1>3. Guard!GuessesBounded
  BY <1>2, GuardCardinality DEF Guard!GuessesBounded, Residue
<1>4. QED
  BY <1>1, <1>3 DEF Guard!GuessesLimited

\* Without a proof of work no more passwords of an account are tried in a
\* window than the threshold and the logins that overlap, from all addresses,
\* and no more at all by one address than until the ban, up to what overlaps.
THEOREM GuessesLimitedHolds ==
    ASSUME Guard!GuardAssumption
    PROVE  MCSpec => []GuessesLimited
<1>1. MCInit => GuardInv
  BY GuardInitHolds DEF MCInit
<1>2. GuardInv /\ [MCNext]_mcVars => GuardInv'
  <2>1. CASE Guard!Next
    BY <2>1, GuardStep
  <2>2. CASE UNCHANGED guard
    BY <2>2, OthersKeep DEF guard
  <2>3. QED
    BY <2>1, <2>2 DEF MCNext, mcVars
<1>3. GuardInv => GuessesLimited
  BY GuessesAreLimited DEF GuessesLimited
<1>4. QED
  BY <1>1, <1>2, <1>3, PTL DEF MCSpec
=============================================================================
