---------------------------- MODULE AccountsProofs ----------------------------
(***************************************************************************)
(* Accounts and the configuration they live on, for any number of calls,   *)
(* instances, settings and faults: at most one user was taken for the only *)
(* one at sign-up, the primary administrator stays, somebody is            *)
(* administrator, a saved setting is read everywhere, and sign-up that was *)
(* closed stays closed.                                                    *)
(***************************************************************************)
EXTENDS Accounts, FiniteSetTheorems, TLAPS

\* The places of a call before its user is in the database, and after.
Before == {"idle", "first", "later", "picture", "role", "user"}
After == {"auth", "count", "promote", "close", "closing", "done"}

CallRecord == [kind : {"none", "signup", "ldap", "oauth", "boot", "scim", "add"},
               node : Nodes \cup {Nobody}, pc : Before \cup After,
               role : Roles, late : BOOLEAN, won : BOOLEAN]

\* What the steps need of the types.
AccountsType ==
    /\ call \in [Calls -> CallRecord]
    /\ users \subseteq Calls
    /\ born \in [Calls -> Nat]
    /\ clock \in Nat

\* A call counts, and wins, only after its user is inserted; a user is
\* inserted once, in a second no later than the clock.
Order ==
    /\ \A c \in Calls : call[c].won => call[c].pc \notin Before \cup {"auth", "count"}
    /\ \A c \in Calls : call[c].pc \in Before => born[c] = 0
    /\ \A u \in users : born[u] # 0
    /\ \A c \in Calls : born[c] <= clock

CountInv == AccountsType /\ Order /\ OneSignupWins

LEMMA FreshType == Fresh \in CallRecord
  BY AccountsAssumption DEF Fresh, CallRecord, Before

LEMMA InitCount == AccountsInit => CountInv
<1> SUFFICES ASSUME AccountsInit PROVE CountInv
  OBVIOUS
<1>1. /\ users = {} /\ clock = 0
      /\ born = [c \in Calls |-> 0]
      /\ call = [c \in Calls |-> Fresh]
  BY DEF AccountsInit
<1>2. AccountsType
  BY <1>1, FreshType DEF AccountsType
<1>3. Order
  BY <1>1 DEF Order, Fresh
<1> QED
  BY <1>1, <1>2, <1>3 DEF CountInv, OneSignupWins

\* Two users that are the only one are the same.
LEMMA OneOfOne ==
  ASSUME NEW S \in SUBSET Calls, Cardinality(S) = 1
  PROVE  \A x, y \in S : x = y
  BY FS_Subset, FS_Singleton, AccountsAssumption

\* Call c is now at pc, has won only if it had before, and no other call moved.
Moved(c, pc) ==
    /\ call' \in [Calls -> CallRecord]
    /\ \A d \in Calls \ {c} : call'[d] = call[d]
    /\ call'[c].pc = pc
    /\ call'[c].won = call[c].won

LEMMA GotoMoves ==
  ASSUME call \in [Calls -> CallRecord], NEW c \in Calls, NEW pc \in Before \cup After,
         Goto(c, pc)
  PROVE  Moved(c, pc)
<1>1. call[c] \in CallRecord
  OBVIOUS
<1>2. [call[c] EXCEPT !.pc = pc] \in CallRecord
  BY <1>1 DEF CallRecord
<1>3. call' = [call EXCEPT ![c] = [call[c] EXCEPT !.pc = pc]]
  BY DEF Goto
<1>4. [call[c] EXCEPT !.pc = pc].pc = pc /\ [call[c] EXCEPT !.pc = pc].won = call[c].won
  BY <1>1 DEF CallRecord
<1> QED
  BY <1>2, <1>3, <1>4 DEF Moved

LEMMA EndMoves ==
  ASSUME call \in [Calls -> CallRecord], NEW c \in Calls, NEW pc \in Before \cup After,
         call' = [call EXCEPT ![c] = Over(c, pc)]
  PROVE  Moved(c, pc)
<1>1. call[c] \in CallRecord
  OBVIOUS
<1>2. Fresh \in CallRecord
  BY FreshType
<1>3. Over(c, pc) \in CallRecord
  BY <1>1, <1>2 DEF Over, CallRecord
<1>4. Over(c, pc).pc = pc /\ Over(c, pc).won = call[c].won
  BY <1>1, <1>2 DEF Over, CallRecord
<1> QED
  BY <1>3, <1>4 DEF Moved

\* A step that inserts nobody and lets nobody win: users may go, calls may
\* move on.
CallsMove ==
    /\ call' \in [Calls -> CallRecord]
    /\ \A d \in Calls : /\ call'[d].won = call[d].won
                        /\ call'[d].pc \in Before => call[d].pc \in Before
                        /\ call'[d].pc \in Before \cup {"auth", "count"}
                           => call[d].pc \in Before \cup {"auth", "count"}

Calm == CallsMove /\ users' \subseteq users /\ UNCHANGED <<born, clock>>

LEMMA CalmKeeps == CountInv /\ Calm => CountInv'
  BY DEF CountInv, AccountsType, Order, OneSignupWins, Calm, CallsMove

LEMMA StayMoves == call \in [Calls -> CallRecord] /\ UNCHANGED call => CallsMove
  BY DEF CallsMove

LEMMA MovedMoves ==
  ASSUME call \in [Calls -> CallRecord], NEW c \in Calls, NEW pc, Moved(c, pc),
         \/ pc \notin Before \cup {"auth", "count"}
         \/ call[c].pc \in Before
         \/ call[c].pc = "auth" /\ pc = "count"
  PROVE  CallsMove
  BY DEF CallsMove, Moved, Before

\* The steps of a call that neither insert its user nor count.
LEMMA CreationCalm ==
  ASSUME CountInv, NEW c \in Calls, Creation(c), ~InsertUser(c), ~Count(c)
  PROVE  Calm
<1>1. call \in [Calls -> CallRecord]
  BY DEF CountInv, AccountsType
<1>2. CASE Admit(c)
  <2>1. Moved(c, "user") \/ Moved(c, "done")
    BY <1>1, <1>2, GotoMoves, EndMoves DEF Admit, End, Before, After
  <2> QED
    BY <1>1, <1>2, <2>1, MovedMoves DEF Admit, Calm, rowVars, Before
<1>3. CASE InsertAuth(c)
  <2>1. \/ Moved(c, "count") \/ Moved(c, "close") \/ Moved(c, "done")
    BY <1>1, <1>3, GotoMoves, EndMoves DEF InsertAuth, Inserted, End, Before, After
  <2> QED
    BY <1>1, <1>3, <2>1, MovedMoves DEF InsertAuth, At, Calm, Before
<1>4. CASE Promote(c)
  <2>1. Moved(c, "close")
    BY <1>1, <1>4, GotoMoves DEF Promote, After
  <2> QED
    BY <1>1, <1>4, <2>1, MovedMoves DEF Promote, Calm, Before
<1>5. CASE Close(c)
  <2>1. Moved(c, "closing")
    BY <1>1, <1>5, GotoMoves DEF Close, After
  <2> QED
    BY <1>1, <1>5, <2>1, MovedMoves DEF Close, Calm, rowVars, Before
<1>6. CASE Finish(c)
  <2>1. Moved(c, "done")
    BY <1>1, <1>6, EndMoves DEF Finish, End, After
  <2> QED
    BY <1>1, <1>6, <2>1, MovedMoves DEF Finish, Calm, rowVars, Before
<1>7. CASE Picture(c)
  <2>1. Moved(c, "role")
    BY <1>1, <1>7, GotoMoves DEF Picture, Before
  <2> QED
    BY <1>1, <1>7, <2>1, MovedMoves DEF Picture, Calm, rowVars, Before
<1>8. CASE DecideRole(c)
  <2>1. PICK r \in Roles : call' = [call EXCEPT ![c].pc = "user", ![c].role = r]
    BY <1>8, AccountsAssumption DEF DecideRole
  <2>2. Moved(c, "user")
    BY <1>1, <2>1 DEF Moved, CallRecord, Before
  <2> QED
    BY <1>1, <1>8, <2>2, MovedMoves DEF DecideRole, At, Calm, rowVars, Before
<1> QED
  BY <1>2, <1>3, <1>4, <1>5, <1>6, <1>7, <1>8 DEF Creation

\* The steps that start a call.
Starting(c, n) == \/ Signup(c, n) \/ Ldap(c, n) \/ Oauth(c, n) \/ BootAdmin(c, n)
                  \/ \E r \in Roles : ScimCreate(c, n, r) \/ AddUser(c, n, r)

LEMMA StartingCalm ==
  ASSUME CountInv, NEW c \in Calls, NEW n \in Nodes, Starting(c, n)
  PROVE  Calm
<1>1. call \in [Calls -> CallRecord] /\ call[c] \in CallRecord
  BY DEF CountInv, AccountsType
<1>2. call[c].pc = "idle"
  BY DEF Starting, Signup, Begin, Ldap, Oauth, BootAdmin, ScimCreate, AddUser
<1>3. Closed \in BOOLEAN
  BY DEF Closed
<1>4. \E pc \in Before : Moved(c, pc)
  <2>1. CASE Signup(c, n)
    <3>1. call' = [call EXCEPT ![c] = [@ EXCEPT !.kind = "signup", !.node = n,
                     !.pc = IF users = {} THEN "first" ELSE "later", !.late = Closed]]
      BY <2>1 DEF Signup, Begin
    <3>2. Moved(c, IF users = {} THEN "first" ELSE "later")
      BY <1>1, <1>3, <3>1 DEF Moved, CallRecord, Before
    <3> QED
      BY <3>2 DEF Before
  <2>2. CASE Ldap(c, n)
    <3>1. Moved(c, "role")
      BY <1>1, <2>2 DEF Ldap, Begin, Moved, CallRecord, Before
    <3> QED
      BY <3>1 DEF Before
  <2>3. CASE Oauth(c, n)
    <3>1. Moved(c, "picture")
      BY <1>1, <2>3 DEF Oauth, Moved, CallRecord, Before
    <3> QED
      BY <3>1 DEF Before
  <2>4. CASE BootAdmin(c, n) \/ \E r \in Roles : ScimCreate(c, n, r) \/ AddUser(c, n, r)
    <3>1. PICK k \in {"boot", "scim", "add"}, r \in Roles :
            call' = [call EXCEPT ![c] = [@ EXCEPT !.kind = k, !.node = n, !.pc = "user", !.role = r]]
      BY <2>4, AccountsAssumption DEF BootAdmin, ScimCreate, AddUser
    <3>2. Moved(c, "user")
      BY <1>1, <3>1 DEF Moved, CallRecord, Before
    <3> QED
      BY <3>2 DEF Before
  <2> QED
    BY <2>1, <2>2, <2>3, <2>4 DEF Starting
<1>5. UNCHANGED <<users, born, clock>>
  BY DEF Starting, Signup, Begin, Ldap, Oauth, BootAdmin, ScimCreate, AddUser, rowVars
<1> QED
  BY <1>1, <1>2, <1>4, <1>5, MovedMoves DEF Calm, Before

\* The step that inserts the user of a call: it has not won, and not been born.
LEMMA InsertKeeps ==
  ASSUME CountInv, NEW c \in Calls, InsertUser(c)
  PROVE  CountInv'
<1>1. call \in [Calls -> CallRecord] /\ users \subseteq Calls
      /\ born \in [Calls -> Nat] /\ clock \in Nat
  BY DEF CountInv, AccountsType
<1>2. call[c].pc = "user"
  BY DEF InsertUser, At
<1>3. ~call[c].won /\ born[c] = 0
  BY <1>2 DEF CountInv, Order, Before
<1>4. \E pc \in After : Moved(c, pc)
  <2>1. \/ Moved(c, "auth") \/ Moved(c, "count") \/ Moved(c, "close") \/ Moved(c, "done")
    BY <1>1, GotoMoves, EndMoves DEF InsertUser, Inserted, End, After
  <2> QED
    BY <2>1 DEF After
<1>5. PICK second \in {clock, clock + 1} \ {0} :
        users' = users \cup {c} /\ born' = [born EXCEPT ![c] = second] /\ clock' = second
  BY DEF InsertUser, InsertRow
<1>6. second \in Nat \ {0} /\ clock <= second
  BY <1>1, <1>5
<1>7. AccountsType'
  BY <1>1, <1>4, <1>5, <1>6 DEF AccountsType, Moved
<1>8. Order'
  <2>1. \A d \in Calls : born'[d] <= clock'
    BY <1>1, <1>5, <1>6 DEF CountInv, Order
  <2>2. \A u \in users' : born'[u] # 0
    BY <1>1, <1>5, <1>6 DEF CountInv, Order
  <2>3. \A d \in Calls : call'[d].won => call'[d].pc \notin Before \cup {"auth", "count"}
    BY <1>3, <1>4 DEF CountInv, Order, Moved
  <2>4. \A d \in Calls : call'[d].pc \in Before => born'[d] = 0
    BY <1>1, <1>4, <1>5 DEF CountInv, Order, Moved, Before, After
  <2> QED
    BY <2>1, <2>2, <2>3, <2>4 DEF Order
<1>9. OneSignupWins'
  BY <1>1, <1>3, <1>4, <1>5 DEF CountInv, OneSignupWins, Moved
<1> QED
  BY <1>7, <1>8, <1>9 DEF CountInv

\* The step that counts: who wins was the only user, so nobody present has won.
LEMMA CountKeeps ==
  ASSUME CountInv, NEW c \in Calls, Count(c)
  PROVE  CountInv'
<1>1. call \in [Calls -> CallRecord] /\ call[c] \in CallRecord /\ users \in SUBSET Calls
  BY DEF CountInv, AccountsType
<1>2. call[c].pc = "count" /\ UNCHANGED <<users, born, clock>>
  BY DEF Count, At, rowVars
<1>3. CASE Cardinality(users) = 1
  <2>1. call' = [call EXCEPT ![c].pc = "promote", ![c].won = TRUE]
    BY <1>3 DEF Count
  <2>2. /\ call' \in [Calls -> CallRecord]
        /\ \A d \in Calls \ {c} : call'[d] = call[d]
        /\ call'[c].pc = "promote"
    BY <1>1, <2>1 DEF CallRecord, After
  <2>3. \A x, y \in users : x = y
    BY <1>1, <1>3, OneOfOne
  <2>4. AccountsType'
    BY <1>2, <2>2 DEF CountInv, AccountsType
  <2>5. Order'
    BY <1>1, <1>2, <2>2 DEF CountInv, Order, Before
  <2>6. OneSignupWins'
    BY <1>2, <2>3 DEF OneSignupWins
  <2> QED
    BY <2>4, <2>5, <2>6 DEF CountInv
<1>4. CASE Cardinality(users) # 1
  <2>1. Moved(c, "done")
    BY <1>1, <1>4, EndMoves DEF Count, End, After
  <2>2. CallsMove
    BY <1>1, <2>1, MovedMoves DEF Before
  <2> QED
    BY <1>2, <2>2, CalmKeeps DEF Calm
<1> QED
  BY <1>3, <1>4

\* What an instance does by itself, and what administrators do.
Serving(n) ==
    \/ \E c \in Calls : OauthAgain(c, n) \/ ScimDelete(c, n)
                        \/ \E r \in Roles : ScimUpdate(c, n, r)
    \/ \E a, u \in users, r \in Roles \cup {"deleted"} : AdminAsks(n, a, u, r)
    \/ GuardOrder(n) \/ ApplyOrder(n) \/ DeleteAuth(n) \/ BootPlain(n)
    \/ \E data \in Imports : AdminImports(n, data)
    \/ UNCHANGED accountVars

LEMMA ServingCalm ==
  ASSUME CountInv, NEW n \in Nodes, Serving(n)
  PROVE  Calm
<1>1. UNCHANGED <<call, born, clock>>
  BY DEF Serving, OauthAgain, ScimDelete, ScimUpdate, AdminAsks, GuardOrder, ApplyOrder,
         DeleteAuth, BootPlain, AdminImports, accountVars, rowVars
<1>2. users' \subseteq users
  BY DEF Serving, OauthAgain, ScimDelete, ScimUpdate, AdminAsks, GuardOrder, ApplyOrder,
         DeleteAuth, BootPlain, AdminImports, accountVars, rowVars, DropRow
<1> QED
  BY <1>1, <1>2, StayMoves DEF Calm, CountInv, AccountsType

\* A crash ends the calls of its instance; a saved form makes no call late.
LEMMA CrashCalm ==
  ASSUME CountInv, NEW n \in Nodes, CrashAll(n)
  PROVE  Calm
<1>1. call \in [Calls -> CallRecord]
  BY DEF CountInv, AccountsType
<1>2. \A c \in Calls : Over(c, "done") \in CallRecord /\ Over(c, "done").pc = "done"
                       /\ Over(c, "done").won = call[c].won
  BY <1>1, FreshType DEF Over, CallRecord, After
<1>3. call' = [c \in Calls |-> IF c \in Under(n) THEN Over(c, "done") ELSE call[c]]
      /\ UNCHANGED <<users, born, clock>>
  BY DEF CrashAll
<1> QED
  BY <1>1, <1>2, <1>3 DEF Calm, CallsMove, Before

LEMMA FormCalm ==
  ASSUME CountInv, NEW n \in Nodes, NEW form, AdminSaves(n, form)
  PROVE  Calm
<1>1. call \in [Calls -> CallRecord]
  BY DEF CountInv, AccountsType
<1>2. \A c \in Calls : /\ [call[c] EXCEPT !.late = FALSE] \in CallRecord
                       /\ [call[c] EXCEPT !.late = FALSE].pc = call[c].pc
                       /\ [call[c] EXCEPT !.late = FALSE].won = call[c].won
  BY <1>1 DEF CallRecord
<1>3. /\ UNCHANGED <<users, born, clock>>
      /\ call' = [c \in Calls |-> IF \E i \in DOMAIN form : form[i][1] = SIGNUP
                                  THEN [call[c] EXCEPT !.late = FALSE] ELSE call[c]]
  BY DEF AdminSaves, rowVars
<1> QED
  BY <1>1, <1>2, <1>3 DEF Calm, CallsMove

\* Every step is one of these.
LEMMA NextSteps ==
  ASSUME Next
  PROVE  \/ \E c \in Calls : Creation(c)
         \/ \E c \in Calls, n \in Nodes : Starting(c, n)
         \/ \E n \in Nodes : Serving(n) \/ CrashAll(n) \/ \E form \in Forms : AdminSaves(n, form)
<1>1. CASE \E c \in Calls : Creation(c)
  BY <1>1
<1>2. ASSUME NEW c \in Calls, NEW n \in Nodes,
             \/ Signup(c, n) \/ Ldap(c, n) \/ Oauth(c, n) \/ BootAdmin(c, n)
             \/ OauthAgain(c, n) \/ ScimDelete(c, n)
             \/ \E r \in Roles \ {"admin"} : ScimCreate(c, n, r) \/ ScimUpdate(c, n, r)
      PROVE  Starting(c, n) \/ Serving(n)
  BY <1>2 DEF Starting, Serving
<1>3. ASSUME NEW c \in Calls, NEW n \in Nodes, NEW r \in Roles, AddUser(c, n, r)
      PROVE  Starting(c, n)
  BY <1>3 DEF Starting
<1>4. ASSUME NEW n \in Nodes, NEW a \in users, NEW u \in users,
             NEW r \in Roles \cup {"deleted"}, AdminAsks(n, a, u, r)
      PROVE  Serving(n)
  BY <1>4 DEF Serving
<1>5. ASSUME NEW n \in Nodes,
             \/ GuardOrder(n) \/ ApplyOrder(n) \/ DeleteAuth(n)
             \/ BootPlain(n)
             \/ UNCHANGED accountVars
             \/ \E data \in Imports : AdminImports(n, data)
      PROVE  Serving(n)
  BY <1>5 DEF Serving
<1> QED
  BY <1>1, <1>2, <1>3, <1>4, <1>5 DEF Next

LEMMA CountStep == CountInv /\ [Next]_vars => CountInv'
<1> SUFFICES ASSUME CountInv, [Next]_vars PROVE CountInv'
  OBVIOUS
<1>1. ASSUME NEW c \in Calls, Creation(c) PROVE CountInv'
  BY <1>1, CreationCalm, CalmKeeps, InsertKeeps, CountKeeps
<1>2. ASSUME NEW c \in Calls, NEW n \in Nodes, Starting(c, n) PROVE CountInv'
  BY <1>2, StartingCalm, CalmKeeps
<1>3. ASSUME NEW n \in Nodes,
             Serving(n) \/ CrashAll(n) \/ \E form \in Forms : AdminSaves(n, form)
      PROVE  CountInv'
  BY <1>3, ServingCalm, CrashCalm, FormCalm, CalmKeeps
<1>4. CASE UNCHANGED vars
  BY <1>4, StayMoves, CalmKeeps DEF vars, accountVars, Calm, CountInv, AccountsType
<1> QED
  BY <1>1, <1>2, <1>3, <1>4, NextSteps

\* However calls, administrators, instances and faults interleave, at most one
\* of the users present was taken for the only one at sign-up.
THEOREM OneWinner == Spec => []OneSignupWins
<1>1. CountInv => OneSignupWins
  BY DEF CountInv
<1> QED
  BY <1>1, InitCount, CountStep, PTL DEF Spec

-----------------------------------------------------------------------------
(* The primary administrator stays. *)

OrderRecord == [by : Calls \cup {Nobody}, target : Calls \cup {Nobody},
                role : Roles \cup {"none", "deleted"},
                pc : {"none", "asked", "apply", "auth"}]

\* An order that is asked for or admitted is about a user that was there, and
\* one that is admitted gives the primary user no role but administrator.
OrdersKept ==
    \A n \in Nodes :
        /\ order[n].pc \in {"asked", "apply"} =>
             /\ order[n].target \in Calls /\ born[order[n].target] # 0
             /\ order[n].role # "none"
        /\ (order[n].pc = "apply" /\ ~RoleManagement /\ Primary(order[n].target)) =>
             order[n].role = "admin"

PrimaryInv ==
    /\ CountInv
    /\ role \in [Calls -> Roles]
    /\ order \in [Nodes -> OrderRecord]
    /\ OrdersKept

LEMMA NoOrderType == NoOrder \in OrderRecord
  BY DEF NoOrder, OrderRecord

\* A step that inserts nobody.
Sparing == users' \subseteq users /\ UNCHANGED born

\* A step that adds at most a user not born before leaves nobody primary who
\* was not, that user aside.
LEMMA PrimaryBefore ==
  ASSUME CountInv, NEW t \in Calls, born[t] # 0, Primary(t)',
         \/ Sparing
         \/ \E c \in Calls : InsertUser(c)
  PROVE  Primary(t)
<1>1. CASE Sparing
  BY <1>1 DEF Primary, Sparing
<1>2. ASSUME NEW c \in Calls, InsertUser(c) PROVE Primary(t)
  <2>1. born \in [Calls -> Nat] /\ born[c] = 0
    BY <1>2 DEF InsertUser, At, CountInv, Order, Before, AccountsType
  <2>2. PICK second : users' = users \cup {c} /\ born' = [born EXCEPT ![c] = second]
    BY <1>2 DEF InsertUser, InsertRow
  <2> QED
    BY <2>1, <2>2 DEF Primary
<1> QED
  BY <1>1, <1>2

\* An admitted order stays what it was, or is over.
LEMMA OrdersStay ==
  ASSUME PrimaryInv, CountInv',
         Sparing \/ \E c \in Calls : InsertUser(c),
         NEW S \in SUBSET Nodes,
         order' = [n \in Nodes |-> IF n \in S THEN NoOrder ELSE order[n]]
  PROVE  order' \in [Nodes -> OrderRecord] /\ OrdersKept'
<1>1. order' \in [Nodes -> OrderRecord]
  BY NoOrderType DEF PrimaryInv
<1>2. \A t \in Calls : born[t] # 0 => born'[t] # 0
  <2>1. CASE Sparing
    BY <2>1 DEF Sparing
  <2>2. ASSUME NEW c \in Calls, InsertUser(c) PROVE \A t \in Calls : born[t] # 0 => born'[t] # 0
    <3>1. born \in [Calls -> Nat] /\ clock \in Nat
      BY DEF PrimaryInv, CountInv, AccountsType
    <3>2. PICK second \in {clock, clock + 1} \ {0} : born' = [born EXCEPT ![c] = second]
      BY <2>2 DEF InsertUser, InsertRow
    <3> QED
      BY <3>1, <3>2
  <2> QED
    BY <2>1, <2>2
<1>3. ASSUME NEW n \in Nodes, order'[n].pc \in {"asked", "apply"}
      PROVE  order'[n] = order[n] /\ order[n].target \in Calls /\ born[order[n].target] # 0
  <2>1. NoOrder.pc = "none"
    BY DEF NoOrder
  <2>2. order'[n] = order[n]
    BY <1>3, <2>1
  <2> QED
    BY <1>3, <2>2 DEF PrimaryInv, OrdersKept
<1>4. ASSUME NEW n \in Nodes, NEW t \in Calls, order'[n].pc = "apply",
             order'[n].target = t, ~RoleManagement, Primary(t)'
      PROVE  order'[n].role = "admin"
  <2>1. order'[n] = order[n] /\ order[n].target = t /\ born[t] # 0
    BY <1>3, <1>4
  <2>2. Primary(t)
    BY <1>4, <2>1, PrimaryBefore DEF PrimaryInv
  <2> QED
    BY <1>4, <2>1, <2>2 DEF PrimaryInv, OrdersKept
<1>5. ASSUME NEW n \in Nodes, order'[n].pc \in {"asked", "apply"}
      PROVE  /\ order'[n].target \in Calls /\ born'[order'[n].target] # 0
             /\ order'[n].role # "none"
  BY <1>2, <1>3, <1>5 DEF PrimaryInv, OrdersKept
<1>6. ASSUME NEW n \in Nodes, order'[n].pc = "apply", ~RoleManagement,
             Primary(order[n].target)'
      PROVE  order'[n].role = "admin"
  BY <1>4, <1>5, <1>6 DEF Primary
<1> QED
  BY <1>1, <1>5, <1>6 DEF OrdersKept

\* An instance that takes up or moves on with an order.
LEMMA OneOrder ==
  ASSUME PrimaryInv, CountInv', Sparing, NEW n \in Nodes, NEW o \in OrderRecord,
         order' = [order EXCEPT ![n] = o],
         o.pc \in {"asked", "apply"} =>
           o.target \in Calls /\ born[o.target] # 0 /\ o.role # "none",
         (o.pc = "apply" /\ ~RoleManagement /\ Primary(o.target)) => o.role = "admin"
  PROVE  order' \in [Nodes -> OrderRecord] /\ OrdersKept'
<1>1. order \in [Nodes -> OrderRecord] /\ born' = born
  BY DEF PrimaryInv, Sparing
<1>2. order' \in [Nodes -> OrderRecord]
  BY <1>1
<1>3. ASSUME NEW m \in Nodes, order'[m].pc \in {"asked", "apply"}
      PROVE  /\ order'[m].target \in Calls /\ born[order'[m].target] # 0
             /\ order'[m].role # "none"
  BY <1>1, <1>3 DEF PrimaryInv, OrdersKept
<1>4. ASSUME NEW m \in Nodes, NEW t \in Calls, order'[m].pc = "apply",
             order'[m].target = t, ~RoleManagement, Primary(t)'
      PROVE  order'[m].role = "admin"
  <2>1. born[t] # 0
    BY <1>3, <1>4
  <2>2. Primary(t)
    BY <1>4, <2>1, PrimaryBefore DEF PrimaryInv
  <2>3. CASE m = n
    BY <1>1, <1>4, <2>2, <2>3
  <2>4. CASE m # n
    BY <1>1, <1>4, <2>2, <2>4 DEF PrimaryInv, OrdersKept
  <2> QED
    BY <2>3, <2>4
<1>5. ASSUME NEW m \in Nodes, order'[m].pc = "apply", ~RoleManagement,
             Primary(order[m].target)'
      PROVE  order'[m].role = "admin"
  BY <1>3, <1>4, <1>5 DEF Primary
<1> QED
  BY <1>1, <1>2, <1>3, <1>5 DEF OrdersKept

\* The guard names the primary user when there is one.
LEMMA EarliestIsPrimary ==
  ASSUME CountInv, NEW p \in Calls, Primary(p), NEW e \in Earliest
  PROVE  e = p
  BY DEF CountInv, AccountsType, Order, Primary, Earliest

LEMMA ServingOrders ==
  ASSUME PrimaryInv, CountInv', NEW n \in Nodes, Serving(n), order' # order
  PROVE  order' \in [Nodes -> OrderRecord] /\ OrdersKept'
<1>1. Sparing
  BY ServingCalm DEF PrimaryInv, Calm, Sparing
<1>2. /\ order \in [Nodes -> OrderRecord] /\ order[n] \in OrderRecord
      /\ role \in [Calls -> Roles] /\ users \subseteq Calls /\ \A u \in users : born[u] # 0
  BY DEF PrimaryInv, CountInv, AccountsType, Order
<1>3. ASSUME NEW u \in Calls, OauthAgain(u, n)
      PROVE  order' \in [Nodes -> OrderRecord] /\ OrdersKept'
  <2>1. PICK r \in IF Cardinality(users) = 1 THEN {"admin"}
                   ELSE IF RoleManagement THEN OauthRoles ELSE {role[u]} :
          /\ r # role[u]
          /\ order' = [order EXCEPT ![n] =
               [by |-> Nobody, target |-> u, role |-> r, pc |-> "apply"]]
    BY <1>3 DEF OauthAgain
  <2>2. u \in users /\ r \in Roles /\ "admin" \in Roles
    BY <1>2, <1>3, <2>1, AccountsAssumption DEF OauthAgain
  <2>3. ~RoleManagement => r = "admin"
    BY <2>1
  <2>4. r # "none"
    BY <2>2, AccountsAssumption
  <2>5. [by |-> Nobody, target |-> u, role |-> r, pc |-> "apply"] \in OrderRecord
    BY <2>2 DEF OrderRecord
  <2> QED
    BY <1>1, <1>2, <2>1, <2>2, <2>3, <2>4, <2>5, OneOrder
<1>4. ASSUME NEW a \in users, NEW u \in users, NEW r \in Roles \cup {"deleted"},
             AdminAsks(n, a, u, r)
      PROVE  order' \in [Nodes -> OrderRecord] /\ OrdersKept'
  <2>1. order' = [order EXCEPT ![n] = [by |-> a, target |-> u, role |-> r, pc |-> "asked"]]
    BY <1>4 DEF AdminAsks
  <2>2. [by |-> a, target |-> u, role |-> r, pc |-> "asked"] \in OrderRecord
    BY <1>2 DEF OrderRecord
  <2>3. r # "none"
    BY AccountsAssumption
  <2> QED
    BY <1>1, <1>2, <2>1, <2>2, <2>3, OneOrder
<1>5. ASSUME GuardOrder(n)
      PROVE  order' \in [Nodes -> OrderRecord] /\ OrdersKept'
  <2>1. PICK first \in IF users = {} THEN {Nobody} ELSE Earliest :
          order' = [order EXCEPT ![n] =
            IF May(order[n], first) THEN [order[n] EXCEPT !.pc = "apply"] ELSE NoOrder]
    BY <1>5 DEF GuardOrder
  <2>2. CASE May(order[n], first)
    <3> DEFINE o == [order[n] EXCEPT !.pc = "apply"]
    <3>1. o \in OrderRecord /\ o.target = order[n].target /\ o.role = order[n].role
      BY <1>2 DEF OrderRecord
    <3>2. order[n].target \in Calls /\ born[order[n].target] # 0 /\ order[n].role # "none"
      BY <1>5 DEF GuardOrder, PrimaryInv, OrdersKept
    <3>3. ASSUME Primary(order[n].target) PROVE order[n].role = "admin"
      <4>1. first = order[n].target
        BY <2>1, <3>2, <3>3, EarliestIsPrimary DEF Primary, PrimaryInv
      <4> QED
        BY <2>2, <4>1 DEF May
    <3> HIDE DEF o
    <3>4. order' = [order EXCEPT ![n] = o]
      BY <2>1, <2>2 DEF o
    <3> QED
      BY <1>1, <3>1, <3>2, <3>3, <3>4, OneOrder
  <2>3. CASE ~May(order[n], first)
    <3>1. order' = [order EXCEPT ![n] = NoOrder] /\ NoOrder.pc = "none"
      BY <2>1, <2>3 DEF NoOrder
    <3> QED
      BY <1>1, <3>1, NoOrderType, OneOrder
  <2> QED
    BY <2>2, <2>3
<1>6. ASSUME ApplyOrder(n)
      PROVE  order' \in [Nodes -> OrderRecord] /\ OrdersKept'
  <2>1. CASE order' = [order EXCEPT ![n].pc = "auth"]
    <3> DEFINE o == [order[n] EXCEPT !.pc = "auth"]
    <3>1. o \in OrderRecord /\ o.pc = "auth"
      BY <1>2 DEF OrderRecord
    <3> HIDE DEF o
    <3>2. order' = [order EXCEPT ![n] = o]
      BY <2>1 DEF o
    <3> QED
      BY <1>1, <3>1, <3>2, OneOrder
  <2>2. CASE order' = [order EXCEPT ![n] = NoOrder]
    <3>1. NoOrder.pc = "none"
      BY DEF NoOrder
    <3> QED
      BY <1>1, <2>2, <3>1, NoOrderType, OneOrder
  <2> QED
    BY <1>6, <2>1, <2>2 DEF ApplyOrder
<1>7. ASSUME DeleteAuth(n)
      PROVE  order' \in [Nodes -> OrderRecord] /\ OrdersKept'
  <2>1. order' = [order EXCEPT ![n] = NoOrder] /\ NoOrder.pc = "none"
    BY <1>7 DEF DeleteAuth, NoOrder
  <2> QED
    BY <1>1, <2>1, NoOrderType, OneOrder
<1>8. CASE \/ \E c \in Calls : ScimDelete(c, n) \/ \E r \in Roles : ScimUpdate(c, n, r)
           \/ BootPlain(n)
           \/ \E data \in Imports : AdminImports(n, data)
           \/ UNCHANGED accountVars
  BY <1>8 DEF ScimDelete, ScimUpdate, BootPlain, AdminImports, accountVars
<1> QED
  BY <1>3, <1>4, <1>5, <1>6, <1>7, <1>8 DEF Serving

\* What a step does to the users and their roles.
RoleStep ==
    \/ UNCHANGED <<users, role>>
    \/ \E c \in Calls : InsertUser(c) \/ Promote(c)
    \/ \E n \in Nodes : ApplyOrder(n)
    \/ upset' = "scim" /\ \E u \in Calls, n \in Nodes :
         ScimDelete(u, n) \/ \E r \in Roles : ScimUpdate(u, n, r)

LEMMA RoleSteps ==
  ASSUME [Next]_vars
  PROVE  RoleStep
<1>1. ASSUME NEW c \in Calls, Creation(c) PROVE RoleStep
  BY <1>1 DEF Creation, RoleStep, Admit, InsertAuth, Count, Close, Finish, Picture,
              DecideRole, rowVars
<1>2. ASSUME NEW c \in Calls, NEW n \in Nodes, Starting(c, n) PROVE RoleStep
  BY <1>2 DEF Starting, RoleStep, Signup, Ldap, Oauth, BootAdmin, ScimCreate, AddUser,
              Begin, rowVars
<1>3. ASSUME NEW n \in Nodes, Serving(n) PROVE RoleStep
  BY <1>3 DEF Serving, RoleStep, OauthAgain, AdminAsks, GuardOrder, DeleteAuth, BootPlain,
              AdminImports, ScimDelete, ScimUpdate, Scim, accountVars, rowVars
<1>4. ASSUME NEW n \in Nodes, CrashAll(n) \/ \E form \in Forms : AdminSaves(n, form)
      PROVE  RoleStep
  BY <1>4 DEF RoleStep, CrashAll, AdminSaves, rowVars
<1>5. CASE UNCHANGED vars
  BY <1>5 DEF vars, accountVars, RoleStep
<1> QED
  BY <1>1, <1>2, <1>3, <1>4, <1>5, NextSteps

LEMMA RoleType ==
  ASSUME PrimaryInv, RoleStep
  PROVE  role' \in [Calls -> Roles]
<1>1. /\ role \in [Calls -> Roles] /\ call \in [Calls -> CallRecord]
      /\ order \in [Nodes -> OrderRecord]
  BY DEF PrimaryInv, CountInv, AccountsType
<1>2. ASSUME NEW c \in Calls, InsertUser(c) \/ Promote(c) PROVE role' \in [Calls -> Roles]
  <2>1. call[c].role \in Roles /\ "admin" \in Roles
    BY <1>1, AccountsAssumption DEF CallRecord
  <2> QED
    BY <1>1, <1>2, <2>1 DEF InsertUser, InsertRow, Promote
<1>3. ASSUME NEW n \in Nodes, ApplyOrder(n) PROVE role' \in [Calls -> Roles]
  <2>1. order[n].role \in Roles \cup {"deleted"} /\ DefaultRole \in Roles
    BY <1>1, <1>3, AccountsAssumption DEF PrimaryInv, OrdersKept, OrderRecord, ApplyOrder
  <2> QED
    BY <1>1, <1>3, <2>1 DEF ApplyOrder, DropRow
<1>4. ASSUME NEW u \in Calls, NEW n \in Nodes,
             ScimDelete(u, n) \/ \E r \in Roles : ScimUpdate(u, n, r)
      PROVE  role' \in [Calls -> Roles]
  BY <1>1, <1>4, AccountsAssumption DEF ScimDelete, ScimUpdate, DropRow
<1> QED
  BY <1>1, <1>2, <1>3, <1>4 DEF RoleStep

\* Of all these steps none takes the role or the row of the primary user.
LEMMA PrimaryKept ==
  ASSUME PrimaryInv, RoleStep, NEW u \in Calls, Primary(u), role[u] = "admin",
         upset' # "scim", ~RoleManagement
  PROVE  u \in users' /\ role'[u] = "admin"
<1>1. /\ role \in [Calls -> Roles] /\ u \in users /\ born[u] # 0
      /\ call \in [Calls -> CallRecord]
  BY DEF PrimaryInv, CountInv, Order, Primary, AccountsType
<1>2. ASSUME NEW c \in Calls, InsertUser(c) PROVE u \in users' /\ role'[u] = "admin"
  <2>1. born[c] = 0
    BY <1>2 DEF InsertUser, At, PrimaryInv, CountInv, Order, Before
  <2>2. c # u
    BY <1>1, <2>1
  <2> QED
    BY <1>1, <1>2, <2>2 DEF InsertUser, InsertRow
<1>3. ASSUME NEW c \in Calls, Promote(c) PROVE u \in users' /\ role'[u] = "admin"
  BY <1>1, <1>3 DEF Promote
<1>4. ASSUME NEW n \in Nodes, ApplyOrder(n) PROVE u \in users' /\ role'[u] = "admin"
  <2>1. order[n].target = u => order[n].role = "admin"
    BY <1>4 DEF ApplyOrder, PrimaryInv, OrdersKept
  <2>2. CASE order[n].role = "deleted"
    <3>1. order[n].target # u
      BY <2>1, <2>2, AccountsAssumption
    <3> QED
      BY <1>1, <1>4, <2>2, <3>1 DEF ApplyOrder, DropRow
  <2>3. CASE order[n].role # "deleted"
    BY <1>1, <1>4, <2>1, <2>3 DEF ApplyOrder
  <2> QED
    BY <2>2, <2>3
<1> QED
  BY <1>1, <1>2, <1>3, <1>4 DEF RoleStep

LEMMA PrimaryInit == AccountsInit => PrimaryInv
<1> SUFFICES ASSUME AccountsInit PROVE PrimaryInv
  OBVIOUS
<1>1. /\ order = [n \in Nodes |-> NoOrder] /\ role = [c \in Calls |-> DefaultRole]
      /\ NoOrder.pc = "none"
  BY DEF AccountsInit, NoOrder
<1>2. OrdersKept
  BY <1>1 DEF OrdersKept
<1> QED
  BY <1>1, <1>2, InitCount, NoOrderType, AccountsAssumption DEF PrimaryInv

\* The orders, whatever step is taken.
LEMMA OrderSteps ==
  ASSUME PrimaryInv, CountInv', [Next]_vars
  PROVE  order' \in [Nodes -> OrderRecord] /\ OrdersKept'
<1>1. CountInv /\ order \in [Nodes -> OrderRecord]
  BY DEF PrimaryInv
<1>2. ASSUME UNCHANGED order, Sparing \/ \E c \in Calls : InsertUser(c)
      PROVE  order' \in [Nodes -> OrderRecord] /\ OrdersKept'
  <2> DEFINE S == {}
  <2>1. S \in SUBSET Nodes
    OBVIOUS
  <2>2. order' = [n \in Nodes |-> IF n \in S THEN NoOrder ELSE order[n]]
    BY <1>1, <1>2
  <2> HIDE DEF S
  <2> QED
    BY <1>2, <2>1, <2>2, OrdersStay
<1>3. ASSUME NEW c \in Calls, Creation(c)
      PROVE  order' \in [Nodes -> OrderRecord] /\ OrdersKept'
  <2>1. UNCHANGED order
    BY <1>3 DEF Creation, Admit, InsertUser, InsertAuth, Count, Promote, Close, Finish,
                Picture, DecideRole, otherVars
  <2>2. Sparing \/ InsertUser(c)
    BY <1>1, <1>3, CreationCalm DEF Calm, Sparing, Count, rowVars
  <2> QED
    BY <1>2, <2>1, <2>2
<1>4. ASSUME NEW c \in Calls, NEW n \in Nodes, Starting(c, n)
      PROVE  order' \in [Nodes -> OrderRecord] /\ OrdersKept'
  <2>1. UNCHANGED order
    BY <1>4 DEF Starting, Signup, Ldap, Oauth, BootAdmin, ScimCreate, AddUser, Begin,
                otherVars
  <2> QED
    BY <1>1, <1>2, <1>4, <2>1, StartingCalm DEF Calm, Sparing
<1>5. ASSUME NEW n \in Nodes, Serving(n)
      PROVE  order' \in [Nodes -> OrderRecord] /\ OrdersKept'
  BY <1>1, <1>2, <1>5, ServingCalm, ServingOrders DEF Calm, Sparing
<1>6. ASSUME NEW n \in Nodes, CrashAll(n)
      PROVE  order' \in [Nodes -> OrderRecord] /\ OrdersKept'
  <2>1. order' = [m \in Nodes |-> IF m \in {n} THEN NoOrder ELSE order[m]]
    BY <1>1, <1>6 DEF CrashAll
  <2> QED
    BY <1>1, <1>6, <2>1, CrashCalm, OrdersStay DEF Calm, Sparing
<1>7. ASSUME NEW n \in Nodes, NEW form \in Forms, AdminSaves(n, form)
      PROVE  order' \in [Nodes -> OrderRecord] /\ OrdersKept'
  <2>1. UNCHANGED order
    BY <1>7 DEF AdminSaves, otherVars
  <2> QED
    BY <1>1, <1>2, <1>7, <2>1, FormCalm DEF Calm, Sparing
<1>8. CASE UNCHANGED vars
  BY <1>2, <1>8 DEF vars, accountVars, Sparing
<1> QED
  BY <1>3, <1>4, <1>5, <1>6, <1>7, <1>8, NextSteps

LEMMA PrimaryStep == PrimaryInv /\ [Next]_vars => PrimaryInv'
  BY CountStep, RoleSteps, RoleType, OrderSteps DEF PrimaryInv

\* The primary user stays and, once administrator, stays administrator, as
\* long as no provisioning service and no provider's claims are involved: the
\* guard of an order may be old when the order is applied, and still holds.
THEOREM PrimaryStays == Spec => PrimaryStaysAdmin
<1> DEFINE Kept == \A u \in Calls :
      (Primary(u) /\ role[u] = "admin" /\ upset' # "scim" /\ ~RoleManagement)
      => u \in users' /\ role'[u] = "admin"
<1>1. PrimaryInv /\ [Next]_vars => [Kept]_vars
  BY RoleSteps, PrimaryKept
<1> QED
  BY <1>1, PrimaryStep, PrimaryInit, PTL DEF Spec, PrimaryStaysAdmin

-----------------------------------------------------------------------------
(* The configuration: a saved setting is read. *)

SaveRecord == [todo : Seq(Settings \X Values),
               at : {"idle", "assign", "commit", "publish", "import"},
               row : Nat, import : Document]

ConfigType == ConfigTypeOK /\ saving \in [Nodes -> SaveRecord]

\* The setting an instance is saving, and the value it saves.
Saved(n) == Head(saving[n].todo)[1]
NewValue(n) == Head(saving[n].todo)[2]

\* What a document says of a setting.
Says(data, k) == IF data[k] # Unset THEN data[k] ELSE Env[k]

\* The document the next instance to start loads.
Stored == IF rows = <<>> THEN DefaultConfig ELSE Last(rows)

\* Only an instance that serves saves, and between assigning a setting and
\* publishing it the memory and the document hold the new value.
InSave(n) ==
    /\ saving[n].at # "idle" => n \in up
    /\ saving[n].at \in {"assign", "commit", "publish"} => saving[n].todo # <<>>
    /\ saving[n].at \in {"commit", "publish"} =>
         /\ blob[n][Saved(n)] = NewValue(n)
         /\ Saved(n) \notin ThreadRead => registry[n][Saved(n)] = NewValue(n)

\* Without Redis: one instance at a time and one row, which a save that is to
\* be published has written.
Alone(n) ==
    /\ Len(rows) <= 1
    /\ n \in up => up = {n}
    /\ (saving[n].at \in {"commit", "import"} /\ saving[n].row = 0) => rows = <<>>
    /\ saving[n].at = "publish" => Stored = blob[n]

\* Nothing is open about a setting: what was saved last counts.
Settled(k) == /\ k \in Settings \ (ThreadRead \cup torn)
              /\ \A m \in Nodes : k \notin Pending(m)

\* Without Redis the document stored and the memory both hold that.
SettledAlone(k) ==
    /\ Says(Stored, k) = want[k]
    /\ \A n \in up : registry[n][k] = want[k] /\ Says(blob[n], k) = want[k]

\* With Redis its key does, once it has one; until then nobody ever saved it.
SettledShared(k) ==
    \/ redis[k] = want[k]
    \/ /\ redis[k] = Unset /\ want[k] = Env[k]
       /\ \A n \in Nodes : registry[n][k] = Env[k] /\ Says(blob[n], k) = Env[k]
       /\ \A i \in DOMAIN rows : Says(rows[i], k) = Env[k]

ConfigInv ==
    /\ ConfigType
    /\ cluster \in Deployments
    /\ \A n \in Nodes : InSave(n)
    /\ ~cluster => \A n \in Nodes : Alone(n)
    /\ \A k \in Settings : Settled(k) =>
         IF cluster THEN SettledShared(k) ELSE SettledAlone(k)

\* Starting over with the defaults loses saved settings where no Redis keeps them.
NoReset == ResetOnStart => Deployments \subseteq {TRUE}

LEMMA NoSaveType == NoSave \in SaveRecord /\ NoSave.at = "idle" /\ NoSave.row = 0
  BY DEF NoSave, SaveRecord, Document, DefaultConfig

\* What the types say of one instance.
LEMMA OneSave ==
  ASSUME ConfigType, NEW n \in Nodes
  PROVE  /\ saving[n] \in SaveRecord
         /\ saving[n].todo \in Seq(Settings \X Values) /\ saving[n].row \in Nat
         /\ saving[n].import \in Document
         /\ saving[n].todo # <<>> =>
              /\ Saved(n) \in Settings /\ NewValue(n) \in Values /\ NewValue(n) # Unset
              /\ Tail(saving[n].todo) \in Seq(Settings \X Values)
         /\ Stored \in Document
<1>1. saving[n] \in SaveRecord
  BY DEF ConfigType
<1>2. saving[n].todo \in Seq(Settings \X Values)
  BY <1>1 DEF SaveRecord
<1>3. saving[n].row \in Nat /\ saving[n].import \in Document
  BY <1>1 DEF SaveRecord
<1>4. ASSUME saving[n].todo # <<>>
      PROVE  Head(saving[n].todo) \in Settings \X Values
             /\ Tail(saving[n].todo) \in Seq(Settings \X Values)
  BY <1>2, <1>4
<1>5. Stored \in Document
  <2>1. rows \in Seq(Document)
    BY DEF ConfigType, ConfigTypeOK
  <2>2. rows # <<>> => Last(rows) \in Document
    BY <2>1 DEF Last
  <2> QED
    BY <2>2 DEF Stored, DefaultConfig, Document
<1> QED
  BY <1>1, <1>2, <1>3, <1>4, <1>5, ConfigAssumption DEF Saved, NewValue

\* A save that begins: nothing has changed yet.
LEMMA BeginKeeps ==
  ASSUME ConfigInv, NEW n \in Nodes, Quiet(n), NEW s \in SaveRecord,
         saving' = [saving EXCEPT ![n] = s],
         \/ s.at = "assign" /\ s.todo # <<>>
         \/ s.at = "import" /\ s.row \in SomeRow,
         UNCHANGED <<cluster, up, registry, blob, rows, redis, want, torn>>
  PROVE  ConfigInv'
<1>1. /\ saving \in [Nodes -> SaveRecord] /\ ConfigTypeOK /\ rows \in Seq(Document)
      /\ \A m \in Nodes : InSave(m)
  BY DEF ConfigInv, ConfigType, ConfigTypeOK
<1>2. ConfigType'
  BY <1>1 DEF ConfigType, ConfigTypeOK
<1>3. \A m \in Nodes : InSave(m)'
  BY <1>1 DEF InSave, Saved, NewValue, Quiet
<1>4. ~cluster => \A m \in Nodes : Alone(m)'
  BY <1>1 DEF ConfigInv, Alone, SomeRow, Stored, Quiet
<1>5. \A k : Settled(k)' => Settled(k)
  <2>1. saving[n].at = "idle"
    BY NoSaveType DEF Quiet
  <2>2. \A m \in Nodes : Pending(m)' = Pending(m)
    BY <1>1, <2>1 DEF Pending
  <2> QED
    BY <2>2 DEF Settled
<1>6. \A k : SettledAlone(k)' <=> SettledAlone(k)
  BY DEF SettledAlone, Stored, Says
<1>7. \A k : SettledShared(k)' <=> SettledShared(k)
  BY DEF SettledShared, Says
<1> QED
  BY <1>2, <1>3, <1>4, <1>5, <1>6, <1>7 DEF ConfigInv

LEMMA AssignKeeps ==
  ASSUME ConfigInv, NEW n \in Nodes, Assign(n)
  PROVE  ConfigInv'
<1> DEFINE k == Saved(n)
           v == NewValue(n)
<1>1. /\ saving \in [Nodes -> SaveRecord] /\ ConfigTypeOK /\ rows \in Seq(Document)
      /\ registry \in [Nodes -> [Settings -> Values]] /\ blob \in [Nodes -> Document]
      /\ \A m \in Nodes : InSave(m)
  BY DEF ConfigInv, ConfigType, ConfigTypeOK
<1>2. saving[n].at = "assign" /\ saving[n].todo # <<>>
  BY <1>1 DEF Assign, InSave
<1>3. k \in Settings /\ v \in Values /\ v # Unset
  BY <1>2, OneSave DEF ConfigInv
<1>4. PICK r \in SomeRow : saving' = [saving EXCEPT ![n].at = "commit", ![n].row = r]
  BY DEF Assign
<1>5. r \in Nat /\ (r = 0 => rows = <<>>)
  BY <1>1 DEF SomeRow
<1>6. /\ saving' \in [Nodes -> SaveRecord]
      /\ \A m \in Nodes \ {n} : saving'[m] = saving[m]
      /\ saving'[n].at = "commit" /\ saving'[n].row = r /\ saving'[n].todo = saving[n].todo
  BY <1>1, <1>4, <1>5 DEF SaveRecord
<1>7. /\ registry' = [registry EXCEPT ![n][k] = v] /\ blob' = [blob EXCEPT ![n][k] = v]
      /\ UNCHANGED <<cluster, up, rows, redis, want, torn>>
  BY DEF Assign, Saved, NewValue
<1> HIDE DEF k, v
<1>8. /\ registry' \in [Nodes -> [Settings -> Values]] /\ blob' \in [Nodes -> Document]
      /\ \A m \in Nodes, j \in Settings : (m # n \/ j # k) =>
           registry'[m][j] = registry[m][j] /\ blob'[m][j] = blob[m][j]
      /\ registry'[n][k] = v /\ blob'[n][k] = v
  BY <1>1, <1>3, <1>7 DEF Document
<1>9. ConfigType'
  BY <1>1, <1>6, <1>7, <1>8 DEF ConfigType, ConfigTypeOK
<1>10. \A m \in Nodes : InSave(m)'
  <2>1. Saved(n)' = k /\ NewValue(n)' = v
    BY <1>6 DEF Saved, NewValue, k, v
  <2>2. InSave(n)'
    BY <1>1, <1>2, <1>6, <1>7, <1>8, <2>1 DEF InSave
  <2>3. ASSUME NEW m \in Nodes \ {n} PROVE InSave(m)'
    <3>1. registry'[m] = registry[m] /\ blob'[m] = blob[m] /\ saving'[m] = saving[m]
      BY <1>1, <1>6, <1>7
    <3> QED
      BY <1>1, <1>7, <3>1 DEF InSave, Saved, NewValue
  <2> QED
    BY <2>2, <2>3
<1>11. ~cluster => \A m \in Nodes : Alone(m)'
  <2> SUFFICES ASSUME ~cluster, NEW m \in Nodes PROVE Alone(m)'
    OBVIOUS
  <2>1. Alone(m) /\ Alone(n) /\ (saving[m].at # "idle" => m = n)
    BY <1>1, <1>2 DEF ConfigInv, Alone, InSave
  <2> QED
    BY <1>2, <1>5, <1>6, <1>7, <2>1 DEF Alone, Stored
<1>12. ASSUME NEW j \in Settings, Settled(j)' PROVE Settled(j) /\ j # k
  <2>1. Pending(n)' = {k} /\ Pending(n) = {}
    BY <1>2, <1>6 DEF Pending, Saved, k
  <2>2. \A m \in Nodes \ {n} : Pending(m)' = Pending(m)
    BY <1>6 DEF Pending
  <2> QED
    BY <1>7, <1>12, <2>1, <2>2 DEF Settled
<1>13. ASSUME NEW j \in Settings, j # k
       PROVE  (SettledAlone(j)' <=> SettledAlone(j)) /\ (SettledShared(j)' <=> SettledShared(j))
  <2>1. up \subseteq Nodes
    BY <1>1 DEF ConfigTypeOK
  <2>2. \A m \in Nodes : registry'[m][j] = registry[m][j] /\ blob'[m][j] = blob[m][j]
    BY <1>8, <1>13
  <2>3. SettledAlone(j)' <=> SettledAlone(j)
    BY <1>7, <2>1, <2>2 DEF SettledAlone, Says, Stored
  <2>4. SettledShared(j)' <=> SettledShared(j)
    BY <1>7, <2>2 DEF SettledShared, Says
  <2> QED
    BY <2>3, <2>4
<1> QED
  BY <1>7, <1>9, <1>10, <1>11, <1>12, <1>13 DEF ConfigInv

\* What the table holds after a document is written.
LEMMA WrittenRows ==
  ASSUME rows \in Seq(Document), NEW data \in Document, NEW r \in DOMAIN rows \cup {0}
  PROVE  /\ Written(r, data) \in Seq(Document)
         /\ \A i \in DOMAIN Written(r, data) :
              \/ Written(r, data)[i] = data
              \/ i \in DOMAIN rows /\ Written(r, data)[i] = rows[i]
         /\ (Len(rows) <= 1 /\ (r = 0 => rows = <<>>)) =>
              /\ Len(Written(r, data)) = 1
              /\ Written(r, data) # <<>> /\ Last(Written(r, data)) = data
  BY DEF Written, Last

LEMMA CommitKeeps ==
  ASSUME ConfigInv, NEW n \in Nodes, Commit(n)
  PROVE  ConfigInv'
<1>1. /\ saving \in [Nodes -> SaveRecord] /\ ConfigTypeOK /\ rows \in Seq(Document)
      /\ up \subseteq Nodes /\ blob \in [Nodes -> Document]
      /\ \A m \in Nodes : InSave(m)
  BY DEF ConfigInv, ConfigType, ConfigTypeOK
<1> DEFINE s == [saving[n] EXCEPT !.at = "publish"]
<1>2. /\ s \in SaveRecord /\ s.at = "publish" /\ s.todo = saving[n].todo
      /\ saving' = [saving EXCEPT ![n] = s]
  BY <1>1 DEF SaveRecord, Commit
<1> HIDE DEF s
<1>3. /\ saving[n].at = "commit" /\ rows' = Written(saving[n].row, blob[n])
      /\ saving[n].row \in DOMAIN rows \cup {0}
      /\ UNCHANGED <<cluster, up, registry, blob, redis, want, torn>>
  BY DEF Commit
<1>4. blob[n] \in Document /\ n \in up
  BY <1>1, <1>3 DEF InSave
<1>5. /\ rows' \in Seq(Document)
      /\ \A i \in DOMAIN rows' : rows'[i] = blob[n] \/ (i \in DOMAIN rows /\ rows'[i] = rows[i])
      /\ (Len(rows) <= 1 /\ (saving[n].row = 0 => rows = <<>>)) =>
           Len(rows') = 1 /\ rows' # <<>> /\ Last(rows') = blob[n]
  BY <1>1, <1>3, <1>4, WrittenRows
<1>6. ConfigType'
  BY <1>1, <1>2, <1>3, <1>5 DEF ConfigType, ConfigTypeOK
<1>7. \A m \in Nodes : InSave(m)'
  BY <1>1, <1>2, <1>3 DEF InSave, Saved, NewValue
<1>8. ASSUME ~cluster
      PROVE  Len(rows') = 1 /\ Stored' = blob[n] /\ \A m \in Nodes : Alone(m)'
  <2>1. \A m \in Nodes : Alone(m) /\ (m \in up => m = n)
    BY <1>4, <1>8 DEF ConfigInv, Alone
  <2>2. Len(rows') = 1 /\ rows' # <<>> /\ Last(rows') = blob[n]
    BY <1>3, <1>5, <2>1 DEF Alone
  <2>3. Stored' = blob[n]
    BY <2>2 DEF Stored
  <2>4. \A m \in Nodes \ {n} : saving'[m].at = "idle"
    BY <1>1, <1>2, <2>1 DEF InSave
  <2> QED
    BY <1>1, <1>2, <1>3, <2>1, <2>2, <2>3, <2>4 DEF Alone
<1>9. \A j : Settled(j)' <=> Settled(j)
  <2>1. \A m \in Nodes : Pending(m)' = Pending(m)
    BY <1>1, <1>2, <1>3 DEF Pending
  <2> QED
    BY <1>3, <2>1 DEF Settled
<1>10. ASSUME NEW j \in Settings, Settled(j), ~cluster
       PROVE  SettledAlone(j)'
  <2>1. SettledAlone(j)
    BY <1>10 DEF ConfigInv
  <2>2. Says(blob[n], j) = want[j]
    BY <1>4, <2>1 DEF SettledAlone
  <2> QED
    BY <1>3, <1>8, <1>10, <2>1, <2>2 DEF SettledAlone, Says
<1>11. ASSUME NEW j \in Settings, Settled(j), cluster
       PROVE  SettledShared(j)'
  <2>1. SettledShared(j)
    BY <1>11 DEF ConfigInv
  <2> QED
    BY <1>3, <1>5, <2>1 DEF SettledShared, Says
<1> QED
  BY <1>3, <1>6, <1>7, <1>8, <1>9, <1>10, <1>11 DEF ConfigInv

LEMMA PublishKeeps ==
  ASSUME ConfigInv, NEW n \in Nodes, Publish(n)
  PROVE  ConfigInv'
<1>0. PICK k, v : k = Saved(n) /\ v = NewValue(n)
  OBVIOUS
<1>1. /\ saving \in [Nodes -> SaveRecord] /\ ConfigTypeOK /\ rows \in Seq(Document)
      /\ up \subseteq Nodes /\ blob \in [Nodes -> Document] /\ saving[n] \in SaveRecord
      /\ registry \in [Nodes -> [Settings -> Values]] /\ redis \in Document
      /\ want \in [Settings -> Values] /\ torn \subseteq Settings
      /\ \A m \in Nodes : InSave(m)
  BY DEF ConfigInv, ConfigType, ConfigTypeOK
<1>2. /\ saving[n].at = "publish" /\ saving[n].todo # <<>> /\ n \in up
      /\ blob[n][k] = v /\ (k \notin ThreadRead => registry[n][k] = v)
  BY <1>0, <1>1 DEF Publish, InSave
<1>3. /\ k \in Settings /\ v \in Values /\ v # Unset
      /\ Tail(saving[n].todo) \in Seq(Settings \X Values)
  BY <1>0, <1>2, OneSave DEF ConfigInv
<1> DEFINE rest == Tail(saving[n].todo)
           s == IF rest = <<>> THEN NoSave
                ELSE [saving[n] EXCEPT !.todo = rest, !.at = "assign", !.row = 0]
<1>4. /\ s \in SaveRecord /\ s.at \in {"idle", "assign"}
      /\ s.at = "assign" => s.todo # <<>>
  BY <1>1, <1>3, NoSaveType DEF SaveRecord
<1>5. saving' = [saving EXCEPT ![n] = s]
  BY DEF Publish
<1>6. /\ redis' = IF cluster THEN [redis EXCEPT ![k] = registry[n][k]] ELSE redis
      /\ want' = [want EXCEPT ![k] = v] /\ torn' = torn \ {k}
      /\ UNCHANGED <<cluster, up, registry, blob, rows>>
  BY <1>0 DEF Publish, Saved, NewValue
<1> HIDE DEF s
<1>7. ConfigType'
  BY <1>1, <1>3, <1>4, <1>5, <1>6, ConfigAssumption DEF ConfigType, ConfigTypeOK, Document
<1>8. \A m \in Nodes : InSave(m)'
  BY <1>1, <1>2, <1>4, <1>5, <1>6 DEF InSave, Saved, NewValue
<1>9. ~cluster => \A m \in Nodes : Alone(m)'
  BY <1>1, <1>4, <1>5, <1>6 DEF ConfigInv, Alone, Stored
<1>10. ASSUME NEW j \in Settings, j # k, Settled(j)' PROVE Settled(j)
  <2>1. \A m \in Nodes : j \in Pending(m) => j \in Pending(m)'
    BY <1>0, <1>1, <1>2, <1>5, <1>10 DEF Pending, Saved
  <2> QED
    BY <1>6, <1>10, <2>1 DEF Settled
<1>11. ASSUME NEW j \in Settings, j # k
       PROVE  (SettledAlone(j) => SettledAlone(j)') /\ (SettledShared(j) => SettledShared(j)')
  <2>1. want'[j] = want[j] /\ redis'[j] = redis[j]
    BY <1>1, <1>6, <1>11 DEF Document
  <2> QED
    BY <1>6, <2>1 DEF SettledAlone, SettledShared, Says, Stored
<1>12. ASSUME ~cluster, Settled(k)' PROVE SettledAlone(k)'
  <2>1. Alone(n) /\ up = {n}
    BY <1>2, <1>12 DEF ConfigInv, Alone
  <2>2. Stored = blob[n] /\ Says(blob[n], k) = v
    BY <1>2, <1>3, <2>1 DEF Alone, Says
  <2>3. want'[k] = v /\ registry[n][k] = v
    BY <1>1, <1>2, <1>3, <1>6, <1>12 DEF Settled
  <2>4. Stored' = blob[n] /\ Says(blob'[n], k) = v
    BY <1>6, <2>2 DEF Stored
  <2> QED
    BY <1>6, <2>1, <2>3, <2>4, <2>2 DEF SettledAlone, Says
<1>13. ASSUME cluster, Settled(k)' PROVE SettledShared(k)'
  BY <1>1, <1>2, <1>3, <1>6, <1>13 DEF Settled, SettledShared, Document
<1>14. ASSUME NEW j \in Settings, Settled(j)'
       PROVE  IF cluster THEN SettledShared(j)' ELSE SettledAlone(j)'
  <2>1. CASE j = k
    BY <1>12, <1>13, <1>14, <2>1
  <2>2. CASE j # k
    BY <1>10, <1>11, <1>14, <2>2 DEF ConfigInv
  <2> QED
    BY <2>1, <2>2
<1> QED
  BY <1>6, <1>7, <1>8, <1>9, <1>14 DEF ConfigInv

\* A save that a fault ends leaves its setting torn.
LEMMA SaveFailsKeeps ==
  ASSUME ConfigInv, NEW n \in Nodes, SaveFails(n)
  PROVE  ConfigInv'
<1>1. /\ saving \in [Nodes -> SaveRecord] /\ ConfigTypeOK
      /\ \A m \in Nodes : InSave(m)
  BY DEF ConfigInv, ConfigType
<1>2. /\ saving' = [saving EXCEPT ![n] = NoSave] /\ torn' = torn \cup Pending(n)
      /\ UNCHANGED <<cluster, up, registry, blob, rows, redis, want>>
  BY DEF SaveFails
<1>3. Pending(n) \subseteq Settings
  <2>1. saving[n].at \in {"commit", "publish"} => Saved(n) \in Settings
    BY <1>1, OneSave DEF ConfigInv, InSave
  <2> QED
    BY <2>1 DEF Pending, Saved
<1>4. ConfigType'
  BY <1>1, <1>2, <1>3, NoSaveType DEF ConfigType, ConfigTypeOK
<1>5. \A m \in Nodes : InSave(m)'
  BY <1>1, <1>2, NoSaveType DEF InSave, Saved, NewValue
<1>6. ~cluster => \A m \in Nodes : Alone(m)'
  BY <1>1, <1>2, NoSaveType DEF ConfigInv, Alone, Stored
<1>7. \A j : Settled(j)' => Settled(j)
  <2>1. \A m \in Nodes \ {n} : Pending(m)' = Pending(m)
    BY <1>1, <1>2 DEF Pending
  <2> QED
    BY <1>2, <2>1 DEF Settled
<1>8. \A j : (SettledAlone(j)' <=> SettledAlone(j)) /\ (SettledShared(j)' <=> SettledShared(j))
  BY <1>2 DEF SettledAlone, SettledShared, Stored, Says
<1> QED
  BY <1>2, <1>4, <1>5, <1>6, <1>7, <1>8 DEF ConfigInv

LEMMA ImportKeeps ==
  ASSUME ConfigInv, NEW n \in Nodes, Import(n)
  PROVE  ConfigInv'
<1> DEFINE data == saving[n].import
           taken == {k \in Settings : ~cluster /\ data[k] # Unset}
           inRedis == {k \in Settings : cluster /\ redis[k] # Unset}
<1>1. /\ saving \in [Nodes -> SaveRecord] /\ ConfigTypeOK /\ rows \in Seq(Document)
      /\ up \subseteq Nodes /\ blob \in [Nodes -> Document]
      /\ registry \in [Nodes -> [Settings -> Values]] /\ redis \in Document
      /\ want \in [Settings -> Values] /\ torn \subseteq Settings
      /\ \A m \in Nodes : InSave(m)
  BY DEF ConfigInv, ConfigType, ConfigTypeOK
<1>2. /\ saving[n].at = "import" /\ saving[n].row \in DOMAIN rows \cup {0}
      /\ rows' = Written(saving[n].row, data) /\ blob' = [blob EXCEPT ![n] = data]
      /\ registry' = [registry EXCEPT ![n] =
           [k \in Settings |-> IF data[k] # Unset THEN data[k] ELSE registry[n][k]]]
      /\ want' = [k \in Settings |-> IF k \in taken THEN data[k] ELSE want[k]]
      /\ torn' = (torn \ taken) \cup (Settings \ (taken \cup inRedis))
      /\ saving' = [saving EXCEPT ![n] = NoSave]
      /\ UNCHANGED <<cluster, up, redis>>
  BY DEF Import
<1>3. data \in Document /\ n \in up
  BY <1>1, <1>2, OneSave DEF ConfigInv, InSave
<1> HIDE DEF data
<1>4. /\ rows' \in Seq(Document)
      /\ (Len(rows) <= 1 /\ (saving[n].row = 0 => rows = <<>>)) =>
           Len(rows') = 1 /\ rows' # <<>> /\ Last(rows') = data
  BY <1>1, <1>2, <1>3, WrittenRows
<1>5. registry' \in [Nodes -> [Settings -> Values]]
  BY <1>1, <1>2, <1>3, ConfigAssumption DEF Document
<1>6. ConfigType'
  BY <1>1, <1>2, <1>3, <1>4, <1>5, NoSaveType DEF ConfigType, ConfigTypeOK, Document
<1>7. \A m \in Nodes : InSave(m)'
  BY <1>1, <1>2, NoSaveType DEF InSave, Saved, NewValue
<1>8. ASSUME ~cluster
      PROVE  up = {n} /\ Stored' = data /\ \A m \in Nodes : Alone(m)'
  <2>1. \A m \in Nodes : Alone(m) /\ (m \in up => up = {m})
    BY <1>8 DEF ConfigInv, Alone
  <2>2. Len(rows') = 1 /\ rows' # <<>> /\ Last(rows') = data
    BY <1>2, <1>4, <2>1 DEF Alone
  <2>3. Stored' = data /\ up = {n}
    BY <1>3, <2>1, <2>2 DEF Stored
  <2>4. \A m \in Nodes : saving'[m].at = "idle"
    BY <1>1, <1>2, <2>1, <2>3, NoSaveType DEF InSave
  <2> QED
    BY <1>2, <2>1, <2>2, <2>3, <2>4 DEF Alone
<1>9. ASSUME ~cluster, NEW j \in Settings, Settled(j)' PROVE SettledAlone(j)'
  <2>1. j \in taken
    BY <1>2, <1>9 DEF Settled
  <2>2. data[j] # Unset /\ want'[j] = data[j] /\ registry'[n][j] = data[j] /\ blob'[n] = data
    BY <1>1, <1>2, <1>3, <2>1
  <2> QED
    BY <1>2, <1>8, <1>9, <2>2 DEF SettledAlone, Says
<1>10. ASSUME cluster, NEW j \in Settings, Settled(j)' PROVE SettledShared(j)'
  <2>1. redis[j] # Unset /\ j \notin torn /\ j \notin ThreadRead
    BY <1>2, <1>10 DEF Settled
  <2>2. \A m \in Nodes : j \notin Pending(m)
    <3>1. Pending(n) = {}
      BY <1>2 DEF Pending
    <3>2. \A m \in Nodes \ {n} : Pending(m)' = Pending(m)
      BY <1>1, <1>2 DEF Pending
    <3> QED
      BY <1>10, <3>1, <3>2 DEF Settled
  <2>3. SettledShared(j)
    BY <1>10, <2>1, <2>2 DEF Settled, ConfigInv
  <2> QED
    BY <1>1, <1>2, <1>10, <2>1, <2>3 DEF SettledShared
<1> QED
  BY <1>2, <1>6, <1>7, <1>8, <1>9, <1>10 DEF ConfigInv

LEMMA BootKeeps ==
  ASSUME NoReset, ConfigInv, NEW n \in Nodes, Boot(n)
  PROVE  ConfigInv'
<1>1. /\ saving \in [Nodes -> SaveRecord] /\ ConfigTypeOK /\ rows \in Seq(Document)
      /\ up \subseteq Nodes /\ blob \in [Nodes -> Document]
      /\ registry \in [Nodes -> [Settings -> Values]]
      /\ \A m \in Nodes : InSave(m)
  BY DEF ConfigInv, ConfigType, ConfigTypeOK
<1>2. /\ n \notin up /\ (cluster \/ up = {}) /\ up' = up \cup {n}
      /\ blob' = [blob EXCEPT ![n] = Stored]
      /\ registry' = [registry EXCEPT ![n] = Loaded(Stored)]
      /\ rows' = IF ResetOnStart THEN <<>> ELSE rows
      /\ UNCHANGED <<cluster, redis, saving, want, torn>>
  BY DEF Boot, Stored
<1>3. Stored \in Document
  BY OneSave DEF ConfigInv
<1>4. Loaded(Stored) \in [Settings -> Values]
      /\ \A j \in Settings : Loaded(Stored)[j] = Says(Stored, j)
  BY <1>3, ConfigAssumption DEF Loaded, Document, Says
<1>5. ConfigType'
  BY <1>1, <1>2, <1>3, <1>4 DEF ConfigType, ConfigTypeOK
<1>6. \A m \in Nodes : InSave(m)'
  <2>1. saving[n].at = "idle"
    BY <1>1, <1>2 DEF InSave
  <2> QED
    BY <1>1, <1>2, <2>1 DEF InSave, Saved, NewValue
<1>7. ASSUME ~cluster PROVE rows' = rows /\ up' = {n} /\ \A m \in Nodes : Alone(m)'
  <2>1. rows' = rows /\ up' = {n}
    BY <1>2, <1>7 DEF ConfigInv, NoReset
  <2>2. \A m \in Nodes : Alone(m) /\ saving[m].at = "idle"
    BY <1>1, <1>2, <1>7 DEF ConfigInv, InSave
  <2> QED
    BY <1>2, <2>1, <2>2 DEF Alone
<1>8. \A j : Settled(j)' <=> Settled(j)
  BY <1>2 DEF Settled, Pending
<1>9. ASSUME ~cluster, NEW j \in Settings, Settled(j) PROVE SettledAlone(j)'
  <2>1. Says(Stored, j) = want[j]
    BY <1>9 DEF ConfigInv, SettledAlone
  <2>2. Stored' = Stored
    BY <1>7, <1>9 DEF Stored
  <2> QED
    BY <1>1, <1>2, <1>4, <1>7, <1>9, <2>1, <2>2 DEF SettledAlone, Says
<1>10. ASSUME cluster, NEW j \in Settings, Settled(j) PROVE SettledShared(j)'
  <2>1. SettledShared(j)
    BY <1>10 DEF ConfigInv
  <2>2. CASE redis[j] = want[j]
    BY <1>2, <2>2 DEF SettledShared
  <2>3. CASE redis[j] # want[j]
    <3>1. /\ redis[j] = Unset /\ want[j] = Env[j]
          /\ \A m \in Nodes : registry[m][j] = Env[j] /\ Says(blob[m], j) = Env[j]
          /\ \A i \in DOMAIN rows : Says(rows[i], j) = Env[j]
      BY <2>1, <2>3 DEF SettledShared
    <3>2. Says(Stored, j) = Env[j]
      <4>1. CASE rows = <<>>
        BY <4>1 DEF Stored, DefaultConfig, Says
      <4>2. CASE rows # <<>>
        <5>1. Len(rows) \in DOMAIN rows
          BY <1>1, <4>2
        <5> QED
          BY <3>1, <4>2, <5>1 DEF Stored, Last
      <4> QED
        BY <4>1, <4>2
    <3>3. \A m \in Nodes : registry'[m][j] = Env[j] /\ Says(blob'[m], j) = Env[j]
      BY <1>1, <1>2, <1>4, <3>1, <3>2 DEF Says
    <3>4. \A i \in DOMAIN rows' : Says(rows'[i], j) = Env[j]
      BY <1>2, <3>1
    <3> QED
      BY <1>2, <3>1, <3>3, <3>4 DEF SettledShared, Says
  <2> QED
    BY <2>2, <2>3
<1> QED
  BY <1>2, <1>5, <1>6, <1>7, <1>8, <1>9, <1>10 DEF ConfigInv

LEMMA CrashKeeps ==
  ASSUME ConfigInv, NEW n \in Nodes, Crash(n)
  PROVE  ConfigInv'
<1>1. /\ saving \in [Nodes -> SaveRecord] /\ ConfigTypeOK
      /\ up \subseteq Nodes /\ blob \in [Nodes -> Document]
      /\ registry \in [Nodes -> [Settings -> Values]]
      /\ \A m \in Nodes : InSave(m)
  BY DEF ConfigInv, ConfigType, ConfigTypeOK
<1>2. /\ n \in up /\ up' = up \ {n} /\ torn' = torn \cup Pending(n)
      /\ saving' = [saving EXCEPT ![n] = NoSave]
      /\ registry' = [registry EXCEPT ![n] = Env]
      /\ blob' = [blob EXCEPT ![n] = DefaultConfig]
      /\ UNCHANGED <<cluster, rows, redis, want>>
  BY DEF Crash
<1>3. Pending(n) \subseteq Settings
  <2>1. saving[n].at \in {"commit", "publish"} => Saved(n) \in Settings
    BY <1>1, OneSave DEF ConfigInv, InSave
  <2> QED
    BY <2>1 DEF Pending, Saved
<1>4. DefaultConfig \in Document /\ \A j \in Settings : Says(DefaultConfig, j) = Env[j]
  BY DEF DefaultConfig, Document, Says
<1>5. ConfigType'
  BY <1>1, <1>2, <1>3, <1>4, NoSaveType, ConfigAssumption DEF ConfigType, ConfigTypeOK
<1>6. \A m \in Nodes : InSave(m)'
  BY <1>1, <1>2, NoSaveType DEF InSave, Saved, NewValue
<1>7. ~cluster => up' = {} /\ \A m \in Nodes : Alone(m)'
  <2> SUFFICES ASSUME ~cluster PROVE up' = {} /\ \A m \in Nodes : Alone(m)'
    OBVIOUS
  <2>1. \A m \in Nodes : Alone(m)
    BY DEF ConfigInv
  <2>2. up' = {}
    BY <1>2, <2>1 DEF Alone
  <2>3. \A m \in Nodes : saving'[m].at = "idle"
    BY <1>6, <2>2 DEF InSave
  <2> QED
    BY <1>2, <2>1, <2>2, <2>3 DEF Alone
<1>8. \A j : Settled(j)' => Settled(j)
  <2>1. \A m \in Nodes \ {n} : Pending(m)' = Pending(m)
    BY <1>1, <1>2 DEF Pending
  <2> QED
    BY <1>2, <2>1 DEF Settled
<1>9. ASSUME NEW j \in Settings, SettledAlone(j), ~cluster PROVE SettledAlone(j)'
  BY <1>2, <1>7, <1>9 DEF SettledAlone, Says, Stored
<1>10. ASSUME NEW j \in Settings, SettledShared(j) PROVE SettledShared(j)'
  BY <1>1, <1>2, <1>4, <1>10 DEF SettledShared, Says
<1> QED
  BY <1>2, <1>5, <1>6, <1>7, <1>8, <1>9, <1>10 DEF ConfigInv

\* Reading a setting that the instance is not saving.
LEMMA RefreshKeeps ==
  ASSUME ConfigInv, NEW n \in Nodes, NEW k \in Settings, registry' = Refreshed(n, k),
         Quiet(n) \/ k \in ThreadRead,
         UNCHANGED <<cluster, up, blob, rows, redis, saving, want, torn>>
  PROVE  ConfigInv'
<1>1. /\ saving \in [Nodes -> SaveRecord] /\ ConfigTypeOK /\ redis \in Document
      /\ registry \in [Nodes -> [Settings -> Values]] /\ up \subseteq Nodes
      /\ \A m \in Nodes : InSave(m)
  BY DEF ConfigInv, ConfigType, ConfigTypeOK
<1>2. Read(n, k) \in Values /\ ((~cluster \/ redis[k] = Unset) => Read(n, k) = registry[n][k])
  BY <1>1, ConfigAssumption DEF Read, Document
<1>3. /\ registry' \in [Nodes -> [Settings -> Values]]
      /\ \A m \in Nodes, j \in Settings : (m # n \/ j # k) => registry'[m][j] = registry[m][j]
      /\ (~cluster \/ redis[k] = Unset) => registry'[n][k] = registry[n][k]
  BY <1>1, <1>2 DEF Refreshed
<1>4. ConfigType'
  BY <1>1, <1>3 DEF ConfigType, ConfigTypeOK
<1>5. \A m \in Nodes : InSave(m)'
  <2> SUFFICES ASSUME NEW m \in Nodes, saving[m].at \in {"commit", "publish"},
                      Saved(m) \notin ThreadRead
               PROVE  registry'[m][Saved(m)] = NewValue(m)
    BY <1>1 DEF InSave, Saved, NewValue
  <2>1. Saved(m) \in Settings
    BY <1>1, OneSave DEF ConfigInv, InSave
  <2>2. m # n \/ Saved(m) # k
    BY NoSaveType DEF Quiet
  <2> QED
    BY <1>1, <1>3, <2>1, <2>2 DEF InSave
<1>6. ~cluster => \A m \in Nodes : Alone(m)'
  BY DEF ConfigInv, Alone, Stored
<1>7. \A j : Settled(j)' <=> Settled(j)
  BY DEF Settled, Pending
<1>8. ASSUME NEW j \in Settings, ~cluster, SettledAlone(j) PROVE SettledAlone(j)'
  <2>1. \A m \in Nodes : registry'[m][j] = registry[m][j]
    BY <1>3, <1>8
  <2> QED
    BY <1>1, <1>8, <2>1 DEF SettledAlone, Says, Stored
<1>9. ASSUME NEW j \in Settings, cluster, SettledShared(j) PROVE SettledShared(j)'
  BY <1>3, <1>9 DEF SettledShared, Says
<1> QED
  BY <1>4, <1>5, <1>6, <1>7, <1>8, <1>9 DEF ConfigInv

LEMMA InitConfig == ConfigInit => ConfigInv
<1> SUFFICES ASSUME ConfigInit PROVE ConfigInv
  OBVIOUS
<1>1. /\ cluster \in Deployments /\ up = {} /\ rows = <<>> /\ torn = {} /\ want = Env
      /\ registry = [n \in Nodes |-> Env] /\ blob = [n \in Nodes |-> DefaultConfig]
      /\ redis = DefaultConfig /\ saving = [n \in Nodes |-> NoSave]
  BY DEF ConfigInit
<1>2. DefaultConfig \in Document /\ \A k \in Settings : Says(DefaultConfig, k) = Env[k]
  BY DEF DefaultConfig, Document, Says
<1>3. ConfigType
  BY <1>1, <1>2, NoSaveType, ConfigAssumption DEF ConfigType, ConfigTypeOK
<1>4. \A n \in Nodes : InSave(n) /\ Alone(n)
  BY <1>1, NoSaveType DEF InSave, Alone
<1>5. \A k \in Settings : SettledAlone(k) /\ SettledShared(k)
  BY <1>1, <1>2 DEF SettledAlone, SettledShared, Stored, DefaultConfig
<1> QED
  BY <1>1, <1>3, <1>4, <1>5 DEF ConfigInv

\* An instance starts to save a form, or the handler of a sign-up to close it.
LEMMA FormKeeps ==
  ASSUME ConfigInv, NEW n \in Nodes, NEW form \in Seq(Settings \X Values), form # <<>>,
         StartSaving(n, form),
         UNCHANGED <<cluster, up, registry, blob, rows, redis, want, torn>>
  PROVE  ConfigInv'
<1> DEFINE s == [saving[n] EXCEPT !.todo = form, !.at = "assign"]
<1>1. saving \in [Nodes -> SaveRecord] /\ saving[n] \in SaveRecord /\ Quiet(n)
  BY DEF ConfigInv, ConfigType, StartSaving
<1>2. /\ s \in SaveRecord /\ s.at = "assign" /\ s.todo = form
      /\ saving' = [saving EXCEPT ![n] = s]
  BY <1>1 DEF SaveRecord, StartSaving
<1> HIDE DEF s
<1> QED
  BY <1>1, <1>2, BeginKeeps

LEMMA StartImportKeeps ==
  ASSUME ConfigInv, NEW n \in Nodes, NEW data \in Imports, StartImport(n, data)
  PROVE  ConfigInv'
<1>1. saving \in [Nodes -> SaveRecord] /\ saving[n] \in SaveRecord /\ Quiet(n)
      /\ rows \in Seq(Document)
  BY DEF ConfigInv, ConfigType, ConfigTypeOK, StartImport, StartSaving
<1>2. PICK r \in SomeRow :
        saving' = [saving EXCEPT ![n].at = "import", ![n].row = r, ![n].import = data]
  BY DEF StartImport
<1> DEFINE s == [saving[n] EXCEPT !.at = "import", !.row = r, !.import = data]
<1>3. /\ s \in SaveRecord /\ s.at = "import" /\ s.row = r
      /\ saving' = [saving EXCEPT ![n] = s]
  <2>1. r \in Nat
    BY <1>1 DEF SomeRow
  <2>2. data \in Document
    BY ConfigAssumption
  <2>3. s \in SaveRecord /\ s.at = "import" /\ s.row = r
    BY <1>1, <2>1, <2>2 DEF SaveRecord
  <2>4. saving' = [saving EXCEPT ![n] = s]
    BY <1>1, <1>2 DEF SaveRecord
  <2> QED
    BY <2>3, <2>4
<1> HIDE DEF s
<1>4. UNCHANGED <<cluster, up, registry, blob, rows, redis, want, torn>>
  BY DEF StartImport
<1> QED
  BY <1>1, <1>2, <1>3, <1>4, BeginKeeps

\* What an instance does to the configuration.
ConfigStep(n) ==
    \/ SaveStep(n) \/ SaveFails(n) \/ Boot(n) \/ Crash(n)
    \/ \E k \in ThreadRead : ThreadReads(n, k)
    \/ \E form \in Forms : SaveForm(n, form)
    \/ \E data \in Imports : StartImport(n, data)

LEMMA ConfigKeeps ==
  ASSUME NoReset, ConfigInv, NEW n \in Nodes, ConfigStep(n)
  PROVE  ConfigInv'
<1>1. CASE SaveStep(n)
  BY <1>1, AssignKeeps, CommitKeeps, PublishKeeps, ImportKeeps DEF SaveStep
<1>2. CASE SaveFails(n) \/ Boot(n) \/ Crash(n)
  BY <1>2, SaveFailsKeeps, BootKeeps, CrashKeeps
<1>3. ASSUME NEW k \in ThreadRead, ThreadReads(n, k) PROVE ConfigInv'
  BY <1>3, RefreshKeeps, ConfigAssumption DEF ThreadReads
<1>4. ASSUME NEW form \in Forms, SaveForm(n, form) PROVE ConfigInv'
  BY <1>4, FormKeeps, ConfigAssumption DEF SaveForm
<1>5. ASSUME NEW data \in Imports, StartImport(n, data) PROVE ConfigInv'
  BY <1>5, StartImportKeeps
<1> QED
  BY <1>1, <1>2, <1>3, <1>4, <1>5 DEF ConfigStep

LEMMA StillConfig ==
  ASSUME ConfigInv, UNCHANGED <<cluster, up, registry, blob, rows, redis, saving, want, torn>>
  PROVE  ConfigInv'
  BY DEF ConfigInv, ConfigType, ConfigTypeOK, InSave, Alone, Settled, SettledAlone,
         SettledShared, Stored, Says, Saved, NewValue, Pending

LEMMA SettledIsRead == ConfigInv => SetIsRead
<1> SUFFICES ASSUME ConfigInv, NEW n \in Nodes, NEW k \in Settings \ ThreadRead,
                    n \in up, Settled(k)
             PROVE  Read(n, k) = want[k]
  BY DEF SetIsRead, Settled, Quiet
<1>1. want[k] \in Values
  BY DEF ConfigInv, ConfigType, ConfigTypeOK
<1>2. CASE cluster
  BY <1>1, <1>2, ConfigAssumption DEF ConfigInv, SettledShared, Read
<1>3. CASE ~cluster
  BY <1>3 DEF ConfigInv, SettledAlone, Read
<1> QED
  BY <1>2, <1>3

\* A setting whose save completed is what every instance answers with, after
\* restarts too, whatever saves, imports, failures and crashes come between
\* the steps, unless RESET_CONFIG_ON_START empties the table of a deployment
\* that has no Redis to keep the setting.
THEOREM ConfigIsRead == ASSUME NoReset PROVE ConfigSpec => []SetIsRead
<1>1. ConfigInv /\ [ConfigNext]_configVars => ConfigInv'
  <2> SUFFICES ASSUME ConfigInv, [ConfigNext]_configVars PROVE ConfigInv'
    OBVIOUS
  <2>1. CASE UNCHANGED configVars
    BY <2>1, StillConfig DEF configVars
  <2>2. ASSUME NEW n \in Nodes, ConfigStep(n) PROVE ConfigInv'
    BY NoReset, <2>2, ConfigKeeps
  <2> QED
    BY <2>1, <2>2 DEF ConfigNext, ConfigStep
<1> QED
  BY <1>1, InitConfig, SettledIsRead, PTL DEF ConfigSpec

-----------------------------------------------------------------------------
(* Sign-up that was closed stays closed. *)

\* A call between its first step and its end keeps the loop of an instance
\* that serves, except while it waits for a picture.
KeepsLoop(c) ==
    call[c].pc \notin {"idle", "picture", "done"} =>
        call[c].node \in up /\ busy[call[c].node] = c

\* Instance n answers that sign-up is closed, and imports nothing.
Refuses(n) == n \in up /\ saving[n].at # "import" /\ ~Read(n, SIGNUP)

\* Every save of ENABLE_SIGNUP under way closes it.
OnlyCloses(m) ==
    \A i \in DOMAIN saving[m].todo :
        saving[m].todo[i][1] = SIGNUP => saving[m].todo[i][2] = FALSE

\* A late sign-up is refused, or about to be.
Late(c) ==
    call[c].late =>
        /\ call[c].pc \in {"later", "done"} /\ born[c] = 0
        /\ call[c].pc = "later" =>
             Refuses(call[c].node) /\ \A m \in Nodes : OnlyCloses(m)

LateInv ==
    /\ CountInv /\ ConfigInv
    /\ busy \in [Nodes -> Calls \cup {Nobody}]
    /\ \A c \in Calls : KeepsLoop(c) /\ Late(c)

-----------------------------------------------------------------------------
\* What a step does to the configuration.
LEMMA ConfigSteps ==
  ASSUME ConfigType, Next
  PROVE  \/ UNCHANGED configVars
         \/ \E c \in Calls : Admit(c) \/ Close(c)
         \/ \E n \in Nodes : ConfigStep(n)
<1>1. ASSUME NEW c \in Calls, Creation(c), ~Admit(c), ~Close(c) PROVE UNCHANGED configVars
  BY <1>1 DEF Creation, InsertUser, InsertAuth, Count, Promote, Finish, Picture, DecideRole
<1>2. ASSUME NEW c \in Calls, NEW n \in Nodes,
             \/ Signup(c, n) \/ Ldap(c, n) \/ Oauth(c, n) \/ BootAdmin(c, n)
             \/ OauthAgain(c, n) \/ ScimDelete(c, n)
             \/ \E r \in Roles \ {"admin"} : ScimCreate(c, n, r) \/ ScimUpdate(c, n, r)
      PROVE  UNCHANGED configVars \/ ConfigStep(n)
  BY <1>2 DEF Signup, Ldap, Oauth, BootAdmin, OauthAgain, ScimDelete, ScimCreate, ScimUpdate,
              ConfigStep
<1>3. ASSUME NEW c \in Calls, NEW n \in Nodes, NEW r \in Roles, AddUser(c, n, r)
      PROVE  UNCHANGED configVars
  BY <1>3 DEF AddUser
<1>4. ASSUME NEW n \in Nodes, NEW a \in users, NEW u \in users,
             NEW r \in Roles \cup {"deleted"}, AdminAsks(n, a, u, r)
      PROVE  UNCHANGED configVars
  BY <1>4 DEF AdminAsks
<1>5. ASSUME NEW n \in Nodes, GuardOrder(n) \/ ApplyOrder(n) \/ DeleteAuth(n)
      PROVE  UNCHANGED configVars
  BY <1>5 DEF GuardOrder, ApplyOrder, DeleteAuth
<1>6. ASSUME NEW n \in Nodes,
             \/ BootPlain(n) \/ CrashAll(n)
             \/ SaveStep(n) \/ SaveFails(n)
             \/ \E k \in ThreadRead : ThreadReads(n, k)
             \/ \E form \in Forms : AdminSaves(n, form)
             \/ \E data \in Imports : AdminImports(n, data)
      PROVE  ConfigStep(n)
  <2>1. CASE \E form \in Forms : AdminSaves(n, form)
    BY <2>1 DEF AdminSaves, ConfigStep
  <2>2. CASE \E data \in Imports : AdminImports(n, data)
    BY <2>2 DEF AdminImports, ConfigStep
  <2>3. CASE BootPlain(n) \/ CrashAll(n)
    BY <2>3 DEF BootPlain, CrashAll, ConfigStep
  <2> QED
    BY <1>6, <2>1, <2>2, <2>3 DEF ConfigStep
<1> QED
  BY <1>1, <1>2, <1>3, <1>4, <1>5, <1>6 DEF Next

\* Closing sign-up is a form of one setting.
LEMMA ClosingForm ==
  /\ <<<<SIGNUP, FALSE>>>> \in Seq(Settings \X Values)
  /\ <<<<SIGNUP, FALSE>>>> # <<>>
<1>1. <<SIGNUP, FALSE>> \in Settings \X Values
  BY AccountsAssumption
<1> QED
  BY <1>1

LEMMA AccountsConfig ==
  ASSUME NoReset, ConfigInv, [Next]_vars
  PROVE  ConfigInv'
<1>1. up \subseteq Nodes /\ ConfigType
  BY DEF ConfigInv, ConfigType, ConfigTypeOK
<1>2. CASE UNCHANGED configVars
  BY <1>2, StillConfig DEF configVars
<1>3. ASSUME NEW c \in Calls, Admit(c) PROVE ConfigInv'
  BY <1>1, <1>3, RefreshKeeps, AccountsAssumption DEF Admit, Quiet
<1>4. ASSUME NEW c \in Calls, Close(c) PROVE ConfigInv'
  <2>1. call[c].node \in Nodes
    BY <1>1, <1>4 DEF Close, At, Quiet
  <2> QED
    BY <1>4, <2>1, FormKeeps, ClosingForm DEF Close
<1>5. ASSUME NEW n \in Nodes, ConfigStep(n) PROVE ConfigInv'
  BY <1>5, ConfigKeeps, NoReset
<1> QED
  BY <1>1, <1>2, <1>3, <1>4, <1>5, ConfigSteps DEF vars

\* The same with the handlers that open accounts, which close sign-up and read
\* whether it is open.
THEOREM SavedIsRead == ASSUME NoReset PROVE Spec => []SetIsRead
<1>1. AccountsInit => ConfigInv
  BY InitConfig DEF AccountsInit
<1>2. ConfigInv /\ [Next]_vars => ConfigInv'
  BY AccountsConfig, NoReset
<1> QED
  BY <1>1, <1>2, SettledIsRead, PTL DEF Spec

-----------------------------------------------------------------------------
\* Who has the loop of an instance.
LoopsHeld == /\ busy \in [Nodes -> Calls \cup {Nobody}]
             /\ \A c \in Calls : KeepsLoop(c)

\* A call that goes on with the loop in its hands.
LEMMA GoesOn ==
  ASSUME LoopsHeld, NEW c \in Calls,
         call[c].pc \notin {"idle", "picture", "done"},
         call'[c].node = call[c].node, \A d \in Calls \ {c} : call'[d] = call[d],
         UNCHANGED <<busy, up>>
  PROVE  LoopsHeld'
  BY DEF LoopsHeld, KeepsLoop

\* Putting a call somewhere else leaves the others alone.
LEMMA GotoNode ==
  ASSUME AccountsType, NEW c \in Calls, NEW pc, Goto(c, pc)
  PROVE  call'[c].node = call[c].node /\ \A d \in Calls \ {c} : call'[d] = call[d]
<1>1. call \in [Calls -> CallRecord] /\ call[c] \in CallRecord
  BY DEF AccountsType
<1> QED
  BY <1>1 DEF Goto, CallRecord

LEMMA LetsGo ==
  ASSUME AccountsType, LoopsHeld, NEW c \in Calls,
         call[c].pc \notin {"idle", "picture", "done"}, End(c, "done"), UNCHANGED up
  PROVE  LoopsHeld'
<1>1. call \in [Calls -> CallRecord] /\ up = up'
  BY DEF AccountsType
<1>2. /\ call'[c].pc = "done" /\ busy' = [busy EXCEPT ![call[c].node] = Nobody]
      /\ \A d \in Calls \ {c} : call'[d] = call[d]
  BY <1>1, EndMoves DEF End, Moved, After
<1>3. busy[call[c].node] = c
  BY DEF LoopsHeld, KeepsLoop
<1>4. \A d \in Calls \ {c} : KeepsLoop(d)'
  BY <1>1, <1>2, <1>3 DEF LoopsHeld, KeepsLoop
<1>5. KeepsLoop(c)'
  BY <1>2 DEF KeepsLoop
<1> QED
  BY <1>2, <1>4, <1>5 DEF LoopsHeld

LEMMA CreationHolds ==
  ASSUME AccountsType, LoopsHeld, NEW c \in Calls, Creation(c), ~Picture(c)
  PROVE  LoopsHeld'
<1>1. call[c].pc \notin {"idle", "picture", "done"}
  BY DEF Creation, Picture, Admit, InsertUser, InsertAuth, Count, Promote, Close, Finish,
         DecideRole, At
<1>2. UNCHANGED up
  BY DEF Creation, Picture, Admit, InsertUser, InsertAuth, Count, Promote, Close, Finish,
         DecideRole, configVars
<1>3. CASE End(c, "done")
  BY <1>1, <1>2, <1>3, LetsGo
<1>4. ASSUME NEW pc, Goto(c, pc), UNCHANGED busy PROVE LoopsHeld'
  BY <1>1, <1>2, <1>4, GotoNode, GoesOn
<1>5. ASSUME UNCHANGED busy, call'[c].node = call[c].node,
             \A d \in Calls \ {c} : call'[d] = call[d]
      PROVE  LoopsHeld'
  BY <1>1, <1>2, <1>5, GoesOn
<1>6. call \in [Calls -> CallRecord] /\ call[c] \in CallRecord
  BY DEF AccountsType
<1>7. CASE Admit(c)
  BY <1>3, <1>4, <1>7 DEF Admit
<1>8. CASE InsertUser(c) \/ InsertAuth(c)
  BY <1>3, <1>4, <1>8 DEF InsertUser, InsertAuth
<1>9. CASE Count(c)
  <2>1. CASE Cardinality(users) = 1
    <3>1. call' = [call EXCEPT ![c].pc = "promote", ![c].won = TRUE] /\ UNCHANGED busy
      BY <1>9, <2>1 DEF Count
    <3>2. call'[c].node = call[c].node /\ \A d \in Calls \ {c} : call'[d] = call[d]
      BY <1>6, <3>1 DEF CallRecord
    <3> QED
      BY <1>5, <3>1, <3>2
  <2>2. CASE Cardinality(users) # 1
    BY <1>3, <1>9, <2>2 DEF Count
  <2> QED
    BY <2>1, <2>2
<1>10. CASE Promote(c) \/ Close(c)
  BY <1>4, <1>10 DEF Promote, Close
<1>11. CASE Finish(c)
  BY <1>3, <1>11 DEF Finish
<1>12. CASE DecideRole(c)
  <2>1. PICK r : call' = [call EXCEPT ![c].pc = "user", ![c].role = r]
    BY <1>12 DEF DecideRole
  <2>2. call'[c].node = call[c].node /\ \A d \in Calls \ {c} : call'[d] = call[d]
    BY <1>6, <2>1 DEF CallRecord
  <2> QED
    BY <1>5, <1>12, <2>2 DEF DecideRole
<1> QED
  BY <1>7, <1>8, <1>9, <1>10, <1>11, <1>12 DEF Creation

\* A call that takes the loop of an idle instance, or of one that starts.
LEMMA TakesLoop ==
  ASSUME LoopsHeld, NEW c \in Calls, NEW n \in Nodes,
         call'[c].node = n, \A d \in Calls \ {c} : call'[d] = call[d],
         busy' = [busy EXCEPT ![n] = c],
         \/ busy[n] = Nobody /\ n \in up /\ up' = up
         \/ n \notin up /\ up' = up \cup {n}
  PROVE  LoopsHeld'
<1>1. \A d \in Calls \ {c} : KeepsLoop(d)'
  BY AccountsAssumption DEF LoopsHeld, KeepsLoop
<1>2. KeepsLoop(c)'
  BY DEF LoopsHeld, KeepsLoop
<1> QED
  BY <1>1, <1>2 DEF LoopsHeld

LEMMA StartingHolds ==
  ASSUME AccountsType, LoopsHeld, NEW c \in Calls, NEW n \in Nodes, Starting(c, n)
  PROVE  LoopsHeld'
<1>1. call \in [Calls -> CallRecord] /\ call[c] \in CallRecord
  BY DEF AccountsType
<1>2. CASE Oauth(c, n)
  <2>1. /\ call' = [call EXCEPT ![c] = [@ EXCEPT !.kind = "oauth", !.node = n, !.pc = "picture"]]
        /\ UNCHANGED <<busy, up>>
    BY <1>2 DEF Oauth, configVars
  <2>2. call'[c].pc = "picture" /\ \A d \in Calls \ {c} : call'[d] = call[d]
    BY <1>1, <2>1 DEF CallRecord
  <2> QED
    BY <2>1, <2>2 DEF LoopsHeld, KeepsLoop
<1>3. CASE Signup(c, n) \/ Ldap(c, n)
  <2>1. Closed \in BOOLEAN
    BY DEF Closed
  <2>2. call'[c].node = n /\ \A d \in Calls \ {c} : call'[d] = call[d]
    <3>1. CASE Signup(c, n)
      <4>1. call' = [call EXCEPT ![c] = [@ EXCEPT !.kind = "signup", !.node = n,
                       !.pc = IF users = {} THEN "first" ELSE "later", !.late = Closed]]
        BY <3>1 DEF Signup, Begin
      <4> QED
        BY <1>1, <2>1, <4>1 DEF CallRecord
    <3>2. CASE Ldap(c, n)
      BY <1>1, <3>2 DEF Ldap, Begin, CallRecord
    <3> QED
      BY <1>3, <3>1, <3>2
  <2>3. busy[n] = Nobody /\ n \in up /\ up' = up /\ busy' = [busy EXCEPT ![n] = c]
    BY <1>3 DEF Signup, Ldap, Begin, Idle, Quiet, configVars
  <2> QED
    BY <2>2, <2>3, TakesLoop
<1>4. CASE BootAdmin(c, n) \/ \E r \in Roles : ScimCreate(c, n, r) \/ AddUser(c, n, r)
  <2>1. PICK kind, r :
          call' = [call EXCEPT ![c] = [@ EXCEPT !.kind = kind, !.node = n, !.pc = "user", !.role = r]]
    BY <1>4 DEF BootAdmin, ScimCreate, AddUser
  <2>2. call'[c].node = n /\ \A d \in Calls \ {c} : call'[d] = call[d]
    BY <1>1, <2>1 DEF CallRecord
  <2>3. busy' = [busy EXCEPT ![n] = c]
    BY <1>4 DEF BootAdmin, ScimCreate, AddUser
  <2>4. \/ busy[n] = Nobody /\ n \in up /\ up' = up
        \/ n \notin up /\ up' = up \cup {n}
    BY <1>4 DEF BootAdmin, ScimCreate, AddUser, Boot, Scim, Idle, Quiet, configVars
  <2> QED
    BY <2>2, <2>3, <2>4, TakesLoop
<1> QED
  BY <1>2, <1>3, <1>4 DEF Starting

LEMMA PictureHolds ==
  ASSUME AccountsType, LoopsHeld, NEW c \in Calls, Picture(c), up \subseteq Nodes
  PROVE  LoopsHeld'
<1>1. call[c].node \in Nodes /\ busy[call[c].node] = Nobody /\ call[c].node \in up /\ up' = up
  BY DEF Picture, Idle, Quiet, configVars
<1>2. call'[c].node = call[c].node /\ \A d \in Calls \ {c} : call'[d] = call[d]
  BY GotoNode DEF Picture
<1> QED
  BY <1>1, <1>2, TakesLoop DEF Picture

LEMMA CrashHolds ==
  ASSUME AccountsType, LoopsHeld, NEW n \in Nodes, CrashAll(n)
  PROVE  LoopsHeld'
<1>1. /\ call' = [c \in Calls |-> IF c \in Under(n) THEN Over(c, "done") ELSE call[c]]
      /\ busy' = [busy EXCEPT ![n] = Nobody] /\ up' = up \ {n}
  BY DEF CrashAll, Crash
<1>2. \A c \in Calls : Over(c, "done").pc = "done"
  BY FreshType DEF Over, CallRecord
<1>3. ASSUME NEW c \in Calls PROVE KeepsLoop(c)'
  <2>1. CASE c \in Under(n)
    BY <1>1, <1>2, <2>1 DEF KeepsLoop
  <2>2. CASE c \notin Under(n)
    BY <1>1, <2>2 DEF KeepsLoop, LoopsHeld, Under
  <2> QED
    BY <2>1, <2>2
<1> QED
  BY <1>1, <1>3 DEF LoopsHeld

LEMMA FormHolds ==
  ASSUME AccountsType, LoopsHeld, NEW n \in Nodes, NEW form, AdminSaves(n, form)
  PROVE  LoopsHeld'
<1>1. /\ call' = [c \in Calls |-> IF \E i \in DOMAIN form : form[i][1] = SIGNUP
                                  THEN [call[c] EXCEPT !.late = FALSE] ELSE call[c]]
      /\ UNCHANGED <<busy, up>>
  BY DEF AdminSaves, SaveForm
<1>2. \A c \in Calls : [call[c] EXCEPT !.late = FALSE].pc = call[c].pc
                       /\ [call[c] EXCEPT !.late = FALSE].node = call[c].node
  BY DEF AccountsType, CallRecord
<1> QED
  BY <1>1, <1>2 DEF LoopsHeld, KeepsLoop

\* What serving does to the loops: nothing, but an instance may start.
LEMMA ServingHolds ==
  ASSUME LoopsHeld, UNCHANGED <<call, busy>>, up \subseteq up'
  PROVE  LoopsHeld'
  BY DEF LoopsHeld, KeepsLoop

-----------------------------------------------------------------------------
\* An instance that refuses sign-ups, and no save under way that opens them.
Shut(n) == Refuses(n) /\ \A m \in Nodes : OnlyCloses(m)

\* A save that only closes sign-up sets it to FALSE in memory and in Redis.
LEMMA ShutSave ==
  ASSUME ConfigInv, NEW n \in Nodes, Shut(n), NEW m \in Nodes, SaveStep(m)
  PROVE  Shut(n)'
<1>1. /\ saving \in [Nodes -> SaveRecord] /\ registry \in [Nodes -> [Settings -> Values]]
      /\ redis \in Document /\ InSave(m)
      /\ SIGNUP \in Settings \ ThreadRead /\ FALSE # Unset
  BY AccountsAssumption, ConfigAssumption DEF ConfigInv, ConfigType, ConfigTypeOK
<1>2. saving[m].todo \in Seq(Settings \X Values)
  BY OneSave DEF ConfigInv
<1>3. saving[m].todo # <<>> /\ Saved(m) = SIGNUP => NewValue(m) = FALSE
  <2>1. saving[m].todo # <<>> => 1 \in DOMAIN saving[m].todo
    BY <1>2
  <2> QED
    BY <1>2, <2>1 DEF Shut, OnlyCloses, Saved, NewValue
<1>4. CASE Assign(m)
  <2>1. PICK r : saving' = [saving EXCEPT ![m].at = "commit", ![m].row = r]
    BY <1>4 DEF Assign
  <2>2. \A j \in Nodes : saving'[j].todo = saving[j].todo
    BY <1>1, <2>1 DEF SaveRecord
  <2>3. saving'[n].at # "import"
    BY <1>1, <2>1 DEF Shut, Refuses, SaveRecord
  <2>4. registry' = [registry EXCEPT ![m][Saved(m)] = NewValue(m)] /\ UNCHANGED <<cluster, up, redis>>
    BY <1>4 DEF Assign, Saved, NewValue
  <2>5. saving[m].todo # <<>> /\ Saved(m) \in Settings
    BY <1>1, <1>4, OneSave DEF InSave, Assign, ConfigInv
  <2>6. ~Read(n, SIGNUP)'
    BY <1>1, <1>3, <2>4, <2>5 DEF Shut, Refuses, Read
  <2> QED
    BY <2>2, <2>3, <2>4, <2>6 DEF Shut, Refuses, OnlyCloses
<1>5. CASE Commit(m)
  <2>1. /\ saving' = [saving EXCEPT ![m].at = "publish"]
        /\ UNCHANGED <<cluster, up, registry, redis>>
    BY <1>5 DEF Commit
  <2>2. /\ \A j \in Nodes : saving'[j].todo = saving[j].todo
        /\ saving'[n].at # "import"
    BY <1>1, <2>1 DEF Shut, Refuses, SaveRecord
  <2> QED
    BY <2>1, <2>2 DEF Shut, Refuses, OnlyCloses, Read
<1>6. CASE Publish(m)
  <2> DEFINE rest == Tail(saving[m].todo)
             s == IF rest = <<>> THEN NoSave
                  ELSE [saving[m] EXCEPT !.todo = rest, !.at = "assign", !.row = 0]
  <2>1. saving[m].todo # <<>> /\ Saved(m) \in Settings /\ saving[m].at = "publish"
    BY <1>1, <1>6, OneSave DEF InSave, Publish, ConfigInv
  <2>2. rest \in Seq(Settings \X Values) /\ \A i \in DOMAIN rest : rest[i] = saving[m].todo[i + 1]
                                            /\ i + 1 \in DOMAIN saving[m].todo
    BY <1>2, <2>1
  <2>3. saving' = [saving EXCEPT ![m] = s]
    BY <1>6 DEF Publish
  <2>4. s.at # "import" /\ (s.todo = <<>> \/ s.todo = rest)
    BY <1>1 DEF SaveRecord, NoSave
  <2> HIDE DEF s, rest
  <2>5. OnlyCloses(m)'
    <3>1. saving'[m].todo = <<>> \/ saving'[m].todo = rest
      BY <1>1, <2>3, <2>4
    <3> QED
      BY <2>2, <3>1 DEF Shut, OnlyCloses
  <2>6. \A j \in Nodes : OnlyCloses(j)'
    BY <1>1, <2>3, <2>5 DEF Shut, OnlyCloses
  <2>7. saving'[n].at # "import"
    BY <1>1, <2>3, <2>4 DEF Shut, Refuses
  <2>8. /\ redis' = IF cluster THEN [redis EXCEPT ![Saved(m)] = registry[m][Saved(m)]] ELSE redis
        /\ UNCHANGED <<cluster, up, registry>>
    BY <1>6 DEF Publish, Saved
  <2>9. Saved(m) = SIGNUP => registry[m][SIGNUP] = FALSE
    BY <1>1, <1>3, <2>1 DEF InSave
  <2>10. ~Read(n, SIGNUP)'
    BY <1>1, <2>1, <2>8, <2>9 DEF Shut, Refuses, Read, Document
  <2> QED
    BY <2>6, <2>7, <2>8, <2>10 DEF Shut, Refuses
<1>7. CASE Import(m)
  <2>1. /\ saving[m].at = "import" /\ saving' = [saving EXCEPT ![m] = NoSave]
        /\ UNCHANGED <<cluster, up, redis>>
        /\ \A j \in Nodes \ {m} : registry'[j] = registry[j]
    BY <1>1, <1>7 DEF Import
  <2>2. m # n
    BY <2>1 DEF Shut, Refuses
  <2>3. \A j \in Nodes : OnlyCloses(j)'
    BY <1>1, <2>1 DEF Shut, OnlyCloses, NoSave
  <2> QED
    BY <1>1, <2>1, <2>2, <2>3 DEF Shut, Refuses, Read
<1> QED
  BY <1>4, <1>5, <1>6, <1>7 DEF SaveStep

\* Faults, reads in the thread pool, starting instances and what others import.
LEMMA ShutOthers ==
  ASSUME ConfigInv, NEW n \in Nodes, Shut(n), NEW m \in Nodes,
         \/ SaveFails(m) \/ Boot(m)
         \/ \E k \in ThreadRead : ThreadReads(m, k)
         \/ m # n /\ Crash(m)
         \/ m # n /\ \E data \in Imports : StartImport(m, data)
  PROVE  Shut(n)'
<1>1. /\ saving \in [Nodes -> SaveRecord] /\ registry \in [Nodes -> [Settings -> Values]]
      /\ SIGNUP \in Settings \ ThreadRead /\ NoSave.at = "idle" /\ NoSave.todo = <<>>
  BY AccountsAssumption DEF ConfigInv, ConfigType, ConfigTypeOK, NoSave
<1>2. CASE SaveFails(m)
  BY <1>1, <1>2 DEF SaveFails, Shut, Refuses, OnlyCloses, Read
<1>3. CASE Boot(m)
  BY <1>1, <1>3 DEF Boot, Shut, Refuses, OnlyCloses, Read
<1>4. ASSUME NEW k \in ThreadRead, ThreadReads(m, k) PROVE Shut(n)'
  <2>1. registry'[n][SIGNUP] = registry[n][SIGNUP]
    BY <1>1, <1>4 DEF ThreadReads, Refreshed
  <2> QED
    BY <1>4, <2>1 DEF ThreadReads, Shut, Refuses, OnlyCloses, Read
<1>5. CASE m # n /\ Crash(m)
  BY <1>1, <1>5 DEF Crash, Shut, Refuses, OnlyCloses, Read
<1>6. ASSUME m # n, NEW data \in Imports, StartImport(m, data) PROVE Shut(n)'
  <2>1. PICK r : saving' = [saving EXCEPT ![m].at = "import", ![m].row = r, ![m].import = data]
    BY <1>6 DEF StartImport
  <2>2. saving'[n] = saving[n] /\ \A j \in Nodes : saving'[j].todo = saving[j].todo
    BY <1>1, <1>6, <2>1 DEF SaveRecord
  <2>3. UNCHANGED <<cluster, up, registry, redis>>
    BY <1>6 DEF StartImport
  <2> QED
    BY <2>2, <2>3 DEF Shut, Refuses, OnlyCloses, Read
<1> QED
  BY <1>2, <1>3, <1>4, <1>5, <1>6

\* A form that does not open sign-up.
LEMMA ShutForm ==
  ASSUME ConfigInv, NEW n \in Nodes, Shut(n), NEW m \in Nodes, NEW form, StartSaving(m, form),
         \A i \in DOMAIN form : form[i][1] = SIGNUP => form[i][2] = FALSE,
         UNCHANGED <<cluster, up, registry, redis>>
  PROVE  Shut(n)'
<1>1. saving \in [Nodes -> SaveRecord]
  BY DEF ConfigInv, ConfigType
<1>2. saving' = [saving EXCEPT ![m].todo = form, ![m].at = "assign"]
  BY DEF StartSaving
<1>3. /\ saving'[m].todo = form /\ saving'[m].at = "assign"
      /\ \A j \in Nodes \ {m} : saving'[j] = saving[j]
  BY <1>1, <1>2 DEF SaveRecord
<1> QED
  BY <1>3 DEF Shut, Refuses, OnlyCloses, Read

LEMMA ShutRead ==
  ASSUME ConfigInv, NEW n \in Nodes, Shut(n), NEW m \in Nodes,
         registry' = Refreshed(m, SIGNUP), UNCHANGED <<cluster, up, redis, saving>>
  PROVE  Shut(n)'
<1>1. registry \in [Nodes -> [Settings -> Values]] /\ SIGNUP \in Settings
  BY AccountsAssumption DEF ConfigInv, ConfigType, ConfigTypeOK
<1> QED
  BY <1>1 DEF Refreshed, Shut, Refuses, OnlyCloses, Read

-----------------------------------------------------------------------------
LEMMA LateMeans ==
  ASSUME NEW c \in Calls, LateInv, call[c].late
  PROVE  /\ call[c].pc \in {"later", "done"} /\ born[c] = 0
         /\ call[c].pc = "later" =>
              call[c].node \in Nodes /\ Shut(call[c].node) /\ busy[call[c].node] = c
  BY DEF LateInv, Late, Shut, KeepsLoop, Refuses, ConfigInv, ConfigType, ConfigTypeOK

\* A call that stands still stays late, if the instance it is at stays shut.
LEMMA LateStill ==
  ASSUME LateInv, NEW c \in Calls,
         call'[c].late => /\ call[c].late /\ born'[c] = born[c]
                          /\ call'[c].pc = call[c].pc /\ call'[c].node = call[c].node,
         call'[c].late /\ call[c].pc = "later" => Shut(call[c].node)'
  PROVE  Late(c)'
<1>1. CASE call'[c].late
  BY <1>1, LateMeans DEF Late, Shut
<1>2. CASE ~call'[c].late
  BY <1>2 DEF Late
<1> QED
  BY <1>1, <1>2

LEMMA LateCreation ==
  ASSUME LateInv, NEW c \in Calls, Creation(c), NEW d \in Calls
  PROVE  Late(d)'
<1>1. /\ AccountsType /\ call \in [Calls -> CallRecord] /\ call[c] \in CallRecord
      /\ up \subseteq Nodes /\ ConfigInv /\ born \in [Calls -> Nat]
  BY DEF LateInv, CountInv, AccountsType, ConfigInv, ConfigType, ConfigTypeOK
<1>2. ASSUME d # c PROVE call'[d] = call[d] /\ born'[d] = born[d]
  <2>1. CASE InsertUser(c)
    BY <1>1, <1>2, <2>1 DEF InsertUser, InsertRow, End, Goto
  <2>2. CASE ~InsertUser(c)
    BY <1>1, <1>2, <2>2 DEF Creation, Admit, InsertAuth, Count, Promote, Close, Finish,
       Picture, DecideRole, rowVars, End, Goto
  <2> QED
    BY <2>1, <2>2
<1>3. ASSUME NEW n \in Nodes, Shut(n) PROVE Shut(n)'
  <2>1. CASE Admit(c)
    <3>1. call[c].node \in Nodes
      BY <1>1, <2>1 DEF Admit, Quiet
    <3> QED
      BY <1>1, <1>3, <2>1, <3>1, ShutRead DEF Admit
  <2>2. CASE Close(c)
    <3> DEFINE form == <<<<SIGNUP, FALSE>>>>
    <3>1. call[c].node \in Nodes
      BY <1>1, <2>2 DEF Close, At, Quiet
    <3>2. \A i \in DOMAIN form : form[i][1] = SIGNUP => form[i][2] = FALSE
      <4>1. PICK pair : pair = <<SIGNUP, FALSE>>
        OBVIOUS
      <4>2. pair[2] = FALSE
        BY <4>1, Zenon
      <4>3. form = <<pair>>
        BY <4>1
      <4> HIDE DEF form
      <4> QED
        BY <4>2, <4>3
    <3>3. StartSaving(call[c].node, form) /\ UNCHANGED <<cluster, up, registry, redis>>
      BY <2>2 DEF Close
    <3> HIDE DEF form
    <3> QED
      BY <1>1, <1>3, <3>1, <3>2, <3>3, ShutForm
  <2>3. CASE ~Admit(c) /\ ~Close(c)
    <3>1. UNCHANGED configVars
      BY <2>3 DEF Creation, InsertUser, InsertAuth, Count, Promote, Finish, Picture, DecideRole
    <3> QED
      BY <1>3, <3>1 DEF Shut, Refuses, OnlyCloses, Read, configVars
  <2> QED
    BY <2>1, <2>2, <2>3
<1>4. CASE d # c
  BY <1>2, <1>3, <1>4, LateStill, LateMeans
<1>5. ASSUME call[c].late PROVE Late(c)'
  <2>1. Admit(c) /\ call[c].pc = "later"
    BY <1>5, LateMeans DEF Creation, Admit, InsertUser, InsertAuth, Count, Promote, Close,
       Finish, Picture, DecideRole, At
  <2>2. ~Read(call[c].node, SIGNUP) /\ born[c] = 0
    BY <1>5, <2>1, LateMeans DEF Shut, Refuses
  <2>3. End(c, "done") /\ born' = born
    BY <2>1, <2>2 DEF Admit, rowVars
  <2>4. call'[c].pc = "done"
    BY <1>1, <2>3, EndMoves DEF End, Moved, After
  <2> QED
    BY <2>2, <2>3, <2>4 DEF Late
<1>6. ASSUME ~call[c].late PROVE Late(c)'
  <2>1. \A r \in CallRecord : \A pc : [r EXCEPT !.pc = pc].late = r.late
    BY DEF CallRecord
  <2>2. Over(c, "done").late = call[c].late
    BY <1>1, FreshType DEF Over, CallRecord
  <2>3. ASSUME NEW pc, Goto(c, pc) PROVE ~call'[c].late
    BY <1>1, <1>6, <2>1, <2>3 DEF Goto
  <2>4. End(c, "done") => ~call'[c].late
    BY <1>1, <1>6, <2>2 DEF End
  <2>5. ASSUME Count(c) \/ DecideRole(c) PROVE ~call'[c].late
    BY <1>1, <1>6, <2>4, <2>5 DEF Count, DecideRole, CallRecord
  <2>6. ~call'[c].late
    BY <2>3, <2>4, <2>5 DEF Creation, Admit, InsertUser, InsertAuth, Promote, Close, Finish,
       Picture
  <2> QED
    BY <2>6 DEF Late
<1> QED
  BY <1>4, <1>5, <1>6

\* A sign-up is late when every instance that listens refuses it.
LEMMA ClosedShuts ==
  ASSUME ConfigInv, Closed, NEW n \in Nodes, Quiet(n)
  PROVE  Shut(n)
<1>1. SIGNUP \in Settings \ ThreadRead /\ SIGNUP \notin torn /\ ~want[SIGNUP]
  BY AccountsAssumption DEF Closed
<1>2. \A m \in Nodes : OnlyCloses(m)
  BY DEF Closed, OnlyCloses
<1>3. ASSUME NEW m \in Nodes PROVE SIGNUP \notin Pending(m)
  <2>1. CASE saving[m].at \in {"commit", "publish"}
    <3>1. saving[m].todo \in Seq(Settings \X Values) /\ saving[m].todo # <<>>
      BY <2>1, OneSave DEF ConfigInv, InSave
    <3>2. 1 \in DOMAIN saving[m].todo /\ Head(saving[m].todo) = saving[m].todo[1]
      BY <3>1
    <3>3. Head(saving[m].todo)[1] # SIGNUP
      BY <3>2 DEF Closed
    <3> QED
      BY <3>3 DEF Pending
  <2>2. CASE saving[m].at \notin {"commit", "publish"}
    BY <2>2 DEF Pending
  <2> QED
    BY <2>1, <2>2
<1>4. Read(n, SIGNUP) = want[SIGNUP]
  BY <1>1, <1>3, SettledIsRead DEF SetIsRead
<1> QED
  BY <1>1, <1>2, <1>4 DEF Shut, Refuses, Quiet, NoSave

LEMMA LateStarting ==
  ASSUME LateInv, NEW c \in Calls, NEW n \in Nodes, Starting(c, n), NEW d \in Calls
  PROVE  Late(d)'
<1>1. /\ call \in [Calls -> CallRecord] /\ call[c] \in CallRecord /\ ConfigInv /\ CountInv
      /\ born' = born
  BY DEF LateInv, CountInv, AccountsType, Starting, Signup, Ldap, Oauth, BootAdmin, ScimCreate,
         AddUser, Begin, rowVars
<1>2. ASSUME NEW m \in Nodes, Shut(m) PROVE Shut(m)'
  <2>1. CASE BootAdmin(c, n)
    BY <1>1, <1>2, <2>1, ShutOthers DEF BootAdmin
  <2>2. CASE ~BootAdmin(c, n)
    <3>1. UNCHANGED configVars
      BY <2>2 DEF Starting, Signup, Ldap, Oauth, ScimCreate, AddUser
    <3> QED
      BY <1>2, <3>1 DEF Shut, Refuses, OnlyCloses, Read, configVars
  <2> QED
    BY <2>1, <2>2
<1>3. ASSUME d # c PROVE Late(d)'
  <2>1. call'[d] = call[d]
    BY <1>1, <1>3 DEF Starting, Signup, Ldap, Oauth, BootAdmin, ScimCreate, AddUser, Begin
  <2> QED
    BY <1>1, <1>2, <2>1, LateStill, LateMeans
<1>4. call[c].pc = "idle" /\ ~call[c].late /\ born[c] = 0
  <2>1. call[c].pc = "idle"
    BY DEF Starting, Signup, Begin, Ldap, Oauth, BootAdmin, ScimCreate, AddUser
  <2> QED
    BY <1>1, <2>1, LateMeans DEF CountInv, Order, Before
<1>5. ASSUME Signup(c, n) PROVE Late(c)'
  <2>1. Closed \in BOOLEAN
    BY DEF Closed
  <2>2. /\ call' = [call EXCEPT ![c] = [@ EXCEPT !.kind = "signup", !.node = n,
              !.pc = IF users = {} THEN "first" ELSE "later", !.late = Closed]]
        /\ Quiet(n)
    BY <1>5 DEF Signup, Begin, Idle
  <2>3. /\ call'[c].late = Closed /\ call'[c].node = n
        /\ call'[c].pc = IF users = {} THEN "first" ELSE "later"
    BY <1>1, <2>1, <2>2 DEF CallRecord
  <2>4. Closed => users # {} /\ Shut(n)'
    BY <1>1, <1>2, <2>2, ClosedShuts DEF Closed
  <2>5. CASE Closed
    <3>1. call'[c].pc = "later" /\ born'[c] = 0
      BY <1>1, <1>4, <2>3, <2>4, <2>5
    <3>2. Refuses(call[c].node)' /\ \A m \in Nodes : OnlyCloses(m)'
      BY <2>3, <2>4, <2>5 DEF Shut, Refuses, Read
    <3> QED
      BY <3>1, <3>2 DEF Late
  <2>6. CASE ~Closed
    BY <2>3, <2>6 DEF Late
  <2> QED
    BY <2>5, <2>6
<1>6. ASSUME ~Signup(c, n) PROVE Late(c)'
  <2>1. ~call'[c].late
    <3>1. CASE Ldap(c, n)
      BY <1>1, <3>1 DEF Ldap, Begin, CallRecord
    <3>2. CASE Oauth(c, n)
      BY <1>1, <1>4, <3>2 DEF Oauth, CallRecord
    <3>3. CASE BootAdmin(c, n) \/ \E r \in Roles : ScimCreate(c, n, r) \/ AddUser(c, n, r)
      <4>1. PICK kind, r :
              call' = [call EXCEPT ![c] = [@ EXCEPT !.kind = kind, !.node = n, !.pc = "user", !.role = r]]
        BY <3>3 DEF BootAdmin, ScimCreate, AddUser
      <4>2. call'[c].late = call[c].late
        BY <1>1, <4>1 DEF CallRecord
      <4> QED
        BY <1>4, <4>2
    <3> QED
      BY <1>6, <3>1, <3>2, <3>3 DEF Starting
  <2> QED
    BY <2>1 DEF Late
<1> QED
  BY <1>3, <1>5, <1>6

\* What instances and administrators do while calls stand still.
LEMMA LateServing ==
  ASSUME LateInv, NEW n \in Nodes, NEW d \in Calls,
         UNCHANGED <<call, busy, born>>,
         \/ UNCHANGED configVars
         \/ SaveStep(n) \/ SaveFails(n) \/ Boot(n)
         \/ \E k \in ThreadRead : ThreadReads(n, k)
         \/ Idle(n) /\ \E data \in Imports : StartImport(n, data)
  PROVE  Late(d)'
<1>1. ConfigInv
  BY DEF LateInv
<1>2. ASSUME call[d].late, call[d].pc = "later" PROVE Shut(call[d].node)'
  <2>1. PICK m : m = call[d].node
    OBVIOUS
  <2>2. m \in Nodes /\ Shut(m) /\ busy[m] = d
    BY <1>2, <2>1, LateMeans
  <2>3. Shut(m)'
    <3>1. CASE UNCHANGED configVars
      BY <2>2, <3>1 DEF Shut, Refuses, OnlyCloses, Read, configVars
    <3>2. CASE SaveStep(n)
      BY <1>1, <2>2, <3>2, ShutSave
    <3>3. CASE SaveFails(n) \/ Boot(n) \/ \E k \in ThreadRead : ThreadReads(n, k)
      BY <1>1, <2>2, <3>3, ShutOthers
    <3>4. CASE Idle(n) /\ \E data \in Imports : StartImport(n, data)
      <4>1. n # m
        BY <2>2, <3>4, AccountsAssumption DEF Idle
      <4> QED
        BY <1>1, <2>2, <3>4, <4>1, ShutOthers
    <3> QED
      BY <3>1, <3>2, <3>3, <3>4
  <2> QED
    BY <2>1, <2>3 DEF Shut, Refuses, OnlyCloses, Read
<1> QED
  BY <1>2, LateStill

\* A crash ends the late sign-ups of its instance and leaves the others alone.
LEMMA LateCrash ==
  ASSUME LateInv, NEW n \in Nodes, CrashAll(n), NEW d \in Calls
  PROVE  Late(d)'
<1>1. /\ call' = [c \in Calls |-> IF c \in Under(n) THEN Over(c, "done") ELSE call[c]]
      /\ born' = born /\ Crash(n) /\ ConfigInv /\ call[d] \in CallRecord
  BY DEF LateInv, CountInv, AccountsType, CrashAll
<1>2. CASE d \in Under(n)
  <2>1. call'[d].late = call[d].late /\ call'[d].pc = "done"
    BY <1>1, <1>2, FreshType DEF Over, CallRecord
  <2> QED
    BY <1>1, <2>1, LateMeans DEF Late
<1>3. CASE d \notin Under(n)
  <2>1. call'[d] = call[d]
    BY <1>1, <1>3
  <2>2. ASSUME call[d].late, call[d].pc = "later" PROVE Shut(call[d].node)'
    <3>1. PICK m : m = call[d].node
      OBVIOUS
    <3>2. m \in Nodes /\ Shut(m) /\ m # n
      BY <1>3, <2>2, <3>1, LateMeans DEF Under
    <3>3. Shut(m)'
      BY <1>1, <3>2, ShutOthers
    <3> QED
      BY <2>1, <3>1, <3>3 DEF Shut, Refuses, OnlyCloses, Read
  <2> QED
    BY <1>1, <2>1, <2>2, LateStill
<1> QED
  BY <1>2, <1>3

\* A form that opens or closes sign-up leaves nobody late.
LEMMA LateForm ==
  ASSUME LateInv, NEW n \in Nodes, NEW form, AdminSaves(n, form), NEW d \in Calls
  PROVE  Late(d)'
<1>1. /\ call' = [c \in Calls |-> IF \E i \in DOMAIN form : form[i][1] = SIGNUP
                                  THEN [call[c] EXCEPT !.late = FALSE] ELSE call[c]]
      /\ born' = born /\ ConfigInv /\ call[d] \in CallRecord
      /\ StartSaving(n, form) /\ UNCHANGED <<cluster, up, registry, redis>>
  BY DEF LateInv, CountInv, AccountsType, AdminSaves, SaveForm, rowVars
<1>2. CASE \E i \in DOMAIN form : form[i][1] = SIGNUP
  <2>1. ~call'[d].late
    BY <1>1, <1>2 DEF CallRecord
  <2> QED
    BY <2>1 DEF Late
<1>3. CASE ~\E i \in DOMAIN form : form[i][1] = SIGNUP
  <2>1. call'[d] = call[d]
    BY <1>1, <1>3
  <2>2. ASSUME call[d].late, call[d].pc = "later" PROVE Shut(call[d].node)'
    <3>1. PICK m : m = call[d].node
      OBVIOUS
    <3>2. m \in Nodes /\ Shut(m)
      BY <2>2, <3>1, LateMeans
    <3>3. Shut(m)'
      BY <1>1, <1>3, <3>2, ShutForm
    <3> QED
      BY <2>1, <3>1, <3>3 DEF Shut, Refuses, OnlyCloses, Read
  <2> QED
    BY <1>1, <2>1, <2>2, LateStill
<1> QED
  BY <1>2, <1>3

LEMMA LateStep ==
  ASSUME LateInv, [Next]_vars, NEW d \in Calls
  PROVE  Late(d)'
<1>1. ASSUME NEW c \in Calls, Creation(c) PROVE Late(d)'
  BY <1>1, LateCreation
<1>2. ASSUME NEW c \in Calls, NEW n \in Nodes,
             \/ Signup(c, n) \/ Ldap(c, n) \/ Oauth(c, n) \/ BootAdmin(c, n)
             \/ \E r \in Roles : ScimCreate(c, n, r) \/ AddUser(c, n, r)
      PROVE  Late(d)'
  BY <1>2, LateStarting DEF Starting
<1>3. ASSUME NEW n \in Nodes,
             \/ \E c \in Calls : OauthAgain(c, n) \/ ScimDelete(c, n)
                                 \/ \E r \in Roles : ScimUpdate(c, n, r)
             \/ \E a, u \in users, r \in Roles \cup {"deleted"} : AdminAsks(n, a, u, r)
             \/ GuardOrder(n) \/ ApplyOrder(n) \/ DeleteAuth(n)
      PROVE  Late(d)'
  <2>1. UNCHANGED <<call, busy, born>> /\ UNCHANGED configVars
    BY <1>3 DEF OauthAgain, ScimDelete, ScimUpdate, AdminAsks, GuardOrder, ApplyOrder,
                DeleteAuth, rowVars
  <2> QED
    BY <2>1, LateServing
<1>4. ASSUME NEW n \in Nodes,
             \/ BootPlain(n)
             \/ SaveStep(n) /\ UNCHANGED accountVars
             \/ SaveFails(n) /\ UNCHANGED accountVars
             \/ \E k \in ThreadRead : ThreadReads(n, k) /\ UNCHANGED accountVars
             \/ \E data \in Imports : AdminImports(n, data)
      PROVE  Late(d)'
  <2>1. UNCHANGED <<call, busy, born>>
    BY <1>4 DEF BootPlain, AdminImports, accountVars
  <2>2. \/ SaveStep(n) \/ SaveFails(n) \/ Boot(n)
        \/ \E k \in ThreadRead : ThreadReads(n, k)
        \/ Idle(n) /\ \E data \in Imports : StartImport(n, data)
    BY <1>4 DEF BootPlain, AdminImports
  <2> QED
    BY <2>1, <2>2, LateServing
<1>5. ASSUME NEW n \in Nodes, CrashAll(n) \/ \E form \in Forms : AdminSaves(n, form)
      PROVE  Late(d)'
  BY <1>5, LateCrash, LateForm
<1>6. CASE UNCHANGED vars
  <2>1. UNCHANGED <<call, born>> /\ UNCHANGED <<cluster, up, registry, redis, saving>>
    BY <1>6 DEF vars, configVars, accountVars
  <2> QED
    BY <2>1 DEF LateInv, Late, Refuses, OnlyCloses, Read
<1> QED
  BY <1>1, <1>2, <1>3, <1>4, <1>5, <1>6 DEF Next

LEMMA LoopsStep ==
  ASSUME AccountsType, up \subseteq Nodes, LoopsHeld, [Next]_vars
  PROVE  LoopsHeld'
<1>1. ASSUME NEW c \in Calls, Creation(c) PROVE LoopsHeld'
  BY <1>1, CreationHolds, PictureHolds
<1>2. ASSUME NEW c \in Calls, NEW n \in Nodes,
             \/ Signup(c, n) \/ Ldap(c, n) \/ Oauth(c, n) \/ BootAdmin(c, n)
             \/ \E r \in Roles : ScimCreate(c, n, r) \/ AddUser(c, n, r)
      PROVE  LoopsHeld'
  BY <1>2, StartingHolds DEF Starting
<1>3. ASSUME NEW n \in Nodes,
             \/ \E c \in Calls : OauthAgain(c, n) \/ ScimDelete(c, n)
                                 \/ \E r \in Roles : ScimUpdate(c, n, r)
             \/ \E a, u \in users, r \in Roles \cup {"deleted"} : AdminAsks(n, a, u, r)
             \/ GuardOrder(n) \/ ApplyOrder(n) \/ DeleteAuth(n)
      PROVE  LoopsHeld'
  <2>1. UNCHANGED <<call, busy>> /\ up' = up
    BY <1>3 DEF OauthAgain, ScimDelete, ScimUpdate, AdminAsks, GuardOrder, ApplyOrder,
                DeleteAuth, configVars
  <2> QED
    BY <2>1, ServingHolds
<1>4. ASSUME NEW n \in Nodes,
             \/ BootPlain(n)
             \/ SaveStep(n) /\ UNCHANGED accountVars
             \/ SaveFails(n) /\ UNCHANGED accountVars
             \/ \E k \in ThreadRead : ThreadReads(n, k) /\ UNCHANGED accountVars
             \/ \E data \in Imports : AdminImports(n, data)
      PROVE  LoopsHeld'
  <2>1. UNCHANGED <<call, busy>>
    BY <1>4 DEF BootPlain, AdminImports, accountVars
  <2>2. up \subseteq up'
    BY <1>4 DEF BootPlain, Boot, AdminImports, StartImport, SaveStep, Assign, Commit, Publish,
                Import, SaveFails, ThreadReads
  <2> QED
    BY <2>1, <2>2, ServingHolds
<1>5. ASSUME NEW n \in Nodes, CrashAll(n) \/ \E form \in Forms : AdminSaves(n, form)
      PROVE  LoopsHeld'
  BY <1>5, CrashHolds, FormHolds
<1>6. CASE UNCHANGED vars
  BY <1>6 DEF vars, configVars, accountVars, LoopsHeld, KeepsLoop
<1> QED
  BY <1>1, <1>2, <1>3, <1>4, <1>5, <1>6 DEF Next

LEMMA LateInit == AccountsInit => LateInv
<1> SUFFICES ASSUME AccountsInit PROVE LateInv
  OBVIOUS
<1>1. /\ call = [c \in Calls |-> Fresh] /\ busy = [n \in Nodes |-> Nobody]
      /\ Fresh.pc = "idle" /\ ~Fresh.late
  BY DEF AccountsInit, Fresh
<1>2. \A c \in Calls : KeepsLoop(c) /\ Late(c)
  BY <1>1 DEF KeepsLoop, Late
<1>3. busy \in [Nodes -> Calls \cup {Nobody}] /\ ConfigInv /\ CountInv
  BY <1>1, InitConfig, InitCount DEF AccountsInit
<1> QED
  BY <1>2, <1>3 DEF LateInv

\* A sign-up that arrives after sign-up was closed everywhere opens no account,
\* whatever instances restart, fail or save other settings in the meantime,
\* under the condition under which saved settings are read at all.
THEOREM StaysClosed == ASSUME NoReset PROVE Spec => []ClosedStaysClosed
<1>1. ASSUME LateInv, [Next]_vars PROVE LateInv'
  <2>1. CountInv' /\ ConfigInv'
    BY <1>1, CountStep, AccountsConfig, NoReset DEF LateInv
  <2>2. LoopsHeld'
    BY <1>1, LoopsStep DEF LateInv, LoopsHeld, CountInv, ConfigInv, ConfigType, ConfigTypeOK
  <2>3. \A c \in Calls : Late(c)'
    BY <1>1, LateStep
  <2> QED
    BY <2>1, <2>2, <2>3 DEF LateInv, LoopsHeld
<1>2. LateInv => ClosedStaysClosed
  BY DEF LateInv, Late, ClosedStaysClosed
<1> QED
  BY <1>1, <1>2, LateInit, PTL DEF Spec

-----------------------------------------------------------------------------
(* Somebody is administrator. *)

\* Each way to an account has places of its own.
Ways(c) ==
    /\ call[c].pc \in {"first", "later"} => call[c].kind = "signup"
    /\ call[c].pc = "picture" => call[c].kind = "oauth"
    /\ call[c].pc = "role" => call[c].kind \in {"ldap", "oauth"}
    /\ call[c].pc = "user" /\ call[c].kind = "scim" => upset = "scim"

\* Whoever is about to be inserted signs up, or is administrator.
AtDoor(c) ==
    call[c].pc = "user" => \/ call[c].kind = "signup"
                           \/ call[c].kind \in {"ldap", "oauth", "boot"} /\ call[c].role = "admin"

\* Nobody was ever inserted.
Untouched == users = {} /\ \A c \in Calls : born[c] = 0 /\ AtDoor(c)

\* The way of the first user: inserted by a sign-up that found itself to be the
\* only user, or administrator from the start.
Arrives(f) ==
    /\ role[f] # "admin" =>
         /\ call[f].kind = "signup" /\ call[f].pc \in {"auth", "count", "promote"}
         /\ call[f].pc \in {"auth", "count"} => users = {f}
    /\ f \notin auths => call[f].pc = "auth"

FirstUser == Untouched \/ \E f \in Calls : Primary(f) /\ Arrives(f)

\* A user whose row in table auth is about to go is gone, for good.
Deleted(n) ==
    order[n].pc = "auth" => order[n].target \in Calls \ users /\ born[order[n].target] # 0

FirstInv ==
    /\ PrimaryInv
    /\ auths \subseteq Calls
    /\ \A c \in Calls : Ways(c)
    /\ \A n \in Nodes : Deleted(n)
    /\ (upset = "nothing" /\ ~RoleManagement) => FirstUser

-----------------------------------------------------------------------------
\* Where a call may go next, other than to its end.
Onward(from, to) ==
    \/ from \in {"first", "later"} /\ to = "user"
    \/ from = "picture" /\ to = "role"
    \/ from = "role" /\ to = "user"
    \/ from = "user" /\ to \in {"auth", "count", "close"}
    \/ from = "auth" /\ to \in {"count", "close"}
    \/ from = "count" /\ to = "promote"
    \/ from = "promote" /\ to = "close"
    \/ from = "close" /\ to = "closing"

Proceeds(c) == call'[c].kind = call[c].kind /\ Onward(call[c].pc, call'[c].pc)

LEMMA GotoKeeps ==
  ASSUME AccountsType, NEW c \in Calls, NEW pc, Goto(c, pc)
  PROVE  /\ call'[c].pc = pc /\ call'[c].kind = call[c].kind /\ call'[c].role = call[c].role
         /\ \A d \in Calls \ {c} : call'[d] = call[d]
<1>1. call \in [Calls -> CallRecord] /\ call[c] \in CallRecord
  BY DEF AccountsType
<1> QED
  BY <1>1 DEF Goto, CallRecord

LEMMA EndKeeps ==
  ASSUME AccountsType, NEW c \in Calls, End(c, "done")
  PROVE  call'[c].pc = "done" /\ \A d \in Calls \ {c} : call'[d] = call[d]
  BY EndMoves DEF End, Moved, After, AccountsType

LEMMA CreationMoves ==
  ASSUME AccountsType, NEW c \in Calls, Creation(c)
  PROVE  /\ \A d \in Calls \ {c} : call'[d] = call[d]
         /\ call'[c].pc = "done" \/ Proceeds(c)
<1> DEFINE Goal == /\ \A d \in Calls \ {c} : call'[d] = call[d]
                   /\ call'[c].pc = "done" \/ Proceeds(c)
<1>1. ASSUME NEW pc, Goto(c, pc), Onward(call[c].pc, pc) PROVE Goal
  BY <1>1, GotoKeeps DEF Proceeds
<1>2. CASE End(c, "done")
  BY <1>2, EndKeeps
<1>3. CASE Admit(c)
  BY <1>1, <1>2, <1>3 DEF Admit, Onward
<1>4. CASE InsertUser(c) \/ InsertAuth(c)
  BY <1>1, <1>2, <1>4 DEF InsertUser, InsertAuth, At, Inserted, Onward
<1>5. CASE Count(c)
  <2>1. CASE Cardinality(users) = 1
    <3>1. call' = [call EXCEPT ![c].pc = "promote", ![c].won = TRUE] /\ call[c].pc = "count"
      BY <1>5, <2>1 DEF Count, At
    <3>2. call \in [Calls -> CallRecord] /\ call[c] \in CallRecord
      BY DEF AccountsType
    <3>3. /\ call'[c].kind = call[c].kind /\ call'[c].pc = "promote"
          /\ \A d \in Calls \ {c} : call'[d] = call[d]
      BY <3>1, <3>2 DEF CallRecord
    <3> QED
      BY <3>1, <3>3 DEF Proceeds, Onward
  <2>2. CASE Cardinality(users) # 1
    BY <1>2, <1>5, <2>2 DEF Count
  <2> QED
    BY <2>1, <2>2
<1>6. CASE Promote(c) \/ Close(c) \/ Picture(c)
  BY <1>1, <1>6 DEF Promote, Close, Picture, At, Onward
<1>7. CASE Finish(c)
  BY <1>2, <1>7 DEF Finish
<1>8. CASE DecideRole(c)
  <2>1. PICK r : call' = [call EXCEPT ![c].pc = "user", ![c].role = r]
    BY <1>8 DEF DecideRole
  <2>2. call \in [Calls -> CallRecord] /\ call[c] \in CallRecord
    BY DEF AccountsType
  <2>3. /\ call'[c].kind = call[c].kind /\ call'[c].pc = "user"
        /\ \A d \in Calls \ {c} : call'[d] = call[d]
    BY <2>1, <2>2 DEF CallRecord
  <2> QED
    BY <1>8, <2>3 DEF DecideRole, At, Proceeds, Onward
<1> QED
  BY <1>3, <1>4, <1>5, <1>6, <1>7, <1>8 DEF Creation

\* How a call begins.
Begins(c) ==
    \/ call'[c].kind = "signup" /\ call'[c].pc \in {"first", "later"}
    \/ call'[c].kind = "ldap" /\ call'[c].pc = "role"
    \/ call'[c].kind = "oauth" /\ call'[c].pc = "picture"
    \/ call'[c].kind = "boot" /\ call'[c].pc = "user" /\ call'[c].role = "admin"
    \/ call'[c].kind = "add" /\ call'[c].pc = "user" /\ users # {}
    \/ call'[c].kind = "scim" /\ call'[c].pc = "user" /\ upset' = "scim"

LEMMA StartingMoves ==
  ASSUME AccountsType, NEW c \in Calls, NEW n \in Nodes, Starting(c, n)
  PROVE  /\ \A d \in Calls \ {c} : call'[d] = call[d]
         /\ call[c].pc = "idle" /\ Begins(c)
         /\ UNCHANGED <<users, auths, role, born, order>>
         /\ upset' \in {upset, "scim"}
<1>1. /\ call[c].pc = "idle" /\ UNCHANGED <<users, auths, role, born, order>>
      /\ upset' \in {upset, "scim"}
  BY DEF Starting, Signup, Begin, Ldap, Oauth, BootAdmin, ScimCreate, AddUser, Scim, rowVars,
         otherVars
<1>2. call \in [Calls -> CallRecord] /\ call[c] \in CallRecord
  BY DEF AccountsType
<1>3. ASSUME NEW kind, NEW pc, NEW late \in BOOLEAN,
             call' = [call EXCEPT ![c] = [@ EXCEPT !.kind = kind, !.node = n, !.pc = pc,
                                                   !.late = late]]
      PROVE  /\ \A d \in Calls \ {c} : call'[d] = call[d]
             /\ call'[c].kind = kind /\ call'[c].pc = pc
  BY <1>2, <1>3 DEF CallRecord
<1>4. CASE Signup(c, n)
  <2>1. PICK late \in BOOLEAN, pc \in {"first", "later"} :
          call' = [call EXCEPT ![c] = [@ EXCEPT !.kind = "signup", !.node = n, !.pc = pc,
                                                !.late = late]]
    BY <1>4 DEF Signup, Begin, Closed
  <2> QED
    BY <1>1, <1>3, <2>1 DEF Begins
<1>5. CASE Ldap(c, n)
  BY <1>1, <1>3, <1>5 DEF Ldap, Begin, Begins
<1>6. CASE Oauth(c, n)
  <2>1. call' = [call EXCEPT ![c] = [@ EXCEPT !.kind = "oauth", !.node = n, !.pc = "picture"]]
    BY <1>6 DEF Oauth
  <2>2. /\ \A d \in Calls \ {c} : call'[d] = call[d]
        /\ call'[c].kind = "oauth" /\ call'[c].pc = "picture"
    BY <1>2, <2>1 DEF CallRecord
  <2> QED
    BY <1>1, <2>2 DEF Begins
<1>7. ASSUME NEW kind, NEW r,
             call' = [call EXCEPT ![c] = [@ EXCEPT !.kind = kind, !.node = n, !.pc = "user",
                                                   !.role = r]]
      PROVE  /\ \A d \in Calls \ {c} : call'[d] = call[d]
             /\ call'[c].kind = kind /\ call'[c].pc = "user" /\ call'[c].role = r
  BY <1>2, <1>7 DEF CallRecord
<1>8. CASE BootAdmin(c, n)
  BY <1>1, <1>7, <1>8 DEF BootAdmin, Begins
<1>9. ASSUME NEW r \in Roles, ScimCreate(c, n, r) \/ AddUser(c, n, r)
      PROVE  /\ \A d \in Calls \ {c} : call'[d] = call[d]
             /\ Begins(c)
  <2>1. CASE ScimCreate(c, n, r)
    BY <1>7, <2>1 DEF ScimCreate, Scim, Begins
  <2>2. CASE AddUser(c, n, r)
    BY <1>7, <2>2 DEF AddUser, Begins
  <2> QED
    BY <1>9, <2>1, <2>2
<1> QED
  BY <1>1, <1>4, <1>5, <1>6, <1>8, <1>9 DEF Starting

\* A call that neither begins nor proceeds stays, forgets that it was late, or
\* ends with its instance.
Stays(c) ==
    \/ /\ call'[c].pc = call[c].pc /\ call'[c].kind = call[c].kind
       /\ call'[c].role = call[c].role
    \/ call'[c].pc = "done"

LEMMA RestMoves ==
  ASSUME AccountsType, NEW n \in Nodes,
         Serving(n) \/ CrashAll(n) \/ \E form \in Forms : AdminSaves(n, form)
  PROVE  \A c \in Calls : Stays(c)
<1>1. CASE Serving(n)
  <2>1. UNCHANGED call
    BY <1>1 DEF Serving, OauthAgain, ScimDelete, ScimUpdate, AdminAsks, GuardOrder, ApplyOrder,
                DeleteAuth, BootPlain, AdminImports, accountVars
  <2> QED
    BY <2>1 DEF Stays
<1>2. CASE CrashAll(n)
  <2>1. call' = [c \in Calls |-> IF c \in Under(n) THEN Over(c, "done") ELSE call[c]]
    BY <1>2 DEF CrashAll
  <2>2. \A c \in Calls : Over(c, "done").pc = "done"
    BY FreshType DEF Over, CallRecord
  <2> QED
    BY <2>1, <2>2 DEF Stays
<1>3. ASSUME NEW form \in Forms, AdminSaves(n, form) PROVE \A c \in Calls : Stays(c)
  <2>1. call' = [c \in Calls |-> IF \E i \in DOMAIN form : form[i][1] = SIGNUP
                                 THEN [call[c] EXCEPT !.late = FALSE] ELSE call[c]]
    BY <1>3 DEF AdminSaves
  <2>2. \A c \in Calls : /\ [call[c] EXCEPT !.late = FALSE].pc = call[c].pc
                         /\ [call[c] EXCEPT !.late = FALSE].kind = call[c].kind
                         /\ [call[c] EXCEPT !.late = FALSE].role = call[c].role
    BY DEF AccountsType, CallRecord
  <2> QED
    BY <2>1, <2>2 DEF Stays
<1> QED
  BY <1>1, <1>2, <1>3

-----------------------------------------------------------------------------
\* What was upset stays upset, and what a provisioning service upset for good.
Upsets == upset' \in {upset, "scim"} \/ (upset = "nothing" /\ upset' = "chance")

LEMMA UpsetStays ==
  ASSUME [Next]_vars
  PROVE  Upsets
<1>1. ASSUME NEW c \in Calls, Creation(c)
      PROVE  Upsets
  <2>1. CASE InsertUser(c)
    BY <2>1 DEF InsertUser, InsertRow, UpsetIf, Upsets
  <2>2. CASE ~InsertUser(c)
    BY <1>1, <2>2 DEF Creation, Admit, InsertAuth, Count, Promote, Close, Finish, Picture,
                      DecideRole, rowVars, Upsets
  <2> QED
    BY <2>1, <2>2
<1>2. ASSUME NEW c \in Calls, NEW n \in Nodes, Starting(c, n) PROVE upset' \in {upset, "scim"}
  BY <1>2 DEF Starting, Signup, Begin, Ldap, Oauth, BootAdmin, ScimCreate, AddUser, Scim, rowVars
<1>3. ASSUME NEW n \in Nodes, Serving(n) PROVE upset' \in {upset, "scim"}
  BY <1>3 DEF Serving, OauthAgain, ScimDelete, ScimUpdate, Scim, AdminAsks, GuardOrder,
              ApplyOrder, DeleteAuth, BootPlain, AdminImports, accountVars, rowVars
<1>4. ASSUME NEW n \in Nodes, CrashAll(n) \/ \E form \in Forms : AdminSaves(n, form)
      PROVE  Upsets
  BY <1>4 DEF CrashAll, UpsetIf, AdminSaves, rowVars, Upsets
<1>5. CASE UNCHANGED vars
  BY <1>5 DEF vars, accountVars, Upsets
<1> QED
  BY <1>1, <1>2, <1>3, <1>4, <1>5, NextSteps DEF Upsets

LEMMA WaysStep ==
  ASSUME AccountsType, [Next]_vars, \A c \in Calls : Ways(c), NEW d \in Calls
  PROVE  Ways(d)'
<1>1. upset = "scim" => upset' = "scim"
  BY UpsetStays DEF Upsets
<1>2. CASE Stays(d)
  BY <1>1, <1>2 DEF Ways, Stays
<1>3. CASE Proceeds(d)
  BY <1>1, <1>3 DEF Ways, Proceeds, Onward
<1>4. CASE Begins(d)
  BY <1>4 DEF Ways, Begins
<1>5. ASSUME NEW c \in Calls, Creation(c) PROVE Stays(d) \/ Proceeds(d)
  BY <1>5, CreationMoves DEF Stays
<1>6. ASSUME NEW c \in Calls, NEW n \in Nodes, Starting(c, n) PROVE Stays(d) \/ Begins(d)
  BY <1>6, StartingMoves DEF Stays
<1>7. ASSUME UNCHANGED vars PROVE Stays(d)
  BY <1>7 DEF vars, accountVars, Stays
<1>8. ASSUME NEW n \in Nodes,
             Serving(n) \/ CrashAll(n) \/ \E form \in Forms : AdminSaves(n, form)
      PROVE  Stays(d)
  BY <1>8, RestMoves
<1>9. Stays(d) \/ Proceeds(d) \/ Begins(d)
  BY <1>5, <1>6, <1>7, <1>8, NextSteps
<1> QED
  BY <1>2, <1>3, <1>4, <1>9

\* Ids are not used again, so who is deleted stays away.
LEMMA DeletedStep ==
  ASSUME PrimaryInv, auths \subseteq Calls, \A n \in Nodes : Deleted(n), [Next]_vars,
         NEW n \in Nodes
  PROVE  Deleted(n)'
<1>1. CountInv /\ order \in [Nodes -> OrderRecord] /\ born \in [Calls -> Nat] /\ users \subseteq Calls
  BY DEF PrimaryInv, CountInv, AccountsType
<1>2. ASSUME order'[n] = order[n] \/ order'[n].pc # "auth", Sparing PROVE Deleted(n)'
  BY <1>2 DEF Deleted, Sparing
<1>3. ASSUME NEW c \in Calls, InsertUser(c) PROVE Deleted(n)'
  <2>1. born[c] = 0 /\ UNCHANGED order
    BY <1>3 DEF InsertUser, At, CountInv, PrimaryInv, Order, Before, otherVars
  <2>2. PICK second : users' = users \cup {c} /\ born' = [born EXCEPT ![c] = second]
    BY <1>3 DEF InsertUser, InsertRow
  <2> QED
    BY <1>1, <2>1, <2>2 DEF Deleted
<1>4. ASSUME NEW c \in Calls, Creation(c), ~InsertUser(c) PROVE Deleted(n)'
  <2>1. UNCHANGED order
    BY <1>4 DEF Creation, Admit, InsertAuth, Count, Promote, Close, Finish, Picture, DecideRole,
                otherVars
  <2> QED
    BY <1>1, <1>2, <1>4, <2>1, CreationCalm DEF Calm, Sparing, Count, rowVars
<1>5. ASSUME NEW c \in Calls, NEW m \in Nodes, Starting(c, m) PROVE Deleted(n)'
  BY <1>1, <1>2, <1>5, StartingMoves DEF Sparing, CountInv
<1>6. ASSUME NEW m \in Nodes, ApplyOrder(m) PROVE Deleted(n)'
  <2>1. order[m] \in OrderRecord /\ order[m].target \in Calls /\ born[order[m].target] # 0
    BY <1>1, <1>6 DEF ApplyOrder, PrimaryInv, OrdersKept
  <2>2. CASE order[m].role = "deleted"
    <3>1. /\ users' = users \ {order[m].target} /\ born' = born
          /\ order' = [order EXCEPT ![m].pc = "auth"]
      BY <1>6, <2>2 DEF ApplyOrder, DropRow
    <3>2. order'[n].target = order[n].target /\ (n # m => order'[n] = order[n])
      BY <1>1, <3>1 DEF OrderRecord
    <3> QED
      BY <2>1, <3>1, <3>2 DEF Deleted
  <2>3. CASE order[m].role # "deleted"
    <3>1. /\ users' = users /\ born' = born /\ order' = [order EXCEPT ![m] = NoOrder]
          /\ NoOrder.pc = "none"
      BY <1>6, <2>3 DEF ApplyOrder, NoOrder
    <3> QED
      BY <1>1, <1>2, <3>1 DEF Sparing
  <2> QED
    BY <2>2, <2>3
<1>7. ASSUME NEW m \in Nodes, Serving(m), ~ApplyOrder(m) PROVE Deleted(n)'
  <2>1. order'[n] = order[n] \/ order'[n].pc # "auth"
    <3>1. CASE UNCHANGED order
      BY <3>1
    <3>2. CASE GuardOrder(m)
      <4>1. PICK may \in BOOLEAN :
              order' = [order EXCEPT ![m] = IF may THEN [@ EXCEPT !.pc = "apply"] ELSE NoOrder]
        <5>1. PICK first : order' = [order EXCEPT ![m] =
                     IF May(order[m], first) THEN [@ EXCEPT !.pc = "apply"] ELSE NoOrder]
          BY <3>2 DEF GuardOrder
        <5>2. CASE May(order[m], first)
          BY <5>1, <5>2
        <5>3. CASE ~May(order[m], first)
          BY <5>1, <5>3
        <5> QED
          BY <5>2, <5>3
      <4>2. [order[m] EXCEPT !.pc = "apply"].pc = "apply" /\ NoOrder.pc = "none"
        BY <1>1 DEF OrderRecord, NoOrder
      <4> QED
        BY <1>1, <4>1, <4>2
    <3>3. CASE DeleteAuth(m)
      BY <1>1, <3>3 DEF DeleteAuth, NoOrder
    <3>4. CASE \E c \in Calls : OauthAgain(c, m)
      BY <1>1, <3>4 DEF OauthAgain
    <3>5. CASE \E a, u \in users, r \in Roles \cup {"deleted"} : AdminAsks(m, a, u, r)
      BY <1>1, <3>5 DEF AdminAsks
    <3> QED
      BY <1>7, <3>1, <3>2, <3>3, <3>4, <3>5
         DEF Serving, ScimDelete, ScimUpdate, BootPlain, AdminImports, accountVars
  <2> QED
    BY <1>1, <1>2, <1>7, <2>1, ServingCalm DEF Calm, Sparing
<1>8. ASSUME NEW m \in Nodes, CrashAll(m) PROVE Deleted(n)'
  <2>1. order'[n] = order[n] \/ order'[n].pc # "auth"
    BY <1>1, <1>8 DEF CrashAll, NoOrder
  <2> QED
    BY <1>1, <1>2, <1>8, <2>1, CrashCalm DEF Calm, Sparing
<1>9. ASSUME NEW m \in Nodes, NEW form \in Forms, AdminSaves(m, form) PROVE Deleted(n)'
  BY <1>1, <1>2, <1>9, FormCalm DEF Calm, Sparing, AdminSaves, otherVars
<1>10. CASE UNCHANGED vars
  BY <1>2, <1>10 DEF vars, accountVars, Sparing
<1> QED
  BY <1>3, <1>4, <1>5, <1>6, <1>7, <1>8, <1>9, <1>10, NextSteps

-----------------------------------------------------------------------------
\* The first insert makes its user the first user.
LEMMA FirstInsert ==
  ASSUME FirstInv, Untouched, NEW c \in Calls, InsertUser(c)
  PROVE  Primary(c)' /\ Arrives(c)'
<1>1. /\ PrimaryInv /\ AccountsType /\ call \in [Calls -> CallRecord] /\ born \in [Calls -> Nat]
      /\ role \in [Calls -> Roles] /\ clock \in Nat
  BY DEF FirstInv, PrimaryInv, CountInv, AccountsType
<1>2. PICK second \in {clock, clock + 1} \ {0} :
        /\ users' = users \cup {c} /\ born' = [born EXCEPT ![c] = second]
        /\ role' = [role EXCEPT ![c] = call[c].role]
  BY DEF InsertUser, InsertRow
<1>3. /\ users' = {c} /\ born'[c] # 0 /\ role'[c] = call[c].role
      /\ \A d \in Calls \ {c} : born'[d] = 0
  BY <1>1, <1>2 DEF Untouched
<1>4. \/ call[c].kind = "signup"
      \/ call[c].kind \in {"ldap", "oauth", "boot"} /\ call[c].role = "admin"
  BY DEF Untouched, AtDoor, InsertUser, At
<1>5. ~OnlyUser(c)
  BY <1>4 DEF OnlyUser
<1>6. CASE call[c].kind = "signup"
  <2>1. Inserted(c) = "count"
    BY <1>6 DEF Inserted
  <2>2. IF SessionSharing THEN auths' = auths \cup {c} /\ Goto(c, "count") ELSE Goto(c, "auth")
    BY <1>5, <2>1 DEF InsertUser
  <2>3. /\ call'[c].kind = "signup" /\ call'[c].pc \in {"auth", "count"}
        /\ c \notin auths' => call'[c].pc = "auth"
    BY <1>1, <1>6, <2>2, GotoKeeps
  <2> QED
    BY <1>3, <2>3 DEF Primary, Arrives
<1>7. CASE call[c].role = "admin"
  <2>1. c \in auths' \/ Goto(c, "auth")
    BY <1>5 DEF InsertUser
  <2>2. c \notin auths' => call'[c].pc = "auth"
    BY <1>1, <2>1, GotoKeeps
  <2> QED
    BY <1>3, <1>7, <2>2 DEF Primary, Arrives
<1> QED
  BY <1>4, <1>6, <1>7

\* Without users, whoever decides about a role decides for administrator.
LEMMA UntouchedCreation ==
  ASSUME FirstInv, Untouched, NEW c \in Calls, Creation(c), ~InsertUser(c)
  PROVE  Untouched'
<1>1. PrimaryInv /\ CountInv /\ AccountsType /\ call \in [Calls -> CallRecord]
      /\ call[c] \in CallRecord
  BY DEF FirstInv, PrimaryInv, CountInv, AccountsType
<1>2. users' = {} /\ born' = born
  <2>1. Calm \/ Count(c)
    BY <1>1, CreationCalm
  <2> QED
    BY <2>1 DEF Calm, Untouched, Count, rowVars
<1>3. ASSUME NEW d \in Calls \ {c} PROVE AtDoor(d)'
  BY <1>1, <1>3, CreationMoves DEF Untouched, AtDoor
<1>4. ASSUME call'[c].pc = "user" PROVE AtDoor(c)'
  <2>1. call'[c].kind = call[c].kind /\ Onward(call[c].pc, "user")
    BY <1>1, <1>4, CreationMoves DEF Proceeds
  <2>2. CASE call[c].pc \in {"first", "later"}
    BY <2>1, <2>2 DEF AtDoor, FirstInv, Ways
  <2>3. CASE call[c].pc = "role"
    <3>1. DecideRole(c)
      BY <2>3 DEF Creation, Admit, InsertUser, InsertAuth, Count, Promote, Close, Finish,
                  Picture, At
    <3>2. call' = [call EXCEPT ![c].pc = "user", ![c].role = "admin"]
      BY <3>1 DEF DecideRole, Untouched
    <3>3. call'[c].role = "admin"
      BY <1>1, <3>2 DEF CallRecord
    <3> QED
      BY <2>1, <2>3, <3>3 DEF AtDoor, FirstInv, Ways
  <2> QED
    BY <2>1, <2>2, <2>3 DEF Onward
<1>5. \A d \in Calls : AtDoor(d)'
  BY <1>3, <1>4 DEF AtDoor
<1> QED
  BY <1>2, <1>5 DEF Untouched

LEMMA UntouchedStep ==
  ASSUME FirstInv, Untouched, [Next]_vars, upset' = "nothing"
  PROVE  FirstUser'
<1>1. PrimaryInv /\ CountInv /\ AccountsType
  BY DEF FirstInv, PrimaryInv, CountInv
<1>2. ASSUME users' \subseteq users, UNCHANGED born, \A d \in Calls : AtDoor(d)'
      PROVE  Untouched'
  BY <1>2 DEF Untouched
<1>3. ASSUME NEW c \in Calls, Creation(c) PROVE FirstUser'
  <2>1. CASE InsertUser(c)
    BY <2>1, FirstInsert DEF FirstUser
  <2>2. CASE ~InsertUser(c)
    BY <1>3, <2>2, UntouchedCreation DEF FirstUser
  <2> QED
    BY <2>1, <2>2
<1>4. ASSUME NEW c \in Calls, NEW n \in Nodes, Starting(c, n) PROVE Untouched'
  <2>1. /\ UNCHANGED <<users, born>> /\ Begins(c)
        /\ \A d \in Calls \ {c} : call'[d] = call[d]
    BY <1>1, <1>4, StartingMoves
  <2>2. AtDoor(c)'
    BY <2>1 DEF Begins, AtDoor, Untouched
  <2> QED
    BY <1>2, <2>1, <2>2 DEF Untouched, AtDoor
<1>5. ASSUME NEW n \in Nodes,
             Serving(n) \/ CrashAll(n) \/ \E form \in Forms : AdminSaves(n, form)
      PROVE  Untouched'
  <2>1. users' \subseteq users /\ UNCHANGED born
    BY <1>1, <1>5, ServingCalm, CrashCalm, FormCalm DEF Calm
  <2>2. \A d \in Calls : Stays(d)
    BY <1>1, <1>5, RestMoves
  <2>3. \A d \in Calls : AtDoor(d)'
    BY <2>2 DEF Stays, AtDoor, Untouched
  <2> QED
    BY <1>2, <2>1, <2>3
<1>6. ASSUME UNCHANGED vars PROVE Untouched'
  BY <1>6 DEF vars, accountVars, Untouched, AtDoor
<1> QED
  BY <1>3, <1>4, <1>5, <1>6, NextSteps DEF FirstUser

-----------------------------------------------------------------------------
\* The first user stays the first, keeps its way, and an administrator on it.
LEMMA StandsStill ==
  ASSUME NEW f \in Calls, Primary(f), Arrives(f),
         users' \subseteq users, f \in users', UNCHANGED born, role'[f] \in {role[f], "admin"},
         auths \subseteq auths' \cup (Calls \ {f}), Stays(f),
         call'[f].pc # call[f].pc => role[f] = "admin" /\ f \in auths
  PROVE  Primary(f)' /\ Arrives(f)'
<1>1. Primary(f)'
  BY DEF Primary
<1>2. f \in auths => f \in auths'
  OBVIOUS
<1>3. CASE call'[f].pc = call[f].pc /\ call'[f].kind = call[f].kind
  BY <1>1, <1>2, <1>3 DEF Arrives
<1>4. CASE call'[f].pc = "done" /\ role[f] = "admin" /\ f \in auths
  BY <1>1, <1>2, <1>4 DEF Arrives
<1>5. CASE call'[f].pc = "done" /\ call'[f].pc = call[f].pc
  <2>1. role[f] = "admin" /\ f \in auths
    BY <1>5 DEF Arrives
  <2> QED
    BY <1>4, <1>5, <2>1
<1> QED
  BY <1>3, <1>4, <1>5 DEF Stays

LEMMA FirstCreation ==
  ASSUME FirstInv, NEW f \in Calls, Primary(f), Arrives(f), upset' = "nothing",
         NEW c \in Calls, Creation(c)
  PROVE  Primary(f)' /\ Arrives(f)'
<1>1. /\ PrimaryInv /\ CountInv /\ AccountsType /\ Order /\ call \in [Calls -> CallRecord]
      /\ call[c] \in CallRecord /\ role \in [Calls -> Roles] /\ born \in [Calls -> Nat]
      /\ auths \subseteq Calls /\ users \subseteq Calls /\ clock \in Nat
  BY DEF FirstInv, PrimaryInv, CountInv, AccountsType
<1>2. f \in users /\ born[f] # 0 /\ call[f].pc \notin Before
  BY <1>1 DEF Primary, Order
<1>3. CASE InsertUser(c)
  <2>1. c # f /\ born[c] = 0
    BY <1>1, <1>2, <1>3 DEF InsertUser, At, Order, Before
  <2>2. PICK second \in {clock, clock + 1} \ {0} :
          /\ users' = users \cup {c} /\ born' = [born EXCEPT ![c] = second]
          /\ role' = [role EXCEPT ![c] = call[c].role]
          /\ UpsetIf(Uncounted # {} \/ \E u \in Calls : born[u] = second)
    BY <1>3 DEF InsertUser, InsertRow
  <2>3. Uncounted = {} /\ born[f] # second
    BY <2>2 DEF UpsetIf
  <2>4. born[f] < second
    BY <1>1, <2>2, <2>3 DEF Order
  <2>5. Primary(f)'
    BY <1>1, <2>1, <2>2, <2>4 DEF Primary
  <2>6. call'[f] = call[f]
    BY <1>1, <2>1, <1>3, CreationMoves
  <2>7. role'[f] = role[f] /\ (f \in auths => f \in auths')
    BY <1>1, <1>3, <2>1, <2>2 DEF InsertUser
  <2>8. f \notin Uncounted
    BY <2>3
  <2>9. Arrives(f)'
    BY <2>6, <2>7, <2>8 DEF Arrives, Uncounted
  <2> QED
    BY <2>5, <2>9
<1>4. CASE ~InsertUser(c) /\ c # f
  <2>1. call'[f] = call[f]
    BY <1>1, <1>4, CreationMoves
  <2>2. users' = users /\ born' = born /\ auths \subseteq auths' /\ role'[f] = role[f]
    BY <1>1, <1>4 DEF Creation, Admit, InsertAuth, Count, Promote, Close, Finish, Picture,
                      DecideRole, rowVars
  <2> QED
    BY <1>2, <2>1, <2>2 DEF Primary, Arrives
<1>5. CASE ~InsertUser(c) /\ c = f
  <2>1. users' = users /\ born' = born /\ auths \subseteq auths'
    BY <1>1, <1>5 DEF Creation, Admit, InsertAuth, Count, Promote, Close, Finish, Picture,
                      DecideRole, rowVars
  <2>2. Primary(f)'
    BY <2>1 DEF Primary
  <2>3. \/ InsertAuth(f) \/ Count(f) \/ Promote(f) \/ Close(f) \/ Finish(f)
    BY <1>2, <1>5 DEF Creation, Admit, Picture, DecideRole, At, Before
  <2>4. CASE InsertAuth(f)
    <3>1. f \in auths' /\ role' = role
      BY <2>4 DEF InsertAuth
    <3>2. CASE role[f] = "admin"
      BY <2>2, <3>1, <3>2 DEF Arrives
    <3>3. CASE role[f] # "admin"
      <4>1. call[f].kind = "signup" /\ users = {f}
        BY <3>3, <2>4 DEF Arrives, InsertAuth, At
      <4>2. Goto(f, "count")
        BY <2>4, <4>1 DEF InsertAuth, Inserted
      <4>3. call'[f].kind = "signup" /\ call'[f].pc = "count"
        BY <1>1, <4>1, <4>2, GotoKeeps
      <4> QED
        BY <2>1, <2>2, <3>1, <4>1, <4>3 DEF Arrives
    <3> QED
      BY <2>2, <3>2, <3>3
  <2>5. CASE Count(f)
    <3>1. f \in auths' /\ role' = role /\ call[f].pc = "count"
      BY <2>1, <2>5 DEF Arrives, Count, At, rowVars
    <3>2. CASE role[f] = "admin"
      BY <2>2, <3>1, <3>2 DEF Arrives
    <3>3. CASE role[f] # "admin"
      <4>1. call[f].kind = "signup" /\ users = {f}
        BY <3>1, <3>3 DEF Arrives
      <4>2. Cardinality(users) = 1
        BY <4>1, FS_Singleton
      <4>3. call' = [call EXCEPT ![f].pc = "promote", ![f].won = TRUE]
        BY <2>5, <4>2 DEF Count
      <4>4. call'[f].kind = "signup" /\ call'[f].pc = "promote"
        BY <1>1, <1>5, <4>1, <4>3 DEF CallRecord
      <4> QED
        BY <2>2, <3>1, <4>4 DEF Arrives
    <3> QED
      BY <2>2, <3>2, <3>3
  <2>6. CASE Promote(f)
    <3>1. role'[f] = "admin" /\ f \in auths'
      BY <1>1, <1>2, <2>1, <2>6 DEF Promote, Arrives, At
    <3> QED
      BY <2>2, <3>1 DEF Arrives
  <2>7. CASE Close(f) \/ Finish(f)
    <3>1. role'[f] = "admin" /\ f \in auths'
      BY <2>1, <2>7 DEF Close, Finish, At, Arrives, rowVars
    <3> QED
      BY <2>2, <3>1 DEF Arrives
  <2> QED
    BY <2>3, <2>4, <2>5, <2>6, <2>7
<1> QED
  BY <1>3, <1>4, <1>5

\* What administrators, sign-ins and a crash do to the first user.
LEMMA FirstServing ==
  ASSUME FirstInv, NEW f \in Calls, Primary(f), Arrives(f), upset' = "nothing",
         ~RoleManagement, NEW n \in Nodes,
         Serving(n) \/ CrashAll(n) \/ \E form \in Forms : AdminSaves(n, form)
  PROVE  Primary(f)' /\ Arrives(f)'
<1>1. /\ PrimaryInv /\ CountInv /\ AccountsType /\ role \in [Calls -> Roles]
      /\ call \in [Calls -> CallRecord] /\ auths \subseteq Calls
  BY DEF FirstInv, PrimaryInv, CountInv, AccountsType
<1>2. f \in users
  BY DEF Primary
<1>3. /\ users' \subseteq users /\ UNCHANGED born /\ Stays(f)
  BY <1>1, ServingCalm, CrashCalm, FormCalm, RestMoves DEF Calm
<1>4. ASSUME UNCHANGED <<users, role, auths, call>> PROVE Primary(f)' /\ Arrives(f)'
  BY <1>3, <1>4 DEF Primary, Arrives
<1>5. CASE ApplyOrder(n)
  <2>1. order[n].target = f => order[n].role = "admin"
    BY <1>5 DEF ApplyOrder, FirstInv, PrimaryInv, OrdersKept
  <2>2. UNCHANGED <<call, auths>>
    BY <1>5 DEF ApplyOrder
  <2>3. f \in users' /\ role'[f] \in {role[f], "admin"}
    <3>1. CASE order[n].role = "deleted"
      <4>1. order[n].target # f
        BY <2>1, <3>1, AccountsAssumption
      <4> QED
        BY <1>1, <1>2, <1>5, <3>1, <4>1 DEF ApplyOrder, DropRow
    <3>2. CASE order[n].role # "deleted"
      BY <1>1, <1>2, <1>5, <2>1, <3>2 DEF ApplyOrder
    <3> QED
      BY <3>1, <3>2
  <2> QED
    BY <1>1, <1>3, <2>2, <2>3, StandsStill
<1>6. CASE DeleteAuth(n)
  <2>1. order[n].target # f
    BY <1>2, <1>6 DEF DeleteAuth, FirstInv, Deleted
  <2>2. UNCHANGED <<call, users, role>> /\ auths' = auths \ {order[n].target}
    BY <1>6 DEF DeleteAuth
  <2> QED
    BY <1>1, <1>2, <1>3, <2>1, <2>2, StandsStill
<1>7. CASE CrashAll(n)
  <2>1. UNCHANGED <<users, role, auths>>
    BY <1>7 DEF CrashAll
  <2>2. call'[f].pc # call[f].pc => f \in Under(n) /\ call[f].pc \notin {"auth", "count", "promote"}
    <3>1. call' = [c \in Calls |-> IF c \in Under(n) THEN Over(c, "done") ELSE call[c]]
      BY <1>7 DEF CrashAll
    <3>2. ~\E c \in Under(n) : call[c].pc \in {"auth", "count", "promote"}
      BY <1>7 DEF CrashAll, UpsetIf
    <3> QED
      BY <3>1, <3>2
  <2>3. call'[f].pc # call[f].pc => role[f] = "admin" /\ f \in auths
    BY <2>2 DEF Arrives
  <2> QED
    BY <1>1, <1>2, <1>3, <2>1, <2>3, StandsStill
<1>8. CASE \E form \in Forms : AdminSaves(n, form)
  <2>1. UNCHANGED <<users, role, auths>>
    BY <1>8 DEF AdminSaves, rowVars
  <2>2. call'[f].pc = call[f].pc
    <3>1. \A b \in BOOLEAN : [call[f] EXCEPT !.late = b].pc = call[f].pc
      BY <1>1 DEF CallRecord
    <3> QED
      BY <1>8, <3>1 DEF AdminSaves
  <2> QED
    BY <1>1, <1>2, <1>3, <2>1, <2>2, StandsStill
<1>9. CASE \E c \in Calls : ScimDelete(c, n) \/ \E r \in Roles : ScimUpdate(c, n, r)
  BY <1>9 DEF ScimDelete, ScimUpdate, Scim
<1>10. CASE \/ \E c \in Calls : OauthAgain(c, n)
            \/ \E a, u \in users, r \in Roles \cup {"deleted"} : AdminAsks(n, a, u, r)
            \/ GuardOrder(n) \/ BootPlain(n)
            \/ \E data \in Imports : AdminImports(n, data)
            \/ UNCHANGED accountVars
  BY <1>4, <1>10 DEF OauthAgain, AdminAsks, GuardOrder, BootPlain, AdminImports, accountVars,
                     rowVars
<1> QED
  BY <1>5, <1>6, <1>7, <1>8, <1>9, <1>10 DEF Serving

LEMMA FirstStep ==
  ASSUME FirstInv, NEW f \in Calls, Primary(f), Arrives(f), [Next]_vars, upset' = "nothing",
         ~RoleManagement
  PROVE  FirstUser'
<1>1. PrimaryInv /\ CountInv /\ AccountsType
  BY DEF FirstInv, PrimaryInv, CountInv
<1>2. ASSUME NEW c \in Calls, Creation(c) PROVE Primary(f)' /\ Arrives(f)'
  BY <1>2, FirstCreation
<1>3. ASSUME NEW c \in Calls, NEW n \in Nodes, Starting(c, n) PROVE Primary(f)' /\ Arrives(f)'
  <2>1. call[c].pc = "idle" /\ UNCHANGED <<users, auths, role, born>>
        /\ \A d \in Calls \ {c} : call'[d] = call[d]
    BY <1>1, <1>3, StartingMoves
  <2>2. c # f
    BY <1>1, <2>1 DEF Primary, CountInv, Order, Before
  <2>3. call'[f] = call[f]
    BY <2>1, <2>2
  <2> QED
    BY <2>1, <2>3 DEF Primary, Arrives
<1>4. ASSUME NEW n \in Nodes,
             Serving(n) \/ CrashAll(n) \/ \E form \in Forms : AdminSaves(n, form)
      PROVE  Primary(f)' /\ Arrives(f)'
  BY <1>4, FirstServing
<1>5. ASSUME UNCHANGED vars PROVE Primary(f)' /\ Arrives(f)'
  BY <1>5 DEF vars, accountVars, Primary, Arrives
<1>6. Primary(f)' /\ Arrives(f)'
  BY <1>2, <1>3, <1>4, <1>5, NextSteps
<1> QED
  BY <1>6 DEF FirstUser

LEMMA AuthsStep ==
  ASSUME auths \subseteq Calls, [Next]_vars
  PROVE  auths' \subseteq Calls
<1>1. ASSUME NEW c \in Calls, Creation(c) PROVE auths' \subseteq Calls
  BY <1>1 DEF Creation, Admit, InsertUser, InsertAuth, Count, Promote, Close, Finish, Picture,
              DecideRole, rowVars
<1>2. ASSUME NEW c \in Calls, NEW n \in Nodes, Starting(c, n) PROVE auths' \subseteq Calls
  BY <1>2 DEF Starting, Signup, Begin, Ldap, Oauth, BootAdmin, ScimCreate, AddUser, rowVars
<1>3. ASSUME NEW n \in Nodes,
             Serving(n) \/ CrashAll(n) \/ \E form \in Forms : AdminSaves(n, form)
      PROVE  auths' \subseteq Calls
  BY <1>3 DEF Serving, OauthAgain, ScimDelete, ScimUpdate, AdminAsks, GuardOrder, ApplyOrder,
              DeleteAuth, BootPlain, AdminImports, CrashAll, AdminSaves, accountVars, rowVars
<1>4. CASE UNCHANGED vars
  BY <1>4 DEF vars, accountVars
<1> QED
  BY <1>1, <1>2, <1>3, <1>4, NextSteps

\* However the ways to an account interleave on any number of instances, the
\* first user ends as an administrator who can sign in, unless a race, a tie,
\* a crash or a provisioning service disturbed its sign-up.
THEOREM FirstIsAdmin == Spec => []SomebodyIsAdmin
<1>1. AccountsInit => FirstInv
  <2> SUFFICES ASSUME AccountsInit PROVE FirstInv
    OBVIOUS
  <2>1. /\ call = [c \in Calls |-> Fresh] /\ users = {} /\ auths = {}
        /\ born = [c \in Calls |-> 0] /\ order = [n \in Nodes |-> NoOrder]
        /\ Fresh.pc = "idle" /\ NoOrder.pc = "none"
    BY DEF AccountsInit, Fresh, NoOrder
  <2>2. \A c \in Calls : Ways(c) /\ AtDoor(c) /\ born[c] = 0
    BY <2>1 DEF Ways, AtDoor
  <2>3. \A n \in Nodes : Deleted(n)
    BY <2>1 DEF Deleted
  <2> QED
    BY <2>1, <2>2, <2>3, PrimaryInit DEF FirstInv, FirstUser, Untouched
<1>2. ASSUME FirstInv, [Next]_vars PROVE FirstInv'
  <2>1. PrimaryInv' /\ auths' \subseteq Calls
    BY <1>2, PrimaryStep, AuthsStep DEF FirstInv
  <2>2. \A c \in Calls : Ways(c)'
    BY <1>2, WaysStep DEF FirstInv, PrimaryInv, CountInv
  <2>3. \A n \in Nodes : Deleted(n)'
    BY <1>2, DeletedStep DEF FirstInv
  <2>4. ASSUME upset' = "nothing", ~RoleManagement PROVE FirstUser'
    <3>1. upset = "nothing"
      BY <1>2, <2>4, UpsetStays DEF Upsets
    <3>2. Untouched \/ \E f \in Calls : Primary(f) /\ Arrives(f)
      BY <1>2, <2>4, <3>1 DEF FirstInv, FirstUser
    <3> QED
      BY <1>2, <2>4, <3>2, UntouchedStep, FirstStep
  <2> QED
    BY <2>1, <2>2, <2>3, <2>4 DEF FirstInv
<1>3. FirstInv => SomebodyIsAdmin
  <2> SUFFICES ASSUME FirstInv, upset = "nothing", ~RoleManagement, users # {}, Opening = {}
               PROVE  \E u \in users \cap auths : role[u] = "admin"
    BY DEF SomebodyIsAdmin
  <2>1. PICK f \in Calls : Primary(f) /\ Arrives(f)
    BY DEF FirstInv, FirstUser, Untouched
  <2>2. call[f].pc \notin {"auth", "count", "promote"}
    BY DEF Opening
  <2> QED
    BY <2>1, <2>2 DEF Primary, Arrives
<1> QED
  BY <1>1, <1>2, <1>3, PTL DEF Spec

=============================================================================
