------------------------------- MODULE Accounts -------------------------------
(***************************************************************************)
(* How accounts come into being and how their roles change                 *)
(* (routers/auths.py, routers/users.py, routers/scim.py, utils/auth.py,    *)
(* utils/oauth.py, models/auths.py, models/users.py), on top of the        *)
(* configuration, which says whether sign-up is open.                      *)
(*                                                                         *)
(* The first account becomes the administrator.  Each way to open one      *)
(* decides this by its own order of counting and inserting rows, on        *)
(* instances that share nothing but the database and Redis.  A handler     *)
(* keeps the event loop of its instance (busy) except where it awaits; the *)
(* handlers of other instances and crashes come between any two of its     *)
(* database calls.  A call is one request and, at once, the id of the user *)
(* it may insert.                                                          *)
(***************************************************************************)
EXTENDS AppConfig, FiniteSets

CONSTANTS
    Calls,              \* requests that may open an account
    Nobody,             \* no call
    Kinds,              \* the ways to an account: "signup", "ldap", "oauth",
                        \* "scim", "boot"
    Email,              \* [Calls -> emails]
    SIGNUP,             \* the setting ENABLE_SIGNUP
    Roles,              \* "admin", and roles that are not
    DefaultRole,        \* DEFAULT_USER_ROLE
    RoleManagement,     \* ENABLE_OAUTH_ROLE_MANAGEMENT
    OauthRoles,         \* the roles the claims of a provider may name
    InitialAdminSignup, \* ENABLE_INITIAL_ADMIN_SIGNUP
    SessionSharing,     \* DATABASE_ENABLE_SESSION_SHARING
    AdminEnv,           \* subset of BOOLEAN: WEBUI_ADMIN_EMAIL is set, or not
    MaxWork             \* bound: calls, requests of administrators, faults

ASSUME AccountsAssumption ==
    /\ Nobody \notin Calls
    /\ SIGNUP \in Settings \ ThreadRead /\ FALSE \in Values
    /\ "admin" \in Roles /\ "deleted" \notin Roles /\ "none" \notin Roles
    /\ DefaultRole \in Roles \ {"admin"}
    /\ OauthRoles \subseteq Roles
    /\ IsFiniteSet(Calls)

VARIABLES
    call,       \* [Calls -> the progress of the request]
    busy,       \* [Nodes -> Calls \cup {Nobody}], whose handler has the loop
    users,      \* the ids with a row in table user
    auths,      \* the ids with a row in table auth
    role,       \* [Calls -> role of the row]
    born,       \* [Calls -> created_at], 0 before the row is inserted
    clock,      \* the latest created_at, counted from the first one
    order,      \* [Nodes -> the request of an administrator being served]
    requests,   \* number of these and of SCIM requests
    upset       \* history: what disturbed the first account: "nothing",
                \* "chance" (a race, a tie or a crash), or "scim" for good

accountVars == <<call, busy, users, auths, role, born, clock, order, requests,
                 upset>>
vars == <<configVars, accountVars>>

Fresh == [kind |-> "none", node |-> Nobody, pc |-> "idle", role |-> DefaultRole,
          late |-> FALSE, won |-> FALSE]

NoOrder == [by |-> Nobody, target |-> Nobody, role |-> "none", pc |-> "none"]

AccountsInit ==
    /\ ConfigInit
    /\ call = [c \in Calls |-> Fresh]
    /\ busy = [n \in Nodes |-> Nobody]
    /\ users = {}
    /\ auths = {}
    /\ role = [c \in Calls |-> DefaultRole]
    /\ born = [c \in Calls |-> 0]
    /\ clock = 0
    /\ order = [n \in Nodes |-> NoOrder]
    /\ requests = 0
    /\ upset = "nothing"

-----------------------------------------------------------------------------
(* The rows. *)

\* One bound on everything that may begin or fail; a form or an import, which
\* takes many steps, counts twice.
Budget ==
    2 * saves + crashes + requests + Cardinality({c \in Calls : call[c] # Fresh}) < MaxWork

EmailTaken(e) == \E u \in users : Email[u] = e

\* Users whose created_at is the smallest: get_first_user returns one of them.
Earliest == {u \in users : \A v \in users : born[u] <= born[v]}

\* Sign-ups that have inserted their user and not counted the users yet.
Uncounted == {c \in Calls : call[c].kind = "signup" /\ call[c].pc \in {"auth", "count"}}

\* A race, a tie or a crash; a provisioning service stays on record.
UpsetIf(cond) == upset' = IF cond /\ upset = "nothing" THEN "chance" ELSE upset

\* insert_new_user: the row is committed with the second it is inserted in.
InsertRow(c, r) ==
    \E second \in {clock, clock + 1} \ {0} :
        /\ users' = users \cup {c}
        /\ role' = [role EXCEPT ![c] = r]
        /\ born' = [born EXCEPT ![c] = second]
        /\ clock' = second
        /\ UpsetIf(Uncounted # {} \/ \E u \in Calls : born[u] = second)

\* delete_user_by_id of models/users.py, the row of table auth aside.
DropRow(u) == users' = users \ {u} /\ role' = [role EXCEPT ![u] = DefaultRole]

-----------------------------------------------------------------------------
(* The control of a call. *)

Idle(n) == Quiet(n) /\ busy[n] = Nobody /\ order[n].pc \notin {"apply", "auth"}

At(c, pc) == call[c].pc = pc /\ Quiet(call[c].node)

Goto(c, pc) == call' = [call EXCEPT ![c].pc = pc]

\* What is left of a call that is over.
Over(c, pc) == [Fresh EXCEPT !.pc = pc, !.late = call[c].late, !.won = call[c].won]

\* The handler ends and gives the loop back.
End(c, pc) ==
    /\ call' = [call EXCEPT ![c] = Over(c, pc)]
    /\ busy' = [busy EXCEPT ![call[c].node] = Nobody]

rowVars == <<users, auths, role, born, clock, upset>>
otherVars == <<order, requests>>

Begin(c, n, kind, pc, late) ==
    /\ call[c].pc = "idle" /\ Budget
    /\ kind \in Kinds
    /\ busy' = [busy EXCEPT ![n] = c]
    /\ call' = [call EXCEPT ![c] = [@ EXCEPT !.kind = kind, !.node = n,
                                             !.pc = pc, !.late = late]]
    /\ UNCHANGED <<rowVars, otherVars>>

-----------------------------------------------------------------------------
(* POST /signup, with signup_handler. *)

\* Sign-up has been closed for good before this request arrives.
Closed == users # {} /\ SIGNUP \notin torn /\ ~want[SIGNUP]
          /\ \A m \in Nodes : \A i \in DOMAIN saving[m].todo : saving[m].todo[i][1] # SIGNUP

\* has_users is asked before anything else.
Signup(c, n) ==
    /\ Idle(n)
    /\ Begin(c, n, "signup", IF users = {} THEN "first" ELSE "later", Closed)
    /\ UNCHANGED configVars

\* mutant: the setting is taken from this instance's memory
AdmitOwn(c) ==
    /\ call[c].pc \in {"first", "later"}
    /\ Quiet(call[c].node)
    /\ IF /\ \/ registry[call[c].node][SIGNUP]
             \/ call[c].pc = "first" /\ InitialAdminSignup
          /\ ~EmailTaken(Email[c])
       THEN Goto(c, "user") /\ UNCHANGED busy
       ELSE End(c, "done")
    /\ UNCHANGED <<rowVars, otherVars, configVars>>

\* ENABLE_SIGNUP, then the email.
Admit(c) ==
    /\ call[c].pc \in {"first", "later"}
    /\ Quiet(call[c].node)
    /\ registry' = Refreshed(call[c].node, SIGNUP)
    /\ IF /\ \/ Read(call[c].node, SIGNUP)
             \/ call[c].pc = "first" /\ InitialAdminSignup
          /\ ~EmailTaken(Email[c])
       THEN Goto(c, "user") /\ UNCHANGED busy
       ELSE End(c, "done")
    /\ UNCHANGED <<cluster, up, blob, rows, redis, saving, want, torn, saves, crashes>>
    /\ UNCHANGED <<rowVars, otherVars>>

\* Who is next after the rows are in.
Inserted(c) ==
    IF call[c].kind = "signup" THEN "count"
    ELSE IF call[c].kind = "boot" THEN "close" ELSE "done"

\* A provider's user gets no row in table auth.
OnlyUser(c) == call[c].kind = "scim"

\* insert_new_auth: the user is committed in a session of its own before the
\* row of table auth, unless the sessions are shared.
InsertUser(c) ==
    /\ At(c, "user")
    /\ InsertRow(c, call[c].role)
    /\ IF OnlyUser(c) THEN End(c, "done") /\ UNCHANGED auths
       ELSE IF SessionSharing
       THEN /\ auths' = auths \cup {c}
            /\ IF Inserted(c) = "done" THEN End(c, "done")
               ELSE Goto(c, Inserted(c)) /\ UNCHANGED busy
       ELSE Goto(c, "auth") /\ UNCHANGED <<auths, busy>>
    /\ UNCHANGED <<otherVars, configVars>>

InsertAuth(c) ==
    /\ At(c, "auth")
    /\ auths' = auths \cup {c}
    /\ IF Inserted(c) = "done" THEN End(c, "done")
       ELSE Goto(c, Inserted(c)) /\ UNCHANGED busy
    /\ UNCHANGED <<users, role, born, clock, upset, otherVars, configVars>>

\* mutant: the users are counted as if the new one were not there yet
CountOthers(c) ==
    /\ At(c, "count")
    /\ IF Cardinality(users) <= 2
       THEN /\ call' = [call EXCEPT ![c].pc = "promote", ![c].won = TRUE]
            /\ UNCHANGED busy
       ELSE End(c, "done")
    /\ UNCHANGED <<rowVars, otherVars, configVars>>

\* mutant: has_users is asked instead of the number
CountNone(c) ==
    /\ At(c, "count")
    /\ IF users = {}
       THEN /\ call' = [call EXCEPT ![c].pc = "promote", ![c].won = TRUE]
            /\ UNCHANGED busy
       ELSE End(c, "done")
    /\ UNCHANGED <<rowVars, otherVars, configVars>>

\* Only the single user present becomes administrator.
Count(c) ==
    /\ At(c, "count")
    /\ IF Cardinality(users) = 1
       THEN /\ call' = [call EXCEPT ![c].pc = "promote", ![c].won = TRUE]
            /\ UNCHANGED busy
       ELSE End(c, "done")
    /\ UNCHANGED <<rowVars, otherVars, configVars>>

\* update_user_role_by_id does nothing when the row is gone.
Promote(c) ==
    /\ At(c, "promote")
    /\ role' = IF c \in users THEN [role EXCEPT ![c] = "admin"] ELSE role
    /\ Goto(c, "close")
    /\ UNCHANGED <<busy, users, auths, born, clock, upset, otherVars, configVars>>

\* config.ENABLE_SIGNUP = False, saved step by step by AppConfig.
Close(c) ==
    /\ At(c, "close")
    /\ StartSaving(call[c].node, <<<<SIGNUP, FALSE>>>>)
    /\ Goto(c, "closing")
    /\ UNCHANGED <<cluster, up, registry, blob, rows, redis, want, torn, saves, crashes>>
    /\ UNCHANGED <<busy, rowVars, otherVars>>

\* The settings are saved, or saving them failed.
Finish(c) ==
    /\ At(c, "closing")
    /\ End(c, "done")
    /\ UNCHANGED <<rowVars, otherVars, configVars>>

-----------------------------------------------------------------------------
(* LDAP sign-in, OAuth callback, and the administrator of the environment:  *)
(* these count first and insert afterwards.                                *)

Ldap(c, n) ==
    /\ Idle(n)
    /\ ~EmailTaken(Email[c])
    /\ Begin(c, n, "ldap", "role", FALSE)
    /\ UNCHANGED configVars

\* A user unknown to the provider and with a free email; the picture is
\* fetched before the role is decided, and the loop is free meanwhile.
Oauth(c, n) ==
    /\ Idle(n)
    /\ ~EmailTaken(Email[c])
    /\ call[c].pc = "idle" /\ Budget
    /\ "oauth" \in Kinds
    /\ call' = [call EXCEPT ![c] = [@ EXCEPT !.kind = "oauth", !.node = n, !.pc = "picture"]]
    /\ UNCHANGED <<busy, rowVars, otherVars, configVars>>

Picture(c) ==
    /\ call[c].pc = "picture"
    /\ Idle(call[c].node)
    /\ busy' = [busy EXCEPT ![call[c].node] = c]
    /\ Goto(c, "role")
    /\ UNCHANGED <<rowVars, otherVars, configVars>>

\* create_admin_user, when the instance starts and there is no user yet.
BootAdmin(c, n) ==
    /\ TRUE \in AdminEnv /\ users = {}
    /\ Boot(n)
    /\ call[c].pc = "idle" /\ Budget
    /\ busy' = [busy EXCEPT ![n] = c]
    /\ call' = [call EXCEPT ![c] = [@ EXCEPT !.kind = "boot", !.node = n,
                                             !.pc = "user", !.role = "admin"]]
    /\ UNCHANGED <<rowVars, otherVars>>

BootPlain(n) ==
    /\ FALSE \in AdminEnv \/ users # {}
    /\ Boot(n)
    /\ UNCHANGED accountVars

\* get_user_role and its likes: without any user the new one is administrator.
DecideRole(c) ==
    /\ At(c, "role")
    /\ \E r \in IF call[c].kind = "oauth" THEN OauthRoles ELSE {DefaultRole} :
         call' = [call EXCEPT ![c].pc = "user",
                    ![c].role = IF users = {} THEN "admin" ELSE r]
    /\ UNCHANGED <<busy, rowVars, otherVars, configVars>>

\* The callback for a user that exists: a single user becomes administrator,
\* others keep their role, unless the claims decide.
OauthAgain(u, n) ==
    /\ Idle(n)
    /\ "oauth" \in Kinds
    /\ order[n] = NoOrder
    /\ u \in users
    /\ \E r \in IF Cardinality(users) = 1 THEN {"admin"}
                ELSE IF RoleManagement THEN OauthRoles ELSE {role[u]} :
         /\ r # role[u]
         /\ order' = [order EXCEPT ![n] =
                        [by |-> Nobody, target |-> u, role |-> r, pc |-> "apply"]]
    /\ UNCHANGED <<call, busy, rowVars, requests, configVars>>

-----------------------------------------------------------------------------
(* What administrators do to users (routers/users.py).  The dependency that *)
(* asks for the role runs before the handler, which may find another world. *)

AdminAsks(n, a, u, r) ==
    /\ n \in up
    /\ order[n] = NoOrder
    /\ role[a] = "admin"
    /\ Budget
    /\ requests' = requests + 1
    /\ order' = [order EXCEPT ![n] = [by |-> a, target |-> u, role |-> r, pc |-> "asked"]]
    /\ UNCHANGED <<call, busy, rowVars, configVars>>

\* mutant: the primary user may be demoted by another administrator
MayAny(o, first) ==
    IF o.role = "deleted" THEN o.target # first /\ o.target # o.by
    ELSE o.target \in users

\* The first user is neither deleted, nor demoted, nor changed by another.
May(o, first) ==
    IF o.role = "deleted"
    THEN o.target # first /\ o.target # o.by
    ELSE /\ o.target = first => o.by = first /\ o.role = "admin"
         /\ o.target \in users

GuardOrder(n) ==
    /\ order[n].pc = "asked"
    /\ Idle(n)
    /\ \E first \in IF users = {} THEN {Nobody} ELSE Earliest :
         order' = [order EXCEPT ![n] =
                     IF May(order[n], first) THEN [@ EXCEPT !.pc = "apply"] ELSE NoOrder]
    /\ UNCHANGED <<call, busy, rowVars, requests, configVars>>

\* The role is written, or the user deleted; a deleted user's row in table
\* auth goes in a transaction of its own.
ApplyOrder(n) ==
    LET o == order[n]
    IN  /\ o.pc = "apply"
        /\ Quiet(n)
        /\ IF o.role = "deleted"
           THEN /\ DropRow(o.target)
                /\ order' = [order EXCEPT ![n].pc = "auth"]
           ELSE /\ users' = users
                /\ role' = IF o.target \in users THEN [role EXCEPT ![o.target] = o.role]
                           ELSE role
                /\ order' = [order EXCEPT ![n] = NoOrder]
        /\ UNCHANGED <<call, busy, auths, born, clock, upset, requests, configVars>>

DeleteAuth(n) ==
    /\ order[n].pc = "auth"
    /\ Quiet(n)
    /\ auths' = auths \ {order[n].target}
    /\ order' = [order EXCEPT ![n] = NoOrder]
    /\ UNCHANGED <<call, busy, users, role, born, clock, upset, requests, configVars>>

\* POST /auths/add: the new user gets the role the administrator chose.
AddUser(c, n, r) ==
    /\ call[c].pc = "idle"
    /\ Idle(n) /\ Budget
    /\ \E a \in users : role[a] = "admin"
    /\ ~EmailTaken(Email[c])
    /\ busy' = [busy EXCEPT ![n] = c]
    /\ call' = [call EXCEPT ![c] = [@ EXCEPT !.kind = "add", !.node = n, !.pc = "user", !.role = r]]
    /\ UNCHANGED <<rowVars, otherVars, configVars>>

-----------------------------------------------------------------------------
(* What a provisioning service does (routers/scim.py): it knows no primary  *)
(* user and leaves table auth alone.                                        *)

Scim(n) == Idle(n) /\ Budget /\ requests' = requests + 1 /\ upset' = "scim"

ScimCreate(c, n, r) ==
    /\ call[c].pc = "idle"
    /\ Scim(n)
    /\ ~EmailTaken(Email[c])
    /\ busy' = [busy EXCEPT ![n] = c]
    /\ call' = [call EXCEPT ![c] = [@ EXCEPT !.kind = "scim", !.node = n, !.pc = "user", !.role = r]]
    /\ UNCHANGED <<users, auths, role, born, clock, order, configVars>>

ScimUpdate(u, n, r) ==
    /\ u \in users
    /\ Scim(n)
    /\ role' = [role EXCEPT ![u] = r]
    /\ UNCHANGED <<call, busy, users, auths, born, clock, order, configVars>>

ScimDelete(u, n) ==
    /\ u \in users
    /\ Scim(n)
    /\ DropRow(u)
    /\ UNCHANGED <<call, busy, auths, born, clock, order, configVars>>

-----------------------------------------------------------------------------
(* The configuration, and instances that start and stop.                    *)

\* An administrator saves a form; one that names ENABLE_SIGNUP opens or closes
\* sign-up for requests already under way.
AdminSaves(n, form) ==
    /\ Idle(n)
    /\ Budget
    /\ \E a \in users : role[a] = "admin"
    /\ SaveForm(n, form)
    /\ call' = [c \in Calls |-> IF \E i \in DOMAIN form : form[i][1] = SIGNUP
                                THEN [call[c] EXCEPT !.late = FALSE] ELSE call[c]]
    /\ UNCHANGED <<busy, rowVars, otherVars>>

AdminImports(n, data) ==
    /\ Idle(n)
    /\ Budget
    /\ \E a \in users : role[a] = "admin"
    /\ StartImport(n, data)
    /\ UNCHANGED accountVars

Under(n) == {c \in Calls : call[c].node = n /\ call[c].pc \notin {"idle", "done"}}

CrashAll(n) ==
    /\ Budget
    /\ Crash(n)
    /\ call' = [c \in Calls |-> IF c \in Under(n) THEN Over(c, "done") ELSE call[c]]
    /\ UpsetIf(\E c \in Under(n) : call[c].pc \in {"auth", "count", "promote"})
    /\ busy' = [busy EXCEPT ![n] = Nobody]
    /\ order' = [order EXCEPT ![n] = NoOrder]
    /\ UNCHANGED <<users, auths, role, born, clock, requests>>

Creation(c) ==
    \/ Admit(c) \/ InsertUser(c) \/ InsertAuth(c) \/ Count(c) \/ Promote(c)
    \/ Close(c) \/ Finish(c) \/ Picture(c) \/ DecideRole(c)

Next ==
    \/ \E c \in Calls : Creation(c)
    \/ \E c \in Calls, n \in Nodes :
         \/ Signup(c, n) \/ Ldap(c, n) \/ Oauth(c, n) \/ BootAdmin(c, n)
         \/ OauthAgain(c, n) \/ ScimDelete(c, n)
         \/ \E r \in Roles \ {"admin"} : ScimCreate(c, n, r) \/ ScimUpdate(c, n, r)
    \/ \E c \in Calls, n \in Nodes, r \in Roles : AddUser(c, n, r)
    \/ \E n \in Nodes, a \in users, u \in users, r \in Roles \cup {"deleted"} :
         AdminAsks(n, a, u, r)
    \/ \E n \in Nodes :
         \/ GuardOrder(n) \/ ApplyOrder(n) \/ DeleteAuth(n)
         \/ BootPlain(n) \/ CrashAll(n)
         \/ SaveStep(n) /\ UNCHANGED accountVars
         \/ Budget /\ SaveFails(n) /\ UNCHANGED accountVars
         \/ \E k \in ThreadRead : ThreadReads(n, k) /\ UNCHANGED accountVars
         \/ \E form \in Forms : AdminSaves(n, form)
         \/ \E data \in Imports : AdminImports(n, data)

Spec == AccountsInit /\ [][Next]_vars

-----------------------------------------------------------------------------
(* Properties. *)

\* The variables have their types.
AccountsTypeOK ==
    /\ ConfigTypeOK
    /\ users \subseteq Calls
    /\ auths \subseteq Calls
    /\ role \in [Calls -> Roles]
    /\ busy \in [Nodes -> Calls \cup {Nobody}]
    /\ born \in [Calls -> Nat]

\* However many first sign-ups run at once, on however many instances, at most
\* one of the users they leave was taken for the only one: the count comes
\* after the insert.
OneSignupWins ==
    \A c, d \in users : call[c].won /\ call[d].won => c = d

Opening == {c \in Calls : call[c].pc \in {"auth", "count", "promote"}}

\* A system with users has an administrator who can sign in, once nobody is in
\* the middle of a sign-up, unless the first sign-up was disturbed: by another
\* one inserted before it counted or in the same second, by a crash before it
\* was promoted, or by a provisioning service.
SomebodyIsAdmin ==
    (upset = "nothing" /\ ~RoleManagement /\ users # {} /\ Opening = {})
    => \E u \in users \cap auths : role[u] = "admin"

\* Nobody else was created before u or in the same second, ever.
Primary(u) == u \in users /\ \A v \in Calls \ {u} : born[v] = 0 \/ born[u] < born[v]

\* The primary user stays, and once administrator stays administrator,
\* whatever administrators and sign-ins do to it at the same time; only a
\* provisioning service or a provider's claims can take the role away.
PrimaryStaysAdmin ==
    [][\A u \in Calls :
         (Primary(u) /\ role[u] = "admin" /\ upset' # "scim" /\ ~RoleManagement)
         => u \in users' /\ role'[u] = "admin"]_vars

\* A sign-up that arrives after sign-up was closed everywhere opens no account,
\* on any instance and after any restart, unless an administrator opens it.
ClosedStaysClosed == \A c \in Calls : call[c].late => born[c] = 0

=============================================================================
