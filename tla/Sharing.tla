------------------------------- MODULE Sharing -------------------------------
(***************************************************************************)
(* Who may use a model: rows of table model, the grants that name users    *)
(* and groups, groups and their members (models/models.py,                 *)
(* models/access_grants.py, models/groups.py; routers/models.py,           *)
(* routers/groups.py, routers/scim.py, utils/oauth.py).                    *)
(*                                                                         *)
(* A handler is a sequence of transactions and keeps its instance busy, so *)
(* it interleaves with the handlers of other instances only.  Replacing    *)
(* the grants of a model deletes those a statement sees and inserts the    *)
(* list: on PostgreSQL (Mvcc) others commit in between, on SQLite a writer *)
(* is alone but the foreign keys, and so the cascades, are not enforced.   *)
(* Sessions are not shared (DATABASE_ENABLE_SESSION_SHARING is off).       *)
(***************************************************************************)
EXTENDS Naturals, Sequences, FiniteSets, SequencesExt

CONSTANTS
    Nodes,          \* instances
    Databases,      \* subset of BOOLEAN: TRUE is PostgreSQL, FALSE SQLite
    Users, Admins,  \* Admins is a subset of Users
    ModelIds,
    Groups,         \* ids of groups, each given out once
    Names,          \* names of groups, which need not be unique
    Nobody,         \* no owner, no name, no model
    Anyone,         \* principal "*"
    Lists,          \* access_grants of forms: sets of <<principal, permission>>
    Syncs,          \* what POST /sync sends: sequences of <<model, list>>
    Claims,         \* the sets of group names a provider may claim
    MaxWork         \* bound: handlers and faults

\* What a list grants: a permission to a principal.
Grant == (Users \cup Groups \cup {Anyone}) \X {"read", "write"}

ASSUME SharingAssumption ==
    /\ Databases \subseteq BOOLEAN
    /\ Admins \subseteq Users
    /\ Anyone \notin Users \cup Groups
    /\ Users \cap Groups = {}
    /\ Nobody \notin Users \cup Names \cup UNION Claims
    /\ IsFiniteSet(ModelIds)
    /\ Lists \subseteq SUBSET Grant
    /\ Syncs \subseteq Seq(ModelIds \X SUBSET Grant)

VARIABLES
    mvcc,       \* the database
    users,      \* rows of table user
    models,     \* [ModelIds -> owner, or Nobody when there is no row]
    grants,     \* rows <<model, principal, permission>> of table access_grant
    name,       \* [Groups -> name of the row, or Nobody]
    given,      \* group ids in use or used before
    members,    \* rows <<group, user>> of table group_member
    doing,      \* [Nodes -> the handler an instance is in]
    claimed,    \* history: [Users -> what the last login over claimed, or {}]
    touched,    \* history: users whose groups anything else has changed since
                \* that login began
    want,       \* history: the list that was last written, [ModelIds -> list]
    muddled,    \* history: models whose last replacements overlapped
    raced,      \* history: models whose grants were written while a handler
                \* was deleting their row, or whose row never came
    work        \* handlers and faults so far

tables == <<mvcc, users, models, grants, name, given, members>>
history == <<want, muddled, raced, claimed, touched>>
vars == <<tables, doing, history, work>>

Free == [op |-> "none", user |-> Nobody, model |-> Nobody, at |-> "idle",
         lists |-> <<>>, snap |-> {}, clean |-> TRUE, known |-> {},
         create |-> {}, leave |-> {}, join |-> {}, adds |-> <<>>]

Init ==
    /\ mvcc \in Databases
    /\ users = Users
    /\ models = [m \in ModelIds |-> Nobody]
    /\ grants = {}
    /\ name = [g \in Groups |-> Nobody]
    /\ given = {}
    /\ members = {}
    /\ doing = [n \in Nodes |-> Free]
    /\ want = [m \in ModelIds |-> {}]
    /\ muddled = {}
    /\ raced = {}
    /\ claimed = [u \in Users |-> {}]
    /\ touched = {}
    /\ work = 0

-----------------------------------------------------------------------------
(* Asking for access. *)

Exists(m) == models[m] # Nobody
groups == {g \in Groups : name[g] # Nobody}

\* get_groups_by_member_id joins the rows of both tables.
GroupsOf(u) == {g \in groups : <<g, u>> \in members}

GrantsOf(m) == {r \in grants : r[1] = m}
ListOf(m) == {<<r[2], r[3]>> : r \in GrantsOf(m)}

\* AccessGrants.has_access, and get_accessible_resource_ids and
\* has_permission_filter for the same groups.
HasAccess(u, m, perm) ==
    \E r \in grants : /\ r[1] = m /\ r[3] = perm
                      /\ r[2] \in {Anyone, u} \cup GroupsOf(u)

\* AccessGrants.get_users_with_access, which asks table group_member alone.
UsersWithAccess(m, perm) ==
    IF <<m, Anyone, perm>> \in grants THEN users
    ELSE {u \in users : \/ <<m, u, perm>> \in grants
                        \/ \E g \in Groups : <<m, g, perm>> \in grants /\ <<g, u>> \in members}

MayWrite(u, m) == u \in Admins \/ models[m] = u \/ HasAccess(u, m, "write")

-----------------------------------------------------------------------------
(* The control of a handler. *)

Do(n, h) == doing' = [doing EXCEPT ![n] = h]
Goto(n, at) == doing' = [doing EXCEPT ![n].at = at]

Ready(n) == doing[n] = Free /\ work < MaxWork
Begin(n, h) == Ready(n) /\ Do(n, h) /\ work' = work + 1

\* Models whose grants the handler of an instance has still to write.
Pending(n) == {doing[n].lists[i][1] : i \in DOMAIN doing[n].lists}
AboutToWrite(m) == {n \in Nodes : m \in Pending(n)}
Bringing(m) == {n \in Nodes : m \in doing[n].create}
Replacing(m) == {n \in Nodes : doing[n].at = "fill" /\ Head(doing[n].lists)[1] = m}

\* The rows a handler is going to delete, and the handlers that are.
Dropped(h) ==
    IF h.op = "delete" THEN {h.model}
    ELSE IF h.op = "deleteAll" THEN ModelIds
    ELSE IF h.op = "rows" THEN h.leave ELSE {}
Dropping(m) == {n \in Nodes : m \in Dropped(doing[n])}

\* A handler writes grants, or brings a row whose grants it wrote before, that
\* another one is about to delete and has looked at; or the other way round.
Races(n, ms) == {m \in ms : Dropping(m) \ {n} # {}}
Orphaned(n, ms) == {m \in ms : Exists(m) /\ AboutToWrite(m) \ {n} # {}}

Handler(op, u, m, at, lists) ==
    [Free EXCEPT !.op = op, !.user = u, !.model = m, !.at = at, !.lists = lists]

-----------------------------------------------------------------------------
(* Models and their grants. *)

\* POST /create
Create(n, u, m, list) ==
    /\ u \in users /\ ~Exists(m)
    /\ Begin(n, Handler("create", u, m, "insert", <<<<m, list>>>>))
    /\ UNCHANGED <<tables, history>>

\* POST /model/update: the row, then the grants.
Update(n, u, m, list) ==
    /\ u \in users /\ Exists(m) /\ MayWrite(u, m)
    /\ Begin(n, Handler("update", u, m, "row", <<<<m, list>>>>))
    /\ UNCHANGED <<tables, history>>

\* POST /import of a file that says nothing of grants: they are written back
\* as they were read.
Import(n, u, m) ==
    /\ u \in users /\ Exists(m)
    /\ Begin(n, Handler("update", u, m, "row", <<<<m, ListOf(m)>>>>))
    /\ UNCHANGED <<tables, history>>

\* POST /model/access/update: an administrator may share a model of a
\* provider, which has no row yet and gets one without grants first.
Share(n, u, m, list) ==
    /\ u \in users
    /\ IF Exists(m) THEN MayWrite(u, m) ELSE u \in Admins
    /\ Begin(n, IF Exists(m) THEN Handler("share", u, m, "clear", <<<<m, list>>>>)
                ELSE Handler("share", u, m, "insert", <<<<m, {}>>, <<m, list>>>>))
    /\ UNCHANGED <<tables, history>>

\* mutant: the row goes and the grants stay
DeleteRowOnly(n, u, m) ==
    /\ u \in users /\ Exists(m) /\ MayWrite(u, m)
    /\ Begin(n, Handler("delete", u, m, "rows", <<>>))
    /\ UNCHANGED <<tables, history>>

\* POST /model/delete: the grants, then the row.
Delete(n, u, m) ==
    /\ u \in users /\ Exists(m) /\ MayWrite(u, m)
    /\ Begin(n, Handler("delete", u, m, "clear", <<<<m, {}>>>>))
    /\ UNCHANGED <<tables, history>>

\* DELETE /delete/all: the grants of every model, then all rows there are.
DeleteAll(n, u) ==
    LET all == {m \in ModelIds : Exists(m)}
    IN  /\ u \in Admins \cap users
        /\ Begin(n, Handler("deleteAll", u, Nobody, IF all = {} THEN "rows" ELSE "clear",
                            [i \in DOMAIN SetToSeq(all) |-> <<SetToSeq(all)[i], {}>>]))
        /\ UNCHANGED <<tables, history>>

\* POST /sync: the grants of every model sent, those of the others removed,
\* and all rows in one transaction at the end.  That transaction is open from
\* the first row it updates: on SQLite the grants, in a session of their own,
\* wait for it in vain, and only those of the models before are written.
Sync(n, u, sent) ==
    LET all == {m \in ModelIds : Exists(m)}
        ids == {sent[i][1] : i \in DOMAIN sent}
        gone == SetToSeq(all \ ids)
        stops == ~mvcc /\ ids \cap all # {}
        before == {i \in DOMAIN sent : \A j \in 1..i : sent[j][1] \in all <=> j = i}
        last == IF stops THEN "locked" ELSE "rows"
    IN  /\ u \in Admins \cap users
        /\ \E lists \in IF stops THEN {SubSeq(sent, 1, i - 1) : i \in before}
                        ELSE {sent \o [i \in DOMAIN gone |-> <<gone[i], {}>>]} :
             Begin(n, [Handler(last, u, Nobody, IF lists = <<>> THEN last ELSE "clear", lists)
                         EXCEPT !.known = all, !.create = ids \ all, !.leave = all \ ids])
        /\ UNCHANGED <<tables, history>>

\* The row is inserted, unless another instance was faster.
InsertRow(n) ==
    LET h == doing[n]
    IN  /\ h.at = "insert"
        /\ IF Exists(h.model) THEN Do(n, Free) /\ UNCHANGED models
           ELSE Goto(n, "clear") /\ models' = [models EXCEPT ![h.model] = h.user]
        /\ UNCHANGED <<mvcc, users, grants, name, given, members, history, work>>

\* Updating a row that has gone is no error.
UpdateRow(n) ==
    /\ doing[n].at = "row"
    /\ Goto(n, "clear")
    /\ UNCHANGED <<tables, history, work>>

\* set_access_grants and revoke_all_access: DELETE takes the grants it sees.
Clear(n) ==
    LET m == Head(doing[n].lists)[1]
        others == Replacing(m)
    IN  /\ doing[n].at = "clear"
        /\ doing' = [o \in Nodes |->
             IF o = n THEN [doing[n] EXCEPT !.at = "fill", !.snap = GrantsOf(m),
                                            !.clean = ~mvcc \/ others = {}]
             ELSE IF o \in others /\ mvcc THEN [doing[o] EXCEPT !.clean = FALSE]
             ELSE doing[o]]
        /\ UNCHANGED <<tables, history, work>>

\* What comes after the list of the handler that is written.
After(h) ==
    IF Len(h.lists) > 1 THEN "clear"
    ELSE IF h.op \in {"delete", "deleteAll", "rows"} THEN "rows" ELSE "end"

\* mutant: the new grants are added to those there are
FillAdds(n) ==
    LET h == doing[n]
        m == Head(h.lists)[1]
        list == Head(h.lists)[2]
    IN  /\ h.at = "fill"
        /\ grants' = grants \cup {<<m, e[1], e[2]>> : e \in list}
        /\ want' = [want EXCEPT ![m] = list]
        /\ muddled' = IF h.clean THEN muddled \ {m} ELSE muddled \cup {m}
        /\ Do(n, [h EXCEPT !.at = After(h), !.lists = Tail(@), !.snap = {}, !.clean = TRUE])
        /\ UNCHANGED <<mvcc, users, models, name, given, members, raced, claimed, touched, work>>

\* The list is inserted and all is committed; a grant that somebody else has
\* inserted since breaks the constraint, and nothing is replaced.
Fill(n) ==
    LET h == doing[n]
        m == Head(h.lists)[1]
        list == Head(h.lists)[2]
        rest == grants \ (IF mvcc THEN h.snap ELSE GrantsOf(m))
        new == {<<m, e[1], e[2]>> : e \in list}
    IN  /\ h.at = "fill"
        /\ IF new \cap rest = {}
           THEN /\ grants' = rest \cup new
                /\ want' = [want EXCEPT ![m] = list]
                /\ muddled' = IF h.clean THEN muddled \ {m} ELSE muddled \cup {m}
                /\ Do(n, [h EXCEPT !.at = After(h), !.lists = Tail(@),
                                   !.snap = {}, !.clean = TRUE])
                /\ raced' = raced \cup Races(n, {m})
           ELSE /\ UNCHANGED <<grants, want, muddled>>
                /\ raced' = raced \cup h.create
                /\ Do(n, Free)
        /\ UNCHANGED <<mvcc, users, models, name, given, members, claimed, touched, work>>

\* The rows: the one deleted, all of them, or those of a sync; inserting one
\* that has come meanwhile fails, and the grants of the new ones stay.
Rows(n) ==
    LET h == doing[n]
        drop == Dropped(h)
        taken == {m \in h.create : Exists(m)}
    IN  /\ h.at = "rows"
        /\ Do(n, Free)
        /\ IF taken = {}
           THEN /\ models' = [m \in ModelIds |->
                     IF m \in drop THEN Nobody
                     ELSE IF m \in h.create \/ (h.op = "rows" /\ m \in h.known /\ Exists(m))
                     THEN h.user ELSE models[m]]
                /\ raced' = raced \cup Orphaned(n, drop) \cup Races(n, h.create)
           ELSE /\ UNCHANGED models
                /\ raced' = raced \cup h.create
        /\ UNCHANGED <<mvcc, users, grants, name, given, members, want, muddled, claimed, touched, work>>

\* The handler has written what it had to, or found the database locked.
End(n) ==
    /\ doing[n].at \in {"end", "locked"}
    /\ raced' = raced \cup doing[n].create
    /\ Do(n, Free)
    /\ UNCHANGED <<tables, want, muddled, claimed, touched, work>>

-----------------------------------------------------------------------------
(* Groups and their members. *)

accessVars == <<mvcc, users, models, grants>>
modelHistory == <<want, muddled, raced>>

AdminHere == Admins \cap users # {}

InsertGroup(g, nm) ==
    /\ g \notin given
    /\ given' = given \cup {g}
    /\ name' = [name EXCEPT ![g] = nm]

\* POST /groups/create
CreateGroup(n, g, nm) ==
    /\ AdminHere
    /\ Begin(n, Free)
    /\ InsertGroup(g, nm)
    /\ UNCHANGED <<accessVars, members, history>>

\* mutant: members of a deleted group stay with every database
DeleteGroupOnly(n, g) ==
    /\ AdminHere /\ g \in groups
    /\ Begin(n, Free)
    /\ name' = [name EXCEPT ![g] = Nobody]
    /\ members' = members
    /\ touched' = touched \cup Users
    /\ UNCHANGED <<accessVars, given, modelHistory, claimed>>

\* The members go by the cascade of the foreign key; the grants stay.
DeleteGroup(n, g) ==
    /\ AdminHere /\ g \in groups
    /\ Begin(n, Free)
    /\ name' = [name EXCEPT ![g] = Nobody]
    /\ members' = IF mvcc THEN {r \in members : r[1] # g} ELSE members
    /\ touched' = touched \cup Users
    /\ UNCHANGED <<accessVars, given, modelHistory, claimed>>

\* add_users_to_group: an insert that fails rolls back those before it.  No
\* user is listed twice.
Kept(g, us) ==
    LET fails(u) == <<g, u>> \in members \/ (mvcc /\ u \notin users)
    IN  {us[i] : i \in {i \in DOMAIN us : \A j \in i..Len(us) : ~fails(us[j])}}

Added(g, us) == IF g \in groups THEN members \cup ({g} \X Kept(g, us)) ELSE members

\* POST /id/{id}/users/add: who exists, then the members.
AskAdd(n, g, us) ==
    /\ AdminHere
    /\ Begin(n, [Handler("add", Nobody, Nobody, "add", <<>>)
                   EXCEPT !.join = {g}, !.adds = SelectSeq(us, LAMBDA u : u \in users)])
    /\ UNCHANGED <<tables, history>>

Add(n) ==
    LET h == doing[n]
    IN  /\ h.at = "add"
        /\ \E g \in h.join : members' = Added(g, h.adds)
        /\ touched' = touched \cup ToSet(h.adds)
        /\ Do(n, Free)
        /\ UNCHANGED <<accessVars, name, given, modelHistory, claimed, work>>

\* POST /id/{id}/users/remove
RemoveUser(n, g, u) ==
    /\ AdminHere /\ g \in groups
    /\ Begin(n, Free)
    /\ members' = members \ {<<g, u>>}
    /\ touched' = touched \cup {u}
    /\ UNCHANGED <<accessVars, name, given, modelHistory, claimed>>

\* SCIM: a group found is given its members, whether these exist or not; the
\* foreign keys refuse members or groups that do not.
AskSet(n, g, us) ==
    /\ g \in groups
    /\ Begin(n, [Handler("set", Nobody, Nobody, "set", <<>>)
                   EXCEPT !.join = {g}, !.adds = SetToSeq(us)])
    /\ UNCHANGED <<tables, history>>

Set(n) ==
    LET h == doing[n]
        us == ToSet(h.adds)
    IN  /\ h.at = "set"
        /\ \E g \in h.join :
             members' = IF mvcc /\ ~(us \subseteq users /\ g \in groups) THEN members
                        ELSE {r \in members : r[1] # g} \cup ({g} \X us)
        /\ touched' = touched \cup Users
        /\ Do(n, Free)
        /\ UNCHANGED <<accessVars, name, given, modelHistory, claimed, work>>

\* delete_user_by_id: out of the groups there are, then the row.
AskDeleteUser(n, u) ==
    /\ AdminHere /\ u \in users \ Admins
    /\ Begin(n, Handler("deleteUser", u, Nobody, "user", <<>>))
    /\ members' = members \ (groups \X {u})
    /\ touched' = touched \cup {u}
    /\ UNCHANGED <<accessVars, name, given, modelHistory, claimed>>

DeleteUser(n) ==
    LET u == doing[n].user
    IN  /\ doing[n].at = "user"
        /\ users' = users \ {u}
        /\ members' = IF mvcc THEN {r \in members : r[2] # u} ELSE members
        /\ Do(n, Free)
        /\ UNCHANGED <<mvcc, models, grants, name, given, history, work>>

-----------------------------------------------------------------------------
(* A login through a provider that names groups (update_user_groups): the   *)
(* names that are missing are created, the list of groups is read again,    *)
(* the user leaves and joins one group after the other.  A login through    *)
(* LDAP creates them too and then does the rest in one transaction, which   *)
(* reads before it writes (sync_groups_by_group_names).                     *)

NamesOf(gs) == {name[g] : g \in gs}
LoggingIn(u) == {n \in Nodes : doing[n].user = u /\ doing[n].op \in {"login", "ldap"}}

StartLogin(u) ==
    touched' = IF LoggingIn(u) = {} THEN touched \ {u} ELSE touched \cup {u}

Login(n, u, claim) ==
    /\ u \in users \ Admins
    /\ Begin(n, [Handler("login", u, Nobody, "create", <<>>)
                   EXCEPT !.known = claim, !.create = claim \ NamesOf(groups),
                          !.snap = GroupsOf(u), !.join = groups])
    /\ StartLogin(u)
    /\ UNCHANGED <<tables, modelHistory, claimed>>

Ldap(n, u, claim) ==
    /\ u \in users \ Admins
    /\ Begin(n, [Handler("ldap", u, Nobody, "create", <<>>)
                   EXCEPT !.known = claim, !.create = claim \ NamesOf(groups)])
    /\ StartLogin(u)
    /\ UNCHANGED <<tables, modelHistory, claimed>>

CreateClaimed(n, g) ==
    /\ doing[n].at = "create"
    /\ \E nm \in doing[n].create :
         /\ InsertGroup(g, nm)
         /\ Do(n, [doing[n] EXCEPT !.create = @ \ {nm}, !.clean = FALSE])
    /\ UNCHANGED <<accessVars, members, history, work>>

\* What to leave by the groups read at first; what to join by the list, which
\* is read again if any was created (~clean), and by name.
Joining(h, all) == {g \in all : name[g] \in h.known \ NamesOf(h.snap)}

\* mutant: the list of groups is not read again
DecideAsRead(n) ==
    LET h == doing[n]
    IN  /\ h.op = "login" /\ h.at = "create" /\ h.create = {}
        /\ Do(n, [h EXCEPT !.at = "leave", !.join = Joining(h, h.join),
                           !.leave = {g \in h.snap : name[g] \notin h.known}])
        /\ UNCHANGED <<tables, history, work>>

Decide(n) ==
    LET h == doing[n]
    IN  /\ h.op = "login" /\ h.at = "create" /\ h.create = {}
        /\ Do(n, [h EXCEPT !.at = "leave", !.join = Joining(h, IF h.clean THEN h.join ELSE groups),
                           !.leave = {g \in h.snap : name[g] \notin h.known}])
        /\ UNCHANGED <<tables, history, work>>

Leave(n, g) ==
    LET h == doing[n]
    IN  /\ h.at = "leave" /\ g \in h.leave
        /\ members' = IF g \in groups THEN members \ {<<g, h.user>>} ELSE members
        /\ Do(n, [h EXCEPT !.leave = @ \ {g}])
        /\ UNCHANGED <<accessVars, name, given, history, work>>

Join(n, g) ==
    LET h == doing[n]
    IN  /\ h.at = "leave" /\ h.leave = {} /\ g \in h.join
        /\ members' = Added(g, <<h.user>>)
        /\ Do(n, [h EXCEPT !.join = @ \ {g}])
        /\ UNCHANGED <<accessVars, name, given, history, work>>

LoginEnds(n) ==
    LET h == doing[n]
    IN  /\ h.at = "leave" /\ h.leave = {} /\ h.join = {}
        /\ claimed' = [claimed EXCEPT ![h.user] = h.known]
        /\ Do(n, Free)
        /\ UNCHANGED <<tables, modelHistory, touched, work>>

LdapReads(n) ==
    LET h == doing[n]
        targets == {g \in groups : name[g] \in h.known}
    IN  /\ h.op = "ldap" /\ h.at = "create" /\ h.create = {}
        /\ Do(n, [h EXCEPT !.at = "sync", !.join = targets \ GroupsOf(h.user),
                           !.leave = GroupsOf(h.user) \ targets])
        /\ UNCHANGED <<tables, history, work>>

\* A member that somebody else has added, or a group that is gone, breaks a
\* constraint: all is rolled back, and the login goes on.
LdapWrites(n) ==
    LET h == doing[n]
        rows == h.join \X {h.user}
        refused == rows \cap members # {} \/ (mvcc /\ ~(h.join \subseteq groups))
    IN  /\ h.at = "sync"
        /\ members' = IF refused THEN members ELSE (members \ (h.leave \X {h.user})) \cup rows
        /\ claimed' = [claimed EXCEPT ![h.user] = h.known]
        /\ Do(n, Free)
        /\ UNCHANGED <<accessVars, name, given, modelHistory, touched, work>>

\* A database call raises, or the instance crashes.
Fails(n) ==
    /\ doing[n] # Free
    /\ work < MaxWork
    /\ work' = work + 1
    /\ raced' = raced \cup (doing[n].create \cap ModelIds)
    /\ touched' = touched \cup ({doing[n].user} \cap Users)
    /\ Do(n, Free)
    /\ UNCHANGED <<tables, want, muddled, claimed>>

-----------------------------------------------------------------------------
Models(n) ==
    \/ \E u \in Users, m \in ModelIds :
         \/ \E list \in Lists : Create(n, u, m, list) \/ Update(n, u, m, list) \/ Share(n, u, m, list)
         \/ Import(n, u, m) \/ Delete(n, u, m)
    \/ \E u \in Admins : DeleteAll(n, u) \/ \E sent \in Syncs : Sync(n, u, sent)
    \/ InsertRow(n) \/ UpdateRow(n) \/ Clear(n) \/ Fill(n) \/ Rows(n) \/ End(n)

Memberships(n) ==
    \/ \E g \in Groups :
         \/ \E nm \in Names : CreateGroup(n, g, nm)
         \/ DeleteGroup(n, g)
         \/ \E us \in SetToAllKPermutations(Users) : AskAdd(n, g, us)
         \/ \E u \in Users : RemoveUser(n, g, u)
         \/ \E us \in SUBSET Users : AskSet(n, g, us)
         \/ CreateClaimed(n, g) \/ Leave(n, g) \/ Join(n, g)
    \/ Add(n) \/ Set(n) \/ DeleteUser(n) \/ Decide(n) \/ LoginEnds(n)
    \/ LdapReads(n) \/ LdapWrites(n)
    \/ \E u \in Users :
         \/ AskDeleteUser(n, u)
         \/ \E claim \in Claims : Login(n, u, claim) \/ Ldap(n, u, claim)

Next == \E n \in Nodes : Models(n) \/ Memberships(n) \/ Fails(n)

Spec == Init /\ [][Next]_vars

-----------------------------------------------------------------------------
(* Properties. *)

\* A model that nobody is writing has the grants of the last list written,
\* whoever wrote others in between, unless the last two overlapped.
LastListWins ==
    \A m \in ModelIds \ muddled : AboutToWrite(m) = {} => ListOf(m) = want[m]

\* No grants are left that a model of the same id would come to life with,
\* unless one handler wrote its grants while another was deleting the row, or a
\* sync failed that had written them.
NoOrphans ==
    \A m \in ModelIds \ raced :
        ~Exists(m) /\ AboutToWrite(m) \cup Bringing(m) = {} => GrantsOf(m) = {}

\* Who is asked one by one whether he has access, and who is listed as having
\* it, agree; only the members a deleted group keeps on SQLite are listed
\* although they have none.
WaysAgree ==
    \A u \in users, m \in ModelIds, perm \in {"read", "write"} :
        /\ HasAccess(u, m, perm) => u \in UsersWithAccess(m, perm)
        /\ u \in UsersWithAccess(m, perm) /\ ~HasAccess(u, m, perm) =>
             /\ ~mvcc
             /\ \E g \in Groups \ groups : <<g, u>> \in members

\* After a login the user's groups have the names the provider claimed, all of
\* them and no other, although logins of others on other instances create
\* groups of the same names at the same time.
ClaimsAreMet ==
    \A u \in users \ touched :
        claimed[u] # {} /\ LoggingIn(u) = {} => NamesOf(GroupsOf(u)) = claimed[u]

=============================================================================
