---------------------------- MODULE SharingProofs ----------------------------
(***************************************************************************)
(* For any number of instances, users, models and groups, on both          *)
(* databases:                                                              *)
(*                                                                         *)
(* Asking whether a user has access and asking who has it agree.  The      *)
(* invariant behind it: where foreign keys are enforced, members are       *)
(* members of groups that exist, because every handler that adds some      *)
(* looks the group up in the transaction that adds them, or is refused.    *)
(*                                                                         *)
(* The last list wins, and no grants outlive their model.  The invariant   *)
(* behind both: a replacement that nobody overlapped deletes all grants    *)
(* there are; whoever drops a model has had them deleted before; and who   *)
(* writes grants has a row for them, or brings it.                         *)
(*                                                                         *)
(* A login gives its user groups of the names claimed.  The invariant      *)
(* behind it says of every step of a login what the groups still to leave  *)
(* and to join will make of the user's; whatever else is done to a user's  *)
(* groups has touched the user.                                            *)
(***************************************************************************)
EXTENDS Sharing, FiniteSetTheorems, TLAPS

\* Rows of table group are named, and ids are never given out again.
NamesInv == /\ name = [g \in Groups |-> name[g]]
            /\ groups \subseteq given

\* The members that a cascade must have removed are gone.
Cascaded == mvcc => \A g, u : <<g, u>> \in members => g \in groups

GrantsInv == \A r \in grants : r = <<r[1], r[2], r[3]>>

SharingInv == NamesInv /\ Cascaded /\ GrantsInv

membership == <<mvcc, name, given, members>>

-----------------------------------------------------------------------------
\* What a group is called when another one is created.
LEMMA Inserted ==
    ASSUME NamesInv, NEW g \in Groups, NEW nm, InsertGroup(g, nm)
    PROVE  NamesInv' /\ groups \subseteq groups'
<1>1. g \notin groups
  BY DEF NamesInv, InsertGroup
<1>2. \A h \in Groups : h # g => name'[h] = name[h]
  BY DEF NamesInv, InsertGroup
<1>3. name' = [h \in Groups |-> name'[h]]
  BY DEF NamesInv, InsertGroup
<1>4. groups \subseteq groups'
  BY <1>1, <1>2 DEF groups
<1>5. groups' \subseteq groups \cup {g}
  BY <1>2 DEF groups
<1> QED
  BY <1>3, <1>4, <1>5 DEF NamesInv, InsertGroup

\* A step that leaves the groups alone, and only removes members or adds some
\* to a group that is there.
LEMMA MembersOfGroups ==
    ASSUME NamesInv, Cascaded, UNCHANGED <<mvcc, name, given>>,
           mvcc => \A g, u : <<g, u>> \in members' => <<g, u>> \in members \/ g \in groups
    PROVE  NamesInv' /\ Cascaded'
BY DEF NamesInv, Cascaded, groups

LEMMA AddedToGroup ==
    ASSUME NEW h, NEW us, NEW g, NEW u, <<g, u>> \in Added(h, us)
    PROVE  <<g, u>> \in members \/ g \in groups
<1>1. CASE h \in groups
  BY <1>1 DEF Added
<1>2. CASE h \notin groups
  BY <1>2 DEF Added
<1> QED
  BY <1>1, <1>2

-----------------------------------------------------------------------------
(* Every step keeps the invariant. *)

LEMMA ModelsKeep ==
    ASSUME SharingInv, NEW n \in Nodes, Models(n)
    PROVE  UNCHANGED membership /\ GrantsInv'
<1>1. CASE Fill(n)
  <2> DEFINE m == Head(doing[n].lists)[1]
             new == {<<m, e[1], e[2]>> : e \in Head(doing[n].lists)[2]}
  <2>1. grants' \subseteq grants \cup new
    BY <1>1 DEF Fill
  <2>2. \A r \in new : r = <<r[1], r[2], r[3]>>
    OBVIOUS
  <2> QED
    BY <1>1, <2>1, <2>2 DEF Fill, SharingInv, GrantsInv, membership
<1>2. CASE ~Fill(n)
  <2>1. UNCHANGED <<membership, grants>>
    BY <1>2 DEF Models, Create, Update, Share, Import, Delete, DeleteAll, Sync, InsertRow,
                UpdateRow, Clear, Rows, End, tables, membership
  <2> QED
    BY <2>1 DEF SharingInv, GrantsInv, membership
<1> QED
  BY <1>1, <1>2

LEMMA MembershipsKeep ==
    ASSUME SharingInv, NEW n \in Nodes, Memberships(n)
    PROVE  NamesInv' /\ Cascaded' /\ UNCHANGED grants
<1> USE DEF SharingInv
<1>1. ASSUME NEW g \in Groups, NEW nm \in Names, CreateGroup(n, g, nm)
      PROVE  NamesInv' /\ Cascaded' /\ UNCHANGED grants
  BY <1>1, Inserted DEF CreateGroup, Cascaded, accessVars
<1>2. ASSUME NEW g \in Groups, CreateClaimed(n, g)
      PROVE  NamesInv' /\ Cascaded' /\ UNCHANGED grants
  BY <1>2, Inserted DEF CreateClaimed, Cascaded, accessVars
<1>3. ASSUME NEW g \in Groups, DeleteGroup(n, g)
      PROVE  NamesInv' /\ Cascaded' /\ UNCHANGED grants
  <2>1. \A h \in Groups : h # g => name'[h] = name[h]
    BY <1>3 DEF DeleteGroup, NamesInv
  <2>2. name' = [h \in Groups |-> name'[h]]
    BY <1>3 DEF DeleteGroup, NamesInv
  <2>3. name'[g] = Nobody
    BY <1>3 DEF DeleteGroup, NamesInv
  <2>4. groups' = groups \ {g}
    BY <2>1, <2>3 DEF groups
  <2>5. NamesInv'
    BY <1>3, <2>2, <2>4 DEF DeleteGroup, NamesInv
  <2>6. ASSUME mvcc, NEW h, NEW u, <<h, u>> \in members'
        PROVE  h \in groups'
    BY <1>3, <2>4, <2>6 DEF DeleteGroup, Cascaded
  <2> QED
    BY <1>3, <2>5, <2>6 DEF DeleteGroup, Cascaded, accessVars
<1>4. ASSUME NEW g \in Groups, \/ \E us \in SetToAllKPermutations(Users) : AskAdd(n, g, us)
                               \/ \E us \in SUBSET Users : AskSet(n, g, us)
      PROVE  NamesInv' /\ Cascaded' /\ UNCHANGED grants
  BY <1>4, MembersOfGroups DEF AskAdd, AskSet, tables
<1>5. ASSUME NEW g \in Groups, (\E u \in Users : RemoveUser(n, g, u)) \/ Leave(n, g)
      PROVE  NamesInv' /\ Cascaded' /\ UNCHANGED grants
  BY <1>5, MembersOfGroups DEF RemoveUser, Leave, accessVars
<1>6. ASSUME NEW g \in Groups, Join(n, g)
      PROVE  NamesInv' /\ Cascaded' /\ UNCHANGED grants
  BY <1>6, MembersOfGroups, AddedToGroup DEF Join, accessVars
<1>7. CASE Add(n)
  BY <1>7, MembersOfGroups, AddedToGroup DEF Add, accessVars
<1>8. CASE Set(n)
  <2>1. ASSUME mvcc, NEW g, NEW u, <<g, u>> \in members'
        PROVE  <<g, u>> \in members \/ g \in groups
    BY <1>8, <2>1 DEF Set
  <2> QED
    BY <1>8, <2>1, MembersOfGroups DEF Set, accessVars
<1>9. CASE LdapWrites(n)
  <2>1. ASSUME mvcc, NEW g, NEW u, <<g, u>> \in members'
        PROVE  <<g, u>> \in members \/ g \in groups
    BY <1>9, <2>1 DEF LdapWrites
  <2> QED
    BY <1>9, <2>1, MembersOfGroups DEF LdapWrites, accessVars
<1>10. CASE DeleteUser(n) \/ \E u \in Users : AskDeleteUser(n, u)
  BY <1>10, MembersOfGroups DEF DeleteUser, AskDeleteUser, accessVars
<1>11. CASE \/ Decide(n) \/ LoginEnds(n) \/ LdapReads(n)
            \/ \E u \in Users, claim \in Claims : Login(n, u, claim) \/ Ldap(n, u, claim)
  BY <1>11, MembersOfGroups DEF Decide, LoginEnds, LdapReads, Login, Ldap, tables
<1> QED
  BY <1>1, <1>2, <1>3, <1>4, <1>5, <1>6, <1>7, <1>8, <1>9, <1>10, <1>11 DEF Memberships

LEMMA SharingInductive == SharingInv /\ [Next]_vars => SharingInv'
<1> SUFFICES ASSUME SharingInv, [Next]_vars PROVE SharingInv'
  OBVIOUS
<1>1. ASSUME NEW n \in Nodes, Models(n) PROVE SharingInv'
  BY <1>1, ModelsKeep DEF membership, SharingInv, NamesInv, Cascaded, groups
<1>2. ASSUME NEW n \in Nodes, Memberships(n) PROVE SharingInv'
  BY <1>2, MembershipsKeep DEF SharingInv, GrantsInv
<1>3. ASSUME NEW n \in Nodes, Fails(n) PROVE SharingInv'
  BY <1>3 DEF Fails, tables, SharingInv, NamesInv, Cascaded, GrantsInv, groups
<1>4. CASE UNCHANGED vars
  BY <1>4 DEF vars, tables, SharingInv, NamesInv, Cascaded, GrantsInv, groups
<1> QED
  BY <1>1, <1>2, <1>3, <1>4 DEF Next

-----------------------------------------------------------------------------
(* What the invariant is for: both ways to ask. *)

LEMMA InvAgrees == SharingInv => WaysAgree
<1> SUFFICES ASSUME SharingInv, NEW u \in users, NEW m \in ModelIds, NEW perm \in {"read", "write"}
             PROVE  /\ HasAccess(u, m, perm) => u \in UsersWithAccess(m, perm)
                    /\ u \in UsersWithAccess(m, perm) /\ ~HasAccess(u, m, perm) =>
                         /\ ~mvcc
                         /\ \E g \in Groups \ groups : <<g, u>> \in members
  BY DEF WaysAgree
<1>1. ASSUME HasAccess(u, m, perm) PROVE u \in UsersWithAccess(m, perm)
  <2>1. PICK r \in grants : /\ r[1] = m /\ r[3] = perm
                            /\ r[2] \in {Anyone, u} \cup GroupsOf(u)
    BY <1>1 DEF HasAccess
  <2>2. <<m, r[2], perm>> \in grants
    BY <2>1 DEF SharingInv, GrantsInv
  <2>3. CASE r[2] = Anyone
    BY <2>2, <2>3 DEF UsersWithAccess
  <2>4. CASE r[2] = u
    BY <2>2, <2>4 DEF UsersWithAccess
  <2>5. CASE r[2] \in GroupsOf(u)
    BY <2>2, <2>5 DEF UsersWithAccess, GroupsOf, groups
  <2> QED
    BY <2>1, <2>3, <2>4, <2>5
<1>2. ASSUME u \in UsersWithAccess(m, perm), ~HasAccess(u, m, perm)
      PROVE  ~mvcc /\ \E g \in Groups \ groups : <<g, u>> \in members
  <2>1. ASSUME NEW p, <<m, p, perm>> \in grants PROVE p \notin {Anyone, u} \cup GroupsOf(u)
    <3> DEFINE r == <<m, p, perm>>
    <3>1. r[1] = m /\ r[2] = p /\ r[3] = perm
      OBVIOUS
    <3> QED
      BY <1>2, <2>1, <3>1 DEF HasAccess
  <2>2. PICK g \in Groups : <<m, g, perm>> \in grants /\ <<g, u>> \in members
    BY <1>2, <2>1 DEF UsersWithAccess
  <2>3. g \notin groups
    BY <2>1, <2>2 DEF GroupsOf
  <2> QED
    BY <2>2, <2>3 DEF SharingInv, Cascaded
<1> QED
  BY <1>1, <1>2

\* AccessGrants.has_access and AccessGrants.get_users_with_access agree in every
\* reachable state, but for the members a deleted group keeps on SQLite.
THEOREM Agree == Spec => []WaysAgree
<1>1. Init => SharingInv
  BY DEF Init, SharingInv, NamesInv, Cascaded, GrantsInv, groups
<1> QED
  BY <1>1, SharingInductive, InvAgrees, PTL DEF Spec

-----------------------------------------------------------------------------
(* The grants of models.  A handler is about groups and users (Elsewhere)  *)
(* or about models (Modelling), and then has lists still to write and rows *)
(* to drop: of the models it drops it writes nothing but the empty list.   *)

Fields == {"op", "user", "model", "at", "lists", "snap", "clean", "known",
           "create", "leave", "join", "adds"}

PendingOf(h) == {h.lists[i][1] : i \in DOMAIN h.lists}

Elsewhere(h) ==
    /\ DOMAIN h = Fields
    /\ h.op \in {"none", "add", "set", "deleteUser", "login", "ldap"}
    /\ h.at \in {"idle", "add", "set", "user", "create", "leave", "sync"}
    /\ h.lists = <<>>

Modelling(h) ==
    /\ DOMAIN h = Fields
    /\ h.op \in {"create", "update", "share", "delete", "deleteAll", "rows", "locked"}
    /\ h.at \in {"insert", "row", "clear", "fill", "rows", "end", "locked"}
    /\ h.lists \in Seq(ModelIds \X SUBSET Grant)
    /\ h.user \in Users
    /\ h.clean \in BOOLEAN
    /\ h.at \in {"insert", "row", "clear", "fill"} => h.lists # <<>>
    /\ h.at \in {"rows", "end", "locked"} => h.lists = <<>>
    /\ h.at = "insert" => /\ h.op \in {"create", "share"} /\ h.model \in ModelIds
                          /\ PendingOf(h) = {h.model}
    /\ h.create \subseteq ModelIds
    /\ h.op \notin {"rows", "locked"} => h.create = {}
    /\ h.op = "rows" => h.create \cap h.leave = {}
    /\ Dropped(h) \subseteq ModelIds
    /\ \A i \in DOMAIN h.lists : h.lists[i][1] \in Dropped(h) => h.lists[i][2] = {}
    /\ h.at = "fill" => \A r \in h.snap : r[1] = Head(h.lists)[1]

Handling(h) == Elsewhere(h) \/ Modelling(h)

HandlersInv == DOMAIN doing = Nodes /\ \A n \in Nodes : Handling(doing[n])

RowsInv ==
    /\ \A r \in grants : r = <<r[1], r[2], r[3]>> /\ <<r[2], r[3]>> \in Grant
    /\ models \in [ModelIds -> Users \cup {Nobody}]
    /\ want \in [ModelIds -> SUBSET Grant]

Filling(n) == doing[n].at = "fill"
Target(n) == Head(doing[n].lists)[1]

\* A replacement that nobody overlapped deletes all there is.
Overlaps ==
    mvcc => \A n, o \in Nodes :
              n # o /\ Filling(n) /\ Filling(o) /\ Target(n) = Target(o) => ~doing[n].clean
Sees == mvcc => \A n \in Nodes :
                  Filling(n) /\ doing[n].clean => doing[n].snap = GrantsOf(Target(n))
Written == \A m \in ModelIds \ muddled : ListOf(m) = want[m]

WritingInv == Overlaps /\ Sees /\ Written

-----------------------------------------------------------------------------
(* What the handlers' steps do to their records. *)

LEMMA FreeFields ==
    /\ DOMAIN Free = Fields /\ Elsewhere(Free)
    /\ Free.create = {} /\ Free.lists = <<>> /\ Free.at = "idle" /\ Free.op = "none"
BY DEF Free, Fields, Elsewhere

LEMMA HandlerFields ==
    ASSUME NEW op, NEW u, NEW m, NEW at, NEW lists
    PROVE  LET h == Handler(op, u, m, at, lists)
           IN  /\ DOMAIN h = Fields
               /\ h.op = op /\ h.user = u /\ h.model = m /\ h.at = at /\ h.lists = lists
               /\ h.snap = {} /\ h.clean = TRUE /\ h.create = {} /\ h.leave = {}
<1>1. DOMAIN Free = Fields /\ Free.snap = {} /\ Free.clean = TRUE /\ Free.create = {} /\ Free.leave = {}
  BY DEF Free, Fields
<1>2. DOMAIN Free = {"op", "user", "model", "at", "lists", "snap", "clean", "known",
                     "create", "leave", "join", "adds"}
  BY <1>1 DEF Fields
<1> QED
  BY <1>1, <1>2 DEF Handler

LEMMA HandlerElsewhere ==
    ASSUME NEW op \in {"none", "add", "set", "deleteUser", "login", "ldap"}, NEW u, NEW m,
           NEW at \in {"idle", "add", "set", "user", "create", "leave", "sync"}
    PROVE  Elsewhere(Handler(op, u, m, at, <<>>))
<1>1. PICK f : f = Free
  OBVIOUS
<1>2. DOMAIN f = {"op", "user", "model", "at", "lists", "snap", "clean", "known",
                  "create", "leave", "join", "adds"}
  BY <1>1 DEF Free
<1> QED
  BY <1>1, <1>2 DEF Elsewhere, Handler, Fields, Free

LEMMA OtherFields ==
    ASSUME NEW h, Elsewhere(h), NEW x, NEW y, NEW z, NEW w
    PROVE  /\ Elsewhere([h EXCEPT !.join = x]) /\ Elsewhere([h EXCEPT !.leave = x])
           /\ Elsewhere([h EXCEPT !.create = x, !.clean = y])
           /\ Elsewhere([h EXCEPT !.at = "leave", !.join = x, !.leave = y])
           /\ Elsewhere([h EXCEPT !.at = "sync", !.join = x, !.leave = y])
           /\ Elsewhere([h EXCEPT !.join = x, !.adds = y])
           /\ Elsewhere([h EXCEPT !.known = x, !.create = y])
           /\ Elsewhere([h EXCEPT !.known = x, !.create = y, !.snap = z, !.join = w])
<1>1. DOMAIN h = {"op", "user", "model", "at", "lists", "snap", "clean", "known",
                  "create", "leave", "join", "adds"}
  BY DEF Elsewhere, Fields
<1>2. Elsewhere([h EXCEPT !.join = x]) /\ Elsewhere([h EXCEPT !.leave = x])
  BY <1>1 DEF Elsewhere, Fields
<1>3. Elsewhere([h EXCEPT !.create = x, !.clean = y])
  BY <1>1 DEF Elsewhere, Fields
<1>4. /\ Elsewhere([h EXCEPT !.at = "leave", !.join = x, !.leave = y])
      /\ Elsewhere([h EXCEPT !.at = "sync", !.join = x, !.leave = y])
  BY <1>1 DEF Elsewhere, Fields
<1>5. Elsewhere([h EXCEPT !.join = x, !.adds = y])
  BY <1>1 DEF Elsewhere, Fields
<1>6. Elsewhere([h EXCEPT !.known = x, !.create = y])
  BY <1>1 DEF Elsewhere, Fields
<1>7. Elsewhere([h EXCEPT !.known = x, !.create = y, !.snap = z, !.join = w])
  BY <1>1 DEF Elsewhere, Fields
<1> QED
  BY <1>2, <1>3, <1>4, <1>5, <1>6, <1>7

\* No handler of groups or users touches models or their grants.
LEMMA MembershipsElsewhere ==
    ASSUME HandlersInv, NEW n \in Nodes, Memberships(n)
    PROVE  /\ Elsewhere(doing[n])
           /\ \E k : doing' = [doing EXCEPT ![n] = k] /\ Elsewhere(k)
           /\ UNCHANGED <<mvcc, models, grants, want, muddled, raced>>
<1> DEFINE h == doing[n]
           same == UNCHANGED <<mvcc, models, grants, want, muddled, raced>>
           Goal == /\ Elsewhere(h)
                   /\ \E k : Do(n, k) /\ Elsewhere(k)
                   /\ same
<1>1. Handling(h) /\ (h.at \in {"add", "set", "user", "create", "leave", "sync"} => Elsewhere(h))
  BY DEF HandlersInv, Handling, Modelling
<1>2. ASSUME NEW k, Begin(n, k), Elsewhere(k), same PROVE Goal
  BY <1>2, FreeFields DEF Begin, Ready
<1>3. ASSUME NEW g \in Groups, NEW nm \in Names, CreateGroup(n, g, nm) PROVE Goal
  BY <1>3, <1>2, FreeFields DEF CreateGroup, accessVars, history
<1>4. ASSUME NEW g \in Groups, DeleteGroup(n, g) \/ \E u \in Users : RemoveUser(n, g, u)
      PROVE  Goal
  BY <1>4, <1>2, FreeFields DEF DeleteGroup, RemoveUser, accessVars, modelHistory
<1>5. ASSUME NEW g \in Groups, NEW us, AskAdd(n, g, us) PROVE Goal
  <2> DEFINE a == Handler("add", Nobody, Nobody, "add", <<>>)
  <2>1. PICK d : Begin(n, [a EXCEPT !.join = {g}, !.adds = d])
    BY <1>5 DEF AskAdd
  <2>2. Elsewhere(a)
    BY HandlerElsewhere
  <2>3. Elsewhere([a EXCEPT !.join = {g}, !.adds = d])
    <3> HIDE DEF a
    <3> QED
      BY <2>2, OtherFields
  <2> QED
    BY <1>2, <1>5, <2>1, <2>3 DEF AskAdd, tables, history
<1>6. ASSUME NEW g \in Groups, NEW us, AskSet(n, g, us) PROVE Goal
  <2> DEFINE a == Handler("set", Nobody, Nobody, "set", <<>>)
  <2>1. PICK d : Begin(n, [a EXCEPT !.join = {g}, !.adds = d])
    BY <1>6 DEF AskSet
  <2>2. Elsewhere(a)
    BY HandlerElsewhere
  <2>3. Elsewhere([a EXCEPT !.join = {g}, !.adds = d])
    <3> HIDE DEF a
    <3> QED
      BY <2>2, OtherFields
  <2> QED
    BY <1>2, <1>6, <2>1, <2>3 DEF AskSet, tables, history
<1>7. ASSUME NEW u \in Users, AskDeleteUser(n, u) PROVE Goal
  <2> DEFINE k == Handler("deleteUser", u, Nobody, "user", <<>>)
  <2>1. Elsewhere(k)
    BY HandlerElsewhere
  <2> QED
    BY <1>2, <1>7, <2>1 DEF AskDeleteUser, accessVars, modelHistory
<1>8. ASSUME NEW u \in Users, NEW claim \in Claims, Login(n, u, claim) PROVE Goal
  <2> DEFINE a == Handler("login", u, Nobody, "create", <<>>)
  <2>1. PICK c, s, j :
          Begin(n, [a EXCEPT !.known = claim, !.create = c, !.snap = s, !.join = j])
    BY <1>8 DEF Login
  <2>2. Elsewhere(a)
    BY HandlerElsewhere
  <2>3. Elsewhere([a EXCEPT !.known = claim, !.create = c, !.snap = s, !.join = j])
    <3> HIDE DEF a
    <3> QED
      BY <2>2, OtherFields
  <2> QED
    BY <1>2, <1>8, <2>1, <2>3 DEF Login, tables, modelHistory
<1>9. ASSUME NEW u \in Users, NEW claim \in Claims, Ldap(n, u, claim) PROVE Goal
  <2> DEFINE a == Handler("ldap", u, Nobody, "create", <<>>)
  <2>1. PICK c : Begin(n, [a EXCEPT !.known = claim, !.create = c])
    BY <1>9 DEF Ldap
  <2>2. Elsewhere(a)
    BY HandlerElsewhere
  <2>3. Elsewhere([a EXCEPT !.known = claim, !.create = c])
    <3> HIDE DEF a
    <3> QED
      BY <2>2, OtherFields
  <2> QED
    BY <1>2, <1>9, <2>1, <2>3 DEF Ldap, tables, modelHistory
<1>10. CASE Add(n) \/ LoginEnds(n) \/ LdapWrites(n)
  <2>1. Elsewhere(h) /\ Do(n, Free)
    BY <1>1, <1>10 DEF Add, LoginEnds, LdapWrites
  <2>2. same
    BY <1>10 DEF Add, LoginEnds, LdapWrites, tables, accessVars, modelHistory
  <2> QED
    BY <2>1, <2>2, FreeFields DEF Do
<1>11. CASE Set(n) \/ DeleteUser(n)
  <2>1. Elsewhere(h) /\ Do(n, Free)
    BY <1>1, <1>11 DEF Set, DeleteUser
  <2>2. same
    BY <1>11 DEF Set, DeleteUser, history, accessVars, modelHistory
  <2> QED
    BY <2>1, <2>2, FreeFields DEF Do
<1>12. ASSUME NEW g \in Groups, CreateClaimed(n, g) PROVE Goal
  <2>1. PICK c, b : Do(n, [h EXCEPT !.create = c, !.clean = b])
    BY <1>12 DEF CreateClaimed
  <2>2. Elsewhere(h) /\ same
    BY <1>1, <1>12 DEF CreateClaimed, accessVars, history
  <2>3. Elsewhere([h EXCEPT !.create = c, !.clean = b])
    BY <2>2, OtherFields
  <2> QED
    BY <2>1, <2>2, <2>3
<1>13. CASE Decide(n) \/ LdapReads(n)
  <2>1. Elsewhere(h) /\ same
    BY <1>1, <1>13 DEF Decide, LdapReads, tables, history
  <2>2. CASE Decide(n)
    <3>1. PICK j, l : Do(n, [h EXCEPT !.at = "leave", !.join = j, !.leave = l])
      BY <2>2 DEF Decide
    <3>2. Elsewhere([h EXCEPT !.at = "leave", !.join = j, !.leave = l])
      BY <2>1, OtherFields
    <3> QED
      BY <2>1, <3>1, <3>2 DEF Do
  <2>3. CASE LdapReads(n)
    <3>1. PICK j, l : Do(n, [h EXCEPT !.at = "sync", !.join = j, !.leave = l])
      BY <2>3 DEF LdapReads
    <3>2. Elsewhere([h EXCEPT !.at = "sync", !.join = j, !.leave = l])
      BY <2>1, OtherFields
    <3> QED
      BY <2>1, <3>1, <3>2 DEF Do
  <2> QED
    BY <1>13, <2>2, <2>3
<1>14. ASSUME NEW g \in Groups, Leave(n, g) \/ Join(n, g) PROVE Goal
  <2>1. PICK x : Do(n, [h EXCEPT !.join = x]) \/ Do(n, [h EXCEPT !.leave = x])
    BY <1>14 DEF Leave, Join
  <2>2. Elsewhere(h) /\ same
    BY <1>1, <1>14 DEF Leave, Join, accessVars, history
  <2>3. Elsewhere([h EXCEPT !.join = x]) /\ Elsewhere([h EXCEPT !.leave = x])
    BY <2>2, OtherFields
  <2> QED
    BY <2>1, <2>2, <2>3 DEF Do
<1> QED
  BY <1>3, <1>4, <1>5, <1>6, <1>7, <1>8, <1>9, <1>10, <1>11, <1>12, <1>13, <1>14
     DEF Memberships, Do

-----------------------------------------------------------------------------
(* Grants without a model.                                                 *)

\* The models whose rows a sync is going to insert.
Brings(h) == IF h.op \in {"rows", "locked"} THEN h.create ELSE {}
Syncing(m) == {n \in Nodes : m \in Brings(doing[n])}

\* Whoever drops a model sees all its grants when it deletes them, has its
\* grants deleted before the row goes, and writes no grants without a row.
SeesDropped ==
    mvcc => \A n \in Nodes :
              Filling(n) /\ Target(n) \in Dropped(doing[n]) \ raced =>
                doing[n].snap = GrantsOf(Target(n))
PendingHaveRows ==
    \A n \in Nodes : \A m \in PendingOf(doing[n]) \ raced :
       Exists(m) \/ m \in Brings(doing[n]) \/ doing[n].at = "insert"
DroppedAreCleared ==
    \A n \in Nodes : \A m \in Dropped(doing[n]) \ (raced \cup PendingOf(doing[n])) :
       GrantsOf(m) = {} \/ Syncing(m) # {}
OrphansAreSynced ==
    \A m \in ModelIds \ raced : ~Exists(m) => GrantsOf(m) = {} \/ Syncing(m) # {}

OrphanInv == SeesDropped /\ PendingHaveRows /\ DroppedAreCleared /\ OrphansAreSynced

ModelsInv == HandlersInv /\ RowsInv /\ WritingInv /\ OrphanInv

-----------------------------------------------------------------------------
(* Frames.                                                                 *)

Moves(n, k) == doing' = [doing EXCEPT ![n] = k]

LEMMA Moved ==
    ASSUME HandlersInv, NEW n \in Nodes, NEW k, Moves(n, k)
    PROVE  /\ DOMAIN doing' = Nodes
           /\ \A o \in Nodes : doing'[o] = IF o = n THEN k ELSE doing[o]
BY DEF HandlersInv, Moves

LEMMA HandlersMoved ==
    ASSUME HandlersInv, NEW n \in Nodes, NEW k, Moves(n, k), Handling(k)
    PROVE  HandlersInv'
<1>1. /\ DOMAIN doing' = Nodes
      /\ \A o \in Nodes : doing'[o] = IF o = n THEN k ELSE doing[o]
  BY Moved
<1>2. ASSUME NEW o \in Nodes PROVE Handling(doing'[o])
  <2>1. CASE o = n
    BY <1>1, <2>1
  <2>2. CASE o # n
    BY <1>1, <2>2 DEF HandlersInv
  <2> QED
    BY <2>1, <2>2
<1>3. \A o \in Nodes : Handling(doing[o])'
  BY <1>2 DEF Handling, Elsewhere, Modelling, PendingOf, Dropped
<1> QED
  BY <1>1, <1>3 DEF HandlersInv

\* A step that writes no grants keeps what is said of the writing.
LEMMA Unwritten ==
    ASSUME HandlersInv, WritingInv, NEW n \in Nodes, NEW k, Moves(n, k), k.at # "fill",
           UNCHANGED <<mvcc, grants, want, muddled>>
    PROVE  WritingInv'
<1>1. \A o \in Nodes : doing'[o] = IF o = n THEN k ELSE doing[o]
  BY Moved
<1>2. \A o \in Nodes : Filling(o)' => o # n /\ Filling(o) /\ doing'[o] = doing[o]
  BY <1>1 DEF Filling
<1>3. \A o \in Nodes : Filling(o)' => Target(o)' = Target(o)
  BY <1>2 DEF Target
<1>4. \A m : GrantsOf(m)' = GrantsOf(m) /\ ListOf(m)' = ListOf(m)
  BY DEF GrantsOf, ListOf
<1>5. Overlaps'
  BY <1>2, <1>3 DEF WritingInv, Overlaps
<1>6. Sees'
  <2> SUFFICES ASSUME mvcc, NEW o \in Nodes, Filling(o)', doing'[o].clean
               PROVE  doing'[o].snap = GrantsOf(Target(o))'
    BY DEF Sees
  <2>1. doing[o].snap = GrantsOf(Target(o))
    BY <1>2 DEF WritingInv, Sees
  <2>2. GrantsOf(Target(o))' = GrantsOf(Target(o))
    BY <1>3 DEF GrantsOf
  <2> QED
    BY <2>1, <2>2, <1>2
<1>7. Written'
  BY <1>4 DEF WritingInv, Written
<1> QED
  BY <1>5, <1>6, <1>7 DEF WritingInv

\* A step that moves one handler on and changes neither rows nor grants.
LEMMA Unmoved ==
    ASSUME ModelsInv, NEW n \in Nodes, NEW k, Moves(n, k), Handling(k), k.at # "fill",
           UNCHANGED <<mvcc, models, grants, want, muddled>>, raced \subseteq raced',
           Brings(doing[n]) \subseteq Brings(k) \cup raced',
           \A m \in PendingOf(k) \ raced' : Exists(m) \/ m \in Brings(k) \/ k.at = "insert",
           \A m \in Dropped(k) \ (raced' \cup PendingOf(k)) :
              ~Exists(m) \/ m \in Dropped(doing[n]) \ PendingOf(doing[n]),
           Dropped(k) \subseteq ModelIds
    PROVE  ModelsInv'
<1> DEFINE h == doing[n]
<1>1. \A o \in Nodes : doing'[o] = IF o = n THEN k ELSE doing[o]
  BY Moved DEF ModelsInv
<1>2. HandlersInv'
  BY HandlersMoved DEF ModelsInv
<1>3. RowsInv'
  BY DEF ModelsInv, RowsInv
<1>4. WritingInv'
  BY Unwritten DEF ModelsInv
<1>5. \A m : GrantsOf(m)' = GrantsOf(m) /\ Exists(m)' = Exists(m)
  BY DEF GrantsOf, Exists
<1>6. \A m : m \notin raced' /\ Syncing(m) # {} => Syncing(m)' # {}
  <2> SUFFICES ASSUME NEW m, m \notin raced', NEW o \in Nodes, m \in Brings(doing[o])
               PROVE  m \in Brings(doing'[o])
    BY DEF Syncing, Brings
  <2> QED
    BY <1>1
<1>7. SeesDropped'
  <2> SUFFICES ASSUME mvcc, NEW o \in Nodes, Filling(o)',
                      Target(o)' \in Dropped(doing[o])' \ raced'
               PROVE  doing'[o].snap = GrantsOf(Target(o))'
    BY DEF SeesDropped
  <2>1. doing'[o] = doing[o]
    BY <1>1 DEF Filling
  <2>2. Target(o)' = Target(o) /\ Filling(o) /\ Dropped(doing[o])' = Dropped(doing[o])
    BY <2>1 DEF Target, Dropped, Filling
  <2>3. GrantsOf(Target(o))' = GrantsOf(Target(o))
    BY <2>2 DEF GrantsOf
  <2> QED
    BY <2>1, <2>2, <2>3 DEF ModelsInv, OrphanInv, SeesDropped
<1>8. PendingHaveRows'
  <2> SUFFICES ASSUME NEW o \in Nodes, NEW m \in PendingOf(doing'[o]) \ raced'
               PROVE  Exists(m)' \/ m \in Brings(doing'[o]) \/ doing'[o].at = "insert"
    BY DEF PendingHaveRows, PendingOf, Brings
  <2>1. CASE o = n
    BY <1>1, <1>5, <2>1
  <2>2. CASE o # n
    BY <1>1, <1>5, <2>2 DEF ModelsInv, OrphanInv, PendingHaveRows
  <2> QED
    BY <2>1, <2>2
<1>9. OrphansAreSynced'
  BY <1>5, <1>6 DEF ModelsInv, OrphanInv, OrphansAreSynced
<1>10. DroppedAreCleared'
  <2> SUFFICES ASSUME NEW o \in Nodes,
                      NEW m \in Dropped(doing'[o]) \ (raced' \cup PendingOf(doing'[o]))
               PROVE  GrantsOf(m)' = {} \/ Syncing(m)' # {}
    BY DEF DroppedAreCleared, Dropped, PendingOf
  <2>1. CASE m \in Dropped(doing[o]) \ PendingOf(doing[o])
    BY <1>5, <1>6, <2>1 DEF ModelsInv, OrphanInv, DroppedAreCleared
  <2>2. CASE ~Exists(m) /\ o = n
    BY <1>1, <1>5, <1>6, <2>2 DEF ModelsInv, OrphanInv, OrphansAreSynced
  <2> QED
    BY <1>1, <2>1, <2>2
<1> QED
  BY <1>2, <1>3, <1>4, <1>7, <1>8, <1>9, <1>10 DEF ModelsInv, OrphanInv

LEMMA ElsewhereHandles ==
    ASSUME NEW k, Elsewhere(k)
    PROVE  Handling(k) /\ k.at # "fill" /\ Brings(k) = {} /\ PendingOf(k) = {} /\ Dropped(k) = {}
BY DEF Elsewhere, Handling, Brings, PendingOf, Dropped

LEMMA BringsFew ==
    ASSUME HandlersInv, NEW n \in Nodes
    PROVE  Brings(doing[n]) \subseteq doing[n].create \cap ModelIds
<1>1. Handling(doing[n])
  BY DEF HandlersInv
<1> QED
  BY <1>1 DEF Handling, Elsewhere, Modelling, Brings

LEMMA MembershipsStep ==
    ASSUME ModelsInv, NEW n \in Nodes, Memberships(n)
    PROVE  ModelsInv'
<1>1. HandlersInv
  BY DEF ModelsInv
<1>2. Elsewhere(doing[n]) /\ UNCHANGED <<mvcc, models, grants, want, muddled, raced>>
  BY <1>1, MembershipsElsewhere
<1>3. PICK k : Moves(n, k) /\ Elsewhere(k)
  BY <1>1, MembershipsElsewhere DEF Moves
<1>4. Handling(k) /\ k.at # "fill" /\ PendingOf(k) = {} /\ Dropped(k) = {}
  BY <1>3, ElsewhereHandles
<1>5. Brings(doing[n]) = {}
  BY <1>2, ElsewhereHandles
<1> QED
  BY <1>2, <1>3, <1>4, <1>5, Unmoved

\* A handler that gives up: what it was to bring counts as raced.
LEMMA GivesUp ==
    ASSUME ModelsInv, NEW n \in Nodes, Moves(n, Free),
           UNCHANGED <<mvcc, models, grants, want, muddled>>, raced \subseteq raced',
           Brings(doing[n]) \subseteq raced'
    PROVE  ModelsInv'
<1>1. PICK k : k = Free
  OBVIOUS
<1>2. Handling(k) /\ k.at # "fill" /\ PendingOf(k) = {} /\ Dropped(k) = {} /\ Moves(n, k)
  BY <1>1, FreeFields, ElsewhereHandles DEF Moves
<1> QED
  BY <1>2, Unmoved

LEMMA EndStep ==
    ASSUME ModelsInv, NEW n \in Nodes, End(n) \/ Fails(n)
    PROVE  ModelsInv'
<1>1. Moves(n, Free) /\ UNCHANGED <<mvcc, models, grants, want, muddled>>
  BY DEF End, Fails, Do, Moves, tables
<1>2. raced \subseteq raced' /\ doing[n].create \cap ModelIds \subseteq raced'
  BY DEF End, Fails
<1>3. Brings(doing[n]) \subseteq raced'
  BY <1>2, BringsFew DEF ModelsInv
<1> QED
  BY <1>1, <1>2, <1>3, GivesUp

\* Starting: the grants to be written have a row, or one that is to come, and
\* of the models to be dropped only those are not written that have no row.
LEMMA Starts ==
    ASSUME ModelsInv, NEW n \in Nodes, NEW k, Begin(n, k), UNCHANGED <<tables, history>>,
           Modelling(k), k.at # "fill",
           \A m \in PendingOf(k) : Exists(m) \/ m \in Brings(k) \/ k.at = "insert",
           \A m \in Dropped(k) \ PendingOf(k) : ~Exists(m)
    PROVE  ModelsInv'
<1>1. Moves(n, k) /\ doing[n] = Free
  BY DEF Begin, Ready, Do, Moves
<1>2. Brings(doing[n]) = {}
  BY <1>1, FreeFields, ElsewhereHandles
<1>3. UNCHANGED <<mvcc, models, grants, want, muddled, raced>>
  BY DEF tables, history
<1>4. Handling(k) /\ Dropped(k) \subseteq ModelIds
  BY DEF Handling, Modelling
<1> QED
  BY <1>1, <1>2, <1>3, <1>4, Unmoved

LEMMA UpdateRowStep ==
    ASSUME ModelsInv, NEW n \in Nodes, UpdateRow(n)
    PROVE  ModelsInv'
<1>1. PICK h : h = doing[n]
  OBVIOUS
<1>2. PICK k : k = [h EXCEPT !.at = "clear"]
  OBVIOUS
<1>3. Modelling(h) /\ h.at = "row"
  <2>1. Handling(h)
    BY <1>1 DEF ModelsInv, HandlersInv
  <2> QED
    BY <1>1, <2>1 DEF UpdateRow, Handling, Elsewhere
<1>4. Modelling(k) /\ Dropped(k) = Dropped(h) /\ PendingOf(k) = PendingOf(h)
      /\ Brings(k) = Brings(h) /\ k.at = "clear"
  <2>1. DOMAIN h = {"op", "user", "model", "at", "lists", "snap", "clean", "known",
                    "create", "leave", "join", "adds"}
    BY <1>3 DEF Modelling, Fields
  <2>2. DOMAIN k = Fields /\ k.op = h.op /\ k.user = h.user /\ k.model = h.model
        /\ k.at = "clear" /\ k.lists = h.lists
    BY <1>2, <2>1 DEF Fields
  <2>3. k.clean = h.clean
    BY <1>2, <2>1 DEF Fields
  <2>4. k.create = h.create /\ k.leave = h.leave /\ k.snap = h.snap
    BY <1>2, <2>1 DEF Fields
  <2>5. Dropped(k) = Dropped(h)
    BY <2>2, <2>4 DEF Dropped
  <2>6. PendingOf(k) = PendingOf(h) /\ Brings(k) = Brings(h)
    BY <2>2, <2>4 DEF PendingOf, Brings
  <2> QED
    BY <1>3, <2>2, <2>3, <2>4, <2>5, <2>6 DEF Modelling
<1>5. Moves(n, k)
  BY <1>1, <1>2 DEF UpdateRow, Goto, Moves
<1>6. UNCHANGED <<mvcc, models, grants, want, muddled, raced>>
  BY DEF UpdateRow, tables, history
<1>7. Handling(k) /\ Dropped(k) \subseteq ModelIds
  BY <1>4 DEF Handling, Modelling
<1>8. \A m \in PendingOf(h) \ raced : Exists(m) \/ m \in Brings(h)
  BY <1>1, <1>3 DEF ModelsInv, OrphanInv, PendingHaveRows
<1> QED
  BY <1>1, <1>4, <1>5, <1>6, <1>7, <1>8, Unmoved

\* What a handler keeps when it only goes on to another place.
LEMMA AtFields ==
    ASSUME NEW h, DOMAIN h = Fields, NEW at
    PROVE  LET k == [h EXCEPT !.at = at]
           IN  /\ DOMAIN k = Fields /\ k.at = at /\ k.op = h.op /\ k.user = h.user
               /\ k.model = h.model /\ k.lists = h.lists /\ k.snap = h.snap
               /\ k.clean = h.clean /\ k.create = h.create /\ k.leave = h.leave
<1>1. DOMAIN h = {"op", "user", "model", "at", "lists", "snap", "clean", "known",
                  "create", "leave", "join", "adds"}
  BY DEF Fields
<1> QED
  BY <1>1 DEF Fields

LEMMA InsertRowStep ==
    ASSUME ModelsInv, NEW n \in Nodes, InsertRow(n)
    PROVE  ModelsInv'
<1>1. CASE Exists(doing[n].model)
  <2>1. Moves(n, Free) /\ UNCHANGED <<mvcc, models, grants, want, muddled, raced>>
    BY <1>1 DEF InsertRow, Do, Moves, history
  <2>2. Brings(doing[n]) = {}
    <3>1. Handling(doing[n]) /\ doing[n].at = "insert"
      BY DEF ModelsInv, HandlersInv, InsertRow
    <3> QED
      BY <3>1 DEF Handling, Elsewhere, Modelling, Brings
  <2> QED
    BY <2>1, <2>2, GivesUp
<1>2. CASE ~Exists(doing[n].model)
  <2>1. PICK h : h = doing[n]
    OBVIOUS
  <2>2. PICK k : k = [h EXCEPT !.at = "clear"]
    OBVIOUS
  <2>3. Modelling(h) /\ h.at = "insert"
    <3>1. Handling(h)
      BY <2>1 DEF ModelsInv, HandlersInv
    <3> QED
      BY <2>1, <3>1 DEF InsertRow, Handling, Elsewhere
  <2>4. h.op \in {"create", "share"} /\ h.model \in ModelIds /\ PendingOf(h) = {h.model}
    BY <2>3 DEF Modelling
  <2>5. DOMAIN k = Fields /\ k.op = h.op /\ k.user = h.user /\ k.model = h.model
        /\ k.at = "clear" /\ k.lists = h.lists
    BY <2>2, <2>3, AtFields DEF Modelling
  <2>6. k.clean = h.clean /\ k.create = h.create /\ k.leave = h.leave /\ k.snap = h.snap
    BY <2>2, <2>3, AtFields DEF Modelling
  <2>7. Dropped(k) = {} /\ PendingOf(k) = {h.model} /\ Brings(k) = {} /\ Brings(h) = {}
    BY <2>4, <2>5 DEF Dropped, PendingOf, Brings
  <2>8. Modelling(k)
    <3>1. Dropped(h) = {}
      BY <2>4 DEF Dropped
    <3> QED
      BY <2>3, <2>5, <2>6, <2>7, <3>1 DEF Modelling
  <2>9. Moves(n, k)
    BY <1>2, <2>1, <2>2 DEF InsertRow, Goto, Moves
  <2>10. models' = [models EXCEPT ![h.model] = h.user]
         /\ UNCHANGED <<mvcc, grants, want, muddled, raced>>
    BY <1>2, <2>1 DEF InsertRow, history
  <2>11. \A o \in Nodes : doing'[o] = IF o = n THEN k ELSE doing[o]
    BY <2>9, Moved DEF ModelsInv
  <2>12. HandlersInv'
    BY <2>8, <2>9, HandlersMoved DEF ModelsInv, Handling
  <2>13. RowsInv'
    BY <2>3, <2>10 DEF ModelsInv, RowsInv, Modelling
  <2>14. WritingInv'
    BY <2>5, <2>9, <2>10, Unwritten DEF ModelsInv
  <2>15. /\ Exists(h.model)' /\ \A m \in ModelIds : Exists(m) => Exists(m)'
         /\ \A m : GrantsOf(m)' = GrantsOf(m)
    <3>1. h.user # Nobody
      BY <2>3, SharingAssumption DEF Modelling
    <3>2. models \in [ModelIds -> Users \cup {Nobody}]
      BY DEF ModelsInv, RowsInv
    <3> QED
      BY <2>4, <2>10, <3>1, <3>2 DEF Exists, GrantsOf
  <2>16. \A m : Syncing(m)' = Syncing(m)
    <3>1. \A o \in Nodes : Brings(doing'[o]) = Brings(doing[o])
      BY <2>1, <2>7, <2>11
    <3> QED
      BY <3>1 DEF Syncing, Brings
  <2>17. SeesDropped'
    <3> SUFFICES ASSUME mvcc, NEW o \in Nodes, Filling(o)',
                        Target(o)' \in Dropped(doing[o])' \ raced
                 PROVE  doing'[o].snap = GrantsOf(Target(o))'
      BY <2>10 DEF SeesDropped
    <3>1. doing'[o] = doing[o]
      BY <2>5, <2>11 DEF Filling
    <3>2. Target(o)' = Target(o) /\ Filling(o) /\ Dropped(doing[o])' = Dropped(doing[o])
      BY <3>1 DEF Target, Dropped, Filling
    <3>3. GrantsOf(Target(o))' = GrantsOf(Target(o))
      BY <2>10, <3>2 DEF GrantsOf
    <3> QED
      BY <3>1, <3>2, <3>3 DEF ModelsInv, OrphanInv, SeesDropped
  <2>18. PendingHaveRows'
    <3> SUFFICES ASSUME NEW o \in Nodes, NEW m \in PendingOf(doing'[o]) \ raced
                 PROVE  Exists(m)' \/ m \in Brings(doing'[o]) \/ doing'[o].at = "insert"
      BY <2>10 DEF PendingHaveRows, PendingOf, Brings
    <3>1. CASE o = n
      BY <2>7, <2>11, <2>15, <3>1
    <3>2. CASE o # n
      <4>1. m \in ModelIds
        <5>1. m \in PendingOf(doing[o]) /\ Handling(doing[o])
          BY <2>11, <3>2 DEF ModelsInv, HandlersInv
        <5> QED
          BY <5>1 DEF Handling, Elsewhere, Modelling, PendingOf
      <4> QED
        BY <2>11, <2>15, <3>2, <4>1 DEF ModelsInv, OrphanInv, PendingHaveRows
    <3> QED
      BY <3>1, <3>2
  <2>19. OrphansAreSynced'
    BY <2>10, <2>15, <2>16 DEF ModelsInv, OrphanInv, OrphansAreSynced
  <2>20. DroppedAreCleared'
    <3> SUFFICES ASSUME NEW o \in Nodes,
                        NEW m \in Dropped(doing'[o]) \ (raced \cup PendingOf(doing'[o]))
                 PROVE  GrantsOf(m)' = {} \/ Syncing(m)' # {}
      BY <2>10 DEF DroppedAreCleared, Dropped, PendingOf
    <3>1. o # n
      BY <2>7, <2>11
    <3> QED
      BY <2>11, <2>15, <2>16, <3>1 DEF ModelsInv, OrphanInv, DroppedAreCleared
  <2> QED
    BY <2>12, <2>13, <2>14, <2>17, <2>18, <2>19, <2>20 DEF ModelsInv, OrphanInv
<1> QED
  BY <1>1, <1>2

LEMMA CleanFields ==
    ASSUME NEW h, DOMAIN h = Fields
    PROVE  LET k == [h EXCEPT !.clean = FALSE]
           IN  /\ DOMAIN k = Fields /\ k.at = h.at /\ k.op = h.op /\ k.user = h.user
               /\ k.model = h.model /\ k.lists = h.lists /\ k.snap = h.snap
               /\ k.clean = FALSE /\ k.create = h.create /\ k.leave = h.leave
<1>1. DOMAIN h = {"op", "user", "model", "at", "lists", "snap", "clean", "known",
                  "create", "leave", "join", "adds"}
  BY DEF Fields
<1> QED
  BY <1>1 DEF Fields

LEMMA FillFields ==
    ASSUME NEW h, DOMAIN h = Fields, NEW s, NEW c
    PROVE  LET k == [h EXCEPT !.at = "fill", !.snap = s, !.clean = c]
           IN  /\ DOMAIN k = Fields /\ k.at = "fill" /\ k.op = h.op /\ k.user = h.user
               /\ k.model = h.model /\ k.lists = h.lists /\ k.snap = s
               /\ k.clean = c /\ k.create = h.create /\ k.leave = h.leave
<1>1. DOMAIN h = {"op", "user", "model", "at", "lists", "snap", "clean", "known",
                  "create", "leave", "join", "adds"}
  BY DEF Fields
<1> QED
  BY <1>1 DEF Fields

\* What Clear leaves of every handler: lists, rows and operation; the one that
\* clears has seen all grants, and none that replaces them too is clean.
LEMMA ClearEffect ==
    ASSUME ModelsInv, NEW n \in Nodes, Clear(n)
    PROVE  /\ UNCHANGED <<mvcc, models, grants, want, muddled, raced>>
           /\ DOMAIN doing' = Nodes
           /\ doing[n].at = "clear" /\ doing'[n].at = "fill"
           /\ doing'[n].snap = GrantsOf(Target(n)) /\ doing'[n].clean \in BOOLEAN
           /\ \A o \in Nodes :
                 /\ Modelling(doing[n]) /\ DOMAIN doing'[o] = Fields
                 /\ doing'[o].op = doing[o].op /\ doing'[o].user = doing[o].user
                 /\ doing'[o].model = doing[o].model /\ doing'[o].lists = doing[o].lists
                 /\ doing'[o].create = doing[o].create /\ doing'[o].leave = doing[o].leave
                 /\ o # n => doing'[o].at = doing[o].at /\ doing'[o].snap = doing[o].snap
                 /\ o # n => doing'[o].clean = FALSE \/ doing'[o] = doing[o]
           /\ mvcc => \A o \in Nodes \ {n} : Filling(o) /\ Target(o) = Target(n) =>
                         doing'[o].clean = FALSE /\ doing'[n].clean = FALSE
<1>1. \A o \in Nodes : Handling(doing[o]) /\ DOMAIN doing[o] = Fields
  BY DEF ModelsInv, HandlersInv, Handling, Elsewhere, Modelling
<1>2. PICK others : others = Replacing(Target(n))
  OBVIOUS
<1>3. PICK c : c = (~mvcc \/ others = {})
  OBVIOUS
<1>4. PICK k : k = [doing[n] EXCEPT !.at = "fill", !.snap = GrantsOf(Target(n)), !.clean = c]
  OBVIOUS
<1>5. doing' = [o \in Nodes |->
             IF o = n THEN k
             ELSE IF o \in others /\ mvcc THEN [doing[o] EXCEPT !.clean = FALSE]
             ELSE doing[o]]
  BY <1>2, <1>3, <1>4 DEF Clear, Target
<1>6. UNCHANGED <<mvcc, models, grants, want, muddled, raced>> /\ doing[n].at = "clear"
  BY DEF Clear, tables, history
<1>7. Modelling(doing[n])
  BY <1>1, <1>6 DEF Handling, Elsewhere
<1>8. doing'[n] = k /\ DOMAIN doing' = Nodes
  BY <1>5
<1>9. /\ DOMAIN k = Fields /\ k.at = "fill" /\ k.op = doing[n].op /\ k.user = doing[n].user
      /\ k.model = doing[n].model /\ k.lists = doing[n].lists
      /\ k.snap = GrantsOf(Target(n)) /\ k.clean = c
      /\ k.create = doing[n].create /\ k.leave = doing[n].leave
  BY <1>1, <1>4, FillFields
<1>10. ASSUME NEW o \in Nodes, o # n
       PROVE  /\ DOMAIN doing'[o] = Fields /\ doing'[o].at = doing[o].at
              /\ doing'[o].op = doing[o].op /\ doing'[o].user = doing[o].user
              /\ doing'[o].model = doing[o].model /\ doing'[o].lists = doing[o].lists
              /\ doing'[o].snap = doing[o].snap
              /\ doing'[o].create = doing[o].create /\ doing'[o].leave = doing[o].leave
              /\ doing'[o].clean = FALSE \/ doing'[o] = doing[o]
              /\ o \in others /\ mvcc => doing'[o].clean = FALSE
  <2>1. CASE o \in others /\ mvcc
    <3>1. doing'[o] = [doing[o] EXCEPT !.clean = FALSE]
      BY <1>5, <1>10, <2>1
    <3>2. PICK g : g = doing[o]
      OBVIOUS
    <3>3. DOMAIN g = Fields /\ doing'[o] = [g EXCEPT !.clean = FALSE]
      BY <1>1, <3>1, <3>2
    <3>4. PICK f : f = [g EXCEPT !.clean = FALSE]
      OBVIOUS
    <3>5. /\ DOMAIN f = Fields /\ f.at = g.at /\ f.op = g.op /\ f.user = g.user
          /\ f.model = g.model /\ f.lists = g.lists /\ f.snap = g.snap
          /\ f.clean = FALSE /\ f.create = g.create /\ f.leave = g.leave
      BY <3>3, <3>4, CleanFields
    <3> QED
      BY <3>2, <3>3, <3>4, <3>5
  <2>2. CASE ~(o \in others /\ mvcc)
    <3>1. doing'[o] = doing[o]
      BY <1>5, <1>10, <2>2
    <3> QED
      BY <1>1, <2>2, <3>1
  <2> QED
    BY <2>1, <2>2
<1>11. ASSUME mvcc, NEW o \in Nodes \ {n}, Filling(o), Target(o) = Target(n)
       PROVE  doing'[o].clean = FALSE /\ doing'[n].clean = FALSE
  <2>1. o \in others
    BY <1>2, <1>11 DEF Replacing, Filling, Target
  <2>2. c = FALSE
    BY <1>3, <1>11, <2>1
  <2> QED
    BY <1>8, <1>9, <1>10, <1>11, <2>1, <2>2
<1>12. c \in BOOLEAN
  BY <1>3
<1> QED
  BY <1>6, <1>7, <1>8, <1>9, <1>10, <1>11, <1>12

LEMMA ClearStep ==
    ASSUME ModelsInv, NEW n \in Nodes, Clear(n)
    PROVE  ModelsInv'
<1>1. /\ UNCHANGED <<mvcc, models, grants, want, muddled, raced>>
      /\ DOMAIN doing' = Nodes /\ Modelling(doing[n])
      /\ doing[n].at = "clear" /\ doing'[n].at = "fill"
      /\ doing'[n].snap = GrantsOf(Target(n)) /\ doing'[n].clean \in BOOLEAN
  BY ClearEffect
<1>2. ASSUME NEW o \in Nodes
      PROVE  /\ DOMAIN doing'[o] = Fields
             /\ doing'[o].op = doing[o].op /\ doing'[o].user = doing[o].user
             /\ doing'[o].model = doing[o].model /\ doing'[o].lists = doing[o].lists
             /\ doing'[o].create = doing[o].create /\ doing'[o].leave = doing[o].leave
  BY ClearEffect
<1>3. ASSUME NEW o \in Nodes, o # n
      PROVE  /\ doing'[o].at = doing[o].at /\ doing'[o].snap = doing[o].snap
             /\ doing'[o].clean = FALSE \/ doing'[o] = doing[o]
  BY ClearEffect, <1>3
<1>4. mvcc => \A o \in Nodes \ {n} : Filling(o) /\ Target(o) = Target(n) =>
                 doing'[o].clean = FALSE /\ doing'[n].clean = FALSE
  BY ClearEffect
<1>5. ASSUME NEW o \in Nodes
      PROVE  /\ Target(o)' = Target(o) /\ Dropped(doing'[o]) = Dropped(doing[o])
             /\ PendingOf(doing'[o]) = PendingOf(doing[o])
             /\ Brings(doing'[o]) = Brings(doing[o])
             /\ Filling(o)' <=> o = n \/ Filling(o)
  <2>1. Target(o)' = Target(o) /\ PendingOf(doing'[o]) = PendingOf(doing[o])
    BY <1>2 DEF Target, PendingOf
  <2>2. Dropped(doing'[o]) = Dropped(doing[o])
    BY <1>2 DEF Dropped
  <2>3. Brings(doing'[o]) = Brings(doing[o])
    BY <1>2 DEF Brings
  <2>4. Filling(o)' <=> o = n \/ Filling(o)
    BY <1>1, <1>3 DEF Filling
  <2> QED
    BY <2>1, <2>2, <2>3, <2>4
<1>6. \A m : GrantsOf(m)' = GrantsOf(m) /\ ListOf(m)' = ListOf(m) /\ Exists(m)' = Exists(m)
             /\ Syncing(m)' = Syncing(m)
  <2>1. \A m : GrantsOf(m)' = GrantsOf(m) /\ ListOf(m)' = ListOf(m) /\ Exists(m)' = Exists(m)
    BY <1>1 DEF GrantsOf, ListOf, Exists
  <2>2. \A m : Syncing(m)' = Syncing(m)
    BY <1>5 DEF Syncing, Brings
  <2> QED
    BY <2>1, <2>2
<1>7. \A o \in Nodes : GrantsOf(Target(o))' = GrantsOf(Target(o))
  BY <1>1, <1>5 DEF GrantsOf
<1>8. HandlersInv'
  <2>1. ASSUME NEW o \in Nodes PROVE Handling(doing'[o])
    <3>1. Handling(doing[o])
      BY DEF ModelsInv, HandlersInv
    <3>2. CASE o = n
      <4>1. \A r \in doing'[o].snap : r[1] = Head(doing'[o].lists)[1]
        BY <1>1, <1>2, <3>2 DEF GrantsOf, Target
      <4>2. Modelling(doing'[o])
        BY <1>1, <1>2, <1>5, <3>2, <4>1 DEF Modelling
      <4> QED
        BY <4>2 DEF Handling
    <3>3. CASE o # n /\ doing'[o] # doing[o]
      <4>1. doing'[o].clean = FALSE
        BY <1>3, <3>3
      <4>2. CASE Elsewhere(doing[o])
        BY <1>2, <1>3, <3>3, <4>2 DEF Elsewhere, Handling
      <4>3. CASE Modelling(doing[o])
        <5>1. Modelling(doing'[o])
          BY <1>2, <1>3, <1>5, <3>3, <4>1, <4>3 DEF Modelling
        <5> QED
          BY <5>1 DEF Handling
      <4> QED
        BY <3>1, <4>2, <4>3 DEF Handling
    <3> QED
      BY <3>1, <3>2, <3>3
  <2>2. \A o \in Nodes : Handling(doing[o])'
    BY <2>1 DEF Handling, Elsewhere, Modelling, PendingOf, Dropped
  <2> QED
    BY <1>1, <2>2 DEF HandlersInv
<1>9. RowsInv'
  BY <1>1 DEF ModelsInv, RowsInv
<1>10. Overlaps'
  <2> SUFFICES ASSUME mvcc, NEW p \in Nodes, NEW q \in Nodes, p # q, Filling(p)', Filling(q)',
                      Target(p)' = Target(q)'
               PROVE  ~doing'[p].clean
    BY <1>1 DEF Overlaps
  <2>1. CASE p = n \/ q = n
    BY <1>4, <1>5, <2>1
  <2>2. CASE p # n /\ q # n
    BY <1>3, <1>5, <2>2 DEF ModelsInv, WritingInv, Overlaps
  <2> QED
    BY <2>1, <2>2
<1>11. Sees'
  <2> SUFFICES ASSUME mvcc, NEW o \in Nodes, Filling(o)', doing'[o].clean
               PROVE  doing'[o].snap = GrantsOf(Target(o))'
    BY <1>1 DEF Sees
  <2>1. CASE o = n
    BY <1>1, <1>7, <2>1
  <2>2. CASE o # n
    <3>1. doing'[o] = doing[o]
      BY <1>3, <2>2
    <3> QED
      BY <1>5, <1>7, <2>2, <3>1 DEF ModelsInv, WritingInv, Sees
  <2> QED
    BY <2>1, <2>2
<1>12. Written'
  BY <1>1, <1>6 DEF ModelsInv, WritingInv, Written
<1>13. SeesDropped'
  <2> SUFFICES ASSUME mvcc, NEW o \in Nodes, Filling(o)', Target(o)' \in Dropped(doing'[o]) \ raced
               PROVE  doing'[o].snap = GrantsOf(Target(o))'
    BY <1>1 DEF SeesDropped, Dropped
  <2>1. CASE o = n
    BY <1>1, <1>7, <2>1
  <2>2. CASE o # n
    BY <1>3, <1>5, <1>7, <2>2 DEF ModelsInv, OrphanInv, SeesDropped
  <2> QED
    BY <2>1, <2>2
<1>14. PendingHaveRows'
  <2> SUFFICES ASSUME NEW o \in Nodes, NEW m \in PendingOf(doing'[o]) \ raced
               PROVE  Exists(m)' \/ m \in Brings(doing'[o]) \/ doing'[o].at = "insert"
    BY <1>1 DEF PendingHaveRows, PendingOf, Brings
  <2>1. Exists(m) \/ m \in Brings(doing[o]) \/ doing[o].at = "insert"
    BY <1>5 DEF ModelsInv, OrphanInv, PendingHaveRows
  <2> QED
    BY <1>1, <1>3, <1>5, <1>6, <2>1
<1>15. DroppedAreCleared'
  <2> SUFFICES ASSUME NEW o \in Nodes,
                      NEW m \in Dropped(doing'[o]) \ (raced \cup PendingOf(doing'[o]))
               PROVE  GrantsOf(m)' = {} \/ Syncing(m)' # {}
    BY <1>1 DEF DroppedAreCleared, Dropped, PendingOf
  <2> QED
    BY <1>5, <1>6 DEF ModelsInv, OrphanInv, DroppedAreCleared
<1>16. OrphansAreSynced'
  BY <1>1, <1>6 DEF ModelsInv, OrphanInv, OrphansAreSynced
<1> QED
  BY <1>8, <1>9, <1>10, <1>11, <1>12, <1>13, <1>14, <1>15, <1>16
     DEF ModelsInv, WritingInv, OrphanInv

LEMMA RowsStep ==
    ASSUME ModelsInv, NEW n \in Nodes, Rows(n)
    PROVE  ModelsInv'
<1> DEFINE h == doing[n]
           drop == Dropped(h)
<1>1. Modelling(h) /\ h.at = "rows" /\ h.lists = <<>>
  <2>1. Handling(h) /\ h.at = "rows"
    BY DEF ModelsInv, HandlersInv, Rows
  <2> QED
    BY <2>1 DEF Handling, Elsewhere, Modelling
<1>2. Moves(n, Free) /\ UNCHANGED <<mvcc, grants, want, muddled>>
  BY DEF Rows, Do, Moves
<1>3. CASE {m \in h.create : Exists(m)} # {}
  <2>1. UNCHANGED models /\ raced' = raced \cup h.create
    BY <1>3 DEF Rows
  <2>2. Brings(h) \subseteq raced'
    BY <2>1, BringsFew DEF ModelsInv
  <2> QED
    BY <1>2, <2>1, <2>2, GivesUp
<1>4. CASE {m \in h.create : Exists(m)} = {}
  <2>1. models' = [m \in ModelIds |->
                     IF m \in drop THEN Nobody
                     ELSE IF m \in h.create \/ (h.op = "rows" /\ m \in h.known /\ Exists(m))
                     THEN h.user ELSE models[m]]
    BY <1>4 DEF Rows
  <2>2. raced' = raced \cup Orphaned(n, drop) \cup Races(n, h.create)
    BY <1>4 DEF Rows
  <2>3. h.user # Nobody /\ h.user \in Users
    BY <1>1, SharingAssumption DEF Modelling
  <2>4. ASSUME NEW m \in ModelIds, m \notin drop
        PROVE  /\ Exists(m) => Exists(m)'
               /\ m \in h.create => Exists(m)'
    BY <2>1, <2>3, <2>4 DEF Exists
  <2>5. \A o \in Nodes : doing'[o] = IF o = n THEN Free ELSE doing[o]
    BY <1>2, Moved DEF ModelsInv
  <2>6. HandlersInv'
    BY <1>2, FreeFields, HandlersMoved DEF ModelsInv, Handling
  <2>7. RowsInv'
    BY <1>2, <2>1, <2>3 DEF ModelsInv, RowsInv
  <2>8. WritingInv'
    <3>1. PICK k : k = Free
      OBVIOUS
    <3>2. Moves(n, k) /\ k.at # "fill"
      BY <1>2, <3>1, FreeFields DEF Moves
    <3> QED
      BY <1>2, <3>2, Unwritten DEF ModelsInv
  <2>9. \A m : GrantsOf(m)' = GrantsOf(m)
    BY <1>2 DEF GrantsOf
  <2>10. \A m : \A o \in Nodes \ {n} : o \in Syncing(m) => o \in Syncing(m)'
    BY <2>5 DEF Syncing, Brings
  <2>11. Brings(h) \subseteq h.create /\ Brings(h) \cap drop = {}
    BY <1>1 DEF Modelling, Brings, Dropped
  <2>12. PendingOf(h) = {} /\ PendingOf(Free) = {} /\ Dropped(Free) = {}
    BY <1>1, FreeFields, ElsewhereHandles DEF PendingOf
  <2>13. SeesDropped'
    <3> SUFFICES ASSUME mvcc, NEW o \in Nodes, Filling(o)',
                        Target(o)' \in Dropped(doing[o])' \ raced'
                 PROVE  doing'[o].snap = GrantsOf(Target(o))'
      BY <1>2 DEF SeesDropped
    <3>1. doing'[o] = doing[o]
      BY <2>5, FreeFields DEF Filling
    <3>2. Target(o)' = Target(o) /\ Filling(o) /\ Dropped(doing[o])' = Dropped(doing[o])
      BY <3>1 DEF Target, Dropped, Filling
    <3>3. GrantsOf(Target(o))' = GrantsOf(Target(o))
      BY <1>2, <3>2 DEF GrantsOf
    <3> QED
      BY <2>2, <3>1, <3>2, <3>3 DEF ModelsInv, OrphanInv, SeesDropped
  <2>14. PendingHaveRows'
    <3> SUFFICES ASSUME NEW o \in Nodes, NEW m \in PendingOf(doing'[o]) \ raced'
                 PROVE  Exists(m)' \/ m \in Brings(doing'[o]) \/ doing'[o].at = "insert"
      BY DEF PendingHaveRows, PendingOf, Brings
    <3>1. o # n /\ doing'[o] = doing[o]
      BY <2>5, <2>12
    <3>2. Exists(m) \/ m \in Brings(doing[o]) \/ doing[o].at = "insert"
      BY <2>2, <3>1 DEF ModelsInv, OrphanInv, PendingHaveRows
    <3>3. m \in ModelIds
      <4>1. m \in PendingOf(doing[o]) /\ Handling(doing[o])
        BY <3>1 DEF ModelsInv, HandlersInv
      <4> QED
        BY <4>1 DEF Handling, Elsewhere, Modelling, PendingOf
    <3>4. Exists(m) => m \notin drop
      <4>1. o \in AboutToWrite(m)
        BY <3>1 DEF AboutToWrite, Pending, PendingOf
      <4>2. ASSUME Exists(m), m \in drop PROVE m \in raced'
        BY <2>2, <3>1, <4>1, <4>2 DEF Orphaned
      <4> QED
        BY <4>2
    <3> QED
      BY <2>4, <3>1, <3>2, <3>3, <3>4
  <2>15. DroppedAreCleared'
    <3> SUFFICES ASSUME NEW o \in Nodes,
                        NEW m \in Dropped(doing'[o]) \ (raced' \cup PendingOf(doing'[o]))
                 PROVE  GrantsOf(m)' = {} \/ Syncing(m)' # {}
      BY DEF DroppedAreCleared, Dropped, PendingOf
    <3>1. o # n /\ doing'[o] = doing[o]
      BY <2>5, <2>12
    <3>2. GrantsOf(m) = {} \/ Syncing(m) # {}
      BY <2>2, <3>1 DEF ModelsInv, OrphanInv, DroppedAreCleared
    <3>3. n \notin Syncing(m)
      <4>1. o \in Dropping(m)
        BY <3>1 DEF Dropping
      <4>2. ASSUME m \in h.create PROVE m \in raced'
        BY <2>2, <3>1, <4>1, <4>2 DEF Races
      <4> QED
        BY <2>11, <4>2 DEF Syncing
    <3>4. Syncing(m) \subseteq Nodes
      BY DEF Syncing
    <3> QED
      BY <2>9, <2>10, <3>2, <3>3, <3>4
  <2>16. OrphansAreSynced'
    <3> SUFFICES ASSUME NEW m \in ModelIds \ raced', ~Exists(m)'
                 PROVE  GrantsOf(m)' = {} \/ Syncing(m)' # {}
      BY DEF OrphansAreSynced
    <3>1. GrantsOf(m) = {} \/ Syncing(m) # {}
      <4>1. CASE m \in drop
        BY <2>2, <2>12, <4>1 DEF ModelsInv, OrphanInv, DroppedAreCleared
      <4>2. CASE m \notin drop
        BY <2>2, <2>4, <4>2 DEF ModelsInv, OrphanInv, OrphansAreSynced
      <4> QED
        BY <4>1, <4>2
    <3>2. n \notin Syncing(m)
      BY <2>4, <2>11 DEF Syncing
    <3>3. Syncing(m) \subseteq Nodes
      BY DEF Syncing
    <3> QED
      BY <2>9, <2>10, <3>1, <3>2, <3>3
  <2> QED
    BY <2>6, <2>7, <2>8, <2>13, <2>14, <2>15, <2>16 DEF ModelsInv, OrphanInv
<1> QED
  BY <1>3, <1>4

LEMMA NextFields ==
    ASSUME NEW h, DOMAIN h = Fields, NEW at, NEW l
    PROVE  LET k == [h EXCEPT !.at = at, !.lists = l, !.snap = {}, !.clean = TRUE]
           IN  /\ DOMAIN k = Fields /\ k.at = at /\ k.op = h.op /\ k.user = h.user
               /\ k.model = h.model /\ k.lists = l /\ k.snap = {}
               /\ k.clean = TRUE /\ k.create = h.create /\ k.leave = h.leave
<1>1. DOMAIN h = {"op", "user", "model", "at", "lists", "snap", "clean", "known",
                  "create", "leave", "join", "adds"}
  BY DEF Fields
<1> QED
  BY <1>1 DEF Fields

\* The first of the lists is written and the others are left.
LEMMA Rest ==
    ASSUME NEW S, NEW s \in Seq(S), s # <<>>
    PROVE  /\ Tail(s) \in Seq(S) /\ Head(s) \in S /\ Head(s) = s[1] /\ 1 \in DOMAIN s
           /\ Len(s) > 1 => Tail(s) # <<>>
           /\ ~(Len(s) > 1) => Tail(s) = <<>>
           /\ \A i \in DOMAIN Tail(s) : i + 1 \in DOMAIN s /\ Tail(s)[i] = s[i + 1]
           /\ \A j \in DOMAIN s : j # 1 => j - 1 \in DOMAIN Tail(s) /\ s[j] = Tail(s)[j - 1]
<1>1. Len(s) \in Nat \ {0} /\ DOMAIN s = 1..Len(s)
  OBVIOUS
<1>2. Tail(s) \in Seq(S) /\ Len(Tail(s)) = Len(s) - 1 /\ DOMAIN Tail(s) = 1..(Len(s) - 1)
  BY <1>1
<1>3. \A i \in 1..(Len(s) - 1) : Tail(s)[i] = s[i + 1]
  BY <1>1
<1>4. Len(s) > 1 => Tail(s) # <<>>
  <2>1. PICK t : t = Tail(s)
    OBVIOUS
  <2>2. t = <<>> => Len(t) = 0
    OBVIOUS
  <2> QED
    BY <1>1, <1>2, <2>1, <2>2
<1>5. ~(Len(s) > 1) => Tail(s) = <<>>
  BY <1>1, <1>2
<1>6. Head(s) \in S /\ Head(s) = s[1] /\ 1 \in DOMAIN s
  BY <1>1
<1>7. \A i \in DOMAIN Tail(s) : i + 1 \in DOMAIN s /\ Tail(s)[i] = s[i + 1]
  BY <1>1, <1>2, <1>3
<1>8. ASSUME NEW j \in DOMAIN s, j # 1 PROVE j - 1 \in DOMAIN Tail(s) /\ s[j] = Tail(s)[j - 1]
  <2>1. j \in Nat /\ j > 1 /\ j <= Len(s) /\ (j - 1) + 1 = j /\ j - 1 \in 1..(Len(s) - 1)
    BY <1>1, <1>8
  <2> QED
    BY <1>2, <1>3, <2>1
<1>9. \A j \in DOMAIN s : j # 1 => j - 1 \in DOMAIN Tail(s) /\ s[j] = Tail(s)[j - 1]
  BY <1>8
<1> QED
  BY <1>2, <1>4, <1>5, <1>6, <1>7, <1>9

\* A handler that has written its first list.
LEMMA Shortened ==
    ASSUME NEW h, Modelling(h), h.at = "fill", NEW k, NEW at, at = After(h),
           k = [h EXCEPT !.at = at, !.lists = Tail(h.lists), !.snap = {}, !.clean = TRUE]
    PROVE  /\ Modelling(k) /\ k.at \notin {"fill", "insert"}
           /\ Dropped(k) = Dropped(h) /\ Brings(k) = Brings(h)
           /\ PendingOf(h) = {Head(h.lists)[1]} \cup PendingOf(k)
           /\ Head(h.lists) \in ModelIds \X SUBSET Grant
           /\ Head(h.lists)[1] \in Dropped(h) => Head(h.lists)[2] = {}
<1>1. DOMAIN k = Fields /\ k.at = at /\ k.op = h.op /\ k.user = h.user /\ k.model = h.model
  BY NextFields DEF Modelling
<1>2. k.lists = Tail(h.lists) /\ k.snap = {} /\ k.clean = TRUE
      /\ k.create = h.create /\ k.leave = h.leave
  BY NextFields DEF Modelling
<1>3. h.lists \in Seq(ModelIds \X SUBSET Grant) /\ h.lists # <<>>
  BY DEF Modelling
<1>4. PICK s : s = h.lists
  OBVIOUS
<1>5. PICK t : t = Tail(s)
  OBVIOUS
<1>6. /\ t \in Seq(ModelIds \X SUBSET Grant) /\ Head(s) \in ModelIds \X SUBSET Grant
      /\ Head(s) = s[1] /\ 1 \in DOMAIN s
      /\ Len(s) > 1 => t # <<>>
      /\ ~(Len(s) > 1) => t = <<>>
  BY <1>3, <1>4, <1>5, Rest
<1>7. /\ \A i \in DOMAIN t : i + 1 \in DOMAIN s /\ t[i] = s[i + 1]
      /\ \A j \in DOMAIN s : j # 1 => j - 1 \in DOMAIN t /\ s[j] = t[j - 1]
  BY <1>3, <1>4, <1>5, Rest
<1>8. Dropped(k) = Dropped(h) /\ Brings(k) = Brings(h)
  BY <1>1, <1>2 DEF Dropped, Brings
<1>9. PendingOf(h) = {Head(s)[1]} \cup PendingOf(k)
  <2>1. PendingOf(h) = {s[j][1] : j \in DOMAIN s} /\ PendingOf(k) = {t[i][1] : i \in DOMAIN t}
    BY <1>2, <1>4, <1>5 DEF PendingOf
  <2>2. ASSUME NEW j \in DOMAIN s PROVE s[j][1] \in {Head(s)[1]} \cup PendingOf(k)
    BY <1>6, <1>7, <2>1
  <2>3. ASSUME NEW i \in DOMAIN t PROVE t[i][1] \in PendingOf(h)
    BY <1>7, <2>1
  <2>4. Head(s)[1] \in PendingOf(h)
    BY <1>6, <2>1
  <2> QED
    BY <2>1, <2>2, <2>3, <2>4
<1>10. k.at \in {"clear", "rows", "end"} /\ (k.at = "clear" <=> k.lists # <<>>)
  BY <1>1, <1>2, <1>4, <1>5, <1>6 DEF After
<1>11. \A i \in DOMAIN k.lists : k.lists[i][1] \in Dropped(k) => k.lists[i][2] = {}
  <2>1. \A j \in DOMAIN s : s[j][1] \in Dropped(h) => s[j][2] = {}
    BY <1>4 DEF Modelling
  <2> QED
    BY <1>2, <1>4, <1>5, <1>7, <1>8, <2>1
<1>12. Head(s)[1] \in Dropped(h) => Head(s)[2] = {}
  BY <1>4, <1>6 DEF Modelling
<1>13. Modelling(k)
  BY <1>1, <1>2, <1>4, <1>5, <1>6, <1>8, <1>10, <1>11 DEF Modelling
<1> QED
  BY <1>4, <1>6, <1>8, <1>9, <1>10, <1>12, <1>13

\* The rows that are left of the model whose list is written, and the new ones.
Remaining(n) == grants \ (IF mvcc THEN doing[n].snap ELSE GrantsOf(Target(n)))
Entered(n) == {<<Target(n), e[1], e[2]>> : e \in Head(doing[n].lists)[2]}
Refused(n) == Entered(n) \cap Remaining(n) # {}

\* The handler goes on to its next list.
LEMMA FillMoves ==
    ASSUME NEW n \in Nodes, Fill(n), ~Refused(n), NEW h, h = doing[n]
    PROVE  Moves(n, [h EXCEPT !.at = After(h), !.lists = Tail(h.lists), !.snap = {}, !.clean = TRUE])
BY DEF Fill, Refused, Entered, Remaining, Target, Do, Moves

\* A list that is written replaces what the deletion saw, and what is left of
\* other models stays.
LEMMA FillEffect ==
    ASSUME ModelsInv, NEW n \in Nodes, Fill(n), ~Refused(n),
           NEW h, h = doing[n], NEW m, m = Target(n), NEW list, list = Head(h.lists)[2]
    PROVE  /\ Modelling(h) /\ h.at = "fill" /\ m \in ModelIds /\ list \in SUBSET Grant
           /\ UNCHANGED <<mvcc, models>>
           /\ want' = [want EXCEPT ![m] = list]
           /\ muddled' = IF h.clean THEN muddled \ {m} ELSE muddled \cup {m}
           /\ raced' = raced \cup Races(n, {m})
           /\ RowsInv'
           /\ \A o : o # m => GrantsOf(o)' = GrantsOf(o) /\ ListOf(o)' = ListOf(o)
           /\ ~mvcc \/ h.snap = GrantsOf(m) =>
                 ListOf(m)' = list /\ (list = {} => GrantsOf(m)' = {})
<1>1. Modelling(h) /\ h.at = "fill"
  <2>1. Handling(h) /\ h.at = "fill"
    BY DEF ModelsInv, HandlersInv, Fill
  <2> QED
    BY <2>1 DEF Handling, Elsewhere
<1>2. m \in ModelIds /\ list \in SUBSET Grant
  <2>1. h.lists \in Seq(ModelIds \X SUBSET Grant) /\ h.lists # <<>>
    BY <1>1 DEF Modelling
  <2>2. Head(h.lists) \in ModelIds \X SUBSET Grant
    BY <2>1
  <2> QED
    BY <2>2 DEF Target
<1>3. PICK rest : rest = Remaining(n)
  OBVIOUS
<1>4. PICK new : new = {<<m, e[1], e[2]>> : e \in list}
  OBVIOUS
<1>5. new = Entered(n) /\ new \cap rest = {}
  BY <1>3, <1>4 DEF Entered, Refused
<1>6. rest = grants \ (IF mvcc THEN h.snap ELSE GrantsOf(m))
  BY <1>3 DEF Remaining
<1>7. /\ grants' = rest \cup new
      /\ want' = [want EXCEPT ![m] = list]
      /\ muddled' = IF h.clean THEN muddled \ {m} ELSE muddled \cup {m}
      /\ raced' = raced \cup Races(n, {m})
  <2>1. grants' = rest \cup new
    BY <1>4, <1>5, <1>6 DEF Fill, Target
  <2>2. want' = [want EXCEPT ![m] = list]
    BY <1>4, <1>5, <1>6 DEF Fill, Target
  <2>3. muddled' = IF h.clean THEN muddled \ {m} ELSE muddled \cup {m}
    BY <1>4, <1>5, <1>6 DEF Fill, Target
  <2>4. raced' = raced \cup Races(n, {m})
    BY <1>4, <1>5, <1>6 DEF Fill, Target
  <2> QED
    BY <2>1, <2>2, <2>3, <2>4
<1>8. UNCHANGED <<mvcc, models>>
  BY DEF Fill
<1>10. \A e \in list : e = <<e[1], e[2]>> /\ e \in Grant
  BY <1>2 DEF Grant
<1>11. RowsInv'
  <2>1. \A r \in rest : r = <<r[1], r[2], r[3]>> /\ <<r[2], r[3]>> \in Grant
    BY <1>6 DEF ModelsInv, RowsInv
  <2>2. \A r \in new : r = <<r[1], r[2], r[3]>> /\ <<r[2], r[3]>> \in Grant
    BY <1>4, <1>10
  <2>3. want' \in [ModelIds -> SUBSET Grant]
    BY <1>2, <1>7 DEF ModelsInv, RowsInv
  <2> QED
    BY <1>7, <1>8, <2>1, <2>2, <2>3 DEF ModelsInv, RowsInv
<1>12. \A r \in new : r[1] = m
  BY <1>4
<1>13. \A r \in grants \ rest : r[1] = m
  <2>1. \A r \in h.snap : r[1] = m
    BY <1>1 DEF Modelling, Target
  <2> QED
    BY <1>6, <2>1 DEF GrantsOf
<1>14. ASSUME NEW o, o # m PROVE GrantsOf(o)' = GrantsOf(o) /\ ListOf(o)' = ListOf(o)
  <2>1. {r \in rest \cup new : r[1] = o} = {r \in grants : r[1] = o}
    BY <1>6, <1>12, <1>13, <1>14
  <2>2. GrantsOf(o)' = GrantsOf(o)
    BY <1>7, <2>1 DEF GrantsOf
  <2> QED
    BY <2>2 DEF ListOf
<1>15. ASSUME ~mvcc \/ h.snap = GrantsOf(m)
       PROVE  ListOf(m)' = list /\ (list = {} => GrantsOf(m)' = {})
  <2>1. {r \in rest \cup new : r[1] = m} = new
    BY <1>6, <1>12, <1>15 DEF GrantsOf
  <2>2. GrantsOf(m)' = new
    BY <1>7, <2>1 DEF GrantsOf
  <2>3. ListOf(m)' = {<<r[2], r[3]>> : r \in new}
    BY <2>2 DEF ListOf
  <2>4. \A e \in list : <<m, e[1], e[2]>> \in new /\ <<e[1], e[2]>> = e
    BY <1>4, <1>10
  <2>5. \A r \in new : \E e \in list : r[2] = e[1] /\ r[3] = e[2] /\ <<r[2], r[3]>> = e
    BY <1>4, <1>10
  <2>6. {<<r[2], r[3]>> : r \in new} = list
    <3>1. ASSUME NEW e \in list PROVE e \in {<<r[2], r[3]>> : r \in new}
      <4>1. <<m, e[1], e[2]>> \in new /\ <<e[1], e[2]>> = e
        BY <2>4
      <4>2. PICK r : r = <<m, e[1], e[2]>>
        OBVIOUS
      <4>3. r \in new /\ <<r[2], r[3]>> = e
        BY <4>1, <4>2
      <4> QED
        BY <4>3
    <3>2. ASSUME NEW r \in new PROVE <<r[2], r[3]>> \in list
      BY <2>5
    <3> QED
      BY <3>1, <3>2
  <2>7. list = {} => new = {}
    BY <1>4
  <2> QED
    BY <2>2, <2>3, <2>6, <2>7
<1> QED
  BY <1>1, <1>2, <1>7, <1>8, <1>11, <1>14, <1>15

LEMMA FillStep ==
    ASSUME ModelsInv, NEW n \in Nodes, Fill(n)
    PROVE  ModelsInv'
<1>1. CASE Refused(n)
  <2>1. Moves(n, Free) /\ UNCHANGED <<mvcc, models, grants, want, muddled>>
    BY <1>1 DEF Fill, Refused, Entered, Remaining, Target, Do, Moves
  <2>2. raced' = raced \cup doing[n].create
    BY <1>1 DEF Fill, Refused, Entered, Remaining, Target
  <2>3. Brings(doing[n]) \subseteq raced'
    BY <2>2, BringsFew DEF ModelsInv
  <2> QED
    BY <2>1, <2>2, <2>3, GivesUp
<1>2. CASE ~Refused(n)
  <2>1. PICK h, m, list : h = doing[n] /\ m = Target(n) /\ list = Head(h.lists)[2]
    OBVIOUS
  <2>2. /\ Modelling(h) /\ h.at = "fill" /\ m \in ModelIds /\ list \in SUBSET Grant
        /\ UNCHANGED <<mvcc, models>>
        /\ want' = [want EXCEPT ![m] = list]
        /\ muddled' = IF h.clean THEN muddled \ {m} ELSE muddled \cup {m}
        /\ raced' = raced \cup Races(n, {m})
        /\ RowsInv'
        /\ \A o : o # m => GrantsOf(o)' = GrantsOf(o) /\ ListOf(o)' = ListOf(o)
        /\ ~mvcc \/ h.snap = GrantsOf(m) =>
              ListOf(m)' = list /\ (list = {} => GrantsOf(m)' = {})
    BY <1>2, <2>1, FillEffect
  <2>3. PICK at : at = After(h)
    OBVIOUS
  <2>4. PICK k : k = [h EXCEPT !.at = at, !.lists = Tail(h.lists), !.snap = {}, !.clean = TRUE]
    OBVIOUS
  <2>5. Moves(n, k)
    BY <1>2, <2>1, <2>3, <2>4, FillMoves
  <2>6. /\ Modelling(k) /\ k.at \notin {"fill", "insert"}
        /\ Dropped(k) = Dropped(h) /\ Brings(k) = Brings(h)
        /\ PendingOf(h) = {m} \cup PendingOf(k)
        /\ m \in Dropped(h) => list = {}
    BY <2>1, <2>2, <2>3, <2>4, Shortened DEF Target
  <2>7. \A o \in Nodes : doing'[o] = IF o = n THEN k ELSE doing[o]
    BY <2>5, Moved DEF ModelsInv
  <2>8. HandlersInv'
    BY <2>5, <2>6, HandlersMoved DEF ModelsInv, Handling
  <2>9. \A o \in Nodes : Filling(o)' => o # n /\ Filling(o) /\ doing'[o] = doing[o]
    BY <2>6, <2>7 DEF Filling
  <2>10. \A o \in Nodes : Filling(o)' => Target(o)' = Target(o)
    BY <2>9 DEF Target
  <2>11. Filling(n) /\ m = Target(n)
    BY <2>1, <2>2 DEF Filling
  <2>12. \A o \in Nodes : Brings(doing'[o]) = Brings(doing[o]) /\ Dropped(doing'[o]) = Dropped(doing[o])
    BY <2>1, <2>6, <2>7
  <2>13. \A o : Syncing(o)' = Syncing(o) /\ Exists(o)' = Exists(o)
    BY <2>2, <2>12 DEF Syncing, Brings, Exists
  <2>14. \A o \in Nodes \ {n} : m \in Dropped(doing[o]) => m \in raced'
    BY <2>2 DEF Races, Dropping
  <2>15. Overlaps'
    BY <2>2, <2>9, <2>10 DEF ModelsInv, WritingInv, Overlaps
  <2>16. Sees'
    <3> SUFFICES ASSUME mvcc, NEW o \in Nodes, Filling(o)', doing'[o].clean
                 PROVE  doing'[o].snap = GrantsOf(Target(o))'
      BY <2>2 DEF Sees
    <3>1. PICK t : t = Target(o)
      OBVIOUS
    <3>2. doing[o].snap = GrantsOf(t) /\ t # m
      BY <2>9, <2>11, <3>1 DEF ModelsInv, WritingInv, Sees, Overlaps
    <3>3. Target(o)' = t
      BY <2>10, <3>1
    <3>4. GrantsOf(Target(o))' = {r \in grants' : r[1] = t}
      BY <3>3 DEF GrantsOf
    <3>5. GrantsOf(t)' = {r \in grants' : r[1] = t}
      BY DEF GrantsOf
    <3> QED
      BY <2>2, <2>9, <3>2, <3>4, <3>5
  <2>17. Written'
    <3> SUFFICES ASSUME NEW o \in ModelIds \ muddled' PROVE ListOf(o)' = want'[o]
      BY DEF Written
    <3>1. want \in [ModelIds -> SUBSET Grant]
      BY DEF ModelsInv, RowsInv
    <3>2. CASE o = m
      <4>1. h.clean
        BY <2>2, <3>2
      <4>2. ~mvcc \/ h.snap = GrantsOf(m)
        BY <2>1, <2>11, <4>1 DEF ModelsInv, WritingInv, Sees
      <4> QED
        BY <2>2, <3>1, <3>2, <4>2
    <3>3. CASE o # m
      <4>1. o \in ModelIds \ muddled
        BY <2>2, <3>3
      <4>2. ListOf(o) = want[o]
        BY <4>1 DEF ModelsInv, WritingInv, Written
      <4> QED
        BY <2>2, <3>1, <3>3, <4>2
    <3> QED
      BY <3>2, <3>3
  <2>18. SeesDropped'
    <3> SUFFICES ASSUME mvcc, NEW o \in Nodes, Filling(o)', Target(o)' \in Dropped(doing'[o]) \ raced'
                 PROVE  doing'[o].snap = GrantsOf(Target(o))'
      BY <2>2 DEF SeesDropped, Dropped
    <3>1. PICK t : t = Target(o)
      OBVIOUS
    <3>2. Target(o)' = t /\ t \in Dropped(doing[o]) /\ t \notin raced'
      BY <2>10, <2>12, <3>1
    <3>3. t # m /\ t \notin raced
      BY <2>2, <2>9, <2>14, <3>2
    <3>4. doing[o].snap = GrantsOf(t)
      BY <2>9, <3>1, <3>2, <3>3 DEF ModelsInv, OrphanInv, SeesDropped
    <3>5. GrantsOf(Target(o))' = {r \in grants' : r[1] = t}
      BY <3>2 DEF GrantsOf
    <3>6. GrantsOf(t)' = {r \in grants' : r[1] = t}
      BY DEF GrantsOf
    <3> QED
      BY <2>2, <2>9, <3>3, <3>4, <3>5, <3>6
  <2>19. PendingHaveRows'
    <3> SUFFICES ASSUME NEW o \in Nodes, NEW i \in PendingOf(doing'[o]) \ raced'
                 PROVE  Exists(i)' \/ i \in Brings(doing'[o]) \/ doing'[o].at = "insert"
      BY DEF PendingHaveRows, PendingOf, Brings
    <3>1. i \in PendingOf(doing[o])
      BY <2>1, <2>6, <2>7
    <3>2. Exists(i) \/ i \in Brings(doing[o]) \/ doing[o].at = "insert"
      BY <2>2, <3>1 DEF ModelsInv, OrphanInv, PendingHaveRows
    <3>3. o = n => doing[o].at # "insert"
      BY <2>1, <2>2
    <3> QED
      BY <2>7, <2>12, <2>13, <3>2, <3>3
  <2>20. DroppedAreCleared'
    <3> SUFFICES ASSUME NEW o \in Nodes,
                        NEW i \in Dropped(doing'[o]) \ (raced' \cup PendingOf(doing'[o]))
                 PROVE  GrantsOf(i)' = {} \/ Syncing(i)' # {}
      BY DEF DroppedAreCleared, Dropped, PendingOf
    <3>1. i \in Dropped(doing[o]) /\ i \notin raced
      BY <2>2, <2>12
    <3>2. CASE i = m
      <4>1. o = n
        BY <2>14, <3>1, <3>2
      <4>2. ~mvcc \/ h.snap = GrantsOf(m)
        BY <2>1, <2>11, <3>1, <3>2, <4>1 DEF ModelsInv, OrphanInv, SeesDropped
      <4>3. list = {}
        BY <2>1, <2>6, <3>1, <3>2, <4>1
      <4> QED
        BY <2>2, <3>2, <4>2, <4>3
    <3>3. CASE i # m
      <4>1. i \notin PendingOf(doing[o])
        BY <2>1, <2>6, <2>7, <3>3
      <4>2. GrantsOf(i) = {} \/ Syncing(i) # {}
        BY <3>1, <4>1 DEF ModelsInv, OrphanInv, DroppedAreCleared
      <4> QED
        BY <2>2, <2>13, <3>3, <4>2
    <3> QED
      BY <3>2, <3>3
  <2>21. OrphansAreSynced'
    <3> SUFFICES ASSUME NEW i \in ModelIds \ raced', ~Exists(i)'
                 PROVE  GrantsOf(i)' = {} \/ Syncing(i)' # {}
      BY DEF OrphansAreSynced
    <3>1. i \notin raced /\ ~Exists(i)
      BY <2>2, <2>13
    <3>2. CASE i = m
      <4>1. m \in Brings(doing[n])
        BY <2>1, <2>2, <2>6, <3>1, <3>2 DEF ModelsInv, OrphanInv, PendingHaveRows
      <4>2. n \in Syncing(m)
        BY <4>1 DEF Syncing
      <4> QED
        BY <2>13, <3>2, <4>2
    <3>3. CASE i # m
      BY <2>2, <2>13, <3>1, <3>3 DEF ModelsInv, OrphanInv, OrphansAreSynced
    <3> QED
      BY <3>2, <3>3
  <2> QED
    BY <2>2, <2>8, <2>15, <2>16, <2>17, <2>18, <2>19, <2>20, <2>21
       DEF ModelsInv, WritingInv, OrphanInv
<1> QED
  BY <1>1, <1>2

LEMMA Numbered ==
    ASSUME NEW S, IsFiniteSet(S), NEW q, q = SetToSeq(S)
    PROVE  /\ q \in Seq(S) /\ (q = <<>> <=> S = {})
           /\ \A x \in S : \E i \in DOMAIN q : q[i] = x
<1>1. PICK c : c = Cardinality(S)
  OBVIOUS
<1>2. c \in Nat /\ ExistsBijection(1..c, S)
  BY <1>1, FS_CardinalityType
<1>3. \E f \in [1..c -> S] : IsInjective(f)
  BY <1>2 DEF ExistsBijection, Bijection, Injection
<1>4. q \in [1..c -> S] /\ IsInjective(q)
  BY <1>1, <1>3 DEF SetToSeq
<1>5. q \in Injection(1..c, S)
  BY <1>4 DEF Injection
<1>6. IsFiniteSet(1..c) /\ Cardinality(1..c) = c
  BY <1>2, FS_Interval
<1>7. q \in Surjection(1..c, S)
  BY <1>1, <1>5, <1>6, FS_Injection
<1>8. \A x \in S : \E i \in DOMAIN q : q[i] = x
  BY <1>4, <1>7 DEF Surjection
<1>9. q \in Seq(S) /\ Len(q) = c
  BY <1>2, <1>4
<1>10. q = <<>> <=> S = {}
  <2>1. q = <<>> => DOMAIN q = {}
    OBVIOUS
  <2>2. S = {} => c = 0
    BY <1>1, FS_EmptySet
  <2>3. c = 0 => q = <<>>
    BY <1>9
  <2> QED
    BY <1>8, <2>1, <2>2, <2>3
<1> QED
  BY <1>8, <1>9, <1>10

\* The empty list for every model of a set.
EmptyLists(S) == [i \in DOMAIN SetToSeq(S) |-> <<SetToSeq(S)[i], {}>>]

LEMMA Emptied ==
    ASSUME NEW S \in SUBSET ModelIds, NEW l, l = EmptyLists(S)
    PROVE  /\ l \in Seq(ModelIds \X SUBSET Grant) /\ (l = <<>> <=> S = {})
           /\ \A i \in DOMAIN l : l[i][1] \in S /\ l[i][2] = {}
           /\ \A m \in S : \E i \in DOMAIN l : l[i][1] = m
<1>1. PICK q : q = SetToSeq(S)
  OBVIOUS
<1>2. IsFiniteSet(S)
  BY SharingAssumption, FS_Subset
<1>3. q \in Seq(S) /\ (q = <<>> <=> S = {})
  BY <1>1, <1>2, Numbered
<1>4. \A x \in S : \E i \in DOMAIN q : q[i] = x
  BY <1>1, <1>2, Numbered
<1>5. l = [i \in 1..Len(q) |-> <<q[i], {}>>] /\ Len(q) \in Nat /\ DOMAIN q = 1..Len(q)
  BY <1>1, <1>3 DEF EmptyLists
<1>6. \A i \in 1..Len(q) : q[i] \in S /\ l[i] = <<q[i], {}>>
  BY <1>3, <1>5
<1>7. l \in Seq(ModelIds \X SUBSET Grant) /\ Len(l) = Len(q)
  BY <1>5, <1>6
<1>8. l = <<>> <=> q = <<>>
  BY <1>3, <1>7
<1> QED
  BY <1>3, <1>4, <1>5, <1>6, <1>7, <1>8

\* A handler that begins with a model of its own, or with all of them.
Beginning(op, u, m, at, lists) ==
    /\ op \in {"create", "update", "share", "delete", "deleteAll"} /\ u \in Users
    /\ at \in {"insert", "row", "clear", "rows"} /\ lists \in Seq(ModelIds \X SUBSET Grant)
    /\ at = "rows" <=> lists = <<>>
    /\ at = "insert" => op \in {"create", "share"} /\ m \in ModelIds
                        /\ \A i \in DOMAIN lists : lists[i][1] = m
    /\ op = "delete" => m \in ModelIds
    /\ op \in {"delete", "deleteAll"} => \A i \in DOMAIN lists : lists[i][2] = {}

DroppedBy(op, m) == IF op = "delete" THEN {m} ELSE IF op = "deleteAll" THEN ModelIds ELSE {}

LEMMA HandlerModels ==
    ASSUME NEW op, NEW u, NEW m, NEW at, NEW lists, Beginning(op, u, m, at, lists),
           NEW k, k = Handler(op, u, m, at, lists)
    PROVE  /\ Modelling(k) /\ k.at = at /\ Brings(k) = {} /\ k.lists = lists
           /\ Dropped(k) = DroppedBy(op, m)
<1>a. PICK f : f = Free
  OBVIOUS
<1>b. DOMAIN f = {"op", "user", "model", "at", "lists", "snap", "clean", "known",
                  "create", "leave", "join", "adds"}
  BY <1>a DEF Free
<1>1. DOMAIN k = Fields /\ k.op = op /\ k.user = u /\ k.model = m /\ k.at = at /\ k.lists = lists
  BY <1>a, <1>b DEF Handler, Fields
<1>2. k.clean = TRUE
  BY <1>a, <1>b DEF Handler, Free
<1>3. k.snap = {} /\ k.create = {} /\ k.leave = {}
  BY <1>a, <1>b DEF Handler, Free
<1>4. Dropped(k) = DroppedBy(op, m)
  BY <1>1 DEF Dropped, DroppedBy, Beginning
<1>5. Brings(k) = {}
  BY <1>1 DEF Brings, Beginning
<1>6. at = "insert" => PendingOf(k) = {m}
  <2> SUFFICES ASSUME at = "insert" PROVE PendingOf(k) = {m}
    OBVIOUS
  <2>1. 1 \in DOMAIN lists
    BY DEF Beginning
  <2> QED
    BY <1>1, <2>1 DEF PendingOf, Beginning
<1>7. \A i \in DOMAIN k.lists : k.lists[i][1] \in Dropped(k) => k.lists[i][2] = {}
  BY <1>1, <1>4 DEF DroppedBy, Beginning
<1>8. Modelling(k)
  <2>1. Dropped(k) \subseteq ModelIds
    BY <1>4 DEF DroppedBy, Beginning
  <2> QED
    BY <1>1, <1>2, <1>3, <1>6, <1>7, <2>1 DEF Modelling, Beginning
<1> QED
  BY <1>1, <1>4, <1>5, <1>8

LEMMA Single ==
    ASSUME NEW m \in ModelIds, NEW list \in SUBSET Grant, NEW l, l = <<<<m, list>>>>
    PROVE  l \in Seq(ModelIds \X SUBSET Grant) /\ l # <<>>
           /\ \A i \in DOMAIN l : l[i][1] = m /\ l[i][2] = list
OBVIOUS

LEMMA ListsAreGrants ==
    ASSUME RowsInv
    PROVE  \A m : ListOf(m) \in SUBSET Grant
BY DEF RowsInv, ListOf, GrantsOf

\* The handlers that write the grants of one model.
LEMMA CreateStep ==
    ASSUME ModelsInv, NEW n \in Nodes, NEW u \in Users, NEW m \in ModelIds, NEW list \in Lists,
           Create(n, u, m, list)
    PROVE  ModelsInv'
<1>1. list \in SUBSET Grant
  BY SharingAssumption
<1>2. PICK op, at, l : op = "create" /\ at = "insert" /\ l = <<<<m, list>>>>
  OBVIOUS
<1>3. PICK k : k = Handler(op, u, m, at, l)
  OBVIOUS
<1>4. l \in Seq(ModelIds \X SUBSET Grant) /\ l # <<>> /\ \A i \in DOMAIN l : l[i][1] = m
  BY <1>1, <1>2, Single
<1>5. Beginning(op, u, m, at, l) /\ DroppedBy(op, m) = {}
  BY <1>2, <1>4 DEF Beginning, DroppedBy
<1>6. Modelling(k) /\ k.at = at /\ Dropped(k) = {}
  BY <1>3, <1>5, HandlerModels
<1>7. Begin(n, k) /\ UNCHANGED <<tables, history>>
  BY <1>2, <1>3 DEF Create
<1> QED
  BY <1>2, <1>6, <1>7, Starts

LEMMA UpdateStep ==
    ASSUME ModelsInv, NEW n \in Nodes, NEW u \in Users, NEW m \in ModelIds,
           \/ \E list \in Lists : Update(n, u, m, list)
           \/ Import(n, u, m)
    PROVE  ModelsInv'
<1>1. PICK list \in SUBSET Grant :
        Exists(m) /\ Begin(n, Handler("update", u, m, "row", <<<<m, list>>>>)) /\ UNCHANGED <<tables, history>>
  <2>1. ListOf(m) \in SUBSET Grant /\ Lists \subseteq SUBSET Grant
    BY SharingAssumption, ListsAreGrants DEF ModelsInv
  <2>2. CASE Import(n, u, m)
    BY <2>1, <2>2 DEF Import
  <2>3. CASE \E list \in Lists : Update(n, u, m, list)
    BY <2>1, <2>3 DEF Update
  <2> QED
    BY <2>2, <2>3
<1>2. PICK op, at, l : op = "update" /\ at = "row" /\ l = <<<<m, list>>>>
  OBVIOUS
<1>3. PICK k : k = Handler(op, u, m, at, l)
  OBVIOUS
<1>4. l \in Seq(ModelIds \X SUBSET Grant) /\ l # <<>> /\ \A i \in DOMAIN l : l[i][1] = m
  BY <1>2, Single
<1>5. Beginning(op, u, m, at, l) /\ DroppedBy(op, m) = {}
  BY <1>2, <1>4 DEF Beginning, DroppedBy
<1>6. Modelling(k) /\ k.at = at /\ Dropped(k) = {} /\ k.lists = l
  BY <1>3, <1>5, HandlerModels
<1>7. \A i \in PendingOf(k) : Exists(i)
  BY <1>1, <1>4, <1>6 DEF PendingOf
<1>8. Begin(n, k)
  BY <1>1, <1>2, <1>3
<1> QED
  BY <1>1, <1>2, <1>6, <1>7, <1>8, Starts

LEMMA ShareStep ==
    ASSUME ModelsInv, NEW n \in Nodes, NEW u \in Users, NEW m \in ModelIds, NEW list \in Lists,
           Share(n, u, m, list)
    PROVE  ModelsInv'
<1>1. list \in SUBSET Grant
  BY SharingAssumption
<1>2. PICK op : op = "share"
  OBVIOUS
<1>3. CASE Exists(m)
  <2>1. PICK at, l : at = "clear" /\ l = <<<<m, list>>>>
    OBVIOUS
  <2>2. PICK k : k = Handler(op, u, m, at, l)
    OBVIOUS
  <2>3. l \in Seq(ModelIds \X SUBSET Grant) /\ l # <<>> /\ \A i \in DOMAIN l : l[i][1] = m
    BY <1>1, <2>1, Single
  <2>4. Beginning(op, u, m, at, l) /\ DroppedBy(op, m) = {}
    BY <1>2, <2>1, <2>3 DEF Beginning, DroppedBy
  <2>5. Modelling(k) /\ k.at = at /\ Dropped(k) = {} /\ k.lists = l
    BY <2>2, <2>4, HandlerModels
  <2>6. \A i \in PendingOf(k) : Exists(i)
    BY <1>3, <2>3, <2>5 DEF PendingOf
  <2>7. Begin(n, k) /\ UNCHANGED <<tables, history>>
    BY <1>2, <1>3, <2>1, <2>2 DEF Share
  <2> QED
    BY <2>1, <2>5, <2>6, <2>7, Starts
<1>4. CASE ~Exists(m)
  <2>1. PICK at, l : at = "insert" /\ l = <<<<m, {}>>, <<m, list>>>>
    OBVIOUS
  <2>2. PICK k : k = Handler(op, u, m, at, l)
    OBVIOUS
  <2>3. l \in Seq(ModelIds \X SUBSET Grant) /\ l # <<>> /\ \A i \in DOMAIN l : l[i][1] = m
    BY <1>1, <2>1
  <2>4. Beginning(op, u, m, at, l) /\ DroppedBy(op, m) = {}
    BY <1>2, <2>1, <2>3 DEF Beginning, DroppedBy
  <2>5. Modelling(k) /\ k.at = at /\ Dropped(k) = {}
    BY <2>2, <2>4, HandlerModels
  <2>6. Begin(n, k) /\ UNCHANGED <<tables, history>>
    BY <1>2, <1>4, <2>1, <2>2 DEF Share
  <2> QED
    BY <2>1, <2>5, <2>6, Starts
<1> QED
  BY <1>3, <1>4

LEMMA DeleteStep ==
    ASSUME ModelsInv, NEW n \in Nodes, NEW u \in Users, NEW m \in ModelIds, Delete(n, u, m)
    PROVE  ModelsInv'
<1>1. PICK op, at, l : op = "delete" /\ at = "clear" /\ l = <<<<m, {}>>>>
  OBVIOUS
<1>2. PICK k : k = Handler(op, u, m, at, l)
  OBVIOUS
<1>3. /\ l \in Seq(ModelIds \X SUBSET Grant) /\ l # <<>>
      /\ \A i \in DOMAIN l : l[i][1] = m /\ l[i][2] = {}
  BY <1>1, Single
<1>4. Beginning(op, u, m, at, l) /\ DroppedBy(op, m) = {m}
  BY <1>1, <1>3 DEF Beginning, DroppedBy
<1>5. Modelling(k) /\ k.at = at /\ Dropped(k) = {m} /\ k.lists = l
  BY <1>2, <1>4, HandlerModels
<1>6. PendingOf(k) = {m}
  <2>1. 1 \in DOMAIN l
    BY <1>3
  <2> QED
    BY <1>3, <1>5, <2>1 DEF PendingOf
<1>7. Exists(m) /\ Begin(n, k) /\ UNCHANGED <<tables, history>>
  BY <1>1, <1>2 DEF Delete
<1> QED
  BY <1>1, <1>5, <1>6, <1>7, Starts

LEMMA DeleteAllStep ==
    ASSUME ModelsInv, NEW n \in Nodes, NEW u \in Users, DeleteAll(n, u)
    PROVE  ModelsInv'
<1>1. PICK all : all = {m \in ModelIds : Exists(m)}
  OBVIOUS
<1>2. PICK l : l = EmptyLists(all)
  OBVIOUS
<1>3. PICK op, at : op = "deleteAll" /\ at = IF all = {} THEN "rows" ELSE "clear"
  OBVIOUS
<1>4. PICK k : k = Handler(op, u, Nobody, at, l)
  OBVIOUS
<1>5. Begin(n, k) /\ UNCHANGED <<tables, history>>
  BY <1>1, <1>2, <1>3, <1>4 DEF DeleteAll, EmptyLists
<1>6. /\ l \in Seq(ModelIds \X SUBSET Grant) /\ (l = <<>> <=> all = {})
      /\ \A i \in DOMAIN l : l[i][1] \in all /\ l[i][2] = {}
      /\ \A m \in all : \E i \in DOMAIN l : l[i][1] = m
  <2>1. all \in SUBSET ModelIds
    BY <1>1
  <2> QED
    BY <1>2, <2>1, Emptied
<1>7. at # "fill" /\ at # "insert" /\ (at = "rows" <=> l = <<>>)
  BY <1>3, <1>6
<1>8. Beginning(op, u, Nobody, at, l) /\ DroppedBy(op, Nobody) = ModelIds
  BY <1>3, <1>6, <1>7 DEF Beginning, DroppedBy
<1>9. Modelling(k) /\ k.at = at /\ Dropped(k) = ModelIds /\ k.lists = l
  BY <1>4, <1>8, HandlerModels
<1>10. PendingOf(k) = all
  BY <1>6, <1>9 DEF PendingOf
<1> QED
  BY <1>1, <1>5, <1>7, <1>9, <1>10, Starts

Together(s, t) == s \o t

LEMMA Joined ==
    ASSUME NEW S, NEW s \in Seq(S), NEW t \in Seq(S), NEW r, r = Together(s, t)
    PROVE  r \in Seq(S) /\ Range(r) = Range(s) \cup Range(t)
<1>1. /\ Len(s) \in Nat /\ DOMAIN s = 1..Len(s)
      /\ Len(t) \in Nat /\ DOMAIN t = 1..Len(t)
  OBVIOUS
<1>2. r \in Seq(S) /\ Len(r) = Len(s) + Len(t) /\ DOMAIN r = 1..(Len(s) + Len(t))
  BY <1>1 DEF Together
<1>3. \A i \in 1..(Len(s) + Len(t)) : r[i] = IF i <= Len(s) THEN s[i] ELSE t[i - Len(s)]
  BY <1>1 DEF Together
<1>4. ASSUME NEW i \in DOMAIN r PROVE r[i] \in Range(s) \cup Range(t)
  <2>1. CASE i <= Len(s)
    BY <1>1, <1>2, <1>3, <2>1 DEF Range
  <2>2. CASE ~(i <= Len(s))
    <3>1. i - Len(s) \in DOMAIN t
      BY <1>1, <1>2, <2>2
    <3> QED
      BY <1>2, <1>3, <2>2, <3>1 DEF Range
  <2> QED
    BY <2>1, <2>2
<1>5. ASSUME NEW j \in DOMAIN s PROVE s[j] \in Range(r)
  <2>1. j \in DOMAIN r /\ j <= Len(s)
    BY <1>1, <1>2
  <2> QED
    BY <1>2, <1>3, <2>1 DEF Range
<1>6. ASSUME NEW j \in DOMAIN t PROVE t[j] \in Range(r)
  <2>1. PICK i : i = Len(s) + j
    OBVIOUS
  <2>2. i \in DOMAIN r /\ ~(i <= Len(s)) /\ i - Len(s) = j
    BY <1>1, <1>2, <2>1
  <2> QED
    BY <1>2, <1>3, <2>2 DEF Range
<1>7. Range(r) \subseteq Range(s) \cup Range(t)
  BY <1>4 DEF Range
<1>8. Range(s) \subseteq Range(r) /\ Range(t) \subseteq Range(r)
  BY <1>5, <1>6 DEF Range
<1> QED
  BY <1>2, <1>7, <1>8

LEMMA Prefix ==
    ASSUME NEW S, NEW s \in Seq(S), NEW i \in DOMAIN s, NEW t, t = SubSeq(s, 1, i - 1)
    PROVE  /\ t \in Seq(S)
           /\ \A j \in DOMAIN t : j \in DOMAIN s /\ j \in 1..i /\ j # i /\ t[j] = s[j]
<1>1. Len(s) \in Nat /\ DOMAIN s = 1..Len(s) /\ i \in 1..Len(s)
  OBVIOUS
<1>2. t = [j \in 1..(i - 1) |-> s[j]]
  BY <1>1
<1>3. t \in Seq(S) /\ DOMAIN t = 1..(i - 1)
  BY <1>1, <1>2
<1>4. ASSUME NEW j \in 1..(i - 1) PROVE j \in DOMAIN s /\ j \in 1..i /\ j # i /\ t[j] = s[j]
  BY <1>1, <1>2
<1> QED
  BY <1>3, <1>4

\* What a sync is about to write: for every model sent and every other that has
\* a row, or on a locked database for some that are new.
SyncLists(last, all, ids, lists) ==
    /\ last \in {"rows", "locked"} /\ all \subseteq ModelIds /\ ids \subseteq ModelIds
    /\ lists \in Seq(ModelIds \X SUBSET Grant)
    /\ last = "rows" => /\ all \cup ids = {e[1] : e \in Range(lists)}
                        /\ \A e \in Range(lists) : e[1] \in all \ ids => e[2] = {}
    /\ last = "locked" => \A e \in Range(lists) : e[1] \in ids \ all

SyncAt(last, lists) == IF lists = <<>> THEN last ELSE "clear"

SyncHandler(last, u, all, ids, lists) ==
    [Handler(last, u, Nobody, SyncAt(last, lists), lists)
       EXCEPT !.known = all, !.create = ids \ all, !.leave = all \ ids]

LEMMA SyncModels ==
    ASSUME NEW u \in Users, NEW last, NEW all, NEW ids, NEW lists, SyncLists(last, all, ids, lists),
           NEW k, k = SyncHandler(last, u, all, ids, lists)
    PROVE  /\ Modelling(k) /\ k.at # "fill" /\ k.at # "insert"
           /\ Dropped(k) \subseteq PendingOf(k) /\ PendingOf(k) \subseteq all \cup Brings(k)
<1> DEFINE create == ids \ all
           leave == all \ ids
<1>c. PICK at, a : at = SyncAt(last, lists) /\ a = Handler(last, u, Nobody, at, lists)
  OBVIOUS
<1>d. k = [a EXCEPT !.known = all, !.create = create, !.leave = leave]
  BY <1>c DEF SyncHandler
<1>0. last \in {"rows", "locked"} /\ all \subseteq ModelIds /\ ids \subseteq ModelIds
  BY DEF SyncLists
<1>a. PICK f : f = Free
  OBVIOUS
<1>b. DOMAIN f = {"op", "user", "model", "at", "lists", "snap", "clean", "known",
                  "create", "leave", "join", "adds"}
  BY <1>a DEF Free
<1>1. /\ DOMAIN a = Fields /\ a.op = last /\ a.user = u /\ a.at = at /\ a.lists = lists
      /\ a.snap = {} /\ a.clean = TRUE
  <2>1. DOMAIN a = Fields /\ a.op = last /\ a.user = u /\ a.at = at /\ a.lists = lists
    BY <1>a, <1>b, <1>c DEF Handler, Fields
  <2>2. a.snap = {} /\ a.clean = TRUE
    BY <1>a, <1>b, <1>c DEF Handler, Free
  <2> QED
    BY <2>1, <2>2
<1>2. DOMAIN a = {"op", "user", "model", "at", "lists", "snap", "clean", "known",
                  "create", "leave", "join", "adds"}
  BY <1>1 DEF Fields
<1>3. DOMAIN k = Fields /\ k.op = last /\ k.user = u /\ k.at = at /\ k.lists = lists
  BY <1>1, <1>2, <1>d
<1>4. k.snap = {} /\ k.clean = TRUE
  BY <1>1, <1>2, <1>d
<1>5. k.create = create /\ k.leave = leave
  BY <1>1, <1>2, <1>d
<1>6. at \in {last, "clear"} /\ (at = "clear" <=> lists # <<>>)
  BY <1>0, <1>c DEF SyncAt
<1>7. PendingOf(k) = {e[1] : e \in Range(lists)}
  BY <1>3 DEF PendingOf, Range
<1>8. Brings(k) = ids \ all /\ Dropped(k) = IF last = "rows" THEN all \ ids ELSE {}
  BY <1>0, <1>3, <1>5 DEF Brings, Dropped
<1>9. PendingOf(k) \subseteq all \cup Brings(k) /\ Dropped(k) \subseteq PendingOf(k)
  BY <1>0, <1>7, <1>8 DEF SyncLists
<1>10. \A i \in DOMAIN lists : lists[i][1] \in Dropped(k) => lists[i][2] = {}
  BY <1>0, <1>8 DEF SyncLists, Range
<1>11. Modelling(k)
  <2>1. lists \in Seq(ModelIds \X SUBSET Grant)
    BY DEF SyncLists
  <2>2. Dropped(k) \subseteq ModelIds /\ create \subseteq ModelIds /\ create \cap leave = {}
    BY <1>0, <1>8
  <2> QED
    BY <1>0, <1>3, <1>4, <1>5, <1>6, <1>10, <2>1, <2>2 DEF Modelling
<1> QED
  BY <1>0, <1>3, <1>6, <1>9, <1>11

LEMMA SyncStep ==
    ASSUME ModelsInv, NEW n \in Nodes, NEW u \in Users, NEW sent \in Syncs, Sync(n, u, sent)
    PROVE  ModelsInv'
<1>1. PICK all, ids : /\ all = {m \in ModelIds : Exists(m)}
                      /\ ids = {sent[i][1] : i \in DOMAIN sent}
  OBVIOUS
<1>2. PICK gone : gone = EmptyLists(all \ ids)
  OBVIOUS
<1>3. PICK stops : stops = (~mvcc /\ ids \cap all # {})
  OBVIOUS
<1>4. PICK last : last = IF stops THEN "locked" ELSE "rows"
  OBVIOUS
<1>5. PICK before : before = {i \in DOMAIN sent : \A j \in 1..i : sent[j][1] \in all <=> j = i}
  OBVIOUS
<1>6. PICK lists :
        /\ lists \in IF stops THEN {SubSeq(sent, 1, i - 1) : i \in before} ELSE {sent \o gone}
        /\ Begin(n, [Handler(last, u, Nobody, IF lists = <<>> THEN last ELSE "clear", lists)
                       EXCEPT !.known = all, !.create = ids \ all, !.leave = all \ ids])
  BY <1>1, <1>2, <1>3, <1>4, <1>5 DEF Sync, EmptyLists
<1>7. UNCHANGED <<tables, history>>
  BY DEF Sync
<1>8. sent \in Seq(ModelIds \X SUBSET Grant)
  BY SharingAssumption
<1>9. \A i \in DOMAIN sent : sent[i] \in ModelIds \X SUBSET Grant /\ sent[i][1] \in ids
  BY <1>1, <1>8
<1>10. all \subseteq ModelIds /\ ids \subseteq ModelIds
  BY <1>1, <1>9
<1>11. SyncLists(last, all, ids, lists)
  <2>1. CASE stops
    <3>1. PICK i \in before : lists = SubSeq(sent, 1, i - 1)
      BY <1>6, <2>1
    <3>2. i \in DOMAIN sent /\ \A j \in 1..i : sent[j][1] \in all <=> j = i
      BY <1>5
    <3>3. /\ lists \in Seq(ModelIds \X SUBSET Grant)
          /\ \A j \in DOMAIN lists : j \in DOMAIN sent /\ j \in 1..i /\ j # i /\ lists[j] = sent[j]
      BY <1>8, <3>1, <3>2, Prefix
    <3>4. \A e \in Range(lists) : e[1] \in ids \ all
      BY <1>9, <3>2, <3>3 DEF Range
    <3> QED
      BY <1>4, <1>10, <2>1, <3>3, <3>4 DEF SyncLists
  <2>2. CASE ~stops
    <3>1. lists = Together(sent, gone)
      BY <1>6, <2>2 DEF Together
    <3>2. PICK left : left = all \ ids
      OBVIOUS
    <3>3. /\ gone \in Seq(ModelIds \X SUBSET Grant)
          /\ \A i \in DOMAIN gone : gone[i][1] \in left /\ gone[i][2] = {}
          /\ \A m \in left : \E i \in DOMAIN gone : gone[i][1] = m
      <4>1. left \in SUBSET ModelIds
        BY <1>10, <3>2
      <4>2. gone = EmptyLists(left)
        BY <1>2, <3>2
      <4> QED
        BY <4>1, <4>2, Emptied
    <3>4. lists \in Seq(ModelIds \X SUBSET Grant) /\ Range(lists) = Range(sent) \cup Range(gone)
      <4>1. PICK S : S = ModelIds \X SUBSET Grant
        OBVIOUS
      <4>2. sent \in Seq(S) /\ gone \in Seq(S)
        BY <1>8, <3>3, <4>1
      <4>3. lists \in Seq(S) /\ Range(lists) = Range(sent) \cup Range(gone)
        BY <3>1, <4>2, Joined
      <4> QED
        BY <4>1, <4>3
    <3>5. /\ ids = {e[1] : e \in Range(sent)} /\ left = {e[1] : e \in Range(gone)}
          /\ \A e \in Range(gone) : e[2] = {}
      BY <1>1, <3>3 DEF Range
    <3>6. all \cup ids = {e[1] : e \in Range(lists)}
      BY <3>2, <3>4, <3>5
    <3>7. \A e \in Range(lists) : e[1] \in all \ ids => e[2] = {}
      BY <3>4, <3>5
    <3> QED
      BY <1>4, <1>10, <2>2, <3>4, <3>6, <3>7 DEF SyncLists
  <2> QED
    BY <2>1, <2>2
<1>12. PICK k : k = SyncHandler(last, u, all, ids, lists)
  OBVIOUS
<1>13. Begin(n, k)
  BY <1>6, <1>12 DEF SyncHandler, SyncAt
<1>14. /\ Modelling(k) /\ k.at # "fill" /\ k.at # "insert"
       /\ Dropped(k) \subseteq PendingOf(k) /\ PendingOf(k) \subseteq all \cup Brings(k)
  BY <1>11, <1>12, SyncModels
<1>15. \A m \in PendingOf(k) : Exists(m) \/ m \in Brings(k)
  BY <1>1, <1>14
<1> QED
  BY <1>7, <1>13, <1>14, <1>15, Starts

-----------------------------------------------------------------------------
(* The invariant.                                                          *)

LEMMA ModelsInit == Init => ModelsInv
<1> SUFFICES ASSUME Init PROVE ModelsInv
  OBVIOUS
<1>1. \A n \in Nodes : doing[n] = Free
  BY DEF Init
<1>2. \A n \in Nodes : /\ Handling(doing[n]) /\ doing[n].at # "fill" /\ Brings(doing[n]) = {}
                       /\ PendingOf(doing[n]) = {} /\ Dropped(doing[n]) = {}
  BY <1>1, FreeFields, ElsewhereHandles
<1>3. \A m : GrantsOf(m) = {} /\ ListOf(m) = {}
  BY DEF Init, GrantsOf, ListOf
<1>4. HandlersInv
  BY <1>2 DEF Init, HandlersInv
<1>5. RowsInv
  BY DEF Init, RowsInv
<1>6. WritingInv
  BY <1>2, <1>3 DEF Init, WritingInv, Overlaps, Sees, Written, Filling
<1>7. OrphanInv
  <2>1. SeesDropped
    BY <1>2 DEF SeesDropped, Filling
  <2>2. PendingHaveRows /\ DroppedAreCleared
    BY <1>2 DEF PendingHaveRows, DroppedAreCleared
  <2>3. OrphansAreSynced
    BY <1>3 DEF OrphansAreSynced
  <2> QED
    BY <2>1, <2>2, <2>3 DEF OrphanInv
<1> QED
  BY <1>4, <1>5, <1>6, <1>7 DEF ModelsInv

LEMMA ModelsStep ==
    ASSUME ModelsInv, NEW n \in Nodes, Models(n)
    PROVE  ModelsInv'
<1>1. Admins \subseteq Users
  BY SharingAssumption
<1>2. ASSUME NEW u \in Users, NEW m \in ModelIds, NEW list \in Lists,
             Create(n, u, m, list) \/ Update(n, u, m, list) \/ Share(n, u, m, list)
      PROVE  ModelsInv'
  BY <1>2, CreateStep, UpdateStep, ShareStep
<1>3. ASSUME NEW u \in Users, NEW m \in ModelIds, Import(n, u, m) \/ Delete(n, u, m)
      PROVE  ModelsInv'
  BY <1>3, UpdateStep, DeleteStep
<1>4. ASSUME NEW u \in Admins, DeleteAll(n, u) \/ \E sent \in Syncs : Sync(n, u, sent)
      PROVE  ModelsInv'
  BY <1>1, <1>4, DeleteAllStep, SyncStep
<1>5. CASE InsertRow(n) \/ UpdateRow(n) \/ Clear(n) \/ Fill(n) \/ Rows(n) \/ End(n)
  BY <1>5, InsertRowStep, UpdateRowStep, ClearStep, FillStep, RowsStep, EndStep
<1> QED
  BY <1>2, <1>3, <1>4, <1>5 DEF Models

LEMMA ModelsStutter == ModelsInv /\ UNCHANGED vars => ModelsInv'
<1> SUFFICES ASSUME ModelsInv, UNCHANGED vars PROVE ModelsInv'
  OBVIOUS
<1>1. UNCHANGED <<mvcc, models, grants, doing, want, muddled, raced>>
  BY DEF vars, tables, history
<1>2. HandlersInv'
  <2>1. \A n \in Nodes : Handling(doing'[n])
    BY <1>1 DEF ModelsInv, HandlersInv
  <2>2. \A n \in Nodes : Handling(doing[n])'
    BY <2>1 DEF Handling, Elsewhere, Modelling, PendingOf, Dropped
  <2> QED
    BY <1>1, <2>2 DEF ModelsInv, HandlersInv
<1>3. RowsInv'
  BY <1>1 DEF ModelsInv, RowsInv
<1>4. WritingInv'
  BY <1>1 DEF ModelsInv, WritingInv, Overlaps, Sees, Written, Filling, Target, GrantsOf, ListOf
<1>5. OrphanInv'
  BY <1>1 DEF ModelsInv, OrphanInv, SeesDropped, PendingHaveRows, DroppedAreCleared,
              OrphansAreSynced, Filling, Target, GrantsOf, Dropped, PendingOf, Exists, Brings, Syncing
<1> QED
  BY <1>2, <1>3, <1>4, <1>5 DEF ModelsInv

\* Whatever instances, users, models and lists: the steps of the handlers and
\* the history of what was written agree as ModelsInv says.
THEOREM GrantsInvariant == Spec => []ModelsInv
<1>1. ModelsInv /\ [Next]_vars => ModelsInv'
  BY ModelsStep, MembershipsStep, EndStep, ModelsStutter DEF Next
<1> QED
  BY ModelsInit, <1>1, PTL DEF Spec

\* LastListWins for any number of instances: no order of handlers, on either
\* database, leaves a model with grants of two lists or of an older one, unless
\* the last two replacements overlapped.
THEOREM LastWins == Spec => []LastListWins
<1>1. ModelsInv => LastListWins
  BY DEF ModelsInv, WritingInv, Written, LastListWins
<1> QED
  BY <1>1, GrantsInvariant, PTL

\* NoOrphans for any number of instances: whoever deletes a model takes all its
\* grants along, unless another handler was writing them at the same time or a
\* sync that wrote them failed.
THEOREM NoneOrphaned == Spec => []NoOrphans
<1>1. ModelsInv => NoOrphans
  <2> SUFFICES ASSUME ModelsInv, NEW m \in ModelIds \ raced, ~Exists(m),
                      AboutToWrite(m) \cup Bringing(m) = {}
               PROVE  GrantsOf(m) = {}
    BY DEF NoOrphans
  <2>1. Syncing(m) = {}
    BY DEF Syncing, Brings, Bringing
  <2> QED
    BY <2>1 DEF ModelsInv, OrphanInv, OrphansAreSynced
<1> QED
  BY <1>1, GrantsInvariant, PTL

-----------------------------------------------------------------------------
(* What a login promises: that the groups its user will have, once it has  *)
(* left and joined what it is to leave and join, have the names claimed.   *)

IsLogin(h) == h.op \in {"login", "ldap"}
Logs(h, u) == h.user = u /\ IsLogin(h)

\* Where a handler of users and groups is, and what it knows.
Placed(h) ==
    /\ h.at \in {"create", "leave", "sync"} <=> IsLogin(h)
    /\ h.at = "leave" => h.op = "login"
    /\ h.at = "sync" => h.op = "ldap"
    /\ h.at \in {"set", "sync"} => h.join \subseteq given
    /\ IsLogin(h) => Nobody \notin h.known \cup h.create

PlacesInv ==
    /\ users \subseteq Users
    /\ claimed = [u \in Users |-> claimed[u]]
    /\ \A r \in members : r[1] \in given
    /\ \A n \in Nodes : Placed(doing[n])

\* What a login that alone logs its user in owes.
Promised(h, u) ==
    /\ h.op = "login" /\ h.at = "create" =>
         /\ h.snap = GroupsOf(u) /\ h.join \subseteq groups
         /\ h.clean => h.known \subseteq NamesOf(h.join) \cup h.create
    /\ h.at = "create" => h.known \subseteq NamesOf(groups) \cup h.create
    /\ h.at \in {"leave", "sync"} =>
         /\ h.join \subseteq groups
         /\ NamesOf((GroupsOf(u) \ h.leave) \cup h.join) = h.known
    /\ h.at = "sync" => h.join \cap GroupsOf(u) = {}

Served(u) ==
    /\ \A n, o \in LoggingIn(u) : n = o
    /\ \A n \in LoggingIn(u) : Promised(doing[n], u)
    /\ claimed[u] # {} /\ LoggingIn(u) = {} => NamesOf(GroupsOf(u)) = claimed[u]

PromisesInv == \A u \in users \ touched : Served(u)

LoginsInv == ModelsInv /\ NamesInv /\ PlacesInv /\ PromisesInv

-----------------------------------------------------------------------------
(* Steps that leave a user alone.                                          *)

\* No group of before is gone or renamed; the user's are the same.
Spared(u) ==
    /\ \A g \in groups : g \in groups' /\ name'[g] = name[g]
    /\ GroupsOf(u)' = GroupsOf(u)
    /\ claimed'[u] = claimed[u]

LEMMA SameNames ==
    ASSUME \A g \in groups : name'[g] = name[g], NEW S, S \subseteq groups
    PROVE  {name'[g] : g \in S} = {name[g] : g \in S}
OBVIOUS

LEMMA PromiseKept ==
    ASSUME NEW h, NEW u, Promised(h, u), Spared(u)
    PROVE  Promised(h, u)'
<1>1. PICK own : own = GroupsOf(u)
  OBVIOUS
<1>2. own = GroupsOf(u)' /\ own \subseteq groups
  BY <1>1 DEF Spared, GroupsOf
<1>3. groups \subseteq groups' /\ \A g \in groups : name'[g] = name[g]
  BY DEF Spared
<1>4. \A S : S \subseteq groups => {name'[g] : g \in S} = {name[g] : g \in S}
  BY <1>3, SameNames
<1>5. {name[g] : g \in groups} \subseteq {name'[g] : g \in groups'}
  BY <1>3
<1>6. h.op = "login" /\ h.at = "create" =>
         /\ h.snap = own /\ h.join \subseteq groups'
         /\ h.clean => h.known \subseteq {name'[g] : g \in h.join} \cup h.create
  BY <1>1, <1>3, <1>4 DEF Promised, NamesOf
<1>7. h.at = "create" => h.known \subseteq {name'[g] : g \in groups'} \cup h.create
  BY <1>5 DEF Promised, NamesOf
<1>8. h.at \in {"leave", "sync"} =>
         /\ h.join \subseteq groups'
         /\ {name'[g] : g \in (own \ h.leave) \cup h.join} = h.known
  <2> SUFFICES ASSUME h.at \in {"leave", "sync"}
               PROVE  /\ h.join \subseteq groups'
                      /\ {name'[g] : g \in (own \ h.leave) \cup h.join} = h.known
    OBVIOUS
  <2>1. PICK S : S = (own \ h.leave) \cup h.join
    OBVIOUS
  <2>2. h.join \subseteq groups /\ {name[g] : g \in S} = h.known
    BY <1>1, <2>1 DEF Promised, NamesOf
  <2>3. S \subseteq groups
    BY <1>2, <2>1, <2>2
  <2> QED
    BY <1>3, <1>4, <2>1, <2>2, <2>3
<1>9. h.at = "sync" => h.join \cap own = {}
  BY <1>1 DEF Promised
<1> QED
  BY <1>2, <1>6, <1>7, <1>8, <1>9 DEF Promised, NamesOf

LEMMA Frame ==
    ASSUME NEW u, Served(u), Spared(u),
           \A o \in Nodes : \/ doing'[o] = doing[o]
                            \/ ~Logs(doing[o], u) /\ ~Logs(doing'[o], u)
    PROVE  Served(u)'
<1>1. LoggingIn(u)' = LoggingIn(u) /\ \A o \in LoggingIn(u) : doing'[o] = doing[o]
  BY DEF LoggingIn, Logs, IsLogin
<1>2. ASSUME NEW o \in LoggingIn(u) PROVE Promised(doing[o], u)'
  <2>1. PICK h : h = doing[o]
    OBVIOUS
  <2>2. h = doing'[o] /\ Promised(h, u)
    BY <1>1, <1>2, <2>1 DEF Served
  <2>3. Promised(h, u)'
    BY <2>2, PromiseKept
  <2> QED
    BY <2>2, <2>3 DEF Promised
<1>3. NamesOf(GroupsOf(u))' = NamesOf(GroupsOf(u))
  <2>1. PICK own : own = GroupsOf(u)
    OBVIOUS
  <2>2. own = GroupsOf(u)' /\ own \subseteq groups
    BY <2>1 DEF Spared, GroupsOf
  <2>3. {name'[g] : g \in own} = {name[g] : g \in own}
    BY <2>2, SameNames DEF Spared
  <2> QED
    BY <2>1, <2>2, <2>3 DEF NamesOf
<1>4. claimed'[u] = claimed[u]
  BY DEF Spared
<1>5. \A n, o \in LoggingIn(u)' : n = o
  BY <1>1 DEF Served
<1>6. claimed'[u] # {} /\ LoggingIn(u)' = {} => NamesOf(GroupsOf(u))' = claimed'[u]
  BY <1>1, <1>3, <1>4 DEF Served
<1> QED
  BY <1>1, <1>2, <1>5, <1>6 DEF Served

\* The same when one handler moves.
LEMMA Passed ==
    ASSUME LoginsInv, NEW n \in Nodes, NEW k, Moves(n, k), NEW u \in users \ touched,
           Spared(u), ~Logs(doing[n], u), ~Logs(k, u)
    PROVE  Served(u)'
<1>1. \A o \in Nodes : doing'[o] = IF o = n THEN k ELSE doing[o]
  BY Moved DEF LoginsInv, ModelsInv
<1>2. Served(u)
  BY DEF LoginsInv, PromisesInv
<1> QED
  BY <1>1, <1>2, Frame

\* A login goes on, and owes what it will have done.
LEMMA GoesOn ==
    ASSUME LoginsInv, NEW n \in Nodes, NEW k, Moves(n, k), NEW u,
           LoggingIn(u) \subseteq {n}, Logs(k, u), Promised(k, u)'
    PROVE  Served(u)'
<1>1. \A o \in Nodes : doing'[o] = IF o = n THEN k ELSE doing[o]
  BY Moved DEF LoginsInv, ModelsInv
<1>2. LoggingIn(u)' = {n}
  BY <1>1 DEF LoggingIn, Logs, IsLogin
<1>3. Promised(doing[n], u)'
  BY <1>1 DEF Promised
<1> QED
  BY <1>2, <1>3 DEF Served

\* A login ends.
LEMMA Ends ==
    ASSUME LoginsInv, NEW n \in Nodes, Moves(n, Free), NEW u,
           LoggingIn(u) \subseteq {n}, NamesOf(GroupsOf(u))' = claimed'[u]
    PROVE  Served(u)'
<1>1. \A o \in Nodes : doing'[o] = IF o = n THEN Free ELSE doing[o]
  BY Moved DEF LoginsInv, ModelsInv
<1>2. LoggingIn(u)' = {}
  BY <1>1, FreeFields DEF LoggingIn
<1> QED
  BY <1>2 DEF Served

\* Who logs in alone.
LEMMA Alone ==
    ASSUME LoginsInv, NEW n \in Nodes, NEW u \in users \ touched, Logs(doing[n], u)
    PROVE  LoggingIn(u) = {n} /\ Promised(doing[n], u)
BY DEF LoginsInv, PromisesInv, Served, LoggingIn, Logs, IsLogin

-----------------------------------------------------------------------------
(* Handlers of models log nobody in.                                       *)

Calm(h) == /\ h.op \notin {"login", "ldap"}
           /\ h.at \notin {"create", "leave", "sync", "set"}

ModelOps == {"create", "update", "share", "delete", "deleteAll", "rows", "locked"}

LEMMA ModelOpsAreCalm ==
    ASSUME NEW h, Handling(h), h.op \in ModelOps
    PROVE  Calm(h)
BY DEF Handling, Elsewhere, Modelling, ModelOps, Calm

\* A handler of models that begins.
LEMMA BeginsCalm ==
    ASSUME ModelsInv, ModelsInv', NEW n \in Nodes, NEW k, Begin(n, k), k.op \in ModelOps
    PROVE  \A o \in Nodes : doing'[o] = doing[o] \/ (Calm(doing[o]) /\ Calm(doing'[o]))
<1>1. Moves(n, k) /\ doing[n] = Free
  BY DEF Begin, Ready, Do, Moves
<1>2. \A o \in Nodes : doing'[o] = IF o = n THEN k ELSE doing[o]
  BY <1>1, Moved DEF ModelsInv
<1>3. Handling(k)
  <2>1. Handling(doing[n])'
    BY DEF ModelsInv, HandlersInv
  <2>2. doing'[n] = k
    BY <1>2
  <2> QED
    BY <2>1, <2>2 DEF Handling, Elsewhere, Modelling, PendingOf, Dropped
<1>4. Calm(k) /\ Calm(doing[n])
  BY <1>1, <1>3, ModelOpsAreCalm, FreeFields DEF Calm
<1> QED
  BY <1>2, <1>4

\* One that goes on or ends.
LEMMA StaysCalm ==
    ASSUME ModelsInv, NEW n \in Nodes, Calm(doing[n]), NEW k, Moves(n, k), Calm(k)
    PROVE  \A o \in Nodes : doing'[o] = doing[o] \/ (Calm(doing[o]) /\ Calm(doing'[o]))
<1>1. \A o \in Nodes : doing'[o] = IF o = n THEN k ELSE doing[o]
  BY Moved DEF ModelsInv
<1> QED
  BY <1>1

\* What a handler is when it begins.
BegunAs(k, op, u, at) ==
    /\ DOMAIN k = Fields /\ k.op = op /\ k.user = u /\ k.at = at
    /\ k.known = {} /\ k.create = {} /\ k.join = {} /\ k.clean = TRUE

LEMMA Begun ==
    ASSUME NEW op, NEW u, NEW m, NEW at, NEW lists
    PROVE  BegunAs(Handler(op, u, m, at, lists), op, u, at)
<1>1. PICK f : f = Free
  OBVIOUS
<1>2. DOMAIN f = {"op", "user", "model", "at", "lists", "snap", "clean", "known",
                  "create", "leave", "join", "adds"}
  BY <1>1 DEF Free
<1>3. PICK k : k = Handler(op, u, m, at, lists)
  OBVIOUS
<1>4. DOMAIN k = Fields /\ k.op = op /\ k.user = u /\ k.at = at
  BY <1>1, <1>2, <1>3 DEF Handler, Fields
<1>5. k.known = {} /\ k.create = {} /\ k.join = {} /\ k.clean = TRUE
  BY <1>1, <1>2, <1>3 DEF Handler, Free
<1> QED
  BY <1>3, <1>4, <1>5 DEF BegunAs

LEMMA ModelsCalm ==
    ASSUME ModelsInv, NEW n \in Nodes, Models(n)
    PROVE  /\ UNCHANGED <<mvcc, users, name, given, members, claimed, touched>>
           /\ \A o \in Nodes : doing'[o] = doing[o] \/ (Calm(doing[o]) /\ Calm(doing'[o]))
<1> DEFINE Goal == \A o \in Nodes : doing'[o] = doing[o] \/ (Calm(doing[o]) /\ Calm(doing'[o]))
<1>0. ModelsInv'
  BY ModelsStep
<1>1. UNCHANGED <<mvcc, users, name, given, members, claimed, touched>>
  BY DEF Models, Create, Update, Share, Import, Delete, DeleteAll, Sync, InsertRow,
         UpdateRow, Clear, Fill, Rows, End, tables, history
<1>2. ASSUME NEW op \in ModelOps, NEW u, NEW m, NEW at, NEW lists,
             Begin(n, Handler(op, u, m, at, lists))
      PROVE  Goal
  <2>1. PICK k : k = Handler(op, u, m, at, lists)
    OBVIOUS
  <2>a. BegunAs(k, op, u, at)
    BY <2>1, Begun
  <2>2. k.op = op
    BY <2>a DEF BegunAs
  <2>3. Begin(n, k)
    BY <1>2, <2>1
  <2> QED
    BY <1>0, <2>2, <2>3, BeginsCalm
<1>3. ASSUME NEW u \in Users, NEW m \in ModelIds,
             \/ \E list \in Lists : Create(n, u, m, list) \/ Update(n, u, m, list) \/ Share(n, u, m, list)
             \/ Import(n, u, m) \/ Delete(n, u, m)
      PROVE  Goal
  <2>1. ASSUME NEW list \in Lists, Create(n, u, m, list) \/ Update(n, u, m, list) PROVE Goal
    BY <1>2, <2>1 DEF Create, Update, ModelOps
  <2>2. ASSUME NEW list \in Lists, Share(n, u, m, list) PROVE Goal
    <3>1. CASE Exists(m)
      BY <1>2, <2>2, <3>1 DEF Share, ModelOps
    <3>2. CASE ~Exists(m)
      BY <1>2, <2>2, <3>2 DEF Share, ModelOps
    <3> QED
      BY <3>1, <3>2
  <2>3. ASSUME Import(n, u, m) \/ Delete(n, u, m) PROVE Goal
    BY <1>2, <2>3 DEF Import, Delete, ModelOps
  <2> QED
    BY <1>3, <2>1, <2>2, <2>3
<1>4. ASSUME NEW u \in Admins, DeleteAll(n, u) PROVE Goal
  BY <1>2, <1>4 DEF DeleteAll, ModelOps
<1>5. ASSUME NEW u \in Admins, NEW sent \in Syncs, Sync(n, u, sent) PROVE Goal
  <2> DEFINE all == {m \in ModelIds : Exists(m)}
             ids == {sent[i][1] : i \in DOMAIN sent}
  <2>0. PICK x, y, z : x = all /\ y = ids \ all /\ z = all \ ids
    OBVIOUS
  <2>b. PICK last : last = IF ~mvcc /\ ids \cap all # {} THEN "locked" ELSE "rows"
    OBVIOUS
  <2>c. PICK lists :
          Begin(n, [Handler(last, u, Nobody, IF lists = <<>> THEN last ELSE "clear", lists)
                      EXCEPT !.known = x, !.create = y, !.leave = z])
    BY <1>5, <2>0, <2>b DEF Sync
  <2>d. PICK at : at = IF lists = <<>> THEN last ELSE "clear"
    OBVIOUS
  <2>1. /\ last \in {"rows", "locked"}
        /\ Begin(n, [Handler(last, u, Nobody, at, lists) EXCEPT !.known = x, !.create = y, !.leave = z])
    BY <2>b, <2>c, <2>d
  <2>2. PICK a : a = Handler(last, u, Nobody, at, lists)
    OBVIOUS
  <2>a. BegunAs(a, last, u, at)
    BY <2>2, Begun
  <2>3. DOMAIN a = {"op", "user", "model", "at", "lists", "snap", "clean", "known",
                    "create", "leave", "join", "adds"}
    BY <2>a DEF Fields, BegunAs
  <2>6. a.op = last
    BY <2>a DEF BegunAs
  <2>4. PICK k : k = [a EXCEPT !.known = x, !.create = y, !.leave = z]
    OBVIOUS
  <2>5. k.op = last /\ Begin(n, k)
    BY <2>1, <2>2, <2>3, <2>4, <2>6
  <2>7. k.op \in ModelOps
    BY <2>1, <2>5 DEF ModelOps
  <2> QED
    BY <1>0, <2>5, <2>7, BeginsCalm
<1>6. \A o \in Nodes : Handling(doing[o]) /\ (doing[o].at \in {"insert", "row", "clear", "fill", "rows", "end", "locked"}
                          => Modelling(doing[o]) /\ doing[o].op \in ModelOps /\ Calm(doing[o]))
  BY DEF ModelsInv, HandlersInv, Handling, Elsewhere, Modelling, ModelOps, Calm
<1>7. ASSUME InsertRow(n) \/ UpdateRow(n) \/ Rows(n) \/ End(n) PROVE Goal
  <2>1. Calm(doing[n])
    BY <1>6, <1>7 DEF InsertRow, UpdateRow, Rows, End
  <2>2. ASSUME Do(n, Free) PROVE Goal
    <3>1. PICK k : k = Free
      OBVIOUS
    <3>2. Moves(n, k) /\ Calm(k)
      BY <2>2, <3>1, FreeFields DEF Do, Moves, Calm
    <3> QED
      BY <2>1, <3>2, StaysCalm
  <2>3. ASSUME Goto(n, "clear") PROVE Goal
    <3>1. PICK h : h = doing[n]
      OBVIOUS
    <3>2. PICK k : k = [h EXCEPT !.at = "clear"]
      OBVIOUS
    <3>3. k.at = "clear" /\ k.op = h.op
      <4>1. DOMAIN h = Fields
        BY <1>6, <3>1 DEF Handling, Elsewhere, Modelling
      <4> QED
        BY <3>2, <4>1, AtFields
    <3>4. Moves(n, k)
      BY <2>3, <3>1, <3>2 DEF Goto, Moves
    <3> QED
      BY <2>1, <3>1, <3>3, <3>4, StaysCalm DEF Calm
  <2> QED
    BY <1>7, <2>2, <2>3 DEF InsertRow, UpdateRow, Rows, End
<1>8. ASSUME Fill(n) PROVE Goal
  <2>1. PICK h : h = doing[n]
    OBVIOUS
  <2>2. Calm(h) /\ DOMAIN h = {"op", "user", "model", "at", "lists", "snap", "clean", "known",
                    "create", "leave", "join", "adds"}
    BY <1>6, <1>8, <2>1 DEF Fill, Modelling, Fields
  <2>3. PICK g : g = [h EXCEPT !.at = After(h), !.lists = Tail(h.lists), !.snap = {}, !.clean = TRUE]
    OBVIOUS
  <2>4. Moves(n, Free) \/ Moves(n, g)
    BY <1>8, <2>1, <2>3 DEF Fill, Do, Moves
  <2>5. PICK k : Moves(n, k) /\ (k = Free \/ k = g)
    BY <2>4
  <2>6. Calm(Free) /\ Calm(g)
    <3>1. g.op = h.op /\ g.at = After(h)
      BY <2>2, <2>3
    <3>2. After(h) \in {"clear", "rows", "end"}
      BY DEF After
    <3> QED
      BY <2>2, <3>1, <3>2, FreeFields DEF Calm
  <2> QED
    BY <2>1, <2>2, <2>5, <2>6, StaysCalm
<1>9. ASSUME Clear(n) PROVE Goal
  <2>1. \A o \in Nodes : doing'[o] # doing[o] => o = n \/ doing[o].at = "fill"
    BY <1>9 DEF Clear, Replacing
  <2>2. doing[n].at = "clear" /\ \A o \in Nodes : doing'[o].op = doing[o].op
    BY <1>9, ClearEffect
  <2>3. \A o \in Nodes : Handling(doing'[o])
    <3>1. \A o \in Nodes : Handling(doing[o])'
      BY <1>0 DEF ModelsInv, HandlersInv
    <3> QED
      BY <3>1 DEF Handling, Elsewhere, Modelling, PendingOf, Dropped
  <2> QED
    BY <1>6, <2>1, <2>2, <2>3, ModelOpsAreCalm
<1> QED
  BY <1>1, <1>3, <1>4, <1>5, <1>7, <1>8, <1>9 DEF Models

-----------------------------------------------------------------------------
(* Places.                                                                 *)

LEMMA CalmIsPlaced == ASSUME NEW h, Calm(h) PROVE Placed(h)
BY DEF Calm, Placed, IsLogin

\* One handler moves; members are added to groups in use only.
LEMMA PlacesMoved ==
    ASSUME LoginsInv, NEW n \in Nodes, NEW k, Moves(n, k), Placed(k)',
           given \subseteq given', users' \subseteq users,
           claimed' = [u \in Users |-> claimed'[u]],
           \A r \in members' : r \in members \/ r[1] \in given
    PROVE  PlacesInv'
<1>1. \A o \in Nodes : doing'[o] = IF o = n THEN k ELSE doing[o]
  BY Moved DEF LoginsInv, ModelsInv
<1>2. ASSUME NEW o \in Nodes PROVE Placed(doing[o])'
  <2>1. CASE o = n
    BY <1>1, <2>1 DEF Placed, IsLogin
  <2>2. CASE o # n
    BY <1>1, <2>2 DEF LoginsInv, PlacesInv, Placed, IsLogin
  <2> QED
    BY <2>1, <2>2
<1>3. \A r \in members' : r[1] \in given'
  BY DEF LoginsInv, PlacesInv
<1>4. users' \subseteq Users
  BY DEF LoginsInv, PlacesInv
<1> QED
  BY <1>2, <1>3, <1>4 DEF PlacesInv

LEMMA ModelsLogins ==
    ASSUME LoginsInv, NEW n \in Nodes, Models(n)
    PROVE  PlacesInv' /\ PromisesInv'
<1>1. /\ UNCHANGED <<mvcc, users, name, given, members, claimed, touched>>
      /\ \A o \in Nodes : doing'[o] = doing[o] \/ (Calm(doing[o]) /\ Calm(doing'[o]))
  BY ModelsCalm DEF LoginsInv
<1>2. \A o \in Nodes : Placed(doing[o])'
  <2> SUFFICES ASSUME NEW o \in Nodes PROVE Placed(doing[o])'
    OBVIOUS
  <2>1. Placed(doing[o])
    BY DEF LoginsInv, PlacesInv
  <2> QED
    BY <1>1, <2>1 DEF Placed, IsLogin, Calm
<1>3. PlacesInv'
  BY <1>1, <1>2 DEF LoginsInv, PlacesInv
<1>4. ASSUME NEW u \in users' \ touched' PROVE Served(u)'
  <2>1. Served(u)
    BY <1>1 DEF LoginsInv, PromisesInv
  <2>2. Spared(u)
    BY <1>1 DEF Spared, groups, GroupsOf
  <2>3. \A o \in Nodes : doing'[o] = doing[o] \/ (~Logs(doing[o], u) /\ ~Logs(doing'[o], u))
    BY <1>1 DEF Calm, Logs, IsLogin
  <2> QED
    BY <2>1, <2>2, <2>3, Frame
<1> QED
  BY <1>3, <1>4 DEF PromisesInv

-----------------------------------------------------------------------------
(* Groups and members.                                                     *)

\* What a handler that logs nobody in does: users whose memberships it changes
\* are touched or gone.
Harmless ==
    /\ given \subseteq given' /\ users' \subseteq users /\ claimed' = claimed
    /\ \A r \in members' : r \in members \/ r[1] \in given
    /\ \A u \in users' \ touched' : u \notin touched /\ Spared(u)

Quiet(h) == Calm(h) \/ (h.at = "set" /\ h.op = "set" /\ h.join \subseteq given)

LEMMA OthersServed ==
    ASSUME LoginsInv, NEW n \in Nodes, ~IsLogin(doing[n]), NEW k, Moves(n, k), Quiet(k), Harmless
    PROVE  PlacesInv' /\ PromisesInv'
<1>1. ~IsLogin(k) /\ Placed(k)'
  BY DEF Quiet, Calm, Placed, IsLogin, Harmless
<1>2. claimed' = [u \in Users |-> claimed'[u]]
  BY DEF LoginsInv, PlacesInv, Harmless
<1>3. PlacesInv'
  BY <1>1, <1>2, PlacesMoved DEF Harmless
<1>4. ASSUME NEW u \in users' \ touched' PROVE Served(u)'
  <2>1. u \in users \ touched /\ Spared(u)
    BY DEF Harmless
  <2>2. ~Logs(doing[n], u) /\ ~Logs(k, u)
    BY <1>1 DEF Logs
  <2> QED
    BY <2>1, <2>2, Passed
<1> QED
  BY <1>3, <1>4 DEF PromisesInv

LEMMA FreeIsQuiet == Quiet(Free)
BY FreeFields DEF Calm, Quiet

\* Nothing but members change: a user whose memberships are the same is spared.
LEMMA SameMembers ==
    ASSUME UNCHANGED <<name, claimed>>, NEW u,
           \A g \in groups : <<g, u>> \in members' <=> <<g, u>> \in members
    PROVE  Spared(u)
BY DEF Spared, groups, GroupsOf

\* A group more.
LEMMA GroupInserted ==
    ASSUME LoginsInv, NEW g \in Groups, NEW nm, InsertGroup(g, nm), UNCHANGED <<members, claimed>>
    PROVE  /\ given \subseteq given' /\ \A u : Spared(u)
           /\ name'[g] = nm /\ groups \subseteq groups'
           /\ nm # Nobody => g \in groups'
<1>1. g \notin groups /\ name' = [name EXCEPT ![g] = nm]
  BY DEF LoginsInv, NamesInv, InsertGroup
<1>2. \A h \in Groups : h # g => name'[h] = name[h]
  BY <1>1 DEF LoginsInv, NamesInv
<1>3. name'[g] = nm
  BY <1>1 DEF LoginsInv, NamesInv
<1>4. groups \subseteq groups' /\ groups' \subseteq groups \cup {g}
  BY <1>1, <1>2 DEF groups
<1>5. \A u : <<g, u>> \notin members
  <2> SUFFICES ASSUME NEW u, <<g, u>> \in members PROVE FALSE
    OBVIOUS
  <2>1. <<g, u>>[1] \in given
    BY DEF LoginsInv, PlacesInv
  <2> QED
    BY <2>1 DEF InsertGroup
<1>6. \A u : GroupsOf(u)' = GroupsOf(u)
  BY <1>4, <1>5 DEF GroupsOf
<1>7. \A h \in groups : name'[h] = name[h]
  BY <1>1, <1>2 DEF groups
<1>8. given \subseteq given'
  BY DEF InsertGroup
<1> QED
  BY <1>3, <1>4, <1>6, <1>7, <1>8 DEF Spared, groups

LEMMA BeginMoves ==
    ASSUME NEW n \in Nodes, NEW k, Begin(n, k)
    PROVE  Moves(n, k) /\ doing[n] = Free /\ ~IsLogin(doing[n])
<1>1. Moves(n, k) /\ doing[n] = Free
  BY DEF Begin, Ready, Do, Moves
<1> QED
  BY <1>1, FreeFields DEF IsLogin

LEMMA CreateGroupServes ==
    ASSUME LoginsInv, NEW n \in Nodes, NEW g \in Groups, NEW nm \in Names, CreateGroup(n, g, nm)
    PROVE  PlacesInv' /\ PromisesInv'
<1>1. PICK k : k = Free
  OBVIOUS
<1>2. Moves(n, k) /\ ~IsLogin(doing[n]) /\ Quiet(k)
  BY <1>1, BeginMoves, FreeIsQuiet DEF CreateGroup
<1>3. UNCHANGED <<users, members, claimed, touched>> /\ InsertGroup(g, nm)
  BY DEF CreateGroup, accessVars, history
<1>4. given \subseteq given' /\ \A u : Spared(u)
  BY <1>3, GroupInserted
<1>h. Harmless
  BY <1>3, <1>4 DEF Harmless
<1> QED
  BY <1>2, <1>h, OthersServed

\* Everybody's groups have been changed.
LEMMA DeleteGroupServes ==
    ASSUME LoginsInv, NEW n \in Nodes, NEW g \in Groups, DeleteGroup(n, g)
    PROVE  PlacesInv' /\ PromisesInv'
<1>1. PICK k : k = Free
  OBVIOUS
<1>2. Moves(n, k) /\ ~IsLogin(doing[n]) /\ Quiet(k)
  BY <1>1, BeginMoves, FreeIsQuiet DEF DeleteGroup
<1>3. UNCHANGED <<users, given, claimed>> /\ Users \subseteq touched'
  BY DEF DeleteGroup, accessVars
<1>4. users \subseteq Users
  BY DEF LoginsInv, PlacesInv
<1>5. members' \subseteq members
  BY DEF DeleteGroup
<1>h. Harmless
  BY <1>3, <1>4, <1>5 DEF Harmless
<1> QED
  BY <1>2, <1>h, OthersServed

LEMMA AskServes ==
    ASSUME LoginsInv, NEW n \in Nodes, NEW g \in Groups, NEW us, AskAdd(n, g, us) \/ AskSet(n, g, us)
    PROVE  PlacesInv' /\ PromisesInv'
<1>1. UNCHANGED <<users, name, given, members, claimed, touched>>
  BY DEF AskAdd, AskSet, tables, history
<1>2. \A u : Spared(u)
  BY <1>1, SameMembers
<1>3. CASE AskAdd(n, g, us)
  <2>1. PICK a : a = Handler("add", Nobody, Nobody, "add", <<>>)
    OBVIOUS
  <2>2. PICK d : Begin(n, [a EXCEPT !.join = {g}, !.adds = d])
    BY <1>3, <2>1 DEF AskAdd
  <2>3. BegunAs(a, "add", Nobody, "add")
    BY <2>1, Begun
  <2>4. DOMAIN a = {"op", "user", "model", "at", "lists", "snap", "clean", "known",
                    "create", "leave", "join", "adds"}
        /\ a.op = "add" /\ a.at = "add"
    BY <2>3 DEF BegunAs, Fields
  <2>5. PICK k : k = [a EXCEPT !.join = {g}, !.adds = d]
    OBVIOUS
  <2>6. k.op = "add" /\ k.at = "add"
    BY <2>4, <2>5
  <2>7. Moves(n, k) /\ ~IsLogin(doing[n]) /\ Quiet(k)
    BY <2>2, <2>5, <2>6, BeginMoves DEF Calm, Quiet
  <2>h. Harmless
    BY <1>1, <1>2 DEF Harmless
  <2> QED
    BY <2>7, <2>h, OthersServed
<1>4. CASE AskSet(n, g, us)
  <2>1. PICK a : a = Handler("set", Nobody, Nobody, "set", <<>>)
    OBVIOUS
  <2>2. PICK d : Begin(n, [a EXCEPT !.join = {g}, !.adds = d])
    BY <1>4, <2>1 DEF AskSet
  <2>3. BegunAs(a, "set", Nobody, "set")
    BY <2>1, Begun
  <2>4. DOMAIN a = {"op", "user", "model", "at", "lists", "snap", "clean", "known",
                    "create", "leave", "join", "adds"}
        /\ a.op = "set" /\ a.at = "set"
    BY <2>3 DEF BegunAs, Fields
  <2>5. PICK k : k = [a EXCEPT !.join = {g}, !.adds = d]
    OBVIOUS
  <2>6. k.op = "set" /\ k.at = "set" /\ k.join = {g}
    BY <2>4, <2>5
  <2>7. g \in given
    BY <1>4 DEF AskSet, LoginsInv, NamesInv
  <2>8. Moves(n, k) /\ ~IsLogin(doing[n]) /\ Quiet(k)
    BY <2>2, <2>5, <2>6, <2>7, BeginMoves DEF Quiet
  <2>h. Harmless
    BY <1>1, <1>2, <2>6 DEF Harmless
  <2> QED
    BY <2>8, <2>h, OthersServed
<1> QED
  BY <1>3, <1>4

\* What is added: users of the list, to a group in use.
LEMMA AddedIsListed ==
    ASSUME NEW g, NEW us, NEW r \in Added(g, us)
    PROVE  r \in members \/ (r[1] \in groups /\ r[2] \in ToSet(us))
<1>1. Kept(g, us) \subseteq ToSet(us)
  BY DEF Kept, ToSet
<1>2. Added(g, us) \subseteq members \cup (groups \X Kept(g, us))
  BY DEF Added
<1> QED
  BY <1>1, <1>2

\* A handler of members ends, or adds and removes some at once.
LEMMA MembersServe ==
    ASSUME LoginsInv, NEW n \in Nodes,
           \/ Add(n) \/ Set(n) \/ DeleteUser(n)
           \/ \E u \in Users : AskDeleteUser(n, u)
           \/ \E g \in Groups, u \in Users : RemoveUser(n, g, u)
    PROVE  PlacesInv' /\ PromisesInv'
<1>0. Placed(doing[n]) /\ groups \subseteq given /\ users \subseteq Users
  BY DEF LoginsInv, PlacesInv, NamesInv
<1>1. PICK k : k = Free
  OBVIOUS
<1>2. CASE Add(n)
  <2>1. Moves(n, k) /\ ~IsLogin(doing[n]) /\ Quiet(k)
    BY <1>0, <1>1, <1>2, FreeIsQuiet DEF Add, Do, Moves, Placed
  <2>2. UNCHANGED <<users, name, given, claimed>>
        /\ touched' = touched \cup ToSet(doing[n].adds)
    BY <1>2 DEF Add, accessVars
  <2>3. PICK g : members' = Added(g, doing[n].adds)
    BY <1>2 DEF Add
  <2>4. \A r \in members' : r \in members \/ r[1] \in given
    BY <1>0, <2>3, AddedIsListed
  <2>5. \A u \in users' \ touched' : u \notin touched /\ Spared(u)
    <3> SUFFICES ASSUME NEW u \in users' \ touched' PROVE u \notin touched /\ Spared(u)
      OBVIOUS
    <3>1. u \notin ToSet(doing[n].adds)
      BY <2>2
    <3>2. members \subseteq members'
      BY <2>3 DEF Added
    <3>3. \A h : <<h, u>> \in members' => <<h, u>> \in members
      BY <2>3, <3>1, AddedIsListed
    <3>4. Spared(u)
      BY <2>2, <3>2, <3>3, SameMembers
    <3> QED
      BY <2>2, <3>4
  <2>h. Harmless
    BY <2>2, <2>4, <2>5 DEF Harmless
  <2> QED
    BY <2>1, <2>h, OthersServed
<1>3. CASE Set(n)
  <2>1. Moves(n, k) /\ ~IsLogin(doing[n]) /\ Quiet(k)
    BY <1>0, <1>1, <1>3, FreeIsQuiet DEF Set, Do, Moves, Placed
  <2>2. UNCHANGED <<users, given, claimed>> /\ Users \subseteq touched'
    BY <1>3 DEF Set, accessVars
  <2>3. doing[n].join \subseteq given
    BY <1>0, <1>3 DEF Set, Placed
  <2>4. \A r \in members' : r \in members \/ r[1] \in given
    BY <1>3, <2>3 DEF Set
  <2>h. Harmless
    BY <1>0, <2>2, <2>4 DEF Harmless
  <2> QED
    BY <2>1, <2>h, OthersServed
<1>4. CASE DeleteUser(n)
  <2>1. Moves(n, k) /\ ~IsLogin(doing[n]) /\ Quiet(k)
    BY <1>0, <1>1, <1>4, FreeIsQuiet DEF DeleteUser, Do, Moves, Placed
  <2>2. UNCHANGED <<name, given, claimed, touched>> /\ users' = users \ {doing[n].user}
    BY <1>4 DEF DeleteUser, history
  <2>3. members' \subseteq members
    BY <1>4 DEF DeleteUser
  <2>4. \A u \in users' : Spared(u)
    BY <1>4, <2>2, SameMembers DEF DeleteUser
  <2>h. Harmless
    BY <2>2, <2>3, <2>4 DEF Harmless
  <2> QED
    BY <2>1, <2>h, OthersServed
<1>5. ASSUME NEW v \in Users, AskDeleteUser(n, v) \/ \E g \in Groups : RemoveUser(n, g, v)
      PROVE  PlacesInv' /\ PromisesInv'
  <2>1. UNCHANGED <<users, name, given, claimed>> /\ touched' = touched \cup {v}
    BY <1>5 DEF AskDeleteUser, RemoveUser, accessVars
  <2>2. members' \subseteq members
    BY <1>5 DEF AskDeleteUser, RemoveUser
  <2>3. ASSUME NEW u \in users' \ touched' PROVE Spared(u)
    <3>1. u # v
      BY <2>1
    <3>2. \A g \in groups : <<g, u>> \in members' <=> <<g, u>> \in members
      BY <1>5, <3>1 DEF AskDeleteUser, RemoveUser
    <3> QED
      BY <2>1, <3>2, SameMembers
  <2>4. CASE AskDeleteUser(n, v)
    <3>1. PICK d : d = Handler("deleteUser", v, Nobody, "user", <<>>)
      OBVIOUS
    <3>2. BegunAs(d, "deleteUser", v, "user")
      BY <3>1, Begun
    <3>3. Moves(n, d) /\ ~IsLogin(doing[n])
      BY <2>4, <3>1, BeginMoves DEF AskDeleteUser
    <3>4. Quiet(d)
      BY <3>2 DEF BegunAs, Calm, Quiet
    <3>h. Harmless
      BY <2>1, <2>2, <2>3 DEF Harmless
    <3> QED
      BY <3>3, <3>4, <3>h, OthersServed
  <2>5. CASE \E g \in Groups : RemoveUser(n, g, v)
    <3>1. Moves(n, k) /\ ~IsLogin(doing[n]) /\ Quiet(k)
      BY <1>1, <2>5, BeginMoves, FreeIsQuiet DEF RemoveUser
    <3>h. Harmless
      BY <2>1, <2>2, <2>3 DEF Harmless
    <3> QED
      BY <3>1, <3>h, OthersServed
  <2> QED
    BY <1>5, <2>4, <2>5
<1> QED
  BY <1>2, <1>3, <1>4, <1>5

-----------------------------------------------------------------------------
(* Logging in.                                                             *)

\* A handler's step in a login of v: the others are spared; of v it is still
\* to be shown that it is served.
LEMMA LoginMoves ==
    ASSUME LoginsInv, NEW n \in Nodes, NEW k, Moves(n, k), Placed(k)', NEW v,
           ~IsLogin(doing[n]) \/ doing[n].user = v, ~IsLogin(k) \/ k.user = v,
           given \subseteq given', users' \subseteq users,
           claimed' = [u \in Users |-> claimed'[u]],
           \A r \in members' : r \in members \/ r[1] \in given,
           \A u \in users' \ touched' : u # v => u \notin touched /\ Spared(u),
           v \in users' \ touched' => Served(v)'
    PROVE  PlacesInv' /\ PromisesInv'
<1>1. PlacesInv'
  BY PlacesMoved
<1>2. ASSUME NEW u \in users' \ touched' PROVE Served(u)'
  <2>1. CASE u = v
    BY <2>1
  <2>2. CASE u # v
    <3>1. u \in users \ touched /\ Spared(u)
      BY <2>2
    <3>2. ~Logs(doing[n], u) /\ ~Logs(k, u)
      BY <2>2 DEF Logs
    <3> QED
      BY <3>1, <3>2, Passed
  <2> QED
    BY <2>1, <2>2
<1> QED
  BY <1>1, <1>2 DEF PromisesInv

\* A login begins, and counts if it is the only one of its user.
LoginBegins(n, k, v) ==
    /\ Begin(n, k) /\ StartLogin(v) /\ UNCHANGED <<tables, modelHistory, claimed>>
    /\ Logs(k, v) /\ k.at = "create" /\ Nobody \notin k.known \cup k.create

LEMMA BeginServes ==
    ASSUME LoginsInv, NEW n \in Nodes, NEW k, NEW v \in users, LoginBegins(n, k, v), Promised(k, v)
    PROVE  PlacesInv' /\ PromisesInv'
<1>1. Moves(n, k) /\ ~IsLogin(doing[n]) /\ doing[n] = Free
  BY BeginMoves DEF LoginBegins
<1>2. UNCHANGED <<users, name, given, members, claimed>>
  BY DEF LoginBegins, tables
<1>3. Placed(k)'
  BY DEF LoginBegins, Placed, Logs, IsLogin
<1>4. \A u : Spared(u)
  BY <1>2, SameMembers
<1>5. \A u \in users' \ touched' : u # v => u \notin touched
  BY DEF LoginBegins, StartLogin
<1>6. ASSUME v \in users' \ touched' PROVE Served(v)'
  <2>1. LoggingIn(v) \subseteq {n}
    BY <1>6 DEF LoginBegins, StartLogin
  <2>2. Promised(k, v)'
    BY <1>4, PromiseKept
  <2>3. Logs(k, v)
    BY DEF LoginBegins
  <2> QED
    BY <1>1, <2>1, <2>2, <2>3, GoesOn
<1>7. claimed' = [u \in Users |-> claimed'[u]]
  BY <1>2 DEF LoginsInv, PlacesInv
<1>8. k.user = v
  BY DEF LoginBegins, Logs
<1> QED
  BY <1>1, <1>2, <1>3, <1>4, <1>5, <1>6, <1>7, <1>8, LoginMoves

LEMMA LoginServes ==
    ASSUME LoginsInv, NEW n \in Nodes, NEW u \in Users, NEW claim \in Claims, Login(n, u, claim)
    PROVE  PlacesInv' /\ PromisesInv'
<1>1. PICK a : a = Handler("login", u, Nobody, "create", <<>>)
  OBVIOUS
<1>2. PICK missing, own, all : missing = claim \ NamesOf(groups) /\ own = GroupsOf(u) /\ all = groups
  OBVIOUS
<1>3. PICK k : k = [a EXCEPT !.known = claim, !.create = missing, !.snap = own, !.join = all]
  OBVIOUS
<1>4. Begin(n, k)
  BY <1>1, <1>2, <1>3 DEF Login
<1>5. BegunAs(a, "login", u, "create")
  BY <1>1, Begun
<1>6. DOMAIN a = {"op", "user", "model", "at", "lists", "snap", "clean", "known",
                  "create", "leave", "join", "adds"}
      /\ a.op = "login" /\ a.at = "create" /\ a.user = u
  BY <1>5 DEF BegunAs, Fields
<1>7. k.op = "login" /\ k.at = "create" /\ k.user = u
  BY <1>3, <1>6
<1>8. k.known = claim /\ k.create = missing /\ k.snap = own /\ k.join = all
  BY <1>3, <1>6
<1>9. Nobody \notin claim \cup missing
  BY <1>2, SharingAssumption
<1>10. LoginBegins(n, k, u)
  BY <1>4, <1>7, <1>8, <1>9 DEF Login, LoginBegins, Logs, IsLogin
<1>11. Promised(k, u)
  BY <1>2, <1>7, <1>8 DEF Promised
<1>12. u \in users
  BY DEF Login
<1> QED
  BY <1>10, <1>11, <1>12, BeginServes

LEMMA LdapServes ==
    ASSUME LoginsInv, NEW n \in Nodes, NEW u \in Users, NEW claim \in Claims, Ldap(n, u, claim)
    PROVE  PlacesInv' /\ PromisesInv'
<1>1. PICK a : a = Handler("ldap", u, Nobody, "create", <<>>)
  OBVIOUS
<1>2. PICK missing : missing = claim \ NamesOf(groups)
  OBVIOUS
<1>3. PICK k : k = [a EXCEPT !.known = claim, !.create = missing]
  OBVIOUS
<1>4. Begin(n, k)
  BY <1>1, <1>2, <1>3 DEF Ldap
<1>5. BegunAs(a, "ldap", u, "create")
  BY <1>1, Begun
<1>6. DOMAIN a = {"op", "user", "model", "at", "lists", "snap", "clean", "known",
                  "create", "leave", "join", "adds"}
      /\ a.op = "ldap" /\ a.at = "create" /\ a.user = u
  BY <1>5 DEF BegunAs, Fields
<1>7. k.op = "ldap" /\ k.at = "create" /\ k.user = u
  BY <1>3, <1>6
<1>8. k.known = claim /\ k.create = missing
  BY <1>3, <1>6
<1>9. Nobody \notin claim \cup missing
  BY <1>2, SharingAssumption
<1>10. LoginBegins(n, k, u)
  BY <1>4, <1>7, <1>8, <1>9 DEF Ldap, LoginBegins, Logs, IsLogin
<1>11. Promised(k, u)
  BY <1>2, <1>7, <1>8 DEF Promised
<1>12. u \in users
  BY DEF Ldap
<1> QED
  BY <1>10, <1>11, <1>12, BeginServes

-----------------------------------------------------------------------------
(* A login goes on.                                                        *)

LEMMA LoginFields ==
    ASSUME LoginsInv, NEW n \in Nodes, NEW h, h = doing[n], h.at \in {"create", "leave", "sync"}
    PROVE  /\ DOMAIN h = {"op", "user", "model", "at", "lists", "snap", "clean", "known",
                          "create", "leave", "join", "adds"}
           /\ Logs(h, h.user) /\ Placed(h)
           /\ h.user \in users \ touched => LoggingIn(h.user) = {n} /\ Promised(h, h.user)
<1>1. DOMAIN h = Fields
  BY DEF LoginsInv, ModelsInv, HandlersInv, Handling, Elsewhere, Modelling
<1>2. Placed(h)
  BY DEF LoginsInv, PlacesInv
<1>3. Logs(h, h.user)
  BY <1>2 DEF Placed, Logs
<1>4. ASSUME h.user \in users \ touched PROVE LoggingIn(h.user) = {n} /\ Promised(h, h.user)
  <2>1. PICK v : v = h.user
    OBVIOUS
  <2>2. v \in users \ touched /\ Logs(doing[n], v)
    BY <1>3, <1>4, <2>1
  <2> QED
    BY <2>1, <2>2, Alone
<1> QED
  BY <1>1, <1>2, <1>3, <1>4 DEF Fields

\* The step of a login that changes only what it says it does.
LEMMA GoOnServes ==
    ASSUME LoginsInv, NEW n \in Nodes, NEW h, h = doing[n], h.at \in {"create", "leave", "sync"},
           NEW k, Moves(n, k), Logs(k, h.user), Placed(k)',
           UNCHANGED <<users, claimed, touched>>, given \subseteq given',
           \A r \in members' : r \in members \/ r[1] \in given,
           \A u : u # h.user => Spared(u),
           LoggingIn(h.user) = {n} /\ Promised(h, h.user) /\ h.user \in users => Promised(k, h.user)'
    PROVE  PlacesInv' /\ PromisesInv'
<1>1. PICK v : v = h.user
  OBVIOUS
<1>2. k.user = v /\ doing[n].user = v
  BY <1>1 DEF Logs
<1>3. ASSUME v \in users' \ touched' PROVE Served(v)'
  <2>1. LoggingIn(v) = {n} /\ Promised(h, v) /\ v \in users
    BY <1>1, <1>3, LoginFields
  <2>2. Promised(k, v)'
    BY <1>1, <2>1 DEF Promised
  <2>3. LoggingIn(v) \subseteq {n} /\ Logs(k, v)
    BY <1>1, <2>1
  <2> QED
    BY <2>2, <2>3, GoesOn
<1>4. claimed' = [u \in Users |-> claimed'[u]]
  BY DEF LoginsInv, PlacesInv
<1>5. \A u \in users' \ touched' : u # v => u \notin touched /\ Spared(u)
  BY <1>1
<1> QED
  BY <1>2, <1>3, <1>4, <1>5, LoginMoves

LEMMA CreateClaimedServes ==
    ASSUME LoginsInv, NEW n \in Nodes, NEW g \in Groups, CreateClaimed(n, g)
    PROVE  PlacesInv' /\ PromisesInv'
<1>1. PICK h : h = doing[n]
  OBVIOUS
<1>2. PICK nm : nm \in h.create /\ InsertGroup(g, nm)
                /\ Moves(n, [h EXCEPT !.create = h.create \ {nm}, !.clean = FALSE])
  BY <1>1 DEF CreateClaimed, Do, Moves
<1>3. PICK k : k = [h EXCEPT !.create = h.create \ {nm}, !.clean = FALSE]
  OBVIOUS
<1>4. h.at = "create" /\ UNCHANGED <<users, members, claimed, touched>>
  BY <1>1 DEF CreateClaimed, accessVars, history
<1>5. /\ DOMAIN h = {"op", "user", "model", "at", "lists", "snap", "clean", "known",
                     "create", "leave", "join", "adds"}
      /\ Logs(h, h.user) /\ Placed(h)
  BY <1>1, <1>4, LoginFields
<1>6. k.op = h.op /\ k.user = h.user /\ k.at = h.at /\ k.known = h.known
  BY <1>3, <1>5
<1>7. k.create = h.create \ {nm} /\ k.clean = FALSE /\ k.snap = h.snap /\ k.join = h.join
  BY <1>3, <1>5
<1>8. nm # Nobody /\ Logs(k, h.user) /\ Placed(k)'
  BY <1>2, <1>4, <1>5, <1>6, <1>7 DEF Logs, IsLogin, Placed
<1>9. given \subseteq given' /\ (\A u : Spared(u)) /\ name'[g] = nm /\ g \in groups'
  BY <1>2, <1>4, <1>8, GroupInserted
<1>10. ASSUME Promised(h, h.user) PROVE Promised(k, h.user)'
  <2>1. Promised(h, h.user)'
    <3>1. PICK v : v = h.user
      OBVIOUS
    <3>2. Promised(h, v)'
      BY <1>9, <1>10, <3>1, PromiseKept
    <3> QED
      BY <3>1, <3>2
  <2>2. nm \in NamesOf(groups)'
    BY <1>9 DEF NamesOf
  <2> QED
    BY <1>4, <1>6, <1>7, <2>1, <2>2 DEF Promised
<1> QED
  BY <1>1, <1>2, <1>3, <1>4, <1>8, <1>9, <1>10, GoOnServes

\* What to leave of the user's own groups and what to join of all.
Decision(own, all, known, leave, join) ==
    /\ leave = {g \in own : name[g] \notin known}
    /\ join = {g \in all : name[g] \in known \ NamesOf(own)}

\* Staying in the groups whose names are claimed and joining those of the other
\* names gives all that are claimed, if the groups looked at have their names.
LEMMA Decided ==
    ASSUME NEW own, NEW all, NEW known, known \subseteq NamesOf(all),
           NEW leave, NEW join, Decision(own, all, known, leave, join)
    PROVE  NamesOf((own \ leave) \cup join) = known
<1>1. ASSUME NEW x \in NamesOf((own \ leave) \cup join) PROVE x \in known
  BY DEF NamesOf, Decision
<1>2. ASSUME NEW x \in known PROVE x \in NamesOf((own \ leave) \cup join)
  <2>1. PICK g \in all : name[g] = x
    BY DEF NamesOf
  <2>2. CASE x \in NamesOf(own)
    <3>1. PICK f \in own : name[f] = x
      BY <2>2 DEF NamesOf
    <3> QED
      BY <3>1 DEF NamesOf, Decision
  <2>3. CASE x \notin NamesOf(own)
    <3>1. g \in join
      BY <2>1, <2>3 DEF Decision
    <3> QED
      BY <2>1, <3>1 DEF NamesOf
  <2> QED
    BY <2>2, <2>3
<1> QED
  BY <1>1, <1>2

LEMMA DecideServes ==
    ASSUME LoginsInv, NEW n \in Nodes, Decide(n)
    PROVE  PlacesInv' /\ PromisesInv'
<1>1. PICK h : h = doing[n]
  OBVIOUS
<1>2. PICK all : all = IF h.clean THEN h.join ELSE groups
  OBVIOUS
<1>3. PICK join, leave : /\ join = Joining(h, all)
                         /\ leave = {g \in h.snap : name[g] \notin h.known}
  OBVIOUS
<1>4. PICK k : k = [h EXCEPT !.at = "leave", !.join = join, !.leave = leave]
  OBVIOUS
<1>5. /\ h.op = "login" /\ h.at = "create" /\ h.create = {}
      /\ UNCHANGED <<users, name, given, members, claimed, touched>>
  BY <1>1 DEF Decide, tables, history
<1>6. Moves(n, k)
  BY <1>1, <1>2, <1>3, <1>4 DEF Decide, Do, Moves
<1>7. /\ DOMAIN h = {"op", "user", "model", "at", "lists", "snap", "clean", "known",
                     "create", "leave", "join", "adds"}
      /\ Logs(h, h.user) /\ Placed(h)
  BY <1>1, <1>5, LoginFields
<1>8. k.op = "login" /\ k.user = h.user /\ k.at = "leave" /\ k.known = h.known
  BY <1>4, <1>5, <1>7
<1>9. k.create = {} /\ k.join = join /\ k.leave = leave
  BY <1>4, <1>5, <1>7
<1>10. Logs(k, h.user) /\ Placed(k)'
  BY <1>5, <1>7, <1>8, <1>9 DEF Logs, IsLogin, Placed
<1>11. \A u : Spared(u)
  BY <1>5, SameMembers
<1>12. ASSUME Promised(h, h.user) PROVE Promised(k, h.user)'
  <2>1. /\ h.snap = GroupsOf(h.user) /\ all \subseteq groups /\ h.known \subseteq NamesOf(all)
    BY <1>2, <1>5, <1>12 DEF Promised
  <2>2. join = {g \in all : name[g] \in h.known \ NamesOf(h.snap)}
    BY <1>3 DEF Joining
  <2>3. NamesOf((h.snap \ leave) \cup join) = h.known
    <3>1. PICK own, known : own = h.snap /\ known = h.known
      OBVIOUS
    <3>2. Decision(own, all, known, leave, join)
      BY <1>3, <2>2, <3>1 DEF Decision
    <3>3. known \subseteq NamesOf(all)
      BY <2>1, <3>1
    <3>4. NamesOf((own \ leave) \cup join) = known
      BY <3>2, <3>3, Decided
    <3> QED
      BY <3>1, <3>4
  <2>4. join \subseteq groups
    BY <2>1, <2>2
  <2>5. Promised(k, h.user)
    BY <1>8, <1>9, <2>1, <2>3, <2>4 DEF Promised
  <2> QED
    <3>1. PICK v : v = h.user
      OBVIOUS
    <3>2. Promised(k, v)'
      BY <1>11, <2>5, <3>1, PromiseKept
    <3> QED
      BY <3>1, <3>2
<1> QED
  BY <1>1, <1>5, <1>6, <1>10, <1>11, <1>12, GoOnServes

\* sync_groups_by_group_names reads what to leave and what to join.
LEMMA LdapReadsServes ==
    ASSUME LoginsInv, NEW n \in Nodes, LdapReads(n)
    PROVE  PlacesInv' /\ PromisesInv'
<1>1. PICK h : h = doing[n]
  OBVIOUS
<1>2. PICK targets : targets = {g \in groups : name[g] \in h.known}
  OBVIOUS
<1>3. PICK own, join, leave : /\ own = GroupsOf(h.user)
                              /\ join = targets \ own /\ leave = own \ targets
  OBVIOUS
<1>4. PICK k : k = [h EXCEPT !.at = "sync", !.join = join, !.leave = leave]
  OBVIOUS
<1>5. /\ h.op = "ldap" /\ h.at = "create" /\ h.create = {}
      /\ UNCHANGED <<users, name, given, members, claimed, touched>>
  BY <1>1 DEF LdapReads, tables, history
<1>6. Moves(n, k)
  BY <1>1, <1>2, <1>3, <1>4 DEF LdapReads, Do, Moves
<1>7. /\ DOMAIN h = {"op", "user", "model", "at", "lists", "snap", "clean", "known",
                     "create", "leave", "join", "adds"}
      /\ Logs(h, h.user) /\ Placed(h)
  BY <1>1, <1>5, LoginFields
<1>8. k.op = "ldap" /\ k.user = h.user /\ k.at = "sync" /\ k.known = h.known
  BY <1>4, <1>5, <1>7
<1>9. k.create = {} /\ k.join = join /\ k.leave = leave
  BY <1>4, <1>5, <1>7
<1>10. join \subseteq groups /\ groups \subseteq given /\ given' = given
  BY <1>2, <1>3, <1>5 DEF LoginsInv, NamesInv
<1>11. Logs(k, h.user) /\ Placed(k)'
  BY <1>5, <1>7, <1>8, <1>9, <1>10 DEF Logs, IsLogin, Placed
<1>12. \A u : Spared(u)
  BY <1>5, SameMembers
<1>13. ASSUME Promised(h, h.user) PROVE Promised(k, h.user)'
  <2>1. h.known \subseteq NamesOf(groups)
    BY <1>5, <1>13 DEF Promised
  <2>2. own \subseteq groups
    BY <1>3 DEF GroupsOf
  <2>3. (own \ leave) \cup join = targets
    BY <1>3
  <2>4. NamesOf(targets) = h.known
    BY <1>2, <2>1 DEF NamesOf
  <2>5. join \cap own = {}
    BY <1>3
  <2>6. Promised(k, h.user)
    BY <1>3, <1>8, <1>9, <1>10, <2>3, <2>4, <2>5 DEF Promised
  <2> QED
    <3>1. PICK v : v = h.user
      OBVIOUS
    <3>2. Promised(k, v)'
      BY <1>12, <2>6, <3>1, PromiseKept
    <3> QED
      BY <3>1, <3>2
<1> QED
  BY <1>1, <1>5, <1>6, <1>10, <1>11, <1>12, <1>13, GoOnServes

LEMMA LeaveServes ==
    ASSUME LoginsInv, NEW n \in Nodes, NEW g \in Groups, Leave(n, g)
    PROVE  PlacesInv' /\ PromisesInv'
<1>1. PICK h : h = doing[n]
  OBVIOUS
<1>2. PICK v, own : v = h.user /\ own = GroupsOf(v)
  OBVIOUS
<1>3. PICK k : k = [h EXCEPT !.leave = h.leave \ {g}]
  OBVIOUS
<1>4. /\ h.at = "leave" /\ UNCHANGED <<users, name, given, claimed, touched>>
      /\ members' = IF g \in groups THEN members \ {<<g, v>>} ELSE members
      /\ Moves(n, k)
  BY <1>1, <1>2, <1>3 DEF Leave, accessVars, history, Do, Moves
<1>5. /\ DOMAIN h = {"op", "user", "model", "at", "lists", "snap", "clean", "known",
                     "create", "leave", "join", "adds"}
      /\ Logs(h, v) /\ Placed(h)
  BY <1>1, <1>2, <1>4, LoginFields
<1>6. k.op = h.op /\ k.user = v /\ k.at = "leave" /\ k.known = h.known
  BY <1>2, <1>3, <1>4, <1>5
<1>7. k.create = h.create /\ k.join = h.join /\ k.leave = h.leave \ {g}
  BY <1>3, <1>5
<1>8. Logs(k, v) /\ Placed(k)'
  BY <1>4, <1>5, <1>6, <1>7 DEF Logs, IsLogin, Placed
<1>9. \A u : u # v => Spared(u)
  BY <1>4, SameMembers
<1>10. ASSUME Promised(h, v) PROVE Promised(k, v)'
  <2>1. h.join \subseteq groups /\ NamesOf((own \ h.leave) \cup h.join) = h.known
    BY <1>2, <1>4, <1>10 DEF Promised
  <2>2. groups' = groups
    BY <1>4 DEF groups
  <2>3. GroupsOf(v)' = own \ {g}
    BY <1>2, <1>4, <2>2 DEF GroupsOf
  <2>4. g \in h.leave
    BY <1>1, <1>4 DEF Leave
  <2>5. (own \ {g}) \ k.leave = own \ h.leave
    BY <1>7, <2>4
  <2>6. {name'[f] : f \in ((own \ {g}) \ k.leave) \cup k.join} = k.known
    BY <1>4, <1>6, <1>7, <2>1, <2>5 DEF NamesOf
  <2> QED
    BY <1>6, <1>7, <2>1, <2>2, <2>3, <2>6 DEF Promised, NamesOf
<1>11. members' \subseteq members
  BY <1>4
<1> QED
  BY <1>1, <1>2, <1>4, <1>8, <1>9, <1>10, <1>11, GoOnServes

LEMMA JoinServes ==
    ASSUME LoginsInv, NEW n \in Nodes, NEW g \in Groups, Join(n, g)
    PROVE  PlacesInv' /\ PromisesInv'
<1>1. PICK h : h = doing[n]
  OBVIOUS
<1>2. PICK v, own : v = h.user /\ own = GroupsOf(v)
  OBVIOUS
<1>3. PICK k : k = [h EXCEPT !.join = h.join \ {g}]
  OBVIOUS
<1>4. /\ h.at = "leave" /\ UNCHANGED <<mvcc, users, name, given, claimed, touched>>
      /\ members' = Added(g, <<v>>)
      /\ Moves(n, k)
  BY <1>1, <1>2, <1>3 DEF Join, accessVars, history, Do, Moves
<1>5. /\ DOMAIN h = {"op", "user", "model", "at", "lists", "snap", "clean", "known",
                     "create", "leave", "join", "adds"}
      /\ Logs(h, v) /\ Placed(h)
  BY <1>1, <1>2, <1>4, LoginFields
<1>6. k.op = h.op /\ k.user = v /\ k.at = "leave" /\ k.known = h.known
  BY <1>2, <1>3, <1>4, <1>5
<1>7. k.create = h.create /\ k.leave = h.leave /\ k.join = h.join \ {g}
  BY <1>3, <1>5
<1>8. Logs(k, v) /\ Placed(k)'
  BY <1>4, <1>5, <1>6, <1>7 DEF Logs, IsLogin, Placed
<1>9. \A r \in members' : r \in members \/ (r[1] \in groups /\ r[2] = v)
  <2>1. ToSet(<<v>>) = {v}
    BY DEF ToSet
  <2> QED
    BY <1>4, <2>1, AddedIsListed
<1>10. members \subseteq members'
  BY <1>4 DEF Added
<1>11. \A u : u # v => Spared(u)
  <2> SUFFICES ASSUME NEW u, u # v PROVE Spared(u)
    OBVIOUS
  <2>1. \A f : <<f, u>> \in members' => <<f, u>> \in members
    BY <1>9
  <2> QED
    BY <1>4, <1>10, <2>1, SameMembers
<1>12. \A r \in members' : r \in members \/ r[1] \in given
  BY <1>9 DEF LoginsInv, NamesInv
<1>13. ASSUME Promised(h, v), v \in users PROVE Promised(k, v)'
  <2>1. h.join \subseteq groups /\ NamesOf((own \ h.leave) \cup h.join) = h.known
    BY <1>2, <1>4, <1>13 DEF Promised
  <2>2. groups' = groups
    BY <1>4 DEF groups
  <2>3. g \in h.join /\ g \in groups /\ h.leave = {}
    BY <1>1, <1>4, <2>1 DEF Join
  <2>4. <<g, v>> \in members'
    <3>1. CASE <<g, v>> \in members
      BY <1>10, <3>1
    <3>2. CASE <<g, v>> \notin members
      <4>1. v \in Kept(g, <<v>>)
        BY <1>13, <3>2 DEF Kept
      <4> QED
        BY <1>4, <2>3, <4>1 DEF Added
    <3> QED
      BY <3>1, <3>2
  <2>5. \A f \in groups : <<f, v>> \in members' <=> <<f, v>> \in members \/ f = g
    <3> SUFFICES ASSUME NEW f, <<f, v>> \in Added(g, <<v>>), <<f, v>> \notin members PROVE f = g
      BY <1>4, <1>10, <2>4
    <3> QED
      BY DEF Added
  <2>6. GroupsOf(v)' = own \cup {g}
    BY <1>2, <2>2, <2>3, <2>5 DEF GroupsOf
  <2>7. ((own \cup {g}) \ k.leave) \cup k.join = (own \ h.leave) \cup h.join
    BY <1>7, <2>3
  <2>8. {name'[f] : f \in ((own \cup {g}) \ k.leave) \cup k.join} = k.known
    BY <1>4, <1>6, <2>1, <2>7 DEF NamesOf
  <2> QED
    BY <1>6, <1>7, <2>1, <2>2, <2>6, <2>8 DEF Promised, NamesOf
<1> QED
  BY <1>1, <1>2, <1>4, <1>8, <1>11, <1>12, <1>13, GoOnServes

-----------------------------------------------------------------------------
(* A login ends.                                                           *)

LEMMA EndServes ==
    ASSUME LoginsInv, NEW n \in Nodes, NEW h, h = doing[n], h.at \in {"leave", "sync"},
           Moves(n, Free), UNCHANGED <<users, name, given, touched>>,
           claimed' = [claimed EXCEPT ![h.user] = h.known],
           \A r \in members' : r \in members \/ r[1] \in given,
           \A u : u # h.user => \A g \in groups : <<g, u>> \in members' <=> <<g, u>> \in members,
           Promised(h, h.user) /\ h.user \in users => NamesOf(GroupsOf(h.user))' = h.known
    PROVE  PlacesInv' /\ PromisesInv'
<1>1. PICK v, f : v = h.user /\ f = Free
  OBVIOUS
<1>2. Moves(n, f) /\ ~IsLogin(f) /\ Placed(f)'
  BY <1>1, FreeFields DEF IsLogin, Placed, Moves
<1>3. claimed = [u \in Users |-> claimed[u]] /\ users \subseteq Users
  BY DEF LoginsInv, PlacesInv
<1>4. claimed' = [u \in Users |-> claimed'[u]] /\ \A u : u # v => claimed'[u] = claimed[u]
  BY <1>1, <1>3
<1>5. \A u : u # v => Spared(u)
  BY <1>1, <1>4 DEF Spared, groups, GroupsOf
<1>6. ASSUME v \in users' \ touched' PROVE Served(v)'
  <2>1. LoggingIn(v) = {n} /\ Promised(h, v) /\ v \in users
    BY <1>1, <1>6, LoginFields
  <2>2. claimed'[v] = h.known
    BY <1>1, <1>3, <2>1
  <2>3. NamesOf(GroupsOf(v))' = claimed'[v]
    BY <1>1, <2>1, <2>2
  <2> QED
    BY <2>1, <2>3, Ends
<1>7. \A u \in users' \ touched' : u # v => u \notin touched /\ Spared(u)
  BY <1>5
<1>8. doing[n].user = v
  BY <1>1
<1> QED
  BY <1>2, <1>4, <1>6, <1>7, <1>8, LoginMoves

LEMMA LoginEndsServes ==
    ASSUME LoginsInv, NEW n \in Nodes, LoginEnds(n)
    PROVE  PlacesInv' /\ PromisesInv'
<1>1. PICK h : h = doing[n]
  OBVIOUS
<1>2. /\ h.at = "leave" /\ h.leave = {} /\ h.join = {}
      /\ Moves(n, Free) /\ UNCHANGED <<users, name, given, members, touched>>
      /\ claimed' = [claimed EXCEPT ![h.user] = h.known]
  BY <1>1 DEF LoginEnds, tables, Do, Moves
<1>3. ASSUME Promised(h, h.user) PROVE NamesOf(GroupsOf(h.user))' = h.known
  <2>1. NamesOf(GroupsOf(h.user)) = h.known
    <3>1. (GroupsOf(h.user) \ h.leave) \cup h.join = GroupsOf(h.user)
      BY <1>2
    <3> QED
      BY <1>2, <1>3, <3>1 DEF Promised
  <2> QED
    BY <1>2, <2>1 DEF NamesOf, GroupsOf, groups
<1> QED
  BY <1>1, <1>2, <1>3, EndServes

LEMMA LdapWritesServes ==
    ASSUME LoginsInv, NEW n \in Nodes, LdapWrites(n)
    PROVE  PlacesInv' /\ PromisesInv'
<1>1. PICK h : h = doing[n]
  OBVIOUS
<1>2. PICK rows, gone : rows = h.join \X {h.user} /\ gone = h.leave \X {h.user}
  OBVIOUS
<1>3. PICK refused : refused = (rows \cap members # {} \/ (mvcc /\ ~(h.join \subseteq groups)))
  OBVIOUS
<1>4. /\ h.at = "sync" /\ Moves(n, Free) /\ UNCHANGED <<users, name, given, touched>>
      /\ claimed' = [claimed EXCEPT ![h.user] = h.known]
      /\ members' = IF refused THEN members ELSE (members \ gone) \cup rows
  BY <1>1, <1>2, <1>3 DEF LdapWrites, accessVars, Do, Moves
<1>5. h.join \subseteq given
  BY <1>1, <1>4 DEF LoginsInv, PlacesInv, Placed
<1>6. \A r \in members' : r \in members \/ r[1] \in given
  BY <1>2, <1>4, <1>5
<1>7. \A u : u # h.user => \A g \in groups : <<g, u>> \in members' <=> <<g, u>> \in members
  BY <1>2, <1>4
<1>8. ASSUME Promised(h, h.user) PROVE NamesOf(GroupsOf(h.user))' = h.known
  <2>1. PICK v, own : v = h.user /\ own = GroupsOf(v)
    OBVIOUS
  <2>2. h.join \subseteq groups /\ h.join \cap own = {} /\ NamesOf((own \ h.leave) \cup h.join) = h.known
    BY <1>4, <1>8, <2>1 DEF Promised
  <2>3. ~refused
    <3>1. ASSUME NEW r \in rows \cap members PROVE FALSE
      <4>1. PICK g \in h.join : r = <<g, v>>
        BY <1>2, <2>1
      <4>2. g \in own
        BY <2>1, <2>2, <4>1 DEF GroupsOf
      <4> QED
        BY <2>2, <4>2
    <3> QED
      BY <1>3, <2>2, <3>1
  <2>4. \A g : <<g, v>> \in members' <=> (<<g, v>> \in members /\ g \notin h.leave) \/ g \in h.join
    BY <1>2, <1>4, <2>1, <2>3
  <2>5. groups' = groups
    BY <1>4 DEF groups
  <2>6. GroupsOf(v)' = (own \ h.leave) \cup h.join
    BY <2>1, <2>2, <2>4, <2>5 DEF GroupsOf
  <2>7. {name'[g] : g \in (own \ h.leave) \cup h.join} = h.known
    BY <1>4, <2>2 DEF NamesOf
  <2> QED
    BY <2>1, <2>6, <2>7 DEF NamesOf
<1> QED
  BY <1>1, <1>4, <1>6, <1>7, <1>8, EndServes

\* A user whose login failed is touched.
LEMMA FailsServes ==
    ASSUME LoginsInv, NEW n \in Nodes, Fails(n)
    PROVE  PlacesInv' /\ PromisesInv'
<1>1. PICK v, f : v = doing[n].user /\ f = Free
  OBVIOUS
<1>2. Moves(n, f) /\ UNCHANGED <<users, name, given, members, claimed>>
      /\ touched' = touched \cup ({v} \cap Users)
  BY <1>1 DEF Fails, tables, Do, Moves
<1>3. ~IsLogin(f) /\ Placed(f)'
  BY <1>1, FreeFields DEF IsLogin, Placed
<1>4. \A u : Spared(u)
  BY <1>2, SameMembers
<1>5. users \subseteq Users /\ claimed = [u \in Users |-> claimed[u]]
  BY DEF LoginsInv, PlacesInv
<1>6. v \notin users' \ touched'
  BY <1>2, <1>5
<1>7. \A u \in users' \ touched' : u # v => u \notin touched /\ Spared(u)
  BY <1>2, <1>4
<1>8. claimed' = [u \in Users |-> claimed'[u]]
  BY <1>2, <1>5
<1> QED
  BY <1>1, <1>2, <1>3, <1>6, <1>7, <1>8, LoginMoves

LEMMA StutterServes ==
    ASSUME LoginsInv, UNCHANGED vars
    PROVE  PlacesInv' /\ PromisesInv'
<1>1. UNCHANGED <<users, name, given, members, claimed, touched, doing>>
  BY DEF vars, tables, history
<1>2. PlacesInv'
  BY <1>1 DEF LoginsInv, PlacesInv, Placed, IsLogin
<1>3. ASSUME NEW u \in users' \ touched' PROVE Served(u)'
  <2>1. Served(u) /\ Spared(u)
    BY <1>1, SameMembers DEF LoginsInv, PromisesInv
  <2> QED
    BY <1>1, <2>1, Frame
<1> QED
  BY <1>2, <1>3 DEF PromisesInv

-----------------------------------------------------------------------------

LEMMA LoginsInit == Init => LoginsInv
<1> SUFFICES ASSUME Init PROVE LoginsInv
  OBVIOUS
<1>1. ModelsInv
  BY ModelsInit
<1>2. NamesInv
  BY DEF Init, NamesInv, groups
<1>3. \A n \in Nodes : Calm(doing[n])
  BY FreeFields DEF Init, Calm
<1>4. PlacesInv
  <2>1. \A n \in Nodes : Placed(doing[n])
    BY <1>3, CalmIsPlaced
  <2> QED
    BY <2>1 DEF Init, PlacesInv
<1>5. ASSUME NEW u \in users PROVE Served(u)
  <2>1. LoggingIn(u) = {}
    BY <1>3 DEF LoggingIn, Calm
  <2>2. claimed[u] = {}
    BY DEF Init
  <2> QED
    BY <2>1, <2>2 DEF Served
<1> QED
  BY <1>1, <1>2, <1>4, <1>5 DEF LoginsInv, PromisesInv

LEMMA LoginsStep ==
    ASSUME LoginsInv, NEW n \in Nodes, Memberships(n)
    PROVE  PlacesInv' /\ PromisesInv'
<1>1. ASSUME NEW g \in Groups,
             \/ \E nm \in Names : CreateGroup(n, g, nm)
             \/ DeleteGroup(n, g)
             \/ \E us \in SetToAllKPermutations(Users) : AskAdd(n, g, us)
             \/ \E us \in SUBSET Users : AskSet(n, g, us)
      PROVE  PlacesInv' /\ PromisesInv'
  BY <1>1, CreateGroupServes, DeleteGroupServes, AskServes
<1>2. ASSUME NEW g \in Groups, CreateClaimed(n, g) \/ Leave(n, g) \/ Join(n, g)
      PROVE  PlacesInv' /\ PromisesInv'
  BY <1>2, CreateClaimedServes, LeaveServes, JoinServes
<1>3. ASSUME \/ Add(n) \/ Set(n) \/ DeleteUser(n)
             \/ \E u \in Users : AskDeleteUser(n, u)
             \/ \E g \in Groups, u \in Users : RemoveUser(n, g, u)
      PROVE  PlacesInv' /\ PromisesInv'
  BY <1>3, MembersServe
<1>4. ASSUME Decide(n) \/ LoginEnds(n) \/ LdapReads(n) \/ LdapWrites(n)
      PROVE  PlacesInv' /\ PromisesInv'
  BY <1>4, DecideServes, LoginEndsServes, LdapReadsServes, LdapWritesServes
<1>5. ASSUME NEW u \in Users, NEW claim \in Claims, Login(n, u, claim) \/ Ldap(n, u, claim)
      PROVE  PlacesInv' /\ PromisesInv'
  BY <1>5, LoginServes, LdapServes
<1> QED
  BY <1>1, <1>2, <1>3, <1>4, <1>5 DEF Memberships

LEMMA LoginsInductive == LoginsInv /\ SharingInv /\ [Next]_vars => LoginsInv'
<1> SUFFICES ASSUME LoginsInv, SharingInv, [Next]_vars PROVE LoginsInv'
  OBVIOUS
<1>1. ModelsInv' /\ NamesInv'
  BY SharingInductive, ModelsStep, MembershipsStep, EndStep, ModelsStutter
     DEF LoginsInv, SharingInv, Next
<1>2. PlacesInv' /\ PromisesInv'
  BY ModelsLogins, LoginsStep, FailsServes, StutterServes DEF Next
<1> QED
  BY <1>1, <1>2 DEF LoginsInv

\* ClaimsAreMet for any number of instances, users, groups and names, on both
\* databases: however logins and other changes interleave, a user whose groups
\* nothing else has changed is in groups of exactly the names claimed when the
\* login is over.
THEOREM ClaimsMet == Spec => []ClaimsAreMet
<1>1. Init => SharingInv
  BY DEF Init, SharingInv, NamesInv, Cascaded, GrantsInv, groups
<1>2. LoginsInv => ClaimsAreMet
  BY DEF LoginsInv, PromisesInv, Served, ClaimsAreMet
<1> QED
  BY <1>1, <1>2, LoginsInit, LoginsInductive, SharingInductive, PTL DEF Spec

=============================================================================
