------------------------------ MODULE AppConfig ------------------------------
(***************************************************************************)
(* The configuration an administrator edits (config.py).  Every instance   *)
(* keeps one PersistentConfig per setting (registry) and the whole         *)
(* document it last loaded or wrote (CONFIG_DATA, here blob); the database *)
(* keeps the document in a table that should have one row; a deployment of *)
(* several instances keeps each setting under a Redis key as well.         *)
(*                                                                         *)
(* Assigning a setting changes the memory, then writes the WHOLE document, *)
(* then sets the Redis key: three steps that other instances, a crash or a *)
(* failing database come between.  Handlers are coroutines that make these *)
(* calls without awaiting, so an instance runs one of them at a time; only *)
(* handlers that run in the thread pool read settings in the meantime.     *)
(***************************************************************************)
EXTENDS Naturals, Sequences, SequencesExt

CONSTANTS
    Nodes,          \* instances
    Deployments,    \* subset of BOOLEAN: TRUE is several instances with
                    \* Redis, FALSE one at a time without
    Settings,       \* configuration keys
    Values,         \* their values
    Unset,          \* no value: absent from the document or from Redis
    Env,            \* [Settings -> Values], the defaults of the environment
    ThreadRead,     \* settings read by handlers of the thread pool
    Forms,          \* the lists of <<setting, value>> an admin form saves
    Imports,        \* the documents an administrator may import
    ResetOnStart,   \* RESET_CONFIG_ON_START
    MaxSaves,       \* bound: forms and imports started
    MaxCrashes      \* bound: crashes and failing database calls

Document == [Settings -> Values \cup {Unset}]

\* A form saves at least one setting; a document may leave settings out.
ASSUME ConfigAssumption ==
    /\ Deployments \subseteq BOOLEAN
    /\ Unset \notin Values
    /\ Env \in [Settings -> Values]
    /\ ThreadRead \subseteq Settings
    /\ \A form \in Forms : form \in Seq(Settings \X Values) /\ form # <<>>
    /\ Imports \subseteq Document

VARIABLES
    cluster,    \* several instances and Redis, or one at a time without
    up,         \* instances that serve
    registry,   \* [Nodes -> [Settings -> Values]], PersistentConfig.value
    blob,       \* [Nodes -> Document], CONFIG_DATA
    rows,       \* the rows of the config table in the order of their ids
    redis,      \* [Settings -> Values \cup {Unset}]
    saving,     \* the assignments an instance still has to make
    want,       \* history: the value whose save completed last
    torn,       \* history: settings a crash, a failure or an import left open
    saves,      \* number of forms and imports started
    crashes     \* number of faults

configVars == <<cluster, up, registry, blob, rows, redis, saving, want, torn,
                saves, crashes>>

DefaultConfig == [k \in Settings |-> Unset]

\* What a PersistentConfig holds after it is built from a document.
Loaded(data) ==
    [k \in Settings |-> IF data[k] # Unset THEN data[k] ELSE Env[k]]

NoSave == [todo |-> <<>>, at |-> "idle", row |-> 0, import |-> DefaultConfig]

Quiet(n) == n \in up /\ saving[n] = NoSave

ConfigInit ==
    /\ cluster \in Deployments
    /\ up = {}
    /\ registry = [n \in Nodes |-> Env]
    /\ blob = [n \in Nodes |-> DefaultConfig]
    /\ rows = <<>>
    /\ redis = DefaultConfig
    /\ saving = [n \in Nodes |-> NoSave]
    /\ want = Env
    /\ torn = {}
    /\ saves = 0
    /\ crashes = 0

-----------------------------------------------------------------------------
(* Reading a setting. *)

\* AppConfig.__getattr__: the Redis key wins over the memory.
Read(n, k) ==
    IF cluster /\ redis[k] # Unset THEN redis[k] ELSE registry[n][k]

\* The memory after the read.
Refreshed(n, k) == [registry EXCEPT ![n][k] = Read(n, k)]

\* A handler of the thread pool reads a setting, also while a coroutine of
\* the same instance is between two steps of a save; a read that finds what
\* is in memory changes nothing.
ThreadReads(n, k) ==
    /\ n \in up
    /\ Read(n, k) # registry[n][k]
    /\ registry' = Refreshed(n, k)
    /\ UNCHANGED <<cluster, up, blob, rows, redis, saving, want, torn, saves, crashes>>

-----------------------------------------------------------------------------
(* Saving settings. *)

\* A handler starts to assign the settings of a list, in order.
StartSaving(n, form) ==
    /\ Quiet(n)
    /\ saving' = [saving EXCEPT ![n].todo = form, ![n].at = "assign"]

SaveForm(n, form) ==
    /\ StartSaving(n, form)
    /\ saves < MaxSaves
    /\ saves' = saves + 1
    /\ UNCHANGED <<cluster, up, registry, blob, rows, redis, want, torn, crashes>>

\* save_to_db asks for the first row of the table, in no order: 0 is none.
SomeRow == IF rows = <<>> THEN {0} ELSE DOMAIN rows

\* mutant: the setting is saved under its name only in memory
AssignMemoryOnly(n) ==
    LET k == Head(saving[n].todo)[1]
        v == Head(saving[n].todo)[2]
    IN  /\ saving[n].at = "assign"
        /\ registry' = [registry EXCEPT ![n][k] = v]
        /\ \E r \in SomeRow :
             saving' = [saving EXCEPT ![n].at = "commit", ![n].row = r]
        /\ UNCHANGED <<cluster, up, blob, rows, redis, want, torn, saves, crashes>>

\* The value changes in memory and in the document of this instance; then the
\* row to write is looked up.
Assign(n) ==
    LET k == Head(saving[n].todo)[1]
        v == Head(saving[n].todo)[2]
    IN  /\ saving[n].at = "assign"
        /\ registry' = [registry EXCEPT ![n][k] = v]
        /\ blob' = [blob EXCEPT ![n][k] = v]
        /\ \E r \in SomeRow :
             saving' = [saving EXCEPT ![n].at = "commit", ![n].row = r]
        /\ UNCHANGED <<cluster, up, rows, redis, want, torn, saves, crashes>>

\* The row found is overwritten; where there was none, one is inserted.
Written(r, data) == IF r = 0 THEN Append(rows, data) ELSE [rows EXCEPT ![r] = data]

Commit(n) ==
    /\ saving[n].at = "commit"
    /\ saving[n].row \in DOMAIN rows \cup {0}
    /\ rows' = Written(saving[n].row, blob[n])
    /\ saving' = [saving EXCEPT ![n].at = "publish"]
    /\ UNCHANGED <<cluster, up, registry, blob, redis, want, torn, saves, crashes>>

\* The Redis key is set to what the memory holds by now, and the next
\* assignment begins.
Publish(n) ==
    LET k == Head(saving[n].todo)[1]
        rest == Tail(saving[n].todo)
    IN  /\ saving[n].at = "publish"
        /\ redis' = IF cluster THEN [redis EXCEPT ![k] = registry[n][k]] ELSE redis
        /\ want' = [want EXCEPT ![k] = Head(saving[n].todo)[2]]
        /\ torn' = torn \ {k}
        /\ saving' = [saving EXCEPT ![n] =
             IF rest = <<>> THEN NoSave
             ELSE [@ EXCEPT !.todo = rest, !.at = "assign", !.row = 0]]
        /\ UNCHANGED <<cluster, up, registry, blob, rows, saves, crashes>>

\* The setting an instance has assigned and not yet published.
Pending(n) ==
    IF saving[n].at \in {"commit", "publish"} THEN {Head(saving[n].todo)[1]} ELSE {}

\* The database call raises: the handler ends, the memory keeps the value.
SaveFails(n) ==
    /\ saving[n].at \in {"commit", "import"}
    /\ crashes < MaxCrashes
    /\ crashes' = crashes + 1
    /\ torn' = torn \cup Pending(n)
    /\ saving' = [saving EXCEPT ![n] = NoSave]
    /\ UNCHANGED <<cluster, up, registry, blob, rows, redis, want, saves>>

-----------------------------------------------------------------------------
(* Importing a document. *)

StartImport(n, data) ==
    /\ Quiet(n)
    /\ saves < MaxSaves
    /\ saves' = saves + 1
    /\ \E r \in SomeRow :
         saving' = [saving EXCEPT ![n].at = "import", ![n].row = r, ![n].import = data]
    /\ UNCHANGED <<cluster, up, registry, blob, rows, redis, want, torn, crashes>>

\* The document replaces the row and CONFIG_DATA; settings it names change in
\* memory, the others keep their value until the next start.  Redis keys are
\* left alone, so what they hold still wins.
Import(n) ==
    LET data == saving[n].import
        inRedis == {k \in Settings : cluster /\ redis[k] # Unset}
        taken == {k \in Settings : ~cluster /\ data[k] # Unset}
    IN  /\ saving[n].at = "import"
        /\ saving[n].row \in DOMAIN rows \cup {0}
        /\ rows' = Written(saving[n].row, data)
        /\ blob' = [blob EXCEPT ![n] = data]
        /\ registry' = [registry EXCEPT ![n] =
             [k \in Settings |-> IF data[k] # Unset THEN data[k] ELSE @[k]]]
        /\ want' = [k \in Settings |-> IF k \in taken THEN data[k] ELSE want[k]]
        /\ torn' = (torn \ taken) \cup (Settings \ (taken \cup inRedis))
        /\ saving' = [saving EXCEPT ![n] = NoSave]
        /\ UNCHANGED <<cluster, up, redis, saves, crashes>>

-----------------------------------------------------------------------------
(* Starting and stopping. *)

\* The last row is loaded when config.py is imported; RESET_CONFIG_ON_START
\* empties the table later, when the application starts.
Boot(n) ==
    LET data == IF rows = <<>> THEN DefaultConfig ELSE Last(rows)
    IN  /\ n \notin up
        /\ cluster \/ up = {}
        /\ up' = up \cup {n}
        /\ blob' = [blob EXCEPT ![n] = data]
        /\ registry' = [registry EXCEPT ![n] = Loaded(data)]
        /\ rows' = IF ResetOnStart THEN <<>> ELSE rows
        /\ UNCHANGED <<cluster, redis, saving, want, torn, saves, crashes>>

\* What a crash takes with it; the memory of a stopped instance is forgotten.
Crash(n) ==
    /\ n \in up
    /\ crashes < MaxCrashes
    /\ crashes' = crashes + 1
    /\ up' = up \ {n}
    /\ torn' = torn \cup Pending(n)
    /\ saving' = [saving EXCEPT ![n] = NoSave]
    /\ registry' = [registry EXCEPT ![n] = Env]
    /\ blob' = [blob EXCEPT ![n] = DefaultConfig]
    /\ UNCHANGED <<cluster, rows, redis, want, saves>>

SaveStep(n) == Assign(n) \/ Commit(n) \/ Publish(n) \/ Import(n)

ConfigNext ==
    \E n \in Nodes :
        \/ SaveStep(n)
        \/ SaveFails(n)
        \/ \E k \in ThreadRead : ThreadReads(n, k)
        \/ \E form \in Forms : SaveForm(n, form)
        \/ \E data \in Imports : StartImport(n, data)
        \/ Boot(n)
        \/ Crash(n)

ConfigSpec == ConfigInit /\ [][ConfigNext]_configVars

-----------------------------------------------------------------------------
(* Properties. *)

\* The variables have their types.
ConfigTypeOK ==
    /\ cluster \in BOOLEAN
    /\ up \subseteq Nodes
    /\ registry \in [Nodes -> [Settings -> Values]]
    /\ blob \in [Nodes -> Document]
    /\ rows \in Seq(Document)
    /\ redis \in Document
    /\ want \in [Settings -> Values]
    /\ torn \subseteq Settings

\* A setting whose save completed is what every instance answers with from
\* then on, after a restart too, whatever documents other instances wrote in
\* the meantime.  Not so for settings read in the thread pool: such a read
\* between the steps of a save puts the old value back, and publishes it.
SetIsRead ==
    \A n \in Nodes, k \in Settings \ ThreadRead :
        (/\ Quiet(n)
         /\ k \notin torn
         /\ \A m \in Nodes : k \notin Pending(m))
        => Read(n, k) = want[k]

\* RESET_CONFIG_ON_START reverts the settings to their defaults: as long as
\* the table is empty, an instance answers with what the environment says.
ResetReverts ==
    \A n \in Nodes :
        (ResetOnStart /\ Quiet(n) /\ rows = <<>>)
        => \A k \in Settings \ torn : Read(n, k) = Env[k]

=============================================================================
