----------------------------- MODULE ConfigStore ----------------------------
(***************************************************************************)
(* The configuration store of one process: the ConfigManager behind       *)
(* CONFIG_MANAGER (lib.rs), its file, the create_config and update_config *)
(* handlers (core/server.rs), the file watcher (app_config/watcher.rs),   *)
(* Config::from_manager as sync_command and get_system_config use it, an   *)
(* editor writing the file as test_config_watch does, and restarts. Every *)
(* handler runs with the write lock held and no await inside, so each is  *)
(* one atomic step; so is the watcher's reload.                           *)
(***************************************************************************)
EXTENDS Integers, Sequences, FiniteSets, TLC, ConfigTree

CONSTANTS
    DefaultsJson,  \* defaults.json, compiled into the binary
    InitFiles,     \* the config files a first start may find
    Watching,      \* TRUE for init_and_watch_config, FALSE for init_system_config
    TaskIds,       \* the task ids requests name
    CreateBodies,  \* CreateConfigReq.config documents
    UpdateBodies,  \* UpdateConfigReq.updates documents
    ExtKeys,       \* the top-level fields an editor writes into the file
    ExtValues      \* the values it writes

\* No config file.
Absent == <<"absent">>

VARIABLES
    phase,      \* "boot" until init_system_config has run, then "up"
    file,       \* the config file: Absent or its JSON document
    user,       \* ConfigManager.user
    merged,     \* ConfigManager.merged
    pending,    \* the watcher has an event it has not handled yet
    reply,      \* the last handler's outcome: none, ok, exists, not_found, error, panic
    diverged,   \* the file changed, or a write failed, since memory matched it
    extEdits    \* the latest value an editor wrote under each ExtKey

vars == <<phase, file, user, merged, pending, reply, diverged, extEdits>>

\* The defaults: defaults.json, and plugin.todo.enabled, which
\* init_and_watch_config registers after init_system_config.
BootDefaults == JsonDefaults(DefaultsJson)
PluginKey == <<"plugin", "todo", "enabled">>
Defaults == IF Watching THEN Put(BootDefaults, PluginKey, JBool(TRUE)) ELSE BootDefaults

\* load_user_config: the flattened file; a missing file is empty
\* (File::from(path).required(false)).
Load(f) == IF f = Absent THEN EmptyMap ELSE Flatten(f)

\* should_write_defaults: no file, or a file without a "tasks" field.
ShouldWriteDefaults(f) == f = Absent \/ "tasks" \notin DOMAIN Val(f)

\* persist(u): the document unflatten(u) gives and std::fs::write writes,
\* a panic of unflatten, or a failed write.
PersistResults(u) ==
    {<<"written", d[1]>> : d \in Unflattened(u) \ {None}}
    \cup (IF None \in Unflattened(u) THEN {<<"panic">>} ELSE {})
    \cup {<<"error">>}

\* A written file is an event for a running watcher.
ApplyPersist(r, event) ==
    IF r[1] = "written"
    THEN /\ file' = r[2]
         /\ pending' = (pending \/ event)
         /\ diverged' = FALSE
    ELSE /\ UNCHANGED <<file, pending>>
         /\ diverged' = TRUE

\* The tasks array of the merged view (mgr.get("tasks")), empty if none.
CurrentTasks == IF TasksOf(merged) = None THEN <<>> ELSE TasksOf(merged)[1]

Init ==
    /\ phase = "boot"
    /\ file \in InitFiles
    /\ user = EmptyMap
    /\ merged = EmptyMap
    /\ pending = FALSE
    /\ reply = "none"
    /\ diverged = FALSE
    /\ extEdits = [k \in ExtKeys |-> None]

(***************************************************************************)
(* init_system_config (and init_and_watch_config's registration): load    *)
(* the file, register the defaults, build; without a file or without      *)
(* "tasks" in it, replace user by the defaults and persist them. The      *)
(* watcher starts afterwards, so this write is no event.                   *)
(***************************************************************************)
Boot ==
    /\ phase = "boot"
    /\ phase' = "up"
    /\ IF ShouldWriteDefaults(file)
       THEN /\ user' = BootDefaults
            /\ \E r \in PersistResults(BootDefaults) : ApplyPersist(r, FALSE)
       ELSE /\ user' = Load(file)
            /\ diverged' = FALSE
            /\ UNCHANGED <<file, pending>>
    /\ merged' = Build(Defaults, user')
    /\ UNCHANGED <<reply, extEdits>>

\* The process ends; the file stays.
Restart ==
    /\ phase = "up"
    /\ phase' = "boot"
    /\ user' = EmptyMap /\ merged' = EmptyMap /\ pending' = FALSE
    /\ reply' = "none"
    /\ UNCHANGED <<file, diverged, extEdits>>

\* Mutant: persist runs before the insert and saves the old user map.
SetTasksPersistOld(tasks) ==
    /\ user' = Put(user, TasksKey, JArr(tasks))
    /\ merged' = Build(Defaults, user')
    /\ \E r \in PersistResults(user) :
          /\ ApplyPersist(r, Watching)
          /\ reply' = IF r[1] = "written" THEN "ok" ELSE r[1]

\* mgr.set("tasks", Array(tasks)): insert into user, build, persist.
SetTasks(tasks) ==
    /\ user' = Put(user, TasksKey, JArr(tasks))
    /\ merged' = Build(Defaults, user')
    /\ \E r \in PersistResults(user') :
          /\ ApplyPersist(r, Watching)
          /\ reply' = IF r[1] = "written" THEN "ok" ELSE r[1]

\* A handler that answers without calling set.
Refuse(why) ==
    /\ reply' = why
    /\ UNCHANGED <<file, user, merged, pending, diverged>>

\* create_config's new task: id, the defaults, the request merged in, id.
NewTask(t, body) ==
    Put(MergeJsonValue(ApplyDefaultTaskValues([id |-> JStr(t)]), body), "id", JStr(t))

CreateConfig(t, body) ==
    /\ phase = "up"
    /\ IF \E i \in DOMAIN CurrentTasks : IdOf(CurrentTasks[i]) = Some(t)
       THEN Refuse("exists")
       ELSE SetTasks(Append(CurrentTasks, JObj(NewTask(t, body))))
    /\ UNCHANGED <<phase, extEdits>>

\* Mutant: the id is not restored after the merge.
UpdateConfigNoIdRestore(t, upd) ==
    /\ phase = "up"
    /\ LET idx == TaskIndex(CurrentTasks, t)
       IN IF idx = None
          THEN Refuse("not_found")
          ELSE SetTasks([CurrentTasks EXCEPT ![idx[1]] = JObj(MergeJsonValue(Val(@), upd))])
    /\ UNCHANGED <<phase, extEdits>>

\* update_config: merge into the first task with the id, restore the id.
UpdateConfig(t, upd) ==
    /\ phase = "up"
    /\ LET idx == TaskIndex(CurrentTasks, t)
       IN IF idx = None
          THEN Refuse("not_found")
          ELSE SetTasks([CurrentTasks EXCEPT ![idx[1]] =
                           JObj(Put(MergeJsonValue(Val(@), upd), "id", JStr(t)))])
    /\ UNCHANGED <<phase, extEdits>>

\* The watcher's callback: under the write lock, user = load, build.
Reload ==
    /\ Watching /\ phase = "up" /\ pending
    /\ pending' = FALSE
    /\ user' = Load(file)
    /\ merged' = Build(Defaults, user')
    /\ diverged' = FALSE
    /\ UNCHANGED <<phase, file, reply, extEdits>>

\* An editor reads the file, sets one top-level field and writes it back.
ExternalWrite(k, v) ==
    /\ file' = JObj(Put(IF file = Absent THEN EmptyObj ELSE Val(file), k, v))
    /\ pending' = (pending \/ (Watching /\ phase = "up"))
    /\ diverged' = TRUE
    /\ extEdits' = [extEdits EXCEPT ![k] = Some(v)]
    /\ UNCHANGED <<phase, user, merged, reply>>

Next ==
    \/ Boot \/ Restart \/ Reload
    \/ \E t \in TaskIds :
          \/ \E b \in CreateBodies : CreateConfig(t, b)
          \/ \E u \in UpdateBodies : UpdateConfig(t, u)
    \/ \E k \in ExtKeys, v \in ExtValues : ExternalWrite(k, v)

Spec == Init /\ [][Next]_vars

-----------------------------------------------------------------------------
\* Types.
TypeOK ==
    /\ phase \in {"boot", "up"}
    /\ file = Absent \/ Kind(file) = "obj"
    /\ pending \in BOOLEAN /\ diverged \in BOOLEAN
    /\ reply \in {"none", "ok", "exists", "not_found", "error", "panic"}
    /\ extEdits \in [ExtKeys -> {None} \cup {Some(v) : v \in ExtValues}]

\* No two stored tasks carry the same id: create_config refuses an existing
\* id and update_config puts the id back after merging updates that may
\* rename the task, whatever the order of requests, reloads and restarts.
TaskIdsUnique ==
    \A i, j \in DOMAIN CurrentTasks :
        i # j /\ IdOf(CurrentTasks[i]) # None => IdOf(CurrentTasks[i]) # IdOf(CurrentTasks[j])

\* The value of a top-level field in the file, and in memory.
FileTop(k) == IF file # Absent /\ k \in DOMAIN Val(file) THEN Some(Val(file)[k]) ELSE None
MemTop(k) == IF <<k>> \in DOMAIN user THEN Some(user[<<k>>]) ELSE None

\* The watcher's promise (test_config_watch): a value an editor writes into
\* the file is not lost; it stays in the file or reaches memory. A request
\* that calls set before the watcher reloads persists the old user map
\* over the edit.
NoLostExternalEdit ==
    phase = "up" =>
        \A k \in ExtKeys : extEdits[k] # None =>
            FileTop(k) = extEdits[k] \/ MemTop(k) = extEdits[k]

\* lib.rs: "if the user config does not exist or is empty, write the
\* default config". A start that finds settings in the file keeps them.
BootKeepsUserSettings ==
    [][phase = "boot" /\ phase' = "up" =>
         \A k \in DOMAIN Load(file) : k \in DOMAIN user' /\ user'[k] = Load(file)[k]]_vars

\* ConfigManager::set saves user or says it did not: persist either
\* returns an Err, which the handlers answer with a 500, or writes a file
\* that loads back as exactly user. It never panics, and unless a write
\* failed or an editor wrote since, the file and user agree.
PersistSavesUser ==
    /\ reply # "panic"
    /\ phase = "up" /\ ~diverged => Load(file) = user

\* Whether task t is among the tasks the handlers see.
HasTask(t) == \E i \in DOMAIN CurrentTasks : IdOf(CurrentTasks[i]) = Some(t)

\* A task that is there when a create or update answers ok stays there:
\* set persists the whole user map after inserting, so neither a later
\* failed write, the watcher reloading the file, an editor's write nor a
\* restart that loads the file (and may rewrite defaults) loses it.
AckedTaskKept ==
    \A t \in TaskIds :
        [](reply = "ok" /\ HasTask(t) => [](phase = "up" => HasTask(t)))
=============================================================================
