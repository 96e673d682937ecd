---------------------------- MODULE MC_ConfigStore --------------------------
(***************************************************************************)
(* ConfigStore for TLC. defaults.json holds an empty task list and one     *)
(* nested setting. A first start finds no file, a file with task t1 (key   *)
(* column id), or a file an editor wrote without tasks. Requests name two   *)
(* tasks; bodies rename, delete with null, set a negative batch size and   *)
(* nest nulls; an editor writes test_watch_key as test_config_watch does.  *)
(***************************************************************************)
EXTENDS ConfigStore

MCDefaultsJson == JObj([tasks |-> JArr(<<>>), server |-> JObj([port |-> JInt(8080)])])

FileWithTask == JObj([tasks |-> JArr(<<JObj([id |-> JStr("t1"), mode |-> JStr("upsert"),
                        db |-> JObj([key_columns |-> JArr(<<JStr("id")>>)])])>>)])
FileWithoutTasks == JObj([test_watch_key |-> JInt(1)])
FileTasksObject == JObj([tasks |-> JObj([t1 |-> JObj([mode |-> JStr("insert")])])])

MCInitFiles == {Absent, FileWithTask, FileWithoutTasks, FileTasksObject}
MCLostEditFiles == {FileWithTask}
MCBootFiles == {FileWithoutTasks}
MCPanicFiles == {FileTasksObject}
MCTaskIds == {"t1", "t2"}
MCCreateBodies == {JObj([mode |-> JNull, batch_size |-> JInt(-1)])}
MCUpdateBodies == {JObj([id |-> JStr("t2"), meta |-> JObj([note |-> JNull])])}
MCExtKeys == {"test_watch_key"}
MCExtValues == {JInt(2)}
=============================================================================
