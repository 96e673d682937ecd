--------------------------- MODULE MC_TableBrowse ---------------------------
(***************************************************************************)
(* TableBrowse for TLC. The first file stores task t1 against Postgres    *)
(* (db.url only), and update_config may move t1 to MySQL (db_type and     *)
(* db.url). Two callers send GET /tables for t1 (URL and db_type from the *)
(* store) or for a Postgres URL named with a db_type in another case, or  *)
(* run POST /sync for t1. No symmetry: RequestsAnswered is a liveness     *)
(* property.                                                              *)
(***************************************************************************)
EXTENDS TableBrowse, TLC

CONSTANTS b1, b2

PgUrl == "postgresql://h/db"
MyUrl == "mysql://h/db"

MCDefaultsJson == JObj([tasks |-> JArr(<<>>)])
FileWithTask == JObj([tasks |-> JArr(<<JObj([id |-> JStr("t1"),
                        db |-> JObj([url |-> JStr(PgUrl)])])>>)])
MCInitFiles == {FileWithTask}
MCTaskIds == {"t1"}
ToMysql == JObj([db_type |-> JStr("mysql"), db |-> JObj([url |-> JStr(MyUrl)])])
MCUpdateBodies == {ToMysql}
MCCallers == {b1, b2}
MCUrls == {PgUrl, MyUrl}
MCLower == [s \in {"", "mysql", "Postgres"} |-> IF s = "Postgres" THEN "postgres" ELSE s]
MCScheme == [u \in MCUrls |-> CASE u = PgUrl -> "postgres" [] u = MyUrl -> "mysql"
                                [] OTHER -> "other"]

QTask == [dbUrl |-> None, dbType |-> None, taskId |-> Some("t1")]
QTypedPg == [dbUrl |-> Some(PgUrl), dbType |-> Some("Postgres"), taskId |-> None]
MCQueries == {QTask, QTypedPg}

=============================================================================
