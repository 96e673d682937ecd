---------------------------- MODULE FetchClient -----------------------------
(***************************************************************************)
(* core/client_tool.rs: fetch_json(api) runs curl; on any curl error it   *)
(* runs the PowerShell fallback; it parses what the tool wrote to stdout  *)
(* with serde_json. Both tools run as child processes the job waits for   *)
(* (Command::output), so a request without a time limit blocks the job   *)
(* for as long as the server keeps the connection open. timeout_secs is   *)
(* api.timeout_secs, an Option of a u64.                                  *)
(***************************************************************************)
EXTENDS Integers, Sequences, TypedValue

\* try_curl passes --max-time only when timeout_secs is set, and curl reads
\* --max-time 0 as no limit.
CurlTimed(timeoutSecs) == timeoutSecs # None /\ timeoutSecs[1] # 0

\* try_powershell passes -TimeoutSec timeout_secs.unwrap_or(30), and
\* Invoke-RestMethod reads -TimeoutSec 0 as an indefinite wait.
PsTimed(timeoutSecs) == IF timeoutSecs = None THEN TRUE ELSE timeoutSecs[1] # 0

(***************************************************************************)
(* What `$r | ConvertTo-Json -Depth 20` writes for the parsed response    *)
(* $r, as an Option of the JSON document serde_json then reads. The      *)
(* pipeline unrolls a top-level array: a one-element array reaches        *)
(* ConvertTo-Json as its element alone, an empty one as nothing, and     *)
(* nothing converts to no output, which is not JSON. A body that is not   *)
(* JSON reaches it as a string.                                           *)
(***************************************************************************)
PsOutput(doc) ==
    CASE Kind(doc) = "arr" /\ Len(Val(doc)) = 0 -> None
      [] Kind(doc) = "arr" /\ Len(Val(doc)) = 1 -> Some(Val(doc)[1])
      [] OTHER -> Some(doc)

\* The text of a body that is not JSON, as PowerShell hands it on.
NotJsonText == JStr("<html>")
=============================================================================
