---------------------------- MODULE MCConnection ----------------------------
(***************************************************************************)
(* Small instances of Connection: callers that pass everything, only the   *)
(* handle, or an empty tenant; environments that name another hub.         *)
(***************************************************************************)
EXTENDS Connection

Only(fields, v) == [f \in Field |-> IF f \in fields THEN v ELSE "absent"]

Callers == {
  Only({"participant", "url", "pat"}, "given"),
  [Only({"participant"}, "given") EXCEPT !["tenant"] = "empty"],
  Only({"url", "pat"}, "given") }

Environments == {Only({"url", "pat", "tenant"}, v) : v \in {"env1", "env2"}}
                  \cup {Only({"url"}, "env1")}

=============================================================================
