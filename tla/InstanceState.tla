--------------------------- MODULE InstanceState ---------------------------
(***************************************************************************)
(* The lifecycle vocabulary of a challenge instance                        *)
(* (internal/modules/instance/state.go): its statuses and the table that   *)
(* says which status an operation requested through the API leads to.      *)
(* Constant-level: the state machines of the project EXTEND it.            *)
(***************************************************************************)

\* Statuses that the queries of the API and of the worker count as active.
ActiveStatus ==
    {"pending", "pulling", "creating", "starting", "running",
     "restarting", "resetting", "stopping"}

InactiveStatus == {"stopped", "failed", "expired", "interrupted", "deleted"}

Status == ActiveStatus \cup InactiveStatus

\* Statuses in which an operation is on its way (Reconcile's IN list).
InOperation ==
    {"pulling", "creating", "starting", "restarting", "resetting", "stopping"}

\* The operations a worker executes; "extend" is done by the API itself.
JobKind == {"start", "restart", "stop", "reset", "expire"}

\* The statuses from which an operation may be requested ...
From(operation) ==
    CASE operation = "start"   -> {"stopped", "failed", "expired", "interrupted"}
      [] operation = "restart" -> {"running"}
      [] operation = "stop"    -> {"pending", "pulling", "creating", "starting",
                                   "running", "restarting", "resetting"}
      [] operation = "reset"   -> {"running"}
      [] operation \in {"extend", "expire"} -> {"running"}

\* ... and the status it is given at once, before any worker has seen it.
To(operation) ==
    CASE operation = "start"   -> "pending"
      [] operation = "restart" -> "restarting"
      [] operation = "stop"    -> "stopping"
      [] operation = "reset"   -> "resetting"
      [] operation = "extend"  -> "running"
      [] operation = "expire"  -> "stopping"

NextAllowed(operation, current) == current \in From(operation)
=============================================================================
