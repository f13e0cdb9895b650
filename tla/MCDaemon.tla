------------------------------ MODULE MCDaemon ------------------------------
(***************************************************************************)
(* Values for Daemon: a file with another port in a section, with a zero,  *)
(* a word and a nested value hidden by a flat one; and a file whose port   *)
(* and retries are one past the last number of their types.                *)
(***************************************************************************)
EXTENDS Daemon, TLC

Flat(value) == [flat |-> value, nested |-> 7]
Nested(value) == [flat |-> Absent, nested |-> value]

MCFile ==
  {("port" :> Nested(9000) @@ "max_concurrent_agents" :> Flat(0) @@ "global_timeout" :> Flat(Text)
    @@ "drain_timeout" :> Nested(0)) @@ EmptyDoc,
   ("port" :> Flat(PortSpan) @@ "max_retry" :> Flat(RetrySpan) @@ "recovery_probe_interval" :> Flat(0)) @@ EmptyDoc}
=============================================================================
