----------------------------- MODULE MCMonitor ------------------------------
(* Small instances of Monitor. *)
EXTENDS Monitor

MCPid == {1, 2}
MCType == {"call"}
MCCpu == {"cpu0", "cpu1"}
MCOneCpu == {"cpu0"}
MCMigrating == [p \in MCPid |-> MCCpu]
MCOnlyChild == [p \in MCPid |-> IF p = Child THEN MCOneCpu ELSE {}]
MCChild == {2}
MCNone == {}
=============================================================================
