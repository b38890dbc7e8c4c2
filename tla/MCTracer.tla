------------------------------ MODULE MCTracer ------------------------------
(* Small instances of Tracer. *)
EXTENDS Tracer

MCPid == {1, 2, 3}
MCType == {"call"}
MCCpu == {"cpu0", "cpu1"}

\* The child stays on one CPU, the others migrate.
MCAffinity == [p \in MCPid |-> IF p = 2 THEN {"cpu0"} ELSE MCCpu]
=============================================================================
