--------------------------- MODULE MCSyscallGraph ---------------------------
(* Small instances of SyscallGraph and of its readers. *)
EXTENDS GraphExport

MCPid == {1, 2, 3}
MCType == {"clone", "write", "exit"}
=============================================================================
