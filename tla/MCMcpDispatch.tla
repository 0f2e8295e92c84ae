--------------------------- MODULE MCMcpDispatch ---------------------------
(* Three callers for TLC: a writer and two readers that can starve it.     *)
EXTENDS McpDispatch

=============================================================================
