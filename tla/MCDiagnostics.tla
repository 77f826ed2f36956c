--------------------------- MODULE MCDiagnostics ---------------------------
EXTENDS Diagnostics

MCDirs == {"output", "diagnostics"}
MCMaxRuns == [tool \in {"tool_a", "tool_b"} |-> IF tool = "tool_a" THEN 2 ELSE 1]
=============================================================================
