--------------------------- MODULE MCAgentMirror ---------------------------
(* A small instance of AgentMirror for TLC: two paths that come to the same *)
(* name, as localName writes a slash as it would a dash, and another.       *)
EXTENDS AgentMirror

CONSTANTS slashed, dashed, other   \* the paths of the master's tree

NameOfPath(p) == IF p = other THEN "x" ELSE "a-b"
=============================================================================
