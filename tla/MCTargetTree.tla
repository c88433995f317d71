---------------------------- MODULE MCTargetTree ----------------------------
(* A small instance of TargetTree for TLC: a target with one below it, and  *)
(* a file that shortens the interval and names the upper of the two and a   *)
(* new one.                                                                 *)
EXTENDS TargetTree

CONSTANTS a, b

Target(parent, name, load) == [parent |-> parent, name |-> name, interval |-> NONE, load |-> load]

Stored == [n \in 0..2 |-> IF n = 0 THEN [Target(NONE, a, 1) EXCEPT !.interval = 2]
                          ELSE IF n = 1 THEN Target(0, a, 2) ELSE Target(1, b, NONE)]

Defaults == [interval |-> 1, load |-> NONE]

Named1 == [p \in {<<a>>, <<b>>} |-> [interval |-> NONE, load |-> IF p = <<a>> THEN 1 ELSE NONE]]
=============================================================================
