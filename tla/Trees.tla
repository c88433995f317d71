------------------------------- MODULE Trees -------------------------------
(***************************************************************************)
(* The tree of targets (tree.go), kept as a table of rows that name their  *)
(* parents: what is above a row, where its settings come from, and what    *)
(* makes of rows a tree.                                                   *)
(***************************************************************************)
EXTENDS Naturals, FiniteSets

CONSTANT NONE   \* no parent; a setting that is inherited

Root == 0

(* A node, its parent, and so on up, as far as there are rows: what no set  *)
(* of rows lacks that has the node and its members' parents.                *)
HoldsParents(r, S) == \A k \in S : r[k].parent \in DOMAIN r => r[k].parent \in S

Above(r, n) ==
  {m \in DOMAIN r : \A S \in SUBSET (DOMAIN r \ {m}) : n \in S => ~HoldsParents(r, S)}

Under(r, n) == {m \in DOMAIN r : n \in Above(r, m)}

(* A setting comes from the nearest node on the way up that has it. *)
Resolved(r, n, field) ==
  LET having  == {m \in Above(r, n) : r[m][field] # NONE}
      nearest == CHOOSE m \in having : having \subseteq Above(r, m)
  IN  r[nearest][field]

(* tree.New: one row has no parent, and it is above every row.              *)
OneRoot(r) == {n \in DOMAIN r : r[n].parent = NONE} = {Root}

ReachesRoot(r) == \A n \in DOMAIN r : Root \in Above(r, n)
=============================================================================
