----------------------------- MODULE TreeLimits -----------------------------
(***************************************************************************)
(* What smokeng will run, as opposed to what it will store (limits.go):    *)
(* requests that change the tree of targets, held to the limits on a       *)
(* setting, on one target's load, on all of it together, on the depth and  *)
(* on the number of targets, but only in what they make worse.  The tree   *)
(* may have been past a limit before there was one.                        *)
(*                                                                         *)
(* Four settings are inherited here, those a load is made of.  An import   *)
(* passes the same two checks; its writes, row by row, are in TargetTree,  *)
(* as is the rest of what makes a tree valid.                              *)
(***************************************************************************)
EXTENDS Trees, Integers

CONSTANTS
  LimNodes,     \* ids of nodes
  PlannedTree,  \* the tree at the start, but for one node of it
  LimValues,    \* values of the settings
  Ceiling,      \* the largest value of each setting
  MaxRate, MaxBytes, MaxTotal, MaxLevels, MaxHeld,   \* the limits
  PerTicks,     \* the time rates are counted over, a multiple of every interval
  MaxTreeChanges   \* bound: requests that change the tree

Loads == {"interval", "pings", "size", "timeout"}

(* A group, a target that does not run, and one that does. *)
Modes == {"group", "disabled", "enabled"}

LimNode ==
  [parent : LimNodes \cup {NONE}, mode : Modes,
   interval : LimValues \cup {NONE}, pings : LimValues \cup {NONE},
   size : LimValues \cup {NONE}, timeout : LimValues \cup {NONE}]

IsComplete(t) == \A f \in Loads : t[Root][f] # NONE

(* Rows tree.New accepts. *)
IsPlanned(t) == OneRoot(t) /\ ReachesRoot(t) /\ IsComplete(t)

ASSUME LimitsAssumption ==
  /\ IsFiniteSet(LimNodes) /\ DOMAIN PlannedTree \subseteq LimNodes
  /\ PlannedTree \in [DOMAIN PlannedTree -> LimNode] /\ IsPlanned(PlannedTree)
  /\ LimValues \subseteq Nat \ {0} /\ NONE \notin LimValues \cup LimNodes
  /\ PerTicks > 0 /\ \A v \in LimValues : PerTicks % v = 0
  /\ Ceiling \in [Loads -> Nat]
  /\ {MaxRate, MaxBytes, MaxTotal, MaxLevels, MaxHeld, PerTicks, MaxTreeChanges} \subseteq Nat

VARIABLES
  nodes,        \* targets
  treeChanges,  \* counted against the bound
  legacy        \* ghost: the tree as it was before there were limits

limitVars == <<nodes, treeChanges, legacy>>

-----------------------------------------------------------------------------
(* Loads.                                                                  *)

LevelOf(t, n) == Cardinality(Above(t, n)) - 1

Running(t) == {n \in DOMAIN t : t[n].mode = "enabled"}

(* What a target is to do, by its own settings and those it inherits. *)
LoadOf(t, n) == [f \in Loads |-> Resolved(t, n, f)]

RateOf(load) == load["pings"] * (PerTicks \div load["interval"])

BytesOf(load) == RateOf(load) * load["size"]

(* The share of its interval a target waits. *)
WaitOf(load) == load["timeout"] * (PerTicks \div load["interval"])

(* What is sent by all of them: each target's pings, by their numbers. *)
PingsOf(t) == UNION {{n} \X (1..RateOf(LoadOf(t, n))) : n \in Running(t)}

TotalOf(t) == Cardinality(PingsOf(t))

WithinLimits(load) ==
  /\ load["timeout"] <= load["interval"]
  /\ RateOf(load) <= MaxRate * PerTicks
  /\ BytesOf(load) <= MaxBytes * PerTicks

(* No more of anything than before; in the variants with a fault, bytes are *)
(* forgotten, or a target that did not run counts as one that did.          *)
NotFaster(before, after) == RateOf(after) <= RateOf(before) /\ WaitOf(after) <= WaitOf(before)

NotWorse(before, after) == NotFaster(before, after) /\ BytesOf(after) <= BytesOf(before)

HadAHost(t, n) == n \in DOMAIN t /\ t[n].mode # "group"

WasRunning(t, n) == n \in Running(t)

(* CheckLimits refuses a setting given a value out of its range. *)
OutOfRange(t, u) ==
  \E n \in DOMAIN u, f \in Loads :
    LET v == u[n][f] IN
    v # NONE /\ (n \in DOMAIN t => t[n][f] # v) /\ v > Ceiling[f]

(* CheckTreeLimits refuses more targets, deeper ones, targets with more to  *)
(* do and more to do in all, each past its limit only.                      *)
Worsens(t, u) ==
  \/ Cardinality(DOMAIN u) > MaxHeld /\ Cardinality(DOMAIN u) > Cardinality(DOMAIN t)
  \/ \E n \in DOMAIN u :
       LevelOf(u, n) > MaxLevels /\ (n \in DOMAIN t => LevelOf(t, n) < LevelOf(u, n))
  \/ \E n \in Running(u) :
       LET load == LoadOf(u, n) IN
       ~WithinLimits(load) /\ ~(WasRunning(t, n) /\ NotWorse(LoadOf(t, n), load))
  \/ TotalOf(u) > MaxTotal * PerTicks /\ TotalOf(u) > TotalOf(t)

-----------------------------------------------------------------------------
(* Requests.                                                               *)

Changed(u) ==
  /\ treeChanges < MaxTreeChanges
  /\ treeChanges' = treeChanges + 1
  /\ IsPlanned(u) /\ ~OutOfRange(nodes, u) /\ ~Worsens(nodes, u)
  /\ nodes' = u
  /\ UNCHANGED legacy

(* A row with one setting of its own. *)
NewNode(m, mode, f, v) ==
  LET own(g) == IF g = f THEN v ELSE NONE IN
  [parent |-> m, mode |-> mode, interval |-> own("interval"), pings |-> own("pings"),
   size |-> own("size"), timeout |-> own("timeout")]

CreateNode(m, mode, f, v) ==
  LET free == LimNodes \ DOMAIN nodes IN
  /\ m \in DOMAIN nodes /\ free # {}
  /\ LET n == CHOOSE k \in free : TRUE IN
     Changed([k \in DOMAIN nodes \cup {n} |-> IF k = n THEN NewNode(m, mode, f, v) ELSE nodes[k]])

(* A value that is given is set, and null clears it. *)
SetLoad(n, f, v) ==
  /\ n \in DOMAIN nodes /\ v # nodes[n][f]
  /\ Changed([nodes EXCEPT ![n][f] = v])

SetMode(n, mode) ==
  /\ n \in DOMAIN nodes \ {Root} /\ mode # nodes[n].mode
  /\ Changed([nodes EXCEPT ![n].mode = mode])

MoveInTree(n, m) ==
  /\ n \in DOMAIN nodes \ {Root} /\ m \in DOMAIN nodes \ {nodes[n].parent}
  /\ Changed([nodes EXCEPT ![n].parent = m])

(* Nothing that is deleted can make a limit worse, and nothing is checked. *)
DeleteNode(n) ==
  /\ n \in DOMAIN nodes \ {Root}
  /\ treeChanges < MaxTreeChanges
  /\ treeChanges' = treeChanges + 1
  /\ nodes' = [m \in DOMAIN nodes \ Under(nodes, n) |-> nodes[m]]
  /\ UNCHANGED legacy

(* One node of the tree may have had anything at all, anywhere. *)
LimitsInit ==
  /\ \E n, m \in DOMAIN PlannedTree, mode \in Modes, f \in Loads, v \in LimValues :
       nodes = IF n = Root THEN [PlannedTree EXCEPT ![n][f] = v]
               ELSE [PlannedTree EXCEPT ![n].parent = m, ![n].mode = mode, ![n][f] = v]
  /\ IsPlanned(nodes)
  /\ legacy = nodes
  /\ treeChanges = 0

LimitsNext ==
  \/ \E m \in LimNodes, mode \in Modes, f \in Loads, v \in LimValues : CreateNode(m, mode, f, v)
  \/ \E n \in LimNodes, f \in Loads, v \in LimValues \cup {NONE} : SetLoad(n, f, v)
  \/ \E n \in LimNodes, mode \in Modes : SetMode(n, mode)
  \/ \E n, m \in LimNodes : MoveInTree(n, m)
  \/ \E n \in LimNodes : DeleteNode(n)

LimitsSpec == LimitsInit /\ [][LimitsNext]_limitVars

-----------------------------------------------------------------------------
(* The properties.                                                         *)

(* Whatever is past a limit was there before the limit, and at least as     *)
(* bad: no sequence of edits, of the target, of what it inherits from, or   *)
(* of where it hangs, takes a target or the whole past what it is allowed   *)
(* and it did not already do ("only what the change makes worse is          *)
(* refused", limits.go:250).                                                *)
OnlyLegacyExceeds ==
  /\ \A n \in Running(nodes) :
       LET load == LoadOf(nodes, n) IN
       WithinLimits(load) \/ (WasRunning(legacy, n) /\ NotWorse(LoadOf(legacy, n), load))
  /\ TotalOf(nodes) <= MaxTotal * PerTicks \/ TotalOf(nodes) <= TotalOf(legacy)
  /\ \A n \in DOMAIN nodes :
       LevelOf(nodes, n) <= MaxLevels
         \/ (n \in DOMAIN legacy /\ LevelOf(nodes, n) <= LevelOf(legacy, n))
=============================================================================
