---------------------------- MODULE AgentMirror ----------------------------
(***************************************************************************)
(* How an agent follows the master's tree (internal/agent/agent.go, pull   *)
(* and mirror; internal/api/ingest.go, handleAgentTargets): now and then   *)
(* it asks for its assignments and writes them, row by row, into a flat    *)
(* tree of its own, under the master's ids and a name made from the path.  *)
(*                                                                         *)
(* Slashes in a path become dashes in the name, so two paths may have one  *)
(* name; LocalName says which.  Every row has the same parent, and the     *)
(* schema lets no two rows of one parent have one name, enabled or not.    *)
(***************************************************************************)
EXTENDS Naturals, FiniteSets

CONSTANTS
  TreePaths,          \* paths of targets in the master's tree
  LocalName(_),       \* the name a path is given in the agent's tree
  LastTarget,         \* bound: ids of targets, which never return
  MaxTreeEdits,       \* bound: edits of the master's tree
  MaxLostPulls        \* bound: pulls without an answer, agents stopped

TargetIds == 1..LastTarget

ASSUME MirrorAssumption == {LastTarget, MaxTreeEdits, MaxLostPulls} \subseteq Nat

VARIABLES
  given,      \* master: id |-> its path, and whether it is this agent's
  newest,     \* master: the last id given out
  local,      \* agent: id |-> name, enabled
  pull,       \* agent: the pull under way
  treeEdits, lostPulls

mirrorVars == <<given, newest, local, pull, treeEdits, lostPulls>>

NotPulling == [pc |-> "idle"]

MirrorInit ==
  /\ given = <<>> /\ newest = 0
  /\ local = <<>>
  /\ pull = NotPulling
  /\ treeEdits = 0 /\ lostPulls = 0

-----------------------------------------------------------------------------
(* The operator.  Paths of a tree differ, at every moment.                 *)

ChangeTree(g) ==
  /\ treeEdits < MaxTreeEdits /\ treeEdits' = treeEdits + 1
  /\ \A i, j \in DOMAIN g : g[i].path = g[j].path => i = j
  /\ given' = g
  /\ UNCHANGED <<local, pull, lostPulls>>

AddTarget(path) ==
  /\ newest < LastTarget /\ newest' = newest + 1
  /\ ChangeTree([i \in DOMAIN given \cup {newest + 1} |->
                 IF i = newest + 1 THEN [path |-> path, assigned |-> TRUE] ELSE given[i]])

MoveTarget(i, path) ==
  /\ ChangeTree([given EXCEPT ![i].path = path]) /\ UNCHANGED newest

Reassign(i) ==
  /\ ChangeTree([given EXCEPT ![i].assigned = ~@]) /\ UNCHANGED newest

DropTarget(i) ==
  /\ ChangeTree([j \in DOMAIN given \ {i} |-> given[j]]) /\ UNCHANGED newest

-----------------------------------------------------------------------------
(* The agent.                                                              *)

Mine == {i \in DOMAIN given : given[i].assigned}

(* The answer: what is assigned as the master's tree has it now, and what   *)
(* the agent's own tree had when it came.                                   *)
StartPull ==
  /\ pull = NotPulling
  /\ pull' = [pc |-> "upsert", names |-> [i \in Mine |-> LocalName(given[i].path)],
              todo |-> Mine, existing |-> local]
  /\ UNCHANGED <<given, newest, local, treeEdits, lostPulls>>

(* No other row has the name, a disabled one neither; in the variant with a *)
(* fault those do not count.                                                *)
NoneProbedHas(i, name) == \A j \in DOMAIN local \ {i} : local[j].enabled => local[j].name # name

NameIsFree(i, name) == \A j \in DOMAIN local \ {i} : local[j].name # name

Upsert(i, row) == local' = [j \in DOMAIN local \cup {i} |-> IF j = i THEN row ELSE local[j]]

(* Row by row, in the order of the ids; the first the schema refuses ends   *)
(* the pull, and nothing is disabled.                                       *)
MirrorRow(i) ==
  /\ pull.pc = "upsert" /\ i \in pull.todo /\ \A j \in pull.todo : i <= j
  /\ IF NameIsFree(i, pull.names[i])
     THEN /\ Upsert(i, [name |-> pull.names[i], enabled |-> TRUE])
          /\ pull' = [pull EXCEPT !.todo = @ \ {i}]
     ELSE /\ pull' = NotPulling /\ UNCHANGED local
  /\ UNCHANGED <<given, newest, treeEdits, lostPulls>>

(* Then what was there before and is no longer wanted is disabled, as it    *)
(* was read; in the variants with a fault nothing is, or what has a name    *)
(* that is not wanted.                                                      *)
LeftOverUntouched(p) == {}

LeftOverByName(p) ==
  {i \in DOMAIN p.existing : p.existing[i].enabled /\ \A j \in DOMAIN p.names : p.names[j] # p.existing[i].name}

LeftOver(p) == {i \in DOMAIN p.existing : p.existing[i].enabled /\ i \notin DOMAIN p.names}

StartDisabling ==
  /\ pull.pc = "upsert" /\ pull.todo = {}
  /\ pull' = [pull EXCEPT !.pc = "disable", !.todo = LeftOver(pull)]
  /\ UNCHANGED <<given, newest, local, treeEdits, lostPulls>>

DisableRow(i) ==
  /\ pull.pc = "disable" /\ i \in pull.todo
  /\ Upsert(i, [name |-> pull.existing[i].name, enabled |-> FALSE])
  /\ pull' = [pull EXCEPT !.todo = @ \ {i}]
  /\ UNCHANGED <<given, newest, treeEdits, lostPulls>>

EndPull ==
  /\ pull.pc = "disable" /\ pull.todo = {}
  /\ pull' = NotPulling
  /\ UNCHANGED <<given, newest, local, treeEdits, lostPulls>>

(* No answer comes, or the agent is stopped: the next pull starts over. *)
PullLost ==
  /\ pull # NotPulling /\ lostPulls < MaxLostPulls
  /\ lostPulls' = lostPulls + 1
  /\ pull' = NotPulling
  /\ UNCHANGED <<given, newest, local, treeEdits>>

MirrorStep ==
  \/ StartPull \/ StartDisabling \/ EndPull
  \/ \E i \in TargetIds : MirrorRow(i) \/ DisableRow(i)

MirrorNext ==
  \/ \E path \in TreePaths : AddTarget(path)
  \/ \E i \in DOMAIN given :
       Reassign(i) \/ DropTarget(i) \/ \E path \in TreePaths : MoveTarget(i, path)
  \/ MirrorStep
  \/ PullLost

(* The pull timer of Agent.Run goes on as long as the agent does. *)
MirrorFairness == WF_mirrorVars(MirrorStep)

MirrorSpec == MirrorInit /\ [][MirrorNext]_mirrorVars /\ MirrorFairness

-----------------------------------------------------------------------------
(* A name one assigned target needs is another row's. *)
NameClash ==
  \E i \in Mine :
    \/ \E j \in Mine \ {i} : LocalName(given[i].path) = LocalName(given[j].path)
    \/ \E j \in DOMAIN local \ {i} : local[j].name = LocalName(given[i].path)

Mirrored ==
  /\ {i \in DOMAIN local : local[i].enabled} = Mine
  /\ \A i \in Mine : local[i].name = LocalName(given[i].path)

(* Whatever happened to pulls before, an agent whose master's tree is left  *)
(* alone comes to probe what is assigned to it and nothing else, unless two *)
(* rows want one name.                                                      *)
MirrorConverges == <>[](Mirrored \/ NameClash)

(* A pull that comes to its end leaves the agent probing what the answer    *)
(* said, under the names it said, and nothing else; and however a pull      *)
(* ends, what was probed and still is wanted was probed all along.  Rows    *)
(* are disabled as they were read, without a look at the names, and yet no  *)
(* two come to have one (agent.go:268-276).                                 *)
PullsKeepTheirAnswer ==
  /\ pull.pc = "disable" /\ pull.todo = {} =>
       /\ {i \in DOMAIN local : local[i].enabled} = DOMAIN pull.names
       /\ \A i \in DOMAIN pull.names : local[i].name = pull.names[i]
  /\ pull # NotPulling =>
       \A i \in DOMAIN pull.names \cap DOMAIN pull.existing : pull.existing[i].enabled => local[i].enabled
  /\ \A i, j \in DOMAIN local : local[i].name = local[j].name => i = j

(* "Anything no longer assigned stops being probed" (agent.go:268). *)
UnassignedStops == <>[](\A i \in DOMAIN local : local[i].enabled => i \in Mine)
=============================================================================
