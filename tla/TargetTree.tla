----------------------------- MODULE TargetTree -----------------------------
(***************************************************************************)
(* The stored tree of targets and everything that changes it: requests,    *)
(* each one transaction that reads the whole tree, checks what it would    *)
(* become and writes it, under a scope worked out from that same tree; and *)
(* imports of a file, which read and check once and then write row by row  *)
(* in transactions of their own, between which a request may come.         *)
(*                                                                         *)
(* A setting that is NONE is inherited.  Two stand for all of them: the    *)
(* interval, and the load, what the pings of one interval take to send,    *)
(* which has to fit it.  Every node but the root has a host.  Disabling a  *)
(* target, which nothing below looks at, is left out.                      *)
(***************************************************************************)
EXTENDS Trees, Sequences

CONSTANTS
  Names,          \* names of targets
  Durations,      \* values of the interval and of the load
  InitRows,       \* the tree at the start
  FileDefaults,   \* the file's defaults
  FileTargets,    \* the file's targets: settings, by path
  MaxId,          \* bound: the last id given out
  MaxEdits, MaxImports, MaxFails   \* bounds: requests, imports, and failures of imports

Ids == 0..MaxId

Settings == [interval : Durations \cup {NONE}, load : Durations \cup {NONE}]
Node     == [parent : Ids \cup {NONE}, name : Names, interval : Durations \cup {NONE},
             load : Durations \cup {NONE}]

IsTable(r) == DOMAIN r \subseteq Ids /\ r \in [DOMAIN r -> Node]

ASSUME TreeAssumption ==
  /\ {MaxId, MaxEdits, MaxImports, MaxFails} \subseteq Nat
  /\ Durations \subseteq Nat /\ NONE \notin Names /\ NONE \notin Nat
  /\ IsTable(InitRows) /\ Root \in DOMAIN InitRows
  /\ DOMAIN InitRows = 0..(Cardinality(DOMAIN InitRows) - 1)
  /\ FileDefaults \in Settings
  /\ DOMAIN FileTargets \subseteq Seq(Names) \ {<<>>} /\ IsFiniteSet(DOMAIN FileTargets)
  /\ \A p \in DOMAIN FileTargets : FileTargets[p] \in Settings

VARIABLES
  rows,       \* targets
  lastId,     \* the counter ids are taken from
  granted,    \* nodes the editor's group is granted
  import,     \* the import under way
  edits, imports, fails,   \* counted against the bounds
  (* ghosts *)
  gone,       \* ids of deleted targets
  raced,      \* a request was served in the middle of an import
  cut,        \* an import stopped half way
  synced      \* an import ended, and no request was served since it began

treeVars == <<rows, lastId, granted, import, edits, imports, fails, gone, raced, cut, synced>>

Idle == [pc |-> "idle"]

-----------------------------------------------------------------------------
(* Trees (tree.go).                                                        *)

(* The path from the root: the names of what is above, but the root's. *)
PathOf(r, n) ==
  LET depth(m) == Cardinality(Above(r, m))
  IN  [i \in 1..(depth(n) - 1) |-> r[CHOOSE m \in Above(r, n) : depth(m) = i + 1].name]

ByPath(r) ==
  [p \in {PathOf(r, n) : n \in DOMAIN r} |-> CHOOSE n \in DOMAIN r : PathOf(r, n) = p]

(* tree.New, in its parts; the variant with a fault lets cycles through. *)
SiblingsDiffer(r) ==
  \A m, n \in DOMAIN r \ {Root} :
    r[m].parent = r[n].parent /\ r[m].name = r[n].name => m = n

Fits(r) == \A n \in DOMAIN r \ {Root} : Resolved(r, n, "load") <= Resolved(r, n, "interval")

RootIsComplete(r) == r[Root].interval # NONE /\ r[Root].load # NONE

IsTree(r) ==
  /\ OneRoot(r)
  /\ RootIsComplete(r)
  /\ ReachesRoot(r)
  /\ SiblingsDiffer(r)
  /\ Fits(r)

(* The constraints of the schema: parents exist, siblings differ. *)
Constraints(r) ==
  /\ \A n \in DOMAIN r : r[n].parent # NONE => r[n].parent \in DOMAIN r
  /\ SiblingsDiffer(r)

AcceptsAnyParents(r) == OneRoot(r) /\ RootIsComplete(r) /\ SiblingsDiffer(r)

Accepts(r) == IsTree(r)

Put(r, n, node) == [m \in DOMAIN r \cup {n} |-> IF m = n THEN node ELSE r[m]]

Without(r, S) == [m \in DOMAIN r \ S |-> r[m]]

TreeTypeOK ==
  /\ IsTable(rows)
  /\ Constraints(rows)
  /\ Root \in DOMAIN rows /\ RootIsComplete(rows)
  /\ lastId \in Ids
  /\ granted \subseteq DOMAIN rows
  /\ import.pc \in {"idle", "write", "delete"}
  /\ gone \subseteq Ids
  /\ {raced, cut, synced} \subseteq BOOLEAN

TreeInit ==
  /\ rows = InitRows
  /\ lastId = Cardinality(DOMAIN InitRows) - 1
  /\ granted = {}
  /\ import = Idle
  /\ edits = 0 /\ imports = 0 /\ fails = 0
  /\ gone = {} /\ raced = FALSE /\ cut = FALSE /\ synced = FALSE

-----------------------------------------------------------------------------
(* Requests.                                                               *)

(* The next id: one that no row ever had. *)
NextId == lastId + 1

(* An administrator writes everywhere, the editor at and under its grants. *)
InScope(r, n) == Above(r, n) \cap granted # {}

CanWrite(who, n) == who = "admin" \/ (n \in DOMAIN rows /\ InScope(rows, n))

(* What every request does besides its change. *)
Request(planned) ==
  /\ edits' = edits + 1
  /\ Constraints(planned)
  /\ rows' = planned
  /\ raced' = (raced \/ import # Idle) /\ synced' = FALSE
  /\ UNCHANGED <<import, imports, fails, cut>>

(* A node is written only if the rows are then a tree, as they were when    *)
(* they were read (Edit).                                                   *)
Write(planned) == Accepts(planned) /\ Request(planned)

Create(who, parent, name, load) ==
  /\ CanWrite(who, parent)
  /\ NextId <= MaxId
  /\ Write(Put(rows, NextId, [parent |-> parent, name |-> name, interval |-> NONE, load |-> load]))
  /\ lastId' = IF NextId > lastId THEN NextId ELSE lastId
  /\ UNCHANGED <<granted, gone>>

(* A move is checked at both ends; in the variant with a fault at one. *)
MayMoveAnywhere(who, parent) == TRUE

MayMove(who, parent) == CanWrite(who, parent)

Move(who, n, parent) ==
  /\ CanWrite(who, n) /\ MayMove(who, parent)
  /\ n \in DOMAIN rows \ {Root}
  /\ Write([rows EXCEPT ![n].parent = parent])
  /\ UNCHANGED <<lastId, granted, gone>>

Update(who, n, field, value) ==
  /\ CanWrite(who, n)
  /\ n \in DOMAIN rows /\ value # rows[n][field]
  /\ Write([rows EXCEPT ![n][field] = value])
  /\ UNCHANGED <<lastId, granted, gone>>

(* The grants on deleted targets go with them. *)
GrantsWithout(S) == granted \ S

(* The subtree goes, if the request says so. *)
Delete(who, n, recursive) ==
  LET victims == Under(rows, n) IN
  /\ n \in DOMAIN rows \ {Root}
  /\ \A m \in victims : CanWrite(who, m)
  /\ victims # {n} => recursive
  /\ Request(Without(rows, victims))
  /\ granted' = GrantsWithout(victims)
  /\ gone' = gone \cup victims
  /\ UNCHANGED lastId

(* Only administrators grant. *)
Grant(n) ==
  /\ edits < MaxEdits /\ edits' = edits + 1
  /\ n \in DOMAIN rows \ granted
  /\ granted' = granted \cup {n}
  /\ UNCHANGED <<rows, lastId, import, imports, fails, gone, raced, cut, synced>>

Change(who) ==
  \/ \E n \in Ids, name \in Names, load \in Durations \cup {NONE} : Create(who, n, name, load)
  \/ \E n \in DOMAIN rows, parent \in Ids : Move(who, n, parent)
  \/ \E n \in DOMAIN rows :
       \/ \E name \in Names : Update(who, n, "name", name)
       \/ \E field \in {"interval", "load"}, v \in Durations \cup {NONE} : Update(who, n, field, v)
  \/ \E n \in DOMAIN rows, recursive \in BOOLEAN : Delete(who, n, recursive)

Edit(who) == edits < MaxEdits /\ IsTree(rows) /\ Change(who)

-----------------------------------------------------------------------------
(* Imports (config.go).                                                    *)

Parent(path) == SubSeq(path, 1, Len(path) - 1)

Ancestors(path) == {SubSeq(path, 1, k) : k \in 1..(Len(path) - 1)}

Named == DOMAIN FileTargets \cup UNION {Ancestors(p) : p \in DOMAIN FileTargets}

(* The defaults go over the root's settings, which never become NONE; a     *)
(* target's settings are the file's, absent ones included; in the variant   *)
(* with a fault they are kept where the file has none.                      *)
Overlaid(old, new) == IF new = NONE THEN old ELSE new

Default(old, new) == IF new = NONE THEN old ELSE new

FromFile(old, new) == new

(* What the import will write, path by path: the settings of what the file  *)
(* names, and of everything stored that it does not delete.                 *)
Planned(r, at, kept) ==
  [p \in kept |->
     LET old == IF p \in DOMAIN at THEN [interval |-> r[at[p]].interval, load |-> r[at[p]].load]
                ELSE [interval |-> NONE, load |-> NONE]
     IN  IF p = <<>>
         THEN [interval |-> Default(old.interval, FileDefaults.interval),
               load     |-> Default(old.load, FileDefaults.load)]
         ELSE IF p \in DOMAIN FileTargets
         THEN [interval |-> FromFile(old.interval, FileTargets[p].interval),
               load     |-> FromFile(old.load, FileTargets[p].load)]
         ELSE old]

(* The row for a path, once its parent's id is known. *)
RowFor(path, settings, at, rootName) ==
  [parent   |-> IF path = <<>> THEN NONE ELSE at[Parent(path)],
   name     |-> IF path = <<>> THEN rootName ELSE path[Len(path)],
   interval |-> settings.interval, load |-> settings.load]

(* Rows, one for every path, under the ids the paths have. *)
LaidOut(plan, ids, rootName) ==
  [n \in {ids[p] : p \in DOMAIN plan} |->
     LET p == CHOOSE q \in DOMAIN plan : ids[q] = n IN RowFor(p, plan[p], ids, rootName)]

(* Ids no row has, one for each path. *)
Synthetic(new) ==
  CHOOSE id \in [new -> MaxId + 1 .. MaxId + Cardinality(new)] :
    \A p, q \in new : id[p] = id[q] => p = q

PlannedRows(r, plan, at) ==
  LET synth == Synthetic(DOMAIN plan \ DOMAIN at)
      ids   == [p \in DOMAIN plan |-> IF p \in DOMAIN at THEN at[p] ELSE synth[p]]
  IN  LaidOut(plan, ids, r[Root].name)

(* The tree is read, and everything is checked against what was read. *)
StartImport(prune) ==
  LET at   == ByPath(rows)
      kept == IF prune THEN {<<>>} \cup Named ELSE DOMAIN at \cup Named
      plan == Planned(rows, at, kept)
  IN
  /\ import = Idle /\ imports < MaxImports
  /\ imports' = imports + 1
  /\ IsTree(rows) /\ IsTree(PlannedRows(rows, plan, at))
  /\ import' = [pc |-> "write", plan |-> plan, rootName |-> rows[Root].name, at |-> at,
                todo |-> kept, doomed |-> DOMAIN at \ kept]
  /\ synced' = TRUE
  /\ UNCHANGED <<rows, lastId, granted, edits, fails, gone, raced, cut>>

Stop ==
  /\ import' = Idle /\ cut' = TRUE /\ synced' = FALSE

(* A row is written in a transaction of its own, parents first (the code    *)
(* has an order among siblings too); a constraint it breaks ends the import *)
(* where it is, the id it took for a new row spent.                         *)
WriteRow(path) ==
  LET n   == IF path \in DOMAIN import.at THEN import.at[path] ELSE NextId
      new == Put(rows, n, RowFor(path, import.plan[path], import.at, import.rootName))
  IN
  /\ import.pc = "write"
  /\ path \in import.todo /\ \A p \in import.todo : Len(path) <= Len(p)
  /\ n <= MaxId
  /\ lastId' = IF path \in DOMAIN import.at THEN lastId ELSE NextId
  /\ IF Constraints(new)
     THEN /\ rows' = new
          /\ import' = [import EXCEPT !.todo = @ \ {path},
                                      !.at = [p \in DOMAIN @ \cup {path} |-> IF p = path THEN n ELSE @[p]],
                                      !.pc = IF import.todo = {path} THEN "delete" ELSE "write"]
          /\ UNCHANGED <<cut, synced>>
     ELSE Stop /\ UNCHANGED rows
  /\ UNCHANGED <<granted, edits, imports, fails, gone, raced>>

(* The deepest first, by the paths as they were read; a child that came      *)
(* since keeps its parent, and ends the import.                             *)
DeleteRow(path) ==
  LET n == import.at[path] IN
  /\ import.pc = "delete"
  /\ path \in import.doomed /\ \A p \in import.doomed : Len(p) <= Len(path)
  /\ IF Constraints(Without(rows, {n}))
     THEN /\ rows' = Without(rows, {n})
          /\ granted' = GrantsWithout({n}) /\ gone' = gone \cup {n}
          /\ import' = [import EXCEPT !.doomed = @ \ {path}]
          /\ UNCHANGED <<cut, synced>>
     ELSE Stop /\ UNCHANGED <<rows, granted, gone>>
  /\ UNCHANGED <<lastId, edits, imports, fails, raced>>

EndImport ==
  /\ import.pc = "delete" /\ import.doomed = {}
  /\ import' = Idle
  /\ UNCHANGED <<rows, lastId, granted, edits, imports, fails, gone, raced, cut, synced>>

(* A write fails, the client goes away, or the process dies. *)
ImportFails ==
  /\ import # Idle /\ fails < MaxFails
  /\ fails' = fails + 1
  /\ Stop
  /\ UNCHANGED <<rows, lastId, granted, edits, imports, gone, raced>>

-----------------------------------------------------------------------------
TreeNext ==
  \/ \E who \in {"admin", "editor"} : Edit(who)
  \/ \E n \in DOMAIN rows : Grant(n)
  \/ \E prune \in BOOLEAN : StartImport(prune)
  \/ import # Idle /\ \E path \in DOMAIN import.plan : WriteRow(path)
  \/ import # Idle /\ \E path \in import.doomed : DeleteRow(path)
  \/ EndImport
  \/ ImportFails

TreeSpec == TreeInit /\ [][TreeNext]_treeVars

-----------------------------------------------------------------------------
(* Every request leaves a tree that all others, and the prober, can read,   *)
(* and so does an import nothing came between and nothing cut short; and    *)
(* the id of a deleted target never comes back, with its history, under     *)
(* another one (ids.go, sqlite.go:718-719).                                 *)
EditsKeepTheTree ==
  rows # InitRows /\ ~raced =>
    /\ import = Idle /\ ~cut => IsTree(rows)
    /\ gone \cap DOMAIN rows = {}

(* An import that was neither raced nor cut short ends with every target of *)
(* the file stored as the file says, whatever the tree was before.          *)
ImportReachesTheFile ==
  import = Idle /\ synced =>
    \A p \in DOMAIN FileTargets :
      \E n \in DOMAIN rows : /\ PathOf(rows, n) = p
                              /\ rows[n].interval = FileTargets[p].interval
                              /\ rows[n].load = FileTargets[p].load

(* Whatever an editor does, alone or with an import half way, touches only  *)
(* nodes under a grant, and leaves them under one (targets.go:236-238, "a   *)
(* way to carry a target across a boundary, in either direction").          *)
EditorKeepsToScope ==
  [][\/ rows' = rows
     \/ \A n \in DOMAIN rows \cup DOMAIN rows' :
          \/ n \in DOMAIN rows \cap DOMAIN rows' /\ rows[n] = rows'[n]
          \/ /\ n \in DOMAIN rows => InScope(rows, n)
             /\ n \in DOMAIN rows' => InScope(rows', n)
     \/ ~Edit("editor")]_treeVars

(* The tree can be read at every moment ("The resulting tree is fully      *)
(* validated before anything is written", config.go:169-170).              *)
TreeCanAlwaysBeRead == IsTree(rows)
=============================================================================
