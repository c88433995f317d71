-------------------------- MODULE TargetTreeProofs --------------------------
(***************************************************************************)
(* What the tree of targets promises, for any tree, file, requests and     *)
(* failures: edits keep it a tree, an import nothing comes between makes   *)
(* of it what the file says, an editor keeps to what is granted, and no    *)
(* request takes it further past a limit than it was.                      *)
(***************************************************************************)
EXTENDS TargetTree, TreeLimits, FiniteSetTheorems, SequenceTheorems, TLAPS

-----------------------------------------------------------------------------
(* Trees: what is above a node.                                            *)

(* What is above a node: the node, and the parents of all that is. *)
LEMMA AboveBasics ==
  ASSUME NEW r, NEW n \in DOMAIN r
  PROVE  n \in Above(r, n) /\ Above(r, n) \subseteq DOMAIN r /\ HoldsParents(r, Above(r, n))
<1>1. Above(r, n) \subseteq DOMAIN r /\ n \in Above(r, n)
  BY DEF Above
<1>2. ASSUME NEW k \in Above(r, n), r[k].parent \in DOMAIN r
      PROVE  r[k].parent \in Above(r, n)
  <2> SUFFICES ASSUME NEW S \in SUBSET (DOMAIN r \ {r[k].parent}), n \in S, HoldsParents(r, S)
               PROVE  FALSE
    BY <1>2 DEF Above
  <2>1. k \in S
    BY <1>2 DEF Above
  <2> QED
    BY <1>2, <2>1 DEF HoldsParents
<1> QED
  BY <1>1, <1>2 DEF HoldsParents

(* No set that holds parents has less. *)
LEMMA AboveIsLeast ==
  ASSUME NEW r, NEW S \in SUBSET DOMAIN r, NEW n \in S, HoldsParents(r, S)
  PROVE  Above(r, n) \subseteq S
BY DEF Above

(* What is above what is above is above. *)
LEMMA AboveTransitive ==
  ASSUME NEW r, NEW n \in DOMAIN r, NEW m \in Above(r, n)
  PROVE  Above(r, m) \subseteq Above(r, n)
BY AboveBasics, AboveIsLeast

(* A node, and what is above its parent. *)
LEMMA AboveParent ==
  ASSUME NEW r, NEW n \in DOMAIN r, r[n].parent \in DOMAIN r
  PROVE  Above(r, n) = {n} \cup Above(r, r[n].parent)
<1> DEFINE S == {n} \cup Above(r, r[n].parent)
<1>1. S \subseteq Above(r, n)
  <2>1. n \in Above(r, n) /\ r[n].parent \in Above(r, n)
    BY AboveBasics DEF HoldsParents
  <2> QED
    BY <2>1, AboveTransitive
<1>2. S \subseteq DOMAIN r /\ n \in S
  BY AboveBasics
<1>3. HoldsParents(r, S)
  BY AboveBasics DEF HoldsParents
<1>4. Above(r, n) \subseteq S
  <2> HIDE DEF S
  <2> QED
    BY <1>2, <1>3, AboveIsLeast
<1> QED
  BY <1>1, <1>4

(* Above a node whose parent is no row there is nothing. *)
LEMMA AboveTop ==
  ASSUME NEW r, NEW n \in DOMAIN r, r[n].parent \notin DOMAIN r
  PROVE  Above(r, n) = {n}
<1>1. HoldsParents(r, {n})
  BY DEF HoldsParents
<1> QED
  BY <1>1, AboveBasics, AboveIsLeast

(* What tree.New makes sure of: one root, above every node. *)
Rooted(r) == NONE \notin DOMAIN r /\ OneRoot(r) /\ ReachesRoot(r)

(* The root is a row, and the only one without a parent. *)
LEMMA RootOfTree ==
  ASSUME NEW r, Rooted(r)
  PROVE  /\ Root \in DOMAIN r /\ r[Root].parent = NONE /\ Above(r, Root) = {Root}
         /\ \A n \in DOMAIN r \ {Root} : r[n].parent \in DOMAIN r
<1>1. Root \in DOMAIN r /\ r[Root].parent = NONE
  BY DEF Rooted, OneRoot
<1>2. Above(r, Root) = {Root}
  BY <1>1, AboveTop DEF Rooted
<1>3. ASSUME NEW n \in DOMAIN r \ {Root}, r[n].parent \notin DOMAIN r
      PROVE  FALSE
  BY <1>3, AboveTop DEF Rooted, ReachesRoot
<1> QED
  BY <1>1, <1>2, <1>3

(* Induction down a tree. *)
LEMMA TreeInduction ==
  ASSUME NEW r, Rooted(r), NEW P, Root \in P,
         \A n \in DOMAIN r \ {Root} : r[n].parent \in P => n \in P
  PROVE  DOMAIN r \subseteq P
<1> SUFFICES ASSUME NEW n \in DOMAIN r, n \notin P PROVE FALSE
  OBVIOUS
<1> DEFINE Q == DOMAIN r \ P
<1>1. HoldsParents(r, Q)
  <2> SUFFICES ASSUME NEW k \in Q, r[k].parent \in DOMAIN r PROVE r[k].parent \notin P
    BY DEF HoldsParents
  <2> QED
    OBVIOUS
<1>2. Above(r, n) \subseteq Q
  <2>1. Q \in SUBSET DOMAIN r /\ n \in Q
    OBVIOUS
  <2> HIDE DEF Q
  <2> QED
    BY <1>1, <2>1, AboveIsLeast
<1> QED
  BY <1>2 DEF Rooted, ReachesRoot

(* No node is above its parent. *)
LEMMA NoCycles ==
  ASSUME NEW r, Rooted(r), NEW n \in DOMAIN r \ {Root}
  PROVE  n \notin Above(r, r[n].parent)
<1> DEFINE P == {m \in DOMAIN r : m # Root => m \notin Above(r, r[m].parent)}
<1>1. Root \in P
  BY RootOfTree
<1>2. ASSUME NEW m \in DOMAIN r \ {Root}, r[m].parent \in P, m \in Above(r, r[m].parent)
      PROVE  FALSE
  <2> DEFINE q == r[m].parent
  <2>1. q \in DOMAIN r /\ q # Root /\ r[q].parent \in DOMAIN r
    BY <1>2, RootOfTree
  <2>2. Above(r, q) = {q} \cup Above(r, r[q].parent) /\ q \notin Above(r, r[q].parent)
    BY <1>2, <2>1, AboveParent
  <2>3. m # q
    BY <1>2, <2>1, <2>2, AboveBasics
  <2>4. m \in Above(r, r[q].parent)
    BY <1>2, <2>2, <2>3
  <2>5. q \in Above(r, m)
    BY <2>1, AboveBasics DEF HoldsParents
  <2> QED
    BY <2>1, <2>2, <2>4, <2>5, AboveTransitive
<1>3. DOMAIN r \subseteq P
  <2>1. \A m \in DOMAIN r \ {Root} : r[m].parent \in P => m \in P
    BY <1>2
  <2> HIDE DEF P
  <2> QED
    BY <1>1, <2>1, TreeInduction
<1> QED
  BY <1>3

(* No two nodes are above each other. *)
LEMMA AboveIsAnOrder ==
  ASSUME NEW r, Rooted(r), NEW n \in DOMAIN r, NEW m \in Above(r, n), n \in Above(r, m)
  PROVE  m = n
<1> SUFFICES ASSUME m # n PROVE FALSE
  OBVIOUS
<1>1. n # Root
  BY RootOfTree
<1>2. r[n].parent \in DOMAIN r /\ m \in Above(r, r[n].parent)
  BY <1>1, RootOfTree, AboveParent
<1> QED
  BY <1>1, <1>2, AboveTransitive, NoCycles

-----------------------------------------------------------------------------
(* Settings: where they come from.                                         *)

(* A setting of a node's own is the one that counts. *)
LEMMA OwnSetting ==
  ASSUME NEW r, Rooted(r), NEW n \in DOMAIN r, NEW f, r[n][f] # NONE
  PROVE  Resolved(r, n, f) = r[n][f]
<1> DEFINE having == {m \in Above(r, n) : r[m][f] # NONE}
<1>1. n \in having /\ having \subseteq Above(r, n)
  BY AboveBasics
<1>2. ASSUME NEW m \in having, having \subseteq Above(r, m)
      PROVE  m = n
  BY <1>1, <1>2, AboveIsAnOrder
<1>3. n = CHOOSE m \in having : having \subseteq Above(r, m)
  <2> HIDE DEF having
  <2> QED
    BY <1>1, <1>2
<1> QED
  BY <1>3 DEF Resolved

(* One it does not have is its parent's. *)
LEMMA ParentsSetting ==
  ASSUME NEW r, Rooted(r), NEW n \in DOMAIN r \ {Root}, NEW f, r[n][f] = NONE
  PROVE  Resolved(r, n, f) = Resolved(r, r[n].parent, f)
<1>1. Above(r, n) = {n} \cup Above(r, r[n].parent)
  BY RootOfTree, AboveParent
<1>2. {m \in Above(r, n) : r[m][f] # NONE} = {m \in Above(r, r[n].parent) : r[m][f] # NONE}
  BY <1>1
<1> QED
  BY <1>2 DEF Resolved

(* One tree within another: the same settings and names, and parents that  *)
(* correspond.                                                             *)
Embeds(h, s, r) ==
  /\ \A n \in DOMAIN s : h[n] \in DOMAIN r
  /\ \A m, n \in DOMAIN s : h[m] = h[n] => m = n
  /\ Root \in DOMAIN s /\ h[Root] = Root /\ s[Root].parent = NONE
  /\ \A n \in DOMAIN s \ {Root} : s[n].parent \in DOMAIN s /\ h[s[n].parent] = r[h[n]].parent
  /\ \A n \in DOMAIN s : /\ n # Root => s[n].name = r[h[n]].name
                         /\ s[n].interval = r[h[n]].interval
                         /\ s[n].load = r[h[n]].load

(* Such rows reach the root where the tree does. *)
LEMMA EmbeddedReachesRoot ==
  ASSUME NEW r, NEW s, NEW h, Embeds(h, s, r), Rooted(r), NONE \notin DOMAIN s
  PROVE  Rooted(s)
<1> USE DEF Embeds
<1>1. OneRoot(s)
  BY DEF OneRoot
<1>2. ASSUME NEW n \in DOMAIN s PROVE Root \in Above(s, n)
  <2> SUFFICES ASSUME NEW S \in SUBSET DOMAIN s, n \in S, HoldsParents(s, S)
               PROVE  Root \in S
    BY DEF Above
  <2> DEFINE T == {h[k] : k \in S}
  <2>1. T \in SUBSET DOMAIN r /\ h[n] \in T
    OBVIOUS
  <2>2. HoldsParents(r, T)
    <3> SUFFICES ASSUME NEW k \in S, r[h[k]].parent \in DOMAIN r PROVE r[h[k]].parent \in T
      BY DEF HoldsParents
    <3>1. k # Root
      BY RootOfTree DEF Rooted
    <3>2. s[k].parent \in S
      BY <3>1 DEF HoldsParents
    <3> QED
      BY <3>1, <3>2
  <2>3. Root \in Above(r, h[n])
    BY DEF Rooted, ReachesRoot
  <2>4. Root \in T
    <3> HIDE DEF T
    <3> QED
      BY <2>1, <2>2, <2>3, AboveIsLeast
  <2> QED
    BY <2>4
<1> QED
  BY <1>1, <1>2 DEF Rooted, ReachesRoot

(* They resolve every setting as the tree does. *)
LEMMA EmbeddedSettings ==
  ASSUME NEW r, NEW s, NEW h, Embeds(h, s, r), Rooted(r), Rooted(s), RootIsComplete(r),
         NEW f \in {"interval", "load"}
  PROVE  \A n \in DOMAIN s : Resolved(s, n, f) = Resolved(r, h[n], f)
<1> DEFINE P == {n \in DOMAIN s : Resolved(s, n, f) = Resolved(r, h[n], f)}
<1>1. \A n \in DOMAIN s : h[n] \in DOMAIN r /\ s[n][f] = r[h[n]][f]
  BY DEF Embeds
<1>2. ASSUME NEW n \in DOMAIN s, s[n][f] # NONE
      PROVE  Resolved(s, n, f) = Resolved(r, h[n], f)
  <2>1. Resolved(s, n, f) = s[n][f]
    BY <1>2, OwnSetting
  <2>2. Resolved(r, h[n], f) = r[h[n]][f]
    BY <1>1, <1>2, OwnSetting
  <2> QED
    BY <1>1, <2>1, <2>2
<1>3. Root \in P
  <2>1. Root \in DOMAIN s /\ h[Root] = Root /\ r[Root][f] # NONE
    BY DEF Embeds, RootIsComplete
  <2> QED
    BY <1>1, <1>2, <2>1
<1>4. ASSUME NEW n \in DOMAIN s \ {Root}, s[n].parent \in P
      PROVE  n \in P
  <2>1. CASE s[n][f] # NONE
    BY <1>2, <2>1
  <2>2. CASE s[n][f] = NONE
    <3>1. Resolved(s, n, f) = Resolved(s, s[n].parent, f)
      BY <2>2, ParentsSetting
    <3>2. h[n] \in DOMAIN r \ {Root} /\ h[s[n].parent] = r[h[n]].parent
      BY DEF Embeds
    <3>3. Resolved(r, h[n], f) = Resolved(r, r[h[n]].parent, f)
      BY <1>1, <2>2, <3>2, ParentsSetting
    <3> QED
      BY <1>4, <3>1, <3>2, <3>3
  <2> QED
    BY <2>1, <2>2
<1>5. DOMAIN s \subseteq P
  <2>1. \A n \in DOMAIN s \ {Root} : s[n].parent \in P => n \in P
    BY <1>4
  <2> HIDE DEF P
  <2> QED
    BY <1>3, <2>1, TreeInduction
<1> QED
  BY <1>5

(* What is within a tree is one. *)
LEMMA EmbeddedIsTree ==
  ASSUME NEW r, NEW s, NEW h, Embeds(h, s, r), IsTree(r),
         NONE \notin DOMAIN r, NONE \notin DOMAIN s
  PROVE  IsTree(s)
<1>1. Rooted(r) /\ Rooted(s)
  BY EmbeddedReachesRoot DEF Rooted, IsTree
<1>2. RootIsComplete(s)
  BY DEF RootIsComplete, Embeds, IsTree
<1>3. SiblingsDiffer(s)
  <2> SUFFICES ASSUME NEW m \in DOMAIN s \ {Root}, NEW n \in DOMAIN s \ {Root},
                      s[m].parent = s[n].parent, s[m].name = s[n].name
               PROVE  m = n
    BY DEF SiblingsDiffer
  <2>1. /\ h[m] \in DOMAIN r \ {Root} /\ h[n] \in DOMAIN r \ {Root}
        /\ r[h[m]].parent = r[h[n]].parent /\ r[h[m]].name = r[h[n]].name
    BY DEF Embeds
  <2>2. h[m] = h[n]
    BY <2>1 DEF IsTree, SiblingsDiffer
  <2> QED
    BY <2>2 DEF Embeds
<1>4. Fits(s)
  <2> SUFFICES ASSUME NEW n \in DOMAIN s \ {Root}
               PROVE  Resolved(s, n, "load") <= Resolved(s, n, "interval")
    BY DEF Fits
  <2>1. h[n] \in DOMAIN r \ {Root}
    BY DEF Embeds
  <2>2. Resolved(r, h[n], "load") <= Resolved(r, h[n], "interval")
    BY <2>1 DEF IsTree, Fits
  <2>3. /\ Resolved(s, n, "load") = Resolved(r, h[n], "load")
        /\ Resolved(s, n, "interval") = Resolved(r, h[n], "interval")
    BY <1>1, EmbeddedSettings DEF IsTree
  <2> QED
    BY <2>2, <2>3
<1> QED
  BY <1>1, <1>2, <1>3, <1>4 DEF IsTree, Rooted

-----------------------------------------------------------------------------
(* Requests.                                                               *)

(* More rows have more above, never less. *)
LEMMA MoreIsAbove ==
  ASSUME NEW r, NEW s, DOMAIN r \subseteq DOMAIN s,
         \A k \in DOMAIN r : s[k].parent = r[k].parent,
         NEW n \in DOMAIN r
  PROVE  Above(r, n) \subseteq Above(s, n)
<1> DEFINE S == Above(s, n) \cap DOMAIN r
<1>1. S \in SUBSET DOMAIN r /\ n \in S
  BY AboveBasics
<1>2. HoldsParents(r, S)
  BY AboveBasics DEF HoldsParents
<1>3. Above(r, n) \subseteq S
  <2> HIDE DEF S
  <2> QED
    BY <1>1, <1>2, AboveIsLeast
<1> QED
  BY <1>3

(* A node that is moved, to where the rows are a tree still, has above it   *)
(* what was above its new parent.                                           *)
LEMMA MovedBelow ==
  ASSUME NEW r, NEW s, Rooted(r), Rooted(s), DOMAIN s = DOMAIN r,
         NEW n \in DOMAIN r \ {Root}, NEW p \in DOMAIN r, s[n].parent = p,
         \A k \in DOMAIN r \ {n} : s[k].parent = r[k].parent
  PROVE  Above(r, p) \subseteq Above(s, n)
<1> DEFINE C == Above(r, p)
<1>1. p \in C /\ C \subseteq DOMAIN r /\ HoldsParents(r, C)
  BY AboveBasics
<1>2. n \in Above(s, n) /\ p \in Above(s, n) /\ Above(s, n) \subseteq DOMAIN s
      /\ HoldsParents(s, Above(s, n))
  BY AboveBasics DEF HoldsParents
<1>3. CASE n \notin C
  <2> DEFINE T == Above(s, n) \cap C
  <2>1. p \in T /\ T \in SUBSET DOMAIN r
    BY <1>1, <1>2
  <2>2. HoldsParents(r, T)
    <3> SUFFICES ASSUME NEW k \in T, r[k].parent \in DOMAIN r PROVE r[k].parent \in T
      BY DEF HoldsParents
    <3>1. k \in DOMAIN r \ {n} /\ s[k].parent = r[k].parent
      BY <1>1, <1>3
    <3>2. r[k].parent \in C
      BY <1>1 DEF HoldsParents
    <3>3. r[k].parent \in Above(s, n)
      BY <1>2, <3>1 DEF HoldsParents
    <3> QED
      BY <3>2, <3>3
  <2>3. Above(r, p) \subseteq T
    <3> HIDE DEF T
    <3> QED
      BY <2>1, <2>2, AboveIsLeast
  <2> QED
    BY <2>3
<1>4. CASE n \in C
  <2> DEFINE D == {m \in C : n \in Above(r, m)}
  <2>1. n \in D /\ p \in D /\ D \in SUBSET DOMAIN s
    BY <1>1, <1>4, AboveBasics
  <2>2. Root \notin D
    BY RootOfTree
  <2>3. HoldsParents(s, D)
    <3> SUFFICES ASSUME NEW k \in D, s[k].parent \in DOMAIN s PROVE s[k].parent \in D
      BY DEF HoldsParents
    <3>1. CASE k = n
      BY <2>1, <3>1
    <3>2. CASE k # n
      <4>1. s[k].parent = r[k].parent /\ k \in DOMAIN r \ {Root}
        BY <1>1, <2>2, <3>2
      <4>2. r[k].parent \in C
        BY <1>1, <4>1 DEF HoldsParents
      <4>3. n \in Above(r, r[k].parent)
        BY <3>2, <4>1, AboveParent
      <4> QED
        BY <4>1, <4>2, <4>3
    <3> QED
      BY <3>1, <3>2
  <2>4. Above(s, n) \subseteq D
    <3> HIDE DEF D
    <3> QED
      BY <2>1, <2>3, AboveIsLeast
  <2> QED
    BY <2>2, <2>4 DEF Rooted, ReachesRoot
<1> QED
  BY <1>3, <1>4

(* Without a subtree, what is left is a tree. *)
LEMMA WhatIsLeftIsATree ==
  ASSUME NEW r, IsTree(r), NONE \notin DOMAIN r, NEW n \in DOMAIN r \ {Root}
  PROVE  IsTree(Without(r, Under(r, n)))
<1> DEFINE s == Without(r, Under(r, n))
           h == [m \in DOMAIN s |-> m]
<1>1. Rooted(r)
  BY DEF Rooted, IsTree
<1>2. /\ DOMAIN s = DOMAIN r \ Under(r, n)
      /\ \A m \in DOMAIN s : s[m] = r[m]
  BY DEF Without
<1>3. Root \in DOMAIN s
  BY <1>1, <1>2, RootOfTree DEF Under
<1>4. ASSUME NEW m \in DOMAIN s \ {Root} PROVE r[m].parent \in DOMAIN s
  <2>1. m \in DOMAIN r /\ r[m].parent \in DOMAIN r
    BY <1>1, <1>2, RootOfTree
  <2>2. Above(r, r[m].parent) \subseteq Above(r, m)
    BY <2>1, AboveParent
  <2> QED
    BY <1>2, <2>1, <2>2 DEF Under
<1>5. Embeds(h, s, r)
  <2> HIDE DEF s
  <2>1. \A m \in DOMAIN s : h[m] = m
    OBVIOUS
  <2> HIDE DEF h
  <2>2. s[Root].parent = NONE
    BY <1>1, <1>2, <1>3, RootOfTree
  <2> QED
    BY <1>2, <1>3, <1>4, <2>1, <2>2 DEF Embeds
<1> HIDE DEF s, h
<1>6. IsTree(s)
  BY <1>2, <1>5, EmbeddedIsTree
<1> QED
  BY <1>6 DEF s

RowsTyped == rows \in [DOMAIN rows -> Node]

(* An edit that is not refused leaves a tree. *)
LEMMA RequestsKeepTheTree ==
  ASSUME NONE \notin DOMAIN rows, NEW who \in {"admin", "editor"}, Edit(who)
  PROVE  IsTree(rows')
<1>1. ASSUME NEW planned, Write(planned) PROVE IsTree(rows')
  BY <1>1 DEF Write, Accepts, Request
<1>2. ASSUME NEW n \in DOMAIN rows, NEW recursive \in BOOLEAN, Delete(who, n, recursive)
      PROVE  IsTree(rows')
  <2>1. rows' = Without(rows, Under(rows, n)) /\ n \in DOMAIN rows \ {Root} /\ IsTree(rows)
    BY <1>2 DEF Delete, Request, Edit
  <2> QED
    BY <2>1, WhatIsLeftIsATree
<1>3. ASSUME NEW n, NEW name, NEW load, Create(who, n, name, load) PROVE IsTree(rows')
  BY <1>1, <1>3 DEF Create
<1>4. ASSUME NEW n, NEW parent, Move(who, n, parent) PROVE IsTree(rows')
  BY <1>1, <1>4 DEF Move
<1>5. ASSUME NEW n, NEW field, NEW value, Update(who, n, field, value) PROVE IsTree(rows')
  BY <1>1, <1>5 DEF Update
<1> QED
  BY <1>2, <1>3, <1>4, <1>5 DEF Edit, Change

(* What EditorKeepsToScope says of an editor's step. *)
StepWithinScope ==
  \A n \in DOMAIN rows \cup DOMAIN rows' :
    \/ n \in DOMAIN rows \cap DOMAIN rows' /\ rows[n] = rows'[n]
    \/ /\ n \in DOMAIN rows => InScope(rows, n)
       /\ n \in DOMAIN rows' => InScope(rows', n)

(* A request of the editor changes rows under its grants only. *)
LEMMA EditorsStep ==
  ASSUME RowsTyped, DOMAIN rows \subseteq 0..lastId, lastId \in Nat, NONE \notin Nat, Edit("editor")
  PROVE  StepWithinScope
<1>0. NONE \notin DOMAIN rows /\ IsTree(rows) /\ IsTree(rows')
  <2>1. NONE \notin DOMAIN rows
    OBVIOUS
  <2> QED
    BY <2>1, RequestsKeepTheTree DEF Edit
<1>1. ASSUME NEW parent, NEW name, NEW load, Create("editor", parent, name, load)
      PROVE  StepWithinScope
  <2>1. /\ parent \in DOMAIN rows /\ InScope(rows, parent)
        /\ DOMAIN rows' = DOMAIN rows \cup {NextId} /\ NextId \notin DOMAIN rows
        /\ \A m \in DOMAIN rows : rows'[m] = rows[m]
        /\ rows'[NextId].parent = parent
    <3>1. NextId \notin DOMAIN rows
      BY DEF NextId
    <3>2. rows' = Put(rows, NextId, [parent |-> parent, name |-> name, interval |-> NONE, load |-> load])
      BY <1>1 DEF Create, Write, Request
    <3> QED
      BY <1>1, <3>1, <3>2 DEF Create, CanWrite, Put
  <2>2. Above(rows, parent) \subseteq Above(rows', parent)
    BY <2>1, MoreIsAbove
  <2>3. Above(rows', parent) \subseteq Above(rows', NextId)
    BY <2>1, AboveParent
  <2>4. InScope(rows', NextId)
    BY <2>1, <2>2, <2>3 DEF InScope
  <2> QED
    BY <2>1, <2>4 DEF StepWithinScope
<1>2. ASSUME NEW n, NEW parent \in Ids, Move("editor", n, parent)
      PROVE  StepWithinScope
  <2>1. /\ n \in DOMAIN rows \ {Root} /\ parent \in DOMAIN rows
        /\ InScope(rows, n) /\ InScope(rows, parent)
        /\ rows' = [rows EXCEPT ![n].parent = parent]
    BY <1>2 DEF Move, MayMove, CanWrite, Write, Request
  <2>2. /\ DOMAIN rows' = DOMAIN rows /\ rows'[n].parent = parent
        /\ \A m \in DOMAIN rows \ {n} : rows'[m] = rows[m]
    BY <2>1 DEF RowsTyped, Node
  <2>3. Rooted(rows) /\ Rooted(rows')
    BY <1>0, <2>2 DEF IsTree, Rooted
  <2>4. Above(rows, parent) \subseteq Above(rows', n)
    <3>1. \A m \in DOMAIN rows \ {n} : rows'[m].parent = rows[m].parent
      BY <2>2
    <3>2. n \in DOMAIN rows \ {Root} /\ parent \in DOMAIN rows
      BY <2>1
    <3> QED
      BY <2>2, <2>3, <3>1, <3>2, MovedBelow
  <2>5. InScope(rows', n)
    BY <2>1, <2>4 DEF InScope
  <2> QED
    BY <2>1, <2>2, <2>5 DEF StepWithinScope
<1>3. ASSUME NEW n, NEW field \in {"name", "interval", "load"}, NEW value, Update("editor", n, field, value)
      PROVE  StepWithinScope
  <2>1. /\ n \in DOMAIN rows /\ InScope(rows, n)
        /\ rows' = [rows EXCEPT ![n][field] = value]
    BY <1>3 DEF Update, CanWrite, Write, Request
  <2>2. /\ DOMAIN rows' = DOMAIN rows
        /\ \A m \in DOMAIN rows \ {n} : rows'[m] = rows[m]
        /\ \A m \in DOMAIN rows : rows'[m].parent = rows[m].parent
    BY <2>1 DEF RowsTyped, Node
  <2>3. Above(rows, n) \subseteq Above(rows', n)
    <3>1. n \in DOMAIN rows /\ DOMAIN rows \subseteq DOMAIN rows'
      BY <2>1, <2>2
    <3>2. \A m \in DOMAIN rows : rows'[m].parent = rows[m].parent
      BY <2>2
    <3> QED
      BY ONLY <3>1, <3>2, MoreIsAbove
  <2>4. InScope(rows', n)
    BY <2>1, <2>3 DEF InScope
  <2> QED
    BY <2>1, <2>2, <2>4 DEF StepWithinScope
<1>4. ASSUME NEW n, NEW recursive, Delete("editor", n, recursive)
      PROVE  StepWithinScope
  <2>1. /\ rows' = Without(rows, Under(rows, n))
        /\ \A m \in Under(rows, n) : InScope(rows, m)
    BY <1>4 DEF Delete, Request, CanWrite
  <2> QED
    BY <2>1 DEF Without, StepWithinScope
<1> QED
  BY <1>1, <1>2, <1>3, <1>4 DEF Edit, Change

-----------------------------------------------------------------------------
(* Paths.                                                                  *)

Depth(r, n) == Cardinality(Above(r, n))

AtDepth(r, n, d) == CHOOSE m \in Above(r, n) : Depth(r, m) = d

(* Depth counts from one, at the root, by one from parent to child. *)
LEMMA DepthOfNode ==
  ASSUME NEW r, Rooted(r), IsFiniteSet(DOMAIN r)
  PROVE  /\ Depth(r, Root) = 1
         /\ \A n \in DOMAIN r : Depth(r, n) \in Nat \ {0}
         /\ \A n \in DOMAIN r \ {Root} : Depth(r, n) = Depth(r, r[n].parent) + 1
         /\ \A n \in DOMAIN r : \A m \in Above(r, n) : Depth(r, m) <= Depth(r, n)
<1>1. \A n \in DOMAIN r : IsFiniteSet(Above(r, n))
  BY AboveBasics, FS_Subset
<1>2. Depth(r, Root) = 1
  BY RootOfTree, FS_Singleton DEF Depth
<1>3. ASSUME NEW n \in DOMAIN r PROVE Depth(r, n) \in Nat \ {0}
  <2>1. Depth(r, n) \in Nat
    BY <1>1, FS_CardinalityType DEF Depth
  <2>2. Above(r, n) # {}
    BY AboveBasics
  <2>3. Depth(r, n) # 0
    BY <1>1, <2>2, FS_EmptySet DEF Depth
  <2> QED
    BY <2>1, <2>3
<1>4. ASSUME NEW n \in DOMAIN r \ {Root} PROVE Depth(r, n) = Depth(r, r[n].parent) + 1
  <2>1. r[n].parent \in DOMAIN r /\ Above(r, n) = Above(r, r[n].parent) \cup {n}
        /\ n \notin Above(r, r[n].parent)
    BY RootOfTree, AboveParent, NoCycles
  <2> QED
    BY <1>1, <2>1, FS_AddElement DEF Depth
<1>5. ASSUME NEW n \in DOMAIN r, NEW m \in Above(r, n) PROVE Depth(r, m) <= Depth(r, n)
  BY <1>1, AboveTransitive, FS_Subset DEF Depth
<1> QED
  BY <1>2, <1>3, <1>4, <1>5

(* One node above another at each depth. *)
LEMMA OneAtEachDepth ==
  ASSUME NEW r, Rooted(r), IsFiniteSet(DOMAIN r)
  PROVE  \A n \in DOMAIN r : \A d \in 1..Depth(r, n) :
           \E m \in Above(r, n) :
             Depth(r, m) = d /\ \A k \in Above(r, n) : Depth(r, k) = d => k = m
<1> DEFINE One(n, d) == \E m \in Above(r, n) :
                          Depth(r, m) = d /\ \A k \in Above(r, n) : Depth(r, k) = d => k = m
           P == {n \in DOMAIN r : \A d \in 1..Depth(r, n) : One(n, d)}
<1>1. Root \in P
  <2>1. Root \in DOMAIN r /\ Above(r, Root) = {Root} /\ Depth(r, Root) = 1
    BY RootOfTree, DepthOfNode
  <2> QED
    BY <2>1
<1>2. ASSUME NEW n \in DOMAIN r \ {Root}, r[n].parent \in P, NEW d \in 1..Depth(r, n)
      PROVE  One(n, d)
  <2> DEFINE q == r[n].parent
  <2>1. /\ q \in DOMAIN r /\ Above(r, n) = {n} \cup Above(r, q)
        /\ Depth(r, n) = Depth(r, q) + 1 /\ Depth(r, q) \in Nat
        /\ \A m \in Above(r, q) : Depth(r, m) <= Depth(r, q)
        /\ \A m \in Above(r, q) : Depth(r, m) \in Nat
    BY RootOfTree, AboveParent, AboveBasics, DepthOfNode
  <2>2. CASE d = Depth(r, n)
    <3>1. \A k \in Above(r, n) : Depth(r, k) = d => k = n
      BY <2>1, <2>2
    <3> QED
      BY <2>1, <2>2, <3>1
  <2>3. CASE d # Depth(r, n)
    <3>1. d \in 1..Depth(r, q)
      BY <2>1, <2>3
    <3>2. PICK m \in Above(r, q) :
            Depth(r, m) = d /\ \A k \in Above(r, q) : Depth(r, k) = d => k = m
      BY <1>2, <3>1
    <3> QED
      BY <2>1, <2>3, <3>2
  <2> QED
    BY <2>2, <2>3
<1>3. DOMAIN r \subseteq P
  <2>1. \A n \in DOMAIN r \ {Root} : r[n].parent \in P => n \in P
    BY <1>2
  <2> HIDE DEF P
  <2> QED
    BY <1>1, <2>1, TreeInduction
<1> QED
  BY <1>3

(* One node above is at each depth. *)
LEMMA NodeAtDepth ==
  ASSUME NEW r, Rooted(r), IsFiniteSet(DOMAIN r), NEW n \in DOMAIN r
  PROVE  /\ \A d \in 1..Depth(r, n) : AtDepth(r, n, d) \in DOMAIN r
         /\ AtDepth(r, n, Depth(r, n)) = n
         /\ n # Root => \A d \in 1..Depth(r, r[n].parent) :
                          AtDepth(r, n, d) = AtDepth(r, r[n].parent, d)
<1>1. ASSUME NEW m \in DOMAIN r, NEW d \in 1..Depth(r, m)
      PROVE  /\ AtDepth(r, m, d) \in Above(r, m) /\ Depth(r, AtDepth(r, m, d)) = d
             /\ \A k \in Above(r, m) : Depth(r, k) = d => k = AtDepth(r, m, d)
  <2>1. PICK j \in Above(r, m) :
          Depth(r, j) = d /\ \A k \in Above(r, m) : Depth(r, k) = d => k = j
    BY OneAtEachDepth
  <2> QED
    BY <2>1 DEF AtDepth
<1>2. \A d \in 1..Depth(r, n) : AtDepth(r, n, d) \in DOMAIN r
  BY <1>1, AboveBasics
<1>3. AtDepth(r, n, Depth(r, n)) = n
  <2>1. Depth(r, n) \in 1..Depth(r, n) /\ n \in Above(r, n)
    BY DepthOfNode, AboveBasics
  <2> QED
    BY <1>1, <2>1
<1>4. ASSUME n # Root, NEW d \in 1..Depth(r, r[n].parent)
      PROVE  AtDepth(r, n, d) = AtDepth(r, r[n].parent, d)
  <2>1. /\ r[n].parent \in DOMAIN r /\ Above(r, r[n].parent) \subseteq Above(r, n)
        /\ d \in 1..Depth(r, n)
    BY <1>4, RootOfTree, AboveParent, DepthOfNode
  <2>2. /\ AtDepth(r, r[n].parent, d) \in Above(r, r[n].parent)
        /\ Depth(r, AtDepth(r, r[n].parent, d)) = d
    BY <1>1, <2>1
  <2> QED
    BY <1>1, <2>1, <2>2
<1> QED
  BY <1>2, <1>3, <1>4

(* A path has the names of what is above by depth. *)
LEMMA PathByDepth ==
  ASSUME NEW r, NEW n
  PROVE  PathOf(r, n) = [i \in 1..(Depth(r, n) - 1) |-> r[AtDepth(r, n, i + 1)].name]
BY DEF PathOf, Depth, AtDepth

(* The path of a node is its parent's and its name. *)
LEMMA PathOfNode ==
  ASSUME NEW r, Rooted(r), IsFiniteSet(DOMAIN r), \A n \in DOMAIN r : r[n].name \in Names
  PROVE  /\ PathOf(r, Root) = <<>>
         /\ \A n \in DOMAIN r : PathOf(r, n) \in Seq(Names)
         /\ \A n \in DOMAIN r \ {Root} :
              PathOf(r, n) = Append(PathOf(r, r[n].parent), r[n].name)
<1>1. ASSUME NEW n \in DOMAIN r
      PROVE  /\ PathOf(r, n) \in Seq(Names) /\ Len(PathOf(r, n)) = Depth(r, n) - 1
             /\ Depth(r, n) \in Nat \ {0}
             /\ \A i \in 1..(Depth(r, n) - 1) : PathOf(r, n)[i] = r[AtDepth(r, n, i + 1)].name
  <2>1. Depth(r, n) \in Nat \ {0}
    BY DepthOfNode
  <2>2. \A i \in 1..(Depth(r, n) - 1) : i + 1 \in 1..Depth(r, n)
    BY <2>1
  <2>3. \A i \in 1..(Depth(r, n) - 1) : r[AtDepth(r, n, i + 1)].name \in Names
    BY <2>2, NodeAtDepth
  <2>4. PathOf(r, n) \in [1..(Depth(r, n) - 1) -> Names] /\ Depth(r, n) - 1 \in Nat
    BY <2>1, <2>3, PathByDepth
  <2>5. PathOf(r, n) \in Seq(Names)
    BY <2>4, SeqDef
  <2>6. Len(PathOf(r, n)) = Depth(r, n) - 1
    BY <2>4, <2>5
  <2> QED
    BY <2>1, <2>5, <2>6, PathByDepth
<1>2. PathOf(r, Root) = <<>>
  BY <1>1, RootOfTree, DepthOfNode, EmptySeq
<1>3. ASSUME NEW n \in DOMAIN r \ {Root}
      PROVE  PathOf(r, n) = Append(PathOf(r, r[n].parent), r[n].name)
  <2> DEFINE q == r[n].parent
             s == Append(PathOf(r, q), r[n].name)
  <2>1. q \in DOMAIN r /\ Depth(r, n) = Depth(r, q) + 1
    BY RootOfTree, DepthOfNode
  <2>2. PathOf(r, q) \in Seq(Names) /\ Len(PathOf(r, q)) = Depth(r, q) - 1
        /\ Depth(r, q) \in Nat \ {0}
    BY <1>1, <2>1
  <2>3. /\ s \in Seq(Names) /\ Len(s) = Depth(r, q)
        /\ \A i \in 1..(Depth(r, q) - 1) : s[i] = PathOf(r, q)[i]
        /\ s[Depth(r, q)] = r[n].name
    BY <2>2
  <2>4. ASSUME NEW i \in 1..Depth(r, q) PROVE PathOf(r, n)[i] = s[i]
    <3>0. PathOf(r, n)[i] = r[AtDepth(r, n, i + 1)].name
      BY <1>1, <2>1, <2>2
    <3>1. CASE i = Depth(r, q)
      <4>1. AtDepth(r, n, i + 1) = n
        BY <2>1, <3>1, NodeAtDepth
      <4> QED
        BY <2>3, <3>0, <3>1, <4>1
    <3>2. CASE i # Depth(r, q)
      <4>1. i \in 1..(Depth(r, q) - 1) /\ i + 1 \in 1..Depth(r, q)
        BY <2>2, <3>2
      <4>2. PathOf(r, q)[i] = r[AtDepth(r, q, i + 1)].name
        BY <1>1, <2>1, <4>1
      <4>3. AtDepth(r, n, i + 1) = AtDepth(r, q, i + 1)
        BY <2>1, <4>1, NodeAtDepth
      <4> QED
        BY <2>3, <3>0, <4>1, <4>2, <4>3
    <3> QED
      BY <3>1, <3>2
  <2>5. PathOf(r, n) \in Seq(Names) /\ Len(PathOf(r, n)) = Depth(r, q)
    BY <1>1, <2>1, <2>2
  <2> HIDE DEF s
  <2>6. PathOf(r, n) = s
    BY <2>3, <2>4, <2>5, SeqEqual
  <2> QED
    BY <2>6 DEF s
<1> QED
  BY <1>1, <1>2, <1>3

(* Two nodes never have one path. *)
LEMMA PathsDiffer ==
  ASSUME NEW r, Rooted(r), IsFiniteSet(DOMAIN r), SiblingsDiffer(r),
         \A n \in DOMAIN r : r[n].name \in Names
  PROVE  \A m, n \in DOMAIN r : PathOf(r, m) = PathOf(r, n) => m = n
<1> DEFINE P == {m \in DOMAIN r : \A n \in DOMAIN r : PathOf(r, m) = PathOf(r, n) => m = n}
<1>0. \A n \in DOMAIN r \ {Root} : /\ r[n].parent \in DOMAIN r /\ r[n].name \in Names
                                   /\ PathOf(r, r[n].parent) \in Seq(Names)
                                   /\ PathOf(r, n) = Append(PathOf(r, r[n].parent), r[n].name)
  BY RootOfTree, PathOfNode
<1>1. \A n \in DOMAIN r \ {Root} : PathOf(r, n) # <<>>
  <2> SUFFICES ASSUME NEW n \in DOMAIN r \ {Root} PROVE PathOf(r, n) # <<>>
    OBVIOUS
  <2>1. Len(PathOf(r, n)) = Len(PathOf(r, r[n].parent)) + 1 /\ Len(PathOf(r, r[n].parent)) \in Nat
    BY <1>0, AppendProperties, LenProperties
  <2> QED
    BY <2>1, EmptySeq
<1>2. Root \in P
  BY <1>1, RootOfTree, PathOfNode
<1>3. ASSUME NEW m \in DOMAIN r \ {Root}, r[m].parent \in P,
             NEW n \in DOMAIN r, PathOf(r, m) = PathOf(r, n)
      PROVE  m = n
  <2>1. n # Root
    BY <1>1, <1>3, PathOfNode
  <2> DEFINE s == PathOf(r, r[m].parent)
             t == PathOf(r, r[n].parent)
  <2>2. /\ s \in Seq(Names) /\ t \in Seq(Names)
        /\ r[m].name \in Names /\ r[n].name \in Names
        /\ Append(s, r[m].name) = Append(t, r[n].name)
    BY <1>0, <1>3, <2>1
  <2>3. s = t /\ r[m].name = r[n].name
    <3> HIDE DEF s, t
    <3>1. Len(s) + 1 = Len(t) + 1 /\ Len(s) \in Nat /\ Len(t) \in Nat
      BY <2>2, AppendProperties, LenProperties
    <3>2. Len(s) = Len(t)
      BY <3>1
    <3>3. r[m].name = r[n].name
      BY <2>2, <3>2, AppendProperties
    <3>4. \A i \in 1..Len(s) : s[i] = t[i]
      BY <2>2, <3>2, AppendProperties
    <3> QED
      BY <2>2, <3>2, <3>3, <3>4, SeqEqual
  <2>4. r[m].parent = r[n].parent
    BY <1>0, <1>3, <2>1, <2>3
  <2> QED
    BY <2>1, <2>3, <2>4 DEF SiblingsDiffer
<1>4. DOMAIN r \subseteq P
  <2>1. \A n \in DOMAIN r \ {Root} : r[n].parent \in P => n \in P
    BY <1>3
  <2> HIDE DEF P
  <2> QED
    BY <1>2, <2>1, TreeInduction
<1> QED
  BY <1>4

(* The stored tree by path. *)
LEMMA ByPathOfTree ==
  ASSUME NEW r, Rooted(r), IsFiniteSet(DOMAIN r), SiblingsDiffer(r),
         \A n \in DOMAIN r : r[n].name \in Names
  PROVE  /\ DOMAIN ByPath(r) = {PathOf(r, n) : n \in DOMAIN r}
         /\ \A n \in DOMAIN r : ByPath(r)[PathOf(r, n)] = n
<1>1. ASSUME NEW n \in DOMAIN r PROVE ByPath(r)[PathOf(r, n)] = n
  <2>1. \A m \in DOMAIN r : PathOf(r, m) = PathOf(r, n) => m = n
    BY PathsDiffer
  <2> QED
    BY <2>1 DEF ByPath
<1> QED
  BY <1>1 DEF ByPath

-----------------------------------------------------------------------------
(* The import, step by step.                                               *)

OneToOne(f, S) == \A p, q \in S : f[p] = f[q] => p = q

(* Paths of a tree: with each that of its parent. *)
Lineal(K) == K \subseteq Seq(Names) /\ <<>> \in K /\ \A p \in K \ {<<>>} : Parent(p) \in K

(* A path is its parent's, and a name. *)
LEMMA ParentPath ==
  ASSUME NEW p \in Seq(Names), p # <<>>
  PROVE  /\ Len(p) \in Nat \ {0} /\ p[Len(p)] \in Names
         /\ Parent(p) \in Seq(Names) /\ Len(Parent(p)) = Len(p) - 1
         /\ p = Append(Parent(p), p[Len(p)])
<1>1. Len(p) \in Nat \ {0} /\ \A i \in 1..Len(p) : p[i] \in Names
  BY EmptySeq, ElementOfSeq
<1>2. /\ Parent(p) \in Seq(Names) /\ Len(Parent(p)) = Len(p) - 1
      /\ \A i \in 1..(Len(p) - 1) : Parent(p)[i] = p[i]
  <2> DEFINE k == Len(p) - 1
  <2>1. k \in Nat /\ \A i \in 1..k : p[i] \in Names
    BY <1>1
  <2> HIDE DEF k
  <2>2. /\ SubSeq(p, 1, k) \in Seq(Names) /\ Len(SubSeq(p, 1, k)) = k
        /\ \A i \in 1..k : SubSeq(p, 1, k)[i] = p[i]
    BY <2>1
  <2> QED
    BY <2>2 DEF Parent, k
<1> DEFINE s == Append(Parent(p), p[Len(p)])
<1>3. s \in Seq(Names) /\ Len(s) = Len(p) /\ \A i \in 1..Len(p) : s[i] = p[i]
  <2>1. p[Len(p)] \in Names
    BY <1>1
  <2>2. /\ s \in Seq(Names) /\ Len(s) = Len(Parent(p)) + 1
        /\ \A i \in 1..Len(Parent(p)) : s[i] = Parent(p)[i]
        /\ s[Len(Parent(p)) + 1] = p[Len(p)]
    BY <1>2, <2>1, AppendProperties
  <2> HIDE DEF s
  <2> QED
    BY <1>1, <1>2, <2>2
<1>4. s = p
  <2> HIDE DEF s
  <2> QED
    BY <1>3, SeqEqual
<1> QED
  BY <1>1, <1>2, <1>4

(* Rows that are those of a plan, under the ids its paths have. *)
SameRows(s, plan, at, rootName) ==
  /\ DOMAIN s = {at[p] : p \in DOMAIN plan}
  /\ \A p \in DOMAIN plan : s[at[p]] = RowFor(p, plan[p], at, rootName)

(* Laid out, there is a row for each id of a path. *)
LEMMA RowsLaidOut ==
  ASSUME NEW plan, NEW ids, NEW rootName, OneToOne(ids, DOMAIN plan)
  PROVE  SameRows(LaidOut(plan, ids, rootName), plan, ids, rootName)
<1>1. ASSUME NEW p \in DOMAIN plan
      PROVE  (CHOOSE q \in DOMAIN plan : ids[q] = ids[p]) = p
  BY DEF OneToOne
<1> QED
  BY <1>1 DEF LaidOut, SameRows

(* The fields of a row that is laid out. *)
LEMMA RowFields ==
  ASSUME NEW s, NEW plan, NEW at, NEW rootName, SameRows(s, plan, at, rootName),
         NEW p \in DOMAIN plan
  PROVE  /\ at[p] \in DOMAIN s
         /\ s[at[p]].parent = IF p = <<>> THEN NONE ELSE at[Parent(p)]
         /\ s[at[p]].name = IF p = <<>> THEN rootName ELSE p[Len(p)]
         /\ s[at[p]].interval = plan[p].interval /\ s[at[p]].load = plan[p].load
<1>1. at[p] \in DOMAIN s /\ s[at[p]] = RowFor(p, plan[p], at, rootName)
  BY DEF SameRows
<1> QED
  BY <1>1 DEF RowFor

(* They are a tree under whatever ids, if they are one under others. *)
LEMMA RelaidIsTree ==
  ASSUME NEW plan, NEW rootName, Lineal(DOMAIN plan),
         NEW ids, OneToOne(ids, DOMAIN plan), ids[<<>>] = Root,
         NONE \notin {ids[p] : p \in DOMAIN plan}, IsTree(LaidOut(plan, ids, rootName)),
         NEW at, OneToOne(at, DOMAIN plan), at[<<>>] = Root,
         NONE \notin {at[p] : p \in DOMAIN plan},
         NEW s, SameRows(s, plan, at, rootName)
  PROVE  IsTree(s)
<1> DEFINE r == LaidOut(plan, ids, rootName)
           K == DOMAIN plan
           h == [n \in DOMAIN s |-> ids[CHOOSE p \in K : at[p] = n]]
<1>1. SameRows(r, plan, ids, rootName)
  BY RowsLaidOut
<1>2. DOMAIN r = {ids[p] : p \in K} /\ DOMAIN s = {at[p] : p \in K}
  <2> HIDE DEF r
  <2> QED
    BY <1>1 DEF SameRows
<1>3. \A p \in K : h[at[p]] = ids[p]
  <2> SUFFICES ASSUME NEW p \in K PROVE h[at[p]] = ids[p]
    OBVIOUS
  <2>1. (CHOOSE q \in K : at[q] = at[p]) = p
    BY DEF OneToOne
  <2> QED
    BY <1>2, <2>1
<1>4. <<>> \in K /\ \A p \in K \ {<<>>} : Parent(p) \in K
  BY DEF Lineal
<1>5. \A p \in K : at[p] = Root <=> p = <<>>
  BY <1>4 DEF OneToOne
<1> HIDE DEF r, h
<1>6. Embeds(h, s, r)
  <2>1. \A n \in DOMAIN s : h[n] \in DOMAIN r
    BY <1>2, <1>3
  <2>2. \A m, n \in DOMAIN s : h[m] = h[n] => m = n
    <3> SUFFICES ASSUME NEW p \in K, NEW q \in K, h[at[p]] = h[at[q]] PROVE at[p] = at[q]
      BY <1>2
    <3> QED
      BY <1>3 DEF OneToOne
  <2>3. Root \in DOMAIN s /\ h[Root] = Root /\ s[Root].parent = NONE
    BY <1>3, <1>4, RowFields
  <2>4. ASSUME NEW n \in DOMAIN s \ {Root}
        PROVE  s[n].parent \in DOMAIN s /\ h[s[n].parent] = r[h[n]].parent
    <3>1. PICK p \in K \ {<<>>} : n = at[p]
      BY <1>2, <1>5
    <3>2. Parent(p) \in K /\ s[n].parent = at[Parent(p)]
      BY <1>4, <3>1, RowFields
    <3>3. r[ids[p]].parent = ids[Parent(p)]
      BY <1>1, <3>1, RowFields
    <3> QED
      BY <1>2, <1>3, <3>1, <3>2, <3>3
  <2>5. ASSUME NEW n \in DOMAIN s
        PROVE  /\ s[n].name = r[h[n]].name
               /\ s[n].interval = r[h[n]].interval /\ s[n].load = r[h[n]].load
    <3>1. PICK p \in K : n = at[p]
      BY <1>2
    <3>2. h[n] = ids[p]
      BY <1>3, <3>1
    <3>3. /\ s[n].name = IF p = <<>> THEN rootName ELSE p[Len(p)]
          /\ s[n].interval = plan[p].interval /\ s[n].load = plan[p].load
      BY <3>1, RowFields
    <3>4. /\ r[ids[p]].name = IF p = <<>> THEN rootName ELSE p[Len(p)]
          /\ r[ids[p]].interval = plan[p].interval /\ r[ids[p]].load = plan[p].load
      BY <1>1, RowFields
    <3> QED
      BY <3>2, <3>3, <3>4
  <2> QED
    BY <2>1, <2>2, <2>3, <2>4, <2>5 DEF Embeds
<1>7. NONE \notin DOMAIN r /\ NONE \notin DOMAIN s /\ IsTree(r)
  BY <1>2 DEF r
<1> QED
  BY <1>6, <1>7, EmbeddedIsTree

(* And its paths are the plan's. *)
LEMMA RelaidPaths ==
  ASSUME NEW plan, NEW rootName \in Names, Lineal(DOMAIN plan),
         NEW at, OneToOne(at, DOMAIN plan), at[<<>>] = Root,
         NEW s, SameRows(s, plan, at, rootName), Rooted(s), IsFiniteSet(DOMAIN s)
  PROVE  \A p \in DOMAIN plan : PathOf(s, at[p]) = p
<1> DEFINE K == DOMAIN plan
           P == {at[p] : p \in {q \in K : PathOf(s, at[q]) = q}}
<1>1. DOMAIN s = {at[p] : p \in K}
  BY DEF SameRows
<1>2. K \subseteq Seq(Names) /\ <<>> \in K /\ \A p \in K \ {<<>>} : Parent(p) \in K
  BY DEF Lineal
<1>3. \A n \in DOMAIN s : s[n].name \in Names
  <2> SUFFICES ASSUME NEW p \in K PROVE s[at[p]].name \in Names
    BY <1>1
  <2>1. s[at[p]].name = IF p = <<>> THEN rootName ELSE p[Len(p)]
    BY RowFields
  <2> QED
    BY <1>2, <2>1, ParentPath
<1>4. Root \in P
  BY <1>2, <1>3, PathOfNode
<1>5. ASSUME NEW n \in DOMAIN s \ {Root}, s[n].parent \in P PROVE n \in P
  <2>1. PICK p \in K \ {<<>>} : n = at[p]
    BY <1>1
  <2>2. s[n].parent = at[Parent(p)] /\ s[n].name = p[Len(p)] /\ Parent(p) \in K
    BY <1>2, <2>1, RowFields
  <2>3. PathOf(s, at[Parent(p)]) = Parent(p)
    BY <1>5, <2>2 DEF OneToOne
  <2>4. PathOf(s, n) = Append(Parent(p), p[Len(p)])
    BY <1>3, <2>2, <2>3, PathOfNode
  <2>5. PathOf(s, n) = p
    BY <1>2, <2>4, ParentPath
  <2> QED
    BY <2>1, <2>5
<1>6. DOMAIN s \subseteq P
  <2>1. \A n \in DOMAIN s \ {Root} : s[n].parent \in P => n \in P
    BY <1>5
  <2> HIDE DEF P
  <2> QED
    BY <1>4, <2>1, TreeInduction
<1> QED
  BY <1>1, <1>6 DEF OneToOne

-----------------------------------------------------------------------------
(* What an import under way is: what it will write, under ids of which     *)
(* some are yet to be given, and what of it is left to do.                 *)

PlanIsTree(plan, rootName) ==
  \E ids \in [DOMAIN plan -> Nat] :
    OneToOne(ids, DOMAIN plan) /\ ids[<<>>] = Root /\ IsTree(LaidOut(plan, ids, rootName))

SaysTheFile(plan) ==
  \A p \in DOMAIN FileTargets : /\ p \in DOMAIN plan
                                /\ plan[p].interval = FileTargets[p].interval
                                /\ plan[p].load = FileTargets[p].load

ImportOK(i, last) ==
  /\ i = [pc |-> i.pc, plan |-> i.plan, rootName |-> i.rootName, at |-> i.at,
          todo |-> i.todo, doomed |-> i.doomed]
  /\ i.pc \in {"write", "delete"}
  /\ Lineal(DOMAIN i.plan) /\ i.plan \in [DOMAIN i.plan -> Settings] /\ i.rootName \in Names
  /\ PlanIsTree(i.plan, i.rootName) /\ SaysTheFile(i.plan)
  /\ i.at \in [DOMAIN i.at -> 0..last] /\ OneToOne(i.at, DOMAIN i.at)
  /\ <<>> \in DOMAIN i.at /\ i.at[<<>>] = Root
  /\ i.todo \subseteq DOMAIN i.plan /\ DOMAIN i.plan \ DOMAIN i.at \subseteq i.todo
  /\ \A p \in DOMAIN i.plan \ (i.todo \cup {<<>>}) : Parent(p) \notin i.todo
  /\ i.doomed \subseteq DOMAIN i.at \ DOMAIN i.plan
  /\ i.pc = "delete" => i.todo = {}

(* The rows, when no request came between. *)
Follows(r, i) ==
  /\ DOMAIN r = {i.at[p] : p \in (DOMAIN i.plan \cap DOMAIN i.at) \cup i.doomed}
  /\ \A p \in DOMAIN i.plan \ i.todo : r[i.at[p]] = RowFor(p, i.plan[p], i.at, i.rootName)

(* The parent of what is first in line has its id. *)
LEMMA ParentIsWritten ==
  ASSUME NEW i, NEW last \in Nat, ImportOK(i, last),
         NEW path \in i.todo, \A p \in i.todo : Len(path) <= Len(p)
  PROVE  /\ path # <<>> => Parent(path) \in DOMAIN i.at \ {path}
         /\ path # <<>> => Parent(path) \notin i.todo
         /\ RowFor(path, i.plan[path], i.at, i.rootName) \in
              [parent : 0..last \cup {NONE}, name : Names, interval : Durations \cup {NONE},
               load : Durations \cup {NONE}]
<1>1. path \in DOMAIN i.plan /\ path \in Seq(Names) /\ i.plan[path] \in Settings
  BY DEF ImportOK, Lineal
<1>2. ASSUME path # <<>>
      PROVE  Parent(path) \in DOMAIN i.at \ {path} /\ Parent(path) \notin i.todo
  <2>1. Len(Parent(path)) < Len(path) /\ Parent(path) \in DOMAIN i.plan
    BY <1>1, <1>2, ParentPath DEF ImportOK, Lineal
  <2>2. Parent(path) \notin i.todo /\ Parent(path) # path
    BY <1>1, <1>2, <2>1, ParentPath
  <2> QED
    BY <2>1, <2>2 DEF ImportOK
<1>3. path # <<>> => i.at[Parent(path)] \in 0..last /\ path[Len(path)] \in Names
  BY <1>1, <1>2, ParentPath DEF ImportOK
<1>4. i.rootName \in Names
  BY DEF ImportOK
<1> QED
  BY <1>1, <1>2, <1>3, <1>4 DEF RowFor, Settings

(* An import after it wrote the row of a path, and what a row it wrote says. *)
Written(i, path, n, j) ==
  /\ j = [pc |-> j.pc, plan |-> j.plan, rootName |-> j.rootName, at |-> j.at,
          todo |-> j.todo, doomed |-> j.doomed]
  /\ j.pc = IF i.todo = {path} THEN "delete" ELSE "write"
  /\ j.plan = i.plan /\ j.rootName = i.rootName
  /\ j.at = [p \in DOMAIN i.at \cup {path} |-> IF p = path THEN n ELSE i.at[p]]
  /\ j.todo = i.todo \ {path} /\ j.doomed = i.doomed

(* Writing a row keeps the plan, and what follows it follows it. *)
LEMMA RowIsWritten ==
  ASSUME NEW i, NEW last \in Nat, ImportOK(i, last),
         NEW path \in i.todo, \A p \in i.todo : Len(path) <= Len(p),
         NEW last2 \in {last, last + 1}, NEW n,
         path \in DOMAIN i.at => n = i.at[path],
         path \notin DOMAIN i.at => n = last2 /\ last2 = last + 1,
         NEW j, Written(i, path, n, j)
  PROVE  /\ ImportOK(j, last2)
         /\ \A r : Follows(r, i) => Follows(Put(r, n, RowFor(path, i.plan[path], i.at, i.rootName)), j)
<1> DEFINE at2 == [p \in DOMAIN i.at \cup {path} |-> IF p = path THEN n ELSE i.at[p]]
<1>1. /\ j = [pc |-> j.pc, plan |-> j.plan, rootName |-> j.rootName, at |-> j.at,
              todo |-> j.todo, doomed |-> j.doomed]
      /\ j.pc \in {"write", "delete"} /\ (j.pc = "delete" => i.todo = {path})
      /\ j.plan = i.plan /\ j.rootName = i.rootName /\ j.at = at2
      /\ j.todo = i.todo \ {path} /\ j.doomed = i.doomed
  BY DEF Written
<1>2. /\ n \in 0..last2 /\ path \in DOMAIN i.plan
      /\ path \notin DOMAIN i.at => \A p \in DOMAIN i.at : i.at[p] # n
      /\ path \in DOMAIN i.at => \A p \in DOMAIN i.at \ {path} : i.at[p] # n
  BY DEF ImportOK, OneToOne
<1>3. /\ at2 \in [DOMAIN i.at \cup {path} -> 0..last2] /\ at2[path] = n
      /\ \A p \in DOMAIN i.at : at2[p] = i.at[p]
      /\ OneToOne(at2, DOMAIN i.at \cup {path})
  <2>1. \A p \in DOMAIN i.at : i.at[p] \in 0..last2
    BY DEF ImportOK
  <2>2. \A p \in DOMAIN i.at : at2[p] = i.at[p]
    OBVIOUS
  <2>3. OneToOne(at2, DOMAIN i.at \cup {path})
    BY <1>2 DEF OneToOne, ImportOK
  <2> QED
    BY <1>2, <2>1, <2>2, <2>3
<1> HIDE DEF at2
<1>4. DOMAIN at2 = DOMAIN i.at \cup {path} /\ at2 \in [DOMAIN at2 -> 0..last2]
      /\ OneToOne(at2, DOMAIN at2)
  BY <1>3
<1>5. ImportOK(j, last2)
  <2>1. /\ Lineal(DOMAIN j.plan) /\ j.plan \in [DOMAIN j.plan -> Settings] /\ j.rootName \in Names
        /\ PlanIsTree(j.plan, j.rootName) /\ SaysTheFile(j.plan)
    BY <1>1 DEF ImportOK
  <2>2. /\ <<>> \in DOMAIN j.at /\ j.at[<<>>] = Root
        /\ j.todo \subseteq DOMAIN j.plan /\ DOMAIN j.plan \ DOMAIN j.at \subseteq j.todo
        /\ j.doomed \subseteq DOMAIN j.at \ DOMAIN j.plan
    BY <1>1, <1>2, <1>3, <1>4 DEF ImportOK
  <2>3. \A p \in DOMAIN j.plan \ (j.todo \cup {<<>>}) : Parent(p) \notin j.todo
    BY <1>1, ParentIsWritten DEF ImportOK
  <2>4. j.pc = "delete" => j.todo = {}
    BY <1>1
  <2> QED
    BY <1>1, <1>4, <2>1, <2>2, <2>3, <2>4 DEF ImportOK
<1>6. ASSUME NEW r, Follows(r, i)
      PROVE  Follows(Put(r, n, RowFor(path, i.plan[path], i.at, i.rootName)), j)
  <2> DEFINE row == RowFor(path, i.plan[path], i.at, i.rootName)
             s == Put(r, n, row)
  <2>1. DOMAIN s = DOMAIN r \cup {n} /\ s[n] = row /\ \A m \in DOMAIN r \ {n} : s[m] = r[m]
    BY DEF Put
  <2> HIDE DEF s
  <2>2. DOMAIN s = {j.at[p] : p \in (DOMAIN j.plan \cap DOMAIN j.at) \cup j.doomed}
    <3>1. DOMAIN r = {i.at[p] : p \in (DOMAIN i.plan \cap DOMAIN i.at) \cup i.doomed}
      BY <1>6 DEF Follows
    <3>2. i.doomed \subseteq DOMAIN i.at
      BY DEF ImportOK
    <3>3. DOMAIN r = {at2[p] : p \in (DOMAIN i.plan \cap DOMAIN i.at) \cup i.doomed}
      BY <1>3, <3>1, <3>2
    <3>4. {at2[p] : p \in (DOMAIN i.plan \cap (DOMAIN i.at \cup {path})) \cup i.doomed}
            = {at2[p] : p \in (DOMAIN i.plan \cap DOMAIN i.at) \cup i.doomed} \cup {at2[path]}
      BY <1>2
    <3>5. DOMAIN s = {at2[p] : p \in (DOMAIN i.plan \cap (DOMAIN i.at \cup {path})) \cup i.doomed}
      BY <1>3, <2>1, <3>3, <3>4
    <3>6. /\ DOMAIN j.plan = DOMAIN i.plan /\ DOMAIN j.at = DOMAIN i.at \cup {path}
          /\ j.doomed = i.doomed /\ j.at = at2
      BY <1>1, <1>4
    <3> QED
      BY <3>5, <3>6
  <2>3. ASSUME NEW p \in DOMAIN i.plan \ (i.todo \ {path})
        PROVE  s[at2[p]] = RowFor(p, i.plan[p], at2, i.rootName)
    <3>1. p # <<>> => Parent(p) \in DOMAIN i.at
      <4>1. CASE p = path
        BY <4>1, ParentIsWritten
      <4>2. CASE p # path /\ p # <<>>
        <5>1. Parent(p) \in DOMAIN i.plan \ i.todo
          BY <4>2 DEF ImportOK, Lineal
        <5> QED
          BY <5>1 DEF ImportOK
      <4> QED
        BY <4>1, <4>2
    <3>2. RowFor(p, i.plan[p], at2, i.rootName) = RowFor(p, i.plan[p], i.at, i.rootName)
      BY <1>3, <3>1 DEF RowFor
    <3>3. CASE p = path
      BY <1>3, <2>1, <3>2, <3>3
    <3>4. CASE p # path
      <4>1. p \in DOMAIN i.at /\ p \in DOMAIN i.plan \ i.todo
        BY <3>4 DEF ImportOK
      <4>2. at2[p] = i.at[p] /\ at2[p] # n
        BY <1>2, <1>3, <3>4, <4>1
      <4>3. i.at[p] \in DOMAIN r /\ r[i.at[p]] = RowFor(p, i.plan[p], i.at, i.rootName)
        BY <1>6, <4>1 DEF Follows
      <4> QED
        BY <2>1, <3>2, <4>2, <4>3
    <3> QED
      BY <3>3, <3>4
  <2>4. Follows(s, j)
    BY <1>1, <2>2, <2>3 DEF Follows
  <2> QED
    BY <2>4 DEF s
<1> QED
  BY <1>5, <1>6

(* So does deleting one. *)
LEMMA RowIsDeleted ==
  ASSUME NEW i, NEW last \in Nat, ImportOK(i, last), i.pc = "delete",
         NEW path \in i.doomed, NEW j, j = [i EXCEPT !.doomed = @ \ {path}]
  PROVE  /\ ImportOK(j, last)
         /\ \A r : Follows(r, i) => Follows(Without(r, {i.at[path]}), j)
<1>1. i = [pc |-> i.pc, plan |-> i.plan, rootName |-> i.rootName, at |-> i.at,
           todo |-> i.todo, doomed |-> i.doomed]
  BY DEF ImportOK
<1>2. j = [pc |-> i.pc, plan |-> i.plan, rootName |-> i.rootName, at |-> i.at,
           todo |-> i.todo, doomed |-> i.doomed \ {path}]
  BY <1>1
<1>3. /\ j = [pc |-> j.pc, plan |-> j.plan, rootName |-> j.rootName, at |-> j.at,
              todo |-> j.todo, doomed |-> j.doomed]
      /\ j.pc = i.pc /\ j.plan = i.plan /\ j.rootName = i.rootName /\ j.at = i.at
      /\ j.todo = i.todo /\ j.doomed = i.doomed \ {path}
  BY <1>2
<1>4. ImportOK(j, last)
  BY <1>3 DEF ImportOK
<1>5. ASSUME NEW r, Follows(r, i) PROVE Follows(Without(r, {i.at[path]}), j)
  <2> DEFINE s == Without(r, {i.at[path]})
  <2>1. DOMAIN s = DOMAIN r \ {i.at[path]} /\ \A m \in DOMAIN s : s[m] = r[m]
    BY DEF Without
  <2> HIDE DEF s
  <2>2. /\ i.doomed \subseteq DOMAIN i.at /\ path \notin DOMAIN i.plan
        /\ OneToOne(i.at, DOMAIN i.at) /\ DOMAIN i.plan \subseteq DOMAIN i.at
    BY DEF ImportOK
  <2>3. DOMAIN r = {i.at[p] : p \in (DOMAIN i.plan \cap DOMAIN i.at) \cup i.doomed}
    BY <1>5 DEF Follows
  <2>4. DOMAIN s = {i.at[p] : p \in (DOMAIN i.plan \cap DOMAIN i.at) \cup (i.doomed \ {path})}
    BY <2>1, <2>2, <2>3 DEF OneToOne
  <2>5. ASSUME NEW p \in DOMAIN i.plan \ i.todo
        PROVE  s[i.at[p]] = RowFor(p, i.plan[p], i.at, i.rootName)
    BY <1>5, <2>1, <2>2, <2>4 DEF Follows
  <2>6. Follows(s, j)
    BY <1>3, <2>4, <2>5 DEF Follows
  <2> QED
    BY <2>6 DEF s
<1> QED
  BY <1>4, <1>5

(* Where an import ends. *)
LEMMA ImportEnds ==
  ASSUME NEW i, NEW last \in Nat, ImportOK(i, last), i.pc = "delete", i.doomed = {},
         NEW r, Follows(r, i), NONE \notin Nat
  PROVE  /\ IsTree(r)
         /\ \A p \in DOMAIN FileTargets :
              \E n \in DOMAIN r : /\ PathOf(r, n) = p
                                  /\ r[n].interval = FileTargets[p].interval
                                  /\ r[n].load = FileTargets[p].load
<1>1. /\ i.todo = {} /\ DOMAIN i.plan \subseteq DOMAIN i.at /\ Lineal(DOMAIN i.plan)
      /\ i.rootName \in Names /\ SaysTheFile(i.plan)
      /\ i.at[<<>>] = Root /\ i.at \in [DOMAIN i.at -> 0..last]
  BY DEF ImportOK
<1>2. OneToOne(i.at, DOMAIN i.plan)
  BY <1>1 DEF ImportOK, OneToOne
<1>3. SameRows(r, i.plan, i.at, i.rootName)
  BY <1>1 DEF Follows, SameRows
<1>4. \A p \in DOMAIN i.plan : i.at[p] \in 0..last
  BY <1>1
<1>5. NONE \notin {i.at[p] : p \in DOMAIN i.plan}
  BY <1>4
<1>6. PICK ids \in [DOMAIN i.plan -> Nat] :
        /\ OneToOne(ids, DOMAIN i.plan) /\ ids[<<>>] = Root
        /\ IsTree(LaidOut(i.plan, ids, i.rootName))
  BY DEF ImportOK, PlanIsTree
<1>7. NONE \notin {ids[p] : p \in DOMAIN i.plan}
  OBVIOUS
<1>8. IsTree(r)
  BY <1>1, <1>2, <1>3, <1>5, <1>6, <1>7, RelaidIsTree
<1>9. NONE \notin DOMAIN r /\ IsFiniteSet(DOMAIN r)
  <2>1. DOMAIN r \subseteq 0..last /\ NONE \notin DOMAIN r
    BY <1>3, <1>4, <1>5 DEF SameRows
  <2>2. IsFiniteSet(0..last)
    BY FS_Interval
  <2> QED
    BY <2>1, <2>2, FS_Subset
<1>10. \A p \in DOMAIN i.plan : PathOf(r, i.at[p]) = p
  BY <1>1, <1>2, <1>3, <1>8, <1>9, RelaidPaths DEF Rooted, IsTree
<1>11. ASSUME NEW p \in DOMAIN FileTargets
       PROVE  \E n \in DOMAIN r : /\ PathOf(r, n) = p
                                  /\ r[n].interval = FileTargets[p].interval
                                  /\ r[n].load = FileTargets[p].load
  <2>1. /\ p \in DOMAIN i.plan /\ i.plan[p].interval = FileTargets[p].interval
        /\ i.plan[p].load = FileTargets[p].load
    BY <1>1 DEF SaysTheFile
  <2>2. i.at[p] \in DOMAIN r /\ r[i.at[p]] = RowFor(p, i.plan[p], i.at, i.rootName)
    BY <1>3, <2>1 DEF SameRows
  <2>3. /\ r[i.at[p]].interval = FileTargets[p].interval
        /\ r[i.at[p]].load = FileTargets[p].load
    BY <2>1, <2>2 DEF RowFor
  <2> QED
    BY <1>10, <2>1, <2>2, <2>3
<1> QED
  BY <1>8, <1>11

-----------------------------------------------------------------------------
(* The inductive invariant.                                                *)

TreeTyped ==
  /\ RowsTyped
  /\ lastId \in Nat /\ lastId <= MaxId
  /\ DOMAIN rows \cup gone \subseteq 0..lastId
  /\ raced \in BOOLEAN /\ cut \in BOOLEAN /\ synced \in BOOLEAN

(* What an import has read and given out, whatever has come between; and   *)
(* when nothing has, what it has made of the rows so far.                  *)
ImportUnderWay ==
  import # Idle =>
    /\ ImportOK(import, lastId)
    /\ synced => Follows(rows, import)
    /\ ~raced => synced

NothingComesBack == ~raced => gone \cap DOMAIN rows = {}

AtRestATree == import = Idle /\ ~raced /\ ~cut => rows = InitRows \/ IsTree(rows)

TreeInv ==
  /\ TreeTyped
  /\ ImportUnderWay
  /\ NothingComesBack
  /\ AtRestATree
  /\ ImportReachesTheFile

-----------------------------------------------------------------------------

(* There are finitely many rows, and NONE is none of them. *)
LEMMA NoneIsNoRow ==
  ASSUME TreeTyped
  PROVE  NONE \notin Nat /\ NONE \notin DOMAIN rows /\ IsFiniteSet(DOMAIN rows)
<1>1. DOMAIN rows \subseteq 0..lastId /\ lastId \in Nat
  BY DEF TreeTyped
<1>2. NONE \notin DOMAIN rows
  BY <1>1, TreeAssumption
<1>3. IsFiniteSet(0..lastId)
  <2>1. 0 \in Int /\ lastId \in Int
    BY <1>1
  <2> QED
    BY <2>1, FS_Interval
<1> QED
  BY <1>1, <1>2, <1>3, TreeAssumption, FS_Subset

(* At first the rows are the initial ones, and no import is at work. *)
LEMMA TreeInitInv == TreeInit => TreeInv
<1> SUFFICES ASSUME TreeInit PROVE TreeInv
  OBVIOUS
<1>1. RowsTyped
  <2>1. InitRows \in [DOMAIN InitRows -> Node]
    BY TreeAssumption DEF IsTable
  <2> QED
    BY <2>1 DEF TreeInit, RowsTyped
<1>2. lastId \in Nat /\ lastId <= MaxId /\ DOMAIN rows \subseteq 0..lastId
  <2> DEFINE k == Cardinality(DOMAIN InitRows)
  <2>1. /\ DOMAIN InitRows = 0..(k - 1) /\ 0 \in DOMAIN InitRows
        /\ DOMAIN InitRows \subseteq 0..MaxId /\ MaxId \in Nat
    BY TreeAssumption DEF IsTable, Ids, Root
  <2>2. k \in Nat
    <3>1. IsFiniteSet(DOMAIN InitRows)
      <4>1. 0 \in Int /\ MaxId \in Int
        BY <2>1
      <4>2. IsFiniteSet(0..MaxId)
        BY <4>1, FS_Interval
      <4> QED
        BY <2>1, <4>2, FS_Subset
    <3> QED
      BY <3>1, FS_CardinalityType
  <2>3. lastId = k - 1 /\ rows = InitRows
    BY DEF TreeInit
  <2> HIDE DEF k
  <2>4. k - 1 \in 0..(k - 1)
    BY <2>1, <2>2
  <2>5. k - 1 \in 0..MaxId
    BY <2>1, <2>4
  <2> QED
    BY <2>1, <2>3, <2>5
<1>3. /\ import = Idle /\ gone = {} /\ raced = FALSE /\ cut = FALSE /\ synced = FALSE
      /\ rows = InitRows
  BY DEF TreeInit
<1> QED
  BY <1>1, <1>2, <1>3
  DEF TreeInv, TreeTyped, ImportUnderWay, NothingComesBack, AtRestATree, ImportReachesTheFile

(* An import goes on under a greater last id. *)
LEMMA ImportStaysOK ==
  ASSUME NEW i, NEW last \in Nat, NEW last2 \in Nat, last <= last2, ImportOK(i, last)
  PROVE  ImportOK(i, last2)
<1>1. 0..last \subseteq 0..last2
  OBVIOUS
<1>2. i.at \in [DOMAIN i.at -> 0..last2]
  BY <1>1 DEF ImportOK
<1> QED
  BY <1>2 DEF ImportOK

(* Rows after a request, and the ids: none that was gone is given again.   *)
LEMMA RequestsRows ==
  ASSUME TreeTyped, NEW who \in {"admin", "editor"}, Edit(who)
  PROVE  /\ RowsTyped' /\ lastId' \in Nat /\ lastId <= lastId' /\ lastId' <= MaxId
         /\ DOMAIN rows' \cup gone' \subseteq 0..lastId'
         /\ gone \cap DOMAIN rows = {} => gone' \cap DOMAIN rows' = {}
         /\ import' = import /\ cut' = cut /\ synced' = FALSE
         /\ raced' = (raced \/ import # Idle)
<1> DEFINE Goal == /\ RowsTyped' /\ lastId' \in Nat /\ lastId <= lastId' /\ lastId' <= MaxId
                   /\ DOMAIN rows' \cup gone' \subseteq 0..lastId'
                   /\ gone \cap DOMAIN rows = {} => gone' \cap DOMAIN rows' = {}
                   /\ import' = import /\ cut' = cut /\ synced' = FALSE
                   /\ raced' = (raced \/ import # Idle)
<1>0. /\ rows \in [DOMAIN rows -> Node] /\ lastId \in Nat /\ lastId <= MaxId /\ MaxId \in Nat
      /\ DOMAIN rows \subseteq 0..lastId /\ gone \subseteq 0..lastId
  BY TreeAssumption DEF TreeTyped, RowsTyped
<1>1. ASSUME NEW planned, Request(planned)
      PROVE  /\ rows' = planned /\ import' = import /\ cut' = cut /\ synced' = FALSE
             /\ raced' = (raced \/ import # Idle)
  BY <1>1 DEF Request
<1>2. ASSUME NEW n \in Ids, NEW name \in Names, NEW load \in Durations \cup {NONE},
             Create(who, n, name, load)
      PROVE  Goal
  <2> DEFINE row == [parent |-> n, name |-> name, interval |-> NONE, load |-> load]
  <2>1. /\ Request(Put(rows, NextId, row)) /\ NextId = lastId + 1 /\ NextId <= MaxId
        /\ lastId' = NextId /\ gone' = gone
    BY <1>0, <1>2 DEF Create, Write, NextId
  <2>2. row \in Node
    BY DEF Node
  <2> HIDE DEF row
  <2>3. rows' = Put(rows, NextId, row)
    BY <1>1, <2>1
  <2>4. rows' \in [DOMAIN rows \cup {NextId} -> Node] /\ DOMAIN rows' = DOMAIN rows \cup {NextId}
    BY <1>0, <2>2, <2>3 DEF Put
  <2>5. RowsTyped'
    BY <2>4 DEF RowsTyped
  <2>6. /\ lastId' \in Nat /\ lastId <= lastId' /\ lastId' <= MaxId
        /\ DOMAIN rows' \cup gone' \subseteq 0..lastId'
    BY <1>0, <2>1, <2>4
  <2>7. gone \cap DOMAIN rows = {} => gone' \cap DOMAIN rows' = {}
    BY <1>0, <2>1, <2>4
  <2> QED
    BY <1>1, <2>1, <2>5, <2>6, <2>7
<1>3. ASSUME NEW planned, Request(planned), lastId' = lastId, gone' = gone,
             DOMAIN planned = DOMAIN rows, planned \in [DOMAIN rows -> Node]
      PROVE  Goal
  <2>1. rows' = planned
    BY <1>1, <1>3
  <2>2. RowsTyped' /\ DOMAIN rows' = DOMAIN rows
    BY <1>3, <2>1 DEF RowsTyped
  <2>3. import' = import /\ cut' = cut /\ synced' = FALSE /\ raced' = (raced \/ import # Idle)
    BY <1>1, <1>3
  <2> QED
    BY <1>0, <1>3, <2>2, <2>3
<1>4. ASSUME NEW n \in DOMAIN rows, NEW parent \in Ids, Move(who, n, parent)
      PROVE  Goal
  <2> DEFINE planned == [rows EXCEPT ![n].parent = parent]
  <2>1. Request(planned) /\ lastId' = lastId /\ gone' = gone
    BY <1>4 DEF Move, Write
  <2>2. DOMAIN planned = DOMAIN rows /\ planned \in [DOMAIN rows -> Node]
    BY <1>0 DEF Node
  <2> HIDE DEF planned, Goal
  <2> QED
    BY <1>3, <2>1, <2>2
<1>5. ASSUME NEW n \in DOMAIN rows, NEW name \in Names, Update(who, n, "name", name)
      PROVE  Goal
  <2> DEFINE planned == [rows EXCEPT ![n]["name"] = name]
  <2>1. Request(planned) /\ lastId' = lastId /\ gone' = gone
    BY <1>5 DEF Update, Write
  <2>2. DOMAIN planned = DOMAIN rows /\ planned \in [DOMAIN rows -> Node]
    BY <1>0 DEF Node
  <2> HIDE DEF planned, Goal
  <2> QED
    BY <1>3, <2>1, <2>2
<1>6. ASSUME NEW n \in DOMAIN rows, NEW field \in {"interval", "load"},
             NEW v \in Durations \cup {NONE}, Update(who, n, field, v)
      PROVE  Goal
  <2> DEFINE planned == [rows EXCEPT ![n][field] = v]
  <2>1. Request(planned) /\ lastId' = lastId /\ gone' = gone
    BY <1>6 DEF Update, Write
  <2>2. DOMAIN planned = DOMAIN rows /\ planned \in [DOMAIN rows -> Node]
    BY <1>0 DEF Node
  <2> HIDE DEF planned, Goal
  <2> QED
    BY <1>3, <2>1, <2>2
<1>7. ASSUME NEW n \in DOMAIN rows, NEW recursive \in BOOLEAN, Delete(who, n, recursive)
      PROVE  Goal
  <2> DEFINE victims == Under(rows, n)
  <2>1. /\ Request(Without(rows, victims)) /\ lastId' = lastId /\ gone' = gone \cup victims
        /\ victims \subseteq DOMAIN rows
    BY <1>7 DEF Delete, Under
  <2> HIDE DEF victims
  <2>2. rows' = Without(rows, victims)
    BY <1>1, <2>1
  <2>3. DOMAIN rows' = DOMAIN rows \ victims /\ rows' \in [DOMAIN rows \ victims -> Node]
    BY <1>0, <2>2 DEF Without
  <2>4. RowsTyped'
    BY <2>3 DEF RowsTyped
  <2>5. DOMAIN rows' \cup gone' \subseteq 0..lastId'
    BY <1>0, <2>1, <2>3
  <2>6. gone \cap DOMAIN rows = {} => gone' \cap DOMAIN rows' = {}
    BY <2>1, <2>3
  <2>7. import' = import /\ cut' = cut /\ synced' = FALSE /\ raced' = (raced \/ import # Idle)
    BY <1>1, <2>1
  <2> QED
    BY <1>0, <2>1, <2>4, <2>5, <2>6, <2>7
<1> HIDE DEF Goal
<1>8. Goal
  BY <1>2, <1>4, <1>5, <1>6, <1>7 DEF Edit, Change
<1> QED
  BY <1>8 DEF Goal

(* A request. *)
LEMMA EditStep ==
  ASSUME TreeInv, NEW who \in {"admin", "editor"}, Edit(who)
  PROVE  TreeInv'
<1>0. TreeTyped
  BY DEF TreeInv
<1>1. /\ RowsTyped' /\ lastId' \in Nat /\ lastId <= lastId' /\ lastId' <= MaxId
      /\ DOMAIN rows' \cup gone' \subseteq 0..lastId'
      /\ gone \cap DOMAIN rows = {} => gone' \cap DOMAIN rows' = {}
      /\ import' = import /\ cut' = cut /\ synced' = FALSE
      /\ raced' = (raced \/ import # Idle)
  BY <1>0, RequestsRows
<1>2. TreeTyped'
  BY <1>0, <1>1 DEF TreeTyped
<1>3. ImportUnderWay'
  <2>1. lastId \in Nat
    BY DEF TreeInv, TreeTyped
  <2>2. import # Idle => ImportOK(import, lastId')
    BY <1>1, <2>1, ImportStaysOK DEF TreeInv, ImportUnderWay
  <2> QED
    BY <1>1, <2>2 DEF ImportUnderWay
<1>4. NothingComesBack'
  BY <1>1 DEF TreeInv, NothingComesBack
<1>5. AtRestATree'
  <2>1. IsTree(rows')
    BY <1>0, NoneIsNoRow, RequestsKeepTheTree
  <2> QED
    BY <2>1 DEF AtRestATree
<1>6. ImportReachesTheFile'
  BY <1>1 DEF ImportReachesTheFile
<1> QED
  BY <1>2, <1>3, <1>4, <1>5, <1>6 DEF TreeInv

(* A grant. *)
LEMMA GrantStep ==
  ASSUME TreeInv, NEW n \in DOMAIN rows, Grant(n)
  PROVE  TreeInv'
<1>1. UNCHANGED <<rows, lastId, import, gone, raced, cut, synced>>
  BY DEF Grant
<1> QED
  BY <1>1 DEF TreeInv, TreeTyped, RowsTyped, ImportUnderWay, NothingComesBack, AtRestATree,
              ImportReachesTheFile

-----------------------------------------------------------------------------
(* What the file names.                                                    *)

(* The first names of a path are a path. *)
LEMMA Prefix ==
  ASSUME NEW p \in Seq(Names), NEW k \in 0..Len(p)
  PROVE  /\ SubSeq(p, 1, k) \in Seq(Names) /\ Len(SubSeq(p, 1, k)) = k
         /\ \A i \in 1..k : SubSeq(p, 1, k)[i] = p[i]
<1>1. k \in Nat /\ \A i \in 1..k : p[i] \in Names
  BY ElementOfSeq
<1> QED
  BY <1>1

(* The ancestors of a path are finitely many paths, and hold their         *)
(* parents.                                                                *)
LEMMA AncestorsOfPath ==
  ASSUME NEW p \in Seq(Names), p # <<>>
  PROVE  /\ Ancestors(p) \subseteq Seq(Names) /\ IsFiniteSet(Ancestors(p))
         /\ Parent(p) \in Ancestors(p) \cup {<<>>}
         /\ \A q \in Ancestors(p) : Parent(q) \in Ancestors(p) \cup {<<>>}
<1>0. Len(p) \in Nat \ {0}
  BY ParentPath
<1>1. Ancestors(p) \subseteq Seq(Names)
  <2>1. \A k \in 1..(Len(p) - 1) : k \in 0..Len(p)
    BY <1>0
  <2> QED
    BY <2>1, Prefix DEF Ancestors
<1>2. IsFiniteSet(Ancestors(p))
  <2> DEFINE S == 1..(Len(p) - 1)
             f == [k \in S |-> SubSeq(p, 1, k)]
  <2>1. IsFiniteSet(S)
    <3>1. 1 \in Int /\ Len(p) - 1 \in Int
      BY <1>0
    <3> QED
      BY <3>1, FS_Interval
  <2>2. f \in Surjection(S, Ancestors(p))
    BY DEF Surjection, Ancestors
  <2> HIDE DEF S, f
  <2> QED
    BY <2>1, <2>2, FS_Surjection
<1>4. Parent(p) \in Ancestors(p) \cup {<<>>}
  <2>1. CASE Len(p) = 1
    <3>1. Parent(p) \in Seq(Names) /\ Len(Parent(p)) = 0
      BY <1>0, <2>1, ParentPath
    <3>2. Parent(p) = <<>>
      BY <3>1, EmptySeq
    <3> QED
      BY <3>2
  <2>2. CASE Len(p) # 1
    <3>1. ASSUME NEW l \in Nat \ {0}, l # 1 PROVE l - 1 \in 1..(l - 1)
      BY <3>1
    <3>2. Len(p) - 1 \in 1..(Len(p) - 1)
      BY <1>0, <2>2, <3>1
    <3> QED
      BY <3>2 DEF Ancestors, Parent
  <2> QED
    BY <2>1, <2>2
<1>5. ASSUME NEW k \in 1..(Len(p) - 1)
      PROVE  Parent(SubSeq(p, 1, k)) \in Ancestors(p) \cup {<<>>}
  <2> DEFINE q == SubSeq(p, 1, k)
  <2>1. k \in 0..Len(p) /\ k - 1 \in 0..Len(p) /\ k \in Nat \ {0}
    BY <1>0
  <2>2. q \in Seq(Names) /\ Len(q) = k /\ \A i \in 1..k : q[i] = p[i]
    BY <2>1, Prefix
  <2> HIDE DEF q
  <2>3. q # <<>>
    BY <2>1, <2>2, EmptySeq
  <2>4. k - 1 \in 0..Len(q)
    BY <2>1, <2>2
  <2>5. /\ SubSeq(q, 1, k - 1) \in Seq(Names) /\ Len(SubSeq(q, 1, k - 1)) = k - 1
        /\ \A i \in 1..(k - 1) : SubSeq(q, 1, k - 1)[i] = q[i]
    BY <2>2, <2>4, Prefix
  <2>6. /\ SubSeq(p, 1, k - 1) \in Seq(Names) /\ Len(SubSeq(p, 1, k - 1)) = k - 1
        /\ \A i \in 1..(k - 1) : SubSeq(p, 1, k - 1)[i] = p[i]
    BY <2>1, Prefix
  <2>7. \A i \in 1..(k - 1) : SubSeq(q, 1, k - 1)[i] = SubSeq(p, 1, k - 1)[i]
    BY <2>1, <2>2, <2>5, <2>6
  <2>8. Parent(q) = SubSeq(q, 1, k - 1)
    BY <2>2 DEF Parent
  <2>9. SubSeq(q, 1, k - 1) = SubSeq(p, 1, k - 1)
    BY <2>5, <2>6, <2>7, SeqEqual
  <2>10. CASE k = 1
    <3>1. Len(SubSeq(q, 1, k - 1)) = 0
      BY <2>5, <2>10
    <3>2. SubSeq(q, 1, k - 1) = <<>>
      BY <2>5, <3>1, EmptySeq
    <3> QED
      BY <2>8, <3>2 DEF q
  <2>11. CASE k # 1
    <3>1. k - 1 \in 1..(Len(p) - 1)
      BY <1>0, <2>1, <2>11
    <3> QED
      BY <2>8, <2>9, <3>1 DEF Ancestors, q
  <2> QED
    BY <2>10, <2>11
<1>6. \A q \in Ancestors(p) : Parent(q) \in Ancestors(p) \cup {<<>>}
  BY <1>5 DEF Ancestors
<1> QED
  BY <1>1, <1>2, <1>4, <1>6

(* So are all that the file names. *)
LEMMA NamedPaths ==
  /\ Named \subseteq Seq(Names) /\ IsFiniteSet(Named) /\ DOMAIN FileTargets \subseteq Named
  /\ \A p \in Named : p # <<>> => Parent(p) \in Named \cup {<<>>}
<1> DEFINE F == DOMAIN FileTargets
           T == {Ancestors(p) : p \in F}
<1>1. F \subseteq Seq(Names) \ {<<>>} /\ IsFiniteSet(F)
  BY TreeAssumption
<1>2. Named = F \cup UNION T
  BY DEF Named
<1>3. \A p \in F : /\ Ancestors(p) \subseteq Seq(Names) /\ IsFiniteSet(Ancestors(p))
                   /\ Parent(p) \in Ancestors(p) \cup {<<>>}
                   /\ \A q \in Ancestors(p) : Parent(q) \in Ancestors(p) \cup {<<>>}
  BY <1>1, AncestorsOfPath
<1>4. IsFiniteSet(T)
  <2> DEFINE f == [p \in F |-> Ancestors(p)]
  <2>1. f \in Surjection(F, T)
    BY DEF Surjection
  <2> HIDE DEF f, F, T
  <2> QED
    BY <1>1, <2>1, FS_Surjection
<1>5. \A S \in T : IsFiniteSet(S)
  BY <1>3
<1>6. IsFiniteSet(Named)
  <2> HIDE DEF F, T
  <2>1. IsFiniteSet(UNION T)
    BY <1>4, <1>5, FS_UNION
  <2> QED
    BY <1>1, <1>2, <2>1, FS_Union
<1>7. Named \subseteq Seq(Names) /\ F \subseteq Named
  BY <1>1, <1>2, <1>3
<1>8. ASSUME NEW p \in Named, p # <<>> PROVE Parent(p) \in Named \cup {<<>>}
  <2>1. CASE p \in F
    BY <1>2, <1>3, <2>1
  <2>2. CASE p \in UNION T
    BY <1>2, <1>3, <2>2
  <2> QED
    BY <1>2, <2>1, <2>2
<1> QED
  BY <1>6, <1>7, <1>8

(* There are ids for what is new. *)
LEMMA SyntheticIds ==
  ASSUME NEW new, IsFiniteSet(new), MaxId \in Nat
  PROVE  /\ Synthetic(new) \in [new -> MaxId + 1 .. MaxId + Cardinality(new)]
         /\ OneToOne(Synthetic(new), new)
<1> DEFINE c == Cardinality(new)
           R == MaxId + 1 .. MaxId + c
<1>1. c \in Nat /\ ExistsBijection(1..c, new)
  BY FS_CardinalityType
<1>2. PICK f : f \in Bijection(1..c, new)
  BY <1>1 DEF ExistsBijection
<1> HIDE DEF c
<1> DEFINE id == [p \in new |-> MaxId + CHOOSE k \in 1..c : f[k] = p]
<1>3. ASSUME NEW p \in new
      PROVE  (CHOOSE k \in 1..c : f[k] = p) \in 1..c /\ f[CHOOSE k \in 1..c : f[k] = p] = p
  <2>1. \E k \in 1..c : f[k] = p
    BY <1>2 DEF Bijection, Surjection
  <2> QED
    BY <2>1
<1>4. id \in [new -> R]
  BY <1>1, <1>3
<1>5. ASSUME NEW p \in new, NEW q \in new, id[p] = id[q] PROVE p = q
  <2>1. (CHOOSE k \in 1..c : f[k] = p) = (CHOOSE k \in 1..c : f[k] = q)
    <3> DEFINE i == CHOOSE k \in 1..c : f[k] = p
               j == CHOOSE k \in 1..c : f[k] = q
    <3>1. i \in Int /\ j \in Int /\ MaxId + i = MaxId + j
      BY <1>1, <1>3, <1>5
    <3> HIDE DEF i, j
    <3>2. i = j
      BY <3>1
    <3> QED
      BY <3>2 DEF i, j
  <2> QED
    BY <1>3, <2>1
<1> HIDE DEF id
<1>6. \E g \in [new -> R] : \A p, q \in new : g[p] = g[q] => p = q
  BY <1>4, <1>5
<1>7. Synthetic(new) = CHOOSE g \in [new -> R] : \A p, q \in new : g[p] = g[q] => p = q
  BY DEF Synthetic, c
<1> HIDE DEF R
<1>8. Synthetic(new) \in [new -> R] /\ \A p, q \in new : Synthetic(new)[p] = Synthetic(new)[q] => p = q
  BY <1>6, <1>7
<1> QED
  BY <1>8 DEF OneToOne, R, c

-----------------------------------------------------------------------------
(* The steps of an import.                                                 *)

(* What an import reads of a tree: an id for each path. *)
ReadFrom(r, at) ==
  /\ at \in [DOMAIN at -> 0..lastId] /\ OneToOne(at, DOMAIN at)
  /\ Lineal(DOMAIN at) /\ at[<<>>] = Root
  /\ DOMAIN r = {at[p] : p \in DOMAIN at}
  /\ \A p \in DOMAIN at : at[p] \in DOMAIN r
  /\ r[Root].name \in Names

(* Such is what an import reads of a tree. *)
LEMMA TreeByPath ==
  ASSUME TreeTyped, IsTree(rows)
  PROVE  ReadFrom(rows, ByPath(rows))
<1> SUFFICES ASSUME NEW at, at = ByPath(rows) PROVE ReadFrom(rows, at)
  OBVIOUS
<1>1. Rooted(rows) /\ SiblingsDiffer(rows) /\ IsFiniteSet(DOMAIN rows)
  BY NoneIsNoRow DEF Rooted, IsTree
<1>2. \A n \in DOMAIN rows : rows[n] \in Node /\ rows[n].name \in Names /\ n \in 0..lastId
  BY DEF TreeTyped, RowsTyped, Node
<1>3. /\ DOMAIN at = {PathOf(rows, n) : n \in DOMAIN rows}
      /\ \A n \in DOMAIN rows : at[PathOf(rows, n)] = n
  BY <1>1, <1>2, ByPathOfTree
<1>4. at = [p \in DOMAIN at |-> at[p]]
  BY DEF ByPath
<1>5. at \in [DOMAIN at -> 0..lastId]
  BY <1>2, <1>3, <1>4
<1>6. OneToOne(at, DOMAIN at)
  BY <1>3 DEF OneToOne
<1>7. PathOf(rows, Root) = <<>> /\ Root \in DOMAIN rows
  BY <1>1, <1>2, PathOfNode, RootOfTree
<1>8. Lineal(DOMAIN at)
  <2>1. DOMAIN at \subseteq Seq(Names)
    BY <1>1, <1>2, <1>3, PathOfNode
  <2>2. ASSUME NEW n \in DOMAIN rows, PathOf(rows, n) # <<>>
        PROVE  Parent(PathOf(rows, n)) \in DOMAIN at
    <3> DEFINE q == rows[n].parent
               s == PathOf(rows, q)
    <3>1. n # Root /\ q \in DOMAIN rows
      BY <1>1, <1>7, <2>2, RootOfTree
    <3>2. s \in Seq(Names) /\ PathOf(rows, n) = Append(s, rows[n].name) /\ rows[n].name \in Names
      BY <1>1, <1>2, <3>1, PathOfNode
    <3>3. s \in DOMAIN at
      BY <1>3, <3>1
    <3> HIDE DEF s
    <3> DEFINE t == Append(s, rows[n].name)
    <3>4. /\ t \in Seq(Names) /\ Len(t) = Len(s) + 1 /\ Len(s) \in Nat /\ t # <<>>
          /\ \A i \in 1..Len(s) : t[i] = s[i]
      BY <3>2, AppendProperties, LenProperties
    <3> HIDE DEF t
    <3>5. Parent(t) = s
      <4>1. Len(t) - 1 \in 0..Len(t) /\ Len(t) - 1 = Len(s)
        BY <3>4
      <4>2. /\ SubSeq(t, 1, Len(t) - 1) \in Seq(Names) /\ Len(SubSeq(t, 1, Len(t) - 1)) = Len(s)
            /\ \A i \in 1..Len(s) : SubSeq(t, 1, Len(t) - 1)[i] = t[i]
        BY <3>4, <4>1, Prefix
      <4>3. SubSeq(t, 1, Len(t) - 1) = s
        BY <3>2, <3>4, <4>2, SeqEqual
      <4> QED
        BY <4>3 DEF Parent
    <3> QED
      BY <3>2, <3>3, <3>5 DEF t
  <2>3. <<>> \in DOMAIN at
    BY <1>3, <1>7
  <2> QED
    BY <1>3, <2>1, <2>2, <2>3 DEF Lineal
<1>9. \A p \in DOMAIN at : at[p] \in DOMAIN rows
  BY <1>3
<1>10. DOMAIN rows = {at[p] : p \in DOMAIN at}
  BY <1>3, <1>9
<1>11. at[<<>>] = Root /\ rows[Root].name \in Names
  BY <1>2, <1>3, <1>7
<1> QED
  BY <1>3, <1>5, <1>6, <1>7, <1>8, <1>9, <1>10, <1>11 DEF ReadFrom

(* An import begins: what it plans is a tree, for the ids it was checked   *)
(* with.                                                                   *)
LEMMA StartImportStep ==
  ASSUME TreeInv, NEW prune \in BOOLEAN, StartImport(prune)
  PROVE  TreeInv'
<1> DEFINE at == ByPath(rows)
           kept == IF prune THEN {<<>>} \cup Named ELSE DOMAIN at \cup Named
           plan == Planned(rows, at, kept)
           rootName == rows[Root].name
<1>1. /\ IsTree(rows) /\ IsTree(PlannedRows(rows, plan, at))
      /\ import' = [pc |-> "write", plan |-> plan, rootName |-> rootName, at |-> at,
                    todo |-> kept, doomed |-> DOMAIN at \ kept]
      /\ synced' = TRUE
      /\ UNCHANGED <<rows, lastId, gone, raced, cut>>
  BY DEF StartImport
<1>2. TreeTyped /\ TreeTyped'
  BY <1>1 DEF TreeInv, TreeTyped, RowsTyped
<1>3. /\ at \in [DOMAIN at -> 0..lastId] /\ OneToOne(at, DOMAIN at)
      /\ Lineal(DOMAIN at) /\ at[<<>>] = Root
      /\ DOMAIN rows = {at[p] : p \in DOMAIN at}
      /\ \A p \in DOMAIN at : at[p] \in DOMAIN rows
      /\ rootName \in Names
  <2>1. ReadFrom(rows, at)
    BY <1>1, <1>2, TreeByPath
  <2> HIDE DEF at
  <2> QED
    BY <2>1 DEF ReadFrom
<1>4. Lineal(kept) /\ Named \subseteq kept /\ kept \ DOMAIN at \subseteq Named
  <2> HIDE DEF at
  <2> QED
    BY <1>3, NamedPaths DEF Lineal
<1>5. DOMAIN plan = kept /\ plan \in [kept -> Settings] /\ SaysTheFile(plan)
  <2>1. \A p \in DOMAIN at : rows[at[p]] \in Node
    BY <1>2, <1>3 DEF TreeTyped, RowsTyped
  <2> HIDE DEF at, kept
  <2>2. DOMAIN plan = kept
    BY DEF Planned
  <2>3. ASSUME NEW p \in kept
        PROVE  /\ plan[p] \in Settings
               /\ p \in DOMAIN FileTargets => /\ plan[p].interval = FileTargets[p].interval
                                              /\ plan[p].load = FileTargets[p].load
    <3> DEFINE old == IF p \in DOMAIN at
                      THEN [interval |-> rows[at[p]].interval, load |-> rows[at[p]].load]
                      ELSE [interval |-> NONE, load |-> NONE]
    <3>1. old \in Settings
      BY <2>1 DEF Node, Settings
    <3>2. plan[p] = IF p = <<>>
                    THEN [interval |-> Default(old.interval, FileDefaults.interval),
                          load     |-> Default(old.load, FileDefaults.load)]
                    ELSE IF p \in DOMAIN FileTargets
                    THEN [interval |-> FromFile(old.interval, FileTargets[p].interval),
                          load     |-> FromFile(old.load, FileTargets[p].load)]
                    ELSE old
      BY DEF Planned
    <3> HIDE DEF old, plan
    <3>3. /\ FileDefaults \in Settings /\ <<>> \notin DOMAIN FileTargets
          /\ p \in DOMAIN FileTargets => FileTargets[p] \in Settings
      BY TreeAssumption
    <3> QED
      BY <3>1, <3>2, <3>3 DEF Settings, Default, FromFile
  <2>4. plan = [p \in kept |-> plan[p]]
    BY DEF Planned
  <2>5. DOMAIN FileTargets \subseteq kept
    BY <1>4, NamedPaths
  <2> HIDE DEF plan
  <2> QED
    BY <2>2, <2>3, <2>4, <2>5 DEF SaysTheFile
<1>6. PlanIsTree(plan, rootName)
  <2> DEFINE new == DOMAIN plan \ DOMAIN at
             synth == Synthetic(new)
             ids == [p \in DOMAIN plan |-> IF p \in DOMAIN at THEN at[p] ELSE synth[p]]
  <2>1. IsFiniteSet(new)
    <3>1. new \subseteq Named
      BY <1>4, <1>5
    <3> HIDE DEF new
    <3> QED
      BY <3>1, NamedPaths, FS_Subset
  <2>2. synth \in [new -> MaxId + 1 .. MaxId + Cardinality(new)] /\ OneToOne(synth, new)
        /\ MaxId \in Nat /\ Cardinality(new) \in Nat
    <3> HIDE DEF new
    <3> QED
      BY <2>1, SyntheticIds, TreeAssumption, FS_CardinalityType
  <2>3. IsTree(LaidOut(plan, ids, rootName))
    BY <1>1 DEF PlannedRows
  <2> HIDE DEF at, kept, plan, synth
  <2>4. \A p \in new : synth[p] \in Nat /\ synth[p] > MaxId
    BY <2>2
  <2>5. \A p \in DOMAIN at : at[p] \in Nat /\ at[p] <= MaxId
    BY <1>2, <1>3, <2>2 DEF TreeTyped
  <2>6. ids \in [DOMAIN plan -> Nat]
    BY <2>4, <2>5
  <2>7. OneToOne(ids, DOMAIN plan)
    <3> SUFFICES ASSUME NEW p \in DOMAIN plan, NEW q \in DOMAIN plan, ids[p] = ids[q]
                 PROVE  p = q
      BY DEF OneToOne
    <3>1. CASE p \in DOMAIN at /\ q \in DOMAIN at
      BY <1>3, <3>1 DEF OneToOne
    <3>2. CASE p \notin DOMAIN at /\ q \notin DOMAIN at
      BY <2>2, <3>2 DEF OneToOne
    <3>3. CASE p \in DOMAIN at /\ q \notin DOMAIN at
      <4>1. ids[p] <= MaxId /\ ids[q] > MaxId /\ ids[p] \in Nat /\ MaxId \in Nat
        BY <2>2, <2>4, <2>5, <3>3
      <4> QED
        BY <4>1
    <3>4. CASE p \notin DOMAIN at /\ q \in DOMAIN at
      <4>1. ids[q] <= MaxId /\ ids[p] > MaxId /\ ids[q] \in Nat /\ MaxId \in Nat
        BY <2>2, <2>4, <2>5, <3>4
      <4> QED
        BY <4>1
    <3> QED
      BY <3>1, <3>2, <3>3, <3>4
  <2>8. ids[<<>>] = Root
    BY <1>3, <1>4, <1>5 DEF Lineal
  <2> HIDE DEF ids
  <2> QED
    BY <2>3, <2>6, <2>7, <2>8 DEF PlanIsTree
<1> HIDE DEF at, plan, rootName
<1>7. ImportOK(import', lastId')
  <2> HIDE DEF kept
  <2>1. /\ import'.pc = "write" /\ import'.plan = plan /\ import'.rootName = rootName
        /\ import'.at = at /\ import'.todo = kept /\ import'.doomed = DOMAIN at \ kept
        /\ import' = [pc |-> import'.pc, plan |-> import'.plan, rootName |-> import'.rootName,
                      at |-> import'.at, todo |-> import'.todo, doomed |-> import'.doomed]
    BY <1>1
  <2>2. lastId' = lastId
    BY <1>1
  <2>3. \A p \in kept \ (kept \cup {<<>>}) : Parent(p) \notin kept
    OBVIOUS
  <2>4. <<>> \in DOMAIN at
    BY <1>3 DEF Lineal
  <2> QED
    BY <1>3, <1>4, <1>5, <1>6, <2>1, <2>2, <2>3, <2>4 DEF ImportOK
<1>8. Follows(rows', import')
  <2> HIDE DEF kept
  <2>1. /\ import'.plan = plan /\ import'.at = at /\ import'.todo = kept
        /\ import'.doomed = DOMAIN at \ kept /\ rows' = rows
    BY <1>1
  <2>2. (kept \cap DOMAIN at) \cup (DOMAIN at \ kept) = DOMAIN at
    OBVIOUS
  <2>3. DOMAIN rows = {at[p] : p \in (kept \cap DOMAIN at) \cup (DOMAIN at \ kept)}
    BY <1>3, <2>2
  <2>4. kept \ kept = {}
    OBVIOUS
  <2> QED
    BY <1>5, <2>1, <2>3, <2>4 DEF Follows
<1>9. import' # Idle
  BY <1>1 DEF Idle
<1> QED
  BY <1>1, <1>2, <1>7, <1>8, <1>9
  DEF TreeInv, ImportUnderWay, NothingComesBack, AtRestATree, ImportReachesTheFile

(* An import that stops where it is. *)
LEMMA StopStep ==
  ASSUME TreeInv, Stop, rows' = rows, gone' = gone, raced' = raced,
         lastId' \in Nat, lastId <= lastId', lastId' <= MaxId
  PROVE  TreeInv'
<1>1. import' = Idle /\ cut' = TRUE /\ synced' = FALSE
  BY DEF Stop
<1>2. TreeTyped'
  <2>1. DOMAIN rows \cup gone \subseteq 0..lastId'
    BY DEF TreeInv, TreeTyped
  <2> QED
    BY <1>1, <2>1 DEF TreeInv, TreeTyped, RowsTyped
<1> QED
  BY <1>1, <1>2
  DEF TreeInv, ImportUnderWay, NothingComesBack, AtRestATree, ImportReachesTheFile

(* A row is written, or the import stops. *)
LEMMA WriteRowStep ==
  ASSUME TreeInv, import # Idle, NEW path, WriteRow(path)
  PROVE  TreeInv'
<1> DEFINE n == IF path \in DOMAIN import.at THEN import.at[path] ELSE NextId
           row == RowFor(path, import.plan[path], import.at, import.rootName)
           at2 == [p \in DOMAIN import.at \cup {path} |-> IF p = path THEN n ELSE import.at[p]]
<1>1. /\ path \in import.todo /\ \A p \in import.todo : Len(path) <= Len(p)
      /\ n <= MaxId /\ lastId' = IF path \in DOMAIN import.at THEN lastId ELSE NextId
      /\ gone' = gone /\ raced' = raced
  BY DEF WriteRow
<1>2. /\ lastId \in Nat /\ lastId <= MaxId /\ MaxId \in Nat /\ ImportOK(import, lastId)
      /\ NextId = lastId + 1
      /\ DOMAIN rows \cup gone \subseteq 0..lastId /\ rows \in [DOMAIN rows -> Node]
  BY TreeAssumption DEF TreeInv, TreeTyped, RowsTyped, ImportUnderWay, NextId
<1>3. /\ lastId' \in {lastId, lastId + 1} /\ lastId' \in Nat /\ lastId <= lastId' /\ lastId' <= MaxId
      /\ n \in 0..lastId'
      /\ path \in DOMAIN import.at => n = import.at[path]
      /\ path \notin DOMAIN import.at => n = lastId' /\ lastId' = lastId + 1
  BY <1>1, <1>2 DEF ImportOK
<1>4. row \in Node
  <2>1. row \in [parent : 0..lastId \cup {NONE}, name : Names, interval : Durations \cup {NONE},
                 load : Durations \cup {NONE}]
    BY <1>1, <1>2, ParentIsWritten
  <2>2. 0..lastId \subseteq Ids
    BY <1>2 DEF Ids
  <2> HIDE DEF row
  <2> QED
    BY <2>1, <2>2 DEF Node
<1>5. CASE Stop /\ rows' = rows
  BY <1>1, <1>3, <1>5, StopStep
<1>6. CASE /\ rows' = Put(rows, n, row)
           /\ import' = [import EXCEPT !.todo = @ \ {path},
                           !.at = [p \in DOMAIN @ \cup {path} |-> IF p = path THEN n ELSE @[p]],
                           !.pc = IF import.todo = {path} THEN "delete" ELSE "write"]
           /\ UNCHANGED <<cut, synced>>
  <2>1. /\ ImportOK(import', lastId')
        /\ \A r : Follows(r, import) => Follows(Put(r, n, row), import')
    <3>1. lastId' \in {lastId, lastId + 1}
      BY <1>3
    <3>2. import = [pc |-> import.pc, plan |-> import.plan, rootName |-> import.rootName,
                    at |-> import.at, todo |-> import.todo, doomed |-> import.doomed]
      BY <1>2 DEF ImportOK
    <3> HIDE DEF n
    <3>3. import' = [pc |-> IF import.todo = {path} THEN "delete" ELSE "write",
                     plan |-> import.plan, rootName |-> import.rootName, at |-> at2,
                     todo |-> import.todo \ {path}, doomed |-> import.doomed]
      BY <1>6, <3>2
    <3>4. Written(import, path, n, import')
      BY <3>3 DEF Written
    <3> HIDE DEF at2, row
    <3>5. ImportOK(import', lastId')
      BY <1>1, <1>2, <1>3, <3>1, <3>4, RowIsWritten
    <3>6. \A r : Follows(r, import)
                => Follows(Put(r, n, RowFor(path, import.plan[path], import.at, import.rootName)),
                           import')
      BY <1>1, <1>2, <1>3, <3>1, <3>4, RowIsWritten
    <3> USE DEF row
    <3> QED
      BY <3>5, <3>6
  <2> HIDE DEF row, n
  <2>2. DOMAIN rows' = DOMAIN rows \cup {n} /\ rows' \in [DOMAIN rows \cup {n} -> Node]
    BY <1>2, <1>4, <1>6 DEF Put
  <2>3. TreeTyped'
    <3>1. RowsTyped'
      BY <2>2 DEF RowsTyped
    <3>2. DOMAIN rows' \cup gone' \subseteq 0..lastId'
      BY <1>1, <1>2, <1>3, <2>2
    <3> QED
      BY <1>1, <1>3, <1>6, <3>1, <3>2 DEF TreeInv, TreeTyped
  <2>4. import' # Idle
    BY <2>1 DEF ImportOK, Idle
  <2>5. ImportUnderWay'
    <3>1. synced' => Follows(rows', import')
      BY <1>6, <2>1 DEF TreeInv, ImportUnderWay
    <3> QED
      BY <1>1, <1>6, <2>1, <3>1 DEF TreeInv, ImportUnderWay
  <2>6. NothingComesBack'
    <3> SUFFICES ASSUME ~raced PROVE n \notin gone
      BY <1>1, <2>2 DEF TreeInv, NothingComesBack
    <3>1. CASE path \in DOMAIN import.at
      <4>1. Follows(rows, import)
        BY DEF TreeInv, ImportUnderWay
      <4>2. path \in DOMAIN import.plan
        BY <1>1, <1>2 DEF ImportOK
      <4>3. n \in DOMAIN rows
        BY <1>3, <3>1, <4>1, <4>2 DEF Follows
      <4> QED
        BY <4>3 DEF TreeInv, NothingComesBack
    <3>2. CASE path \notin DOMAIN import.at
      BY <1>2, <1>3, <3>2
    <3> QED
      BY <3>1, <3>2
  <2> QED
    BY <2>3, <2>4, <2>5, <2>6 DEF TreeInv, AtRestATree, ImportReachesTheFile
<1>7. \/ Stop /\ rows' = rows
      \/ /\ rows' = Put(rows, n, row)
         /\ import' = [import EXCEPT !.todo = @ \ {path},
                         !.at = [p \in DOMAIN @ \cup {path} |-> IF p = path THEN n ELSE @[p]],
                         !.pc = IF import.todo = {path} THEN "delete" ELSE "write"]
         /\ UNCHANGED <<cut, synced>>
  BY DEF WriteRow
<1> QED
  BY <1>5, <1>6, <1>7

(* A row is deleted, or the import stops. *)
LEMMA DeleteRowStep ==
  ASSUME TreeInv, import # Idle, NEW path \in import.doomed, DeleteRow(path)
  PROVE  TreeInv'
<1> DEFINE n == import.at[path]
<1>1. import.pc = "delete" /\ UNCHANGED <<lastId, raced>>
  BY DEF DeleteRow
<1>2. /\ lastId \in Nat /\ lastId <= MaxId /\ ImportOK(import, lastId) /\ n \in 0..lastId
      /\ DOMAIN rows \cup gone \subseteq 0..lastId /\ rows \in [DOMAIN rows -> Node]
  <2>1. ImportOK(import, lastId)
    BY DEF TreeInv, ImportUnderWay
  <2>2. n \in 0..lastId
    BY <2>1 DEF ImportOK
  <2> QED
    BY <2>1, <2>2 DEF TreeInv, TreeTyped, RowsTyped
<1>3. CASE Stop /\ UNCHANGED <<rows, granted, gone>>
  BY <1>1, <1>2, <1>3, StopStep
<1>4. CASE /\ rows' = Without(rows, {n}) /\ gone' = gone \cup {n}
           /\ import' = [import EXCEPT !.doomed = @ \ {path}]
           /\ UNCHANGED <<cut, synced>>
  <2>1. /\ ImportOK(import', lastId)
        /\ \A r : Follows(r, import) => Follows(Without(r, {n}), import')
    BY <1>1, <1>2, <1>4, RowIsDeleted
  <2> HIDE DEF n
  <2>2. DOMAIN rows' = DOMAIN rows \ {n} /\ rows' \in [DOMAIN rows \ {n} -> Node]
    BY <1>2, <1>4 DEF Without
  <2>3. TreeTyped'
    <3>1. RowsTyped'
      BY <2>2 DEF RowsTyped
    <3>2. DOMAIN rows' \cup gone' \subseteq 0..lastId'
      BY <1>1, <1>2, <1>4, <2>2
    <3> QED
      BY <1>1, <1>4, <3>1, <3>2 DEF TreeInv, TreeTyped
  <2>4. import' # Idle
    BY <2>1 DEF ImportOK, Idle
  <2>5. ImportUnderWay'
    BY <1>1, <1>4, <2>1 DEF TreeInv, ImportUnderWay
  <2>6. NothingComesBack'
    BY <1>1, <1>4, <2>2 DEF TreeInv, NothingComesBack
  <2> QED
    BY <2>3, <2>4, <2>5, <2>6 DEF TreeInv, AtRestATree, ImportReachesTheFile
<1>5. \/ Stop /\ UNCHANGED <<rows, granted, gone>>
      \/ /\ rows' = Without(rows, {n}) /\ gone' = gone \cup {n}
         /\ import' = [import EXCEPT !.doomed = @ \ {path}]
         /\ UNCHANGED <<cut, synced>>
  BY DEF DeleteRow
<1> QED
  BY <1>3, <1>4, <1>5

(* The last row is gone: what the plan laid out is there. *)
LEMMA EndImportStep ==
  ASSUME TreeInv, EndImport
  PROVE  TreeInv'
<1>1. /\ import.pc = "delete" /\ import.doomed = {} /\ import' = Idle
      /\ UNCHANGED <<rows, lastId, gone, raced, cut, synced>>
  BY DEF EndImport
<1>2. import # Idle
  BY <1>1 DEF Idle
<1>3. ImportOK(import, lastId) /\ lastId \in Nat /\ NONE \notin Nat
  BY <1>2, TreeAssumption DEF TreeInv, ImportUnderWay, TreeTyped
<1>4. ASSUME synced
      PROVE  /\ IsTree(rows)
             /\ \A p \in DOMAIN FileTargets :
                  \E n \in DOMAIN rows : /\ PathOf(rows, n) = p
                                         /\ rows[n].interval = FileTargets[p].interval
                                         /\ rows[n].load = FileTargets[p].load
  <2>1. Follows(rows, import)
    BY <1>2, <1>4 DEF TreeInv, ImportUnderWay
  <2> QED
    BY <1>1, <1>3, <2>1, ImportEnds
<1>5. ImportReachesTheFile'
  BY <1>1, <1>4 DEF ImportReachesTheFile
<1>6. AtRestATree'
  BY <1>1, <1>2, <1>4 DEF TreeInv, ImportUnderWay, AtRestATree
<1> QED
  BY <1>1, <1>5, <1>6 DEF TreeInv, TreeTyped, RowsTyped, ImportUnderWay, NothingComesBack

(* Every step keeps it. *)
LEMMA TreeStep ==
  ASSUME TreeInv, [TreeNext]_treeVars
  PROVE  TreeInv'
<1>1. CASE UNCHANGED treeVars
  BY <1>1 DEF treeVars, TreeInv, TreeTyped, RowsTyped, ImportUnderWay, NothingComesBack,
              AtRestATree, ImportReachesTheFile
<1>2. CASE ImportFails
  <2>1. Stop /\ UNCHANGED <<rows, lastId, gone, raced>>
    BY <1>2 DEF ImportFails
  <2> QED
    BY <2>1, StopStep DEF TreeInv, TreeTyped
<1>3. CASE TreeNext /\ ~ImportFails
  BY <1>3, EditStep, GrantStep, StartImportStep, WriteRowStep, DeleteRowStep, EndImportStep
  DEF TreeNext
<1> QED
  BY <1>1, <1>2, <1>3

-----------------------------------------------------------------------------

(* The invariant holds throughout. *)
LEMMA TreeInvariant == TreeSpec => []TreeInv
<1>1. TreeInit => TreeInv
  BY TreeInitInv
<1>2. TreeInv /\ [TreeNext]_treeVars => TreeInv'
  BY TreeStep
<1> QED
  BY <1>1, <1>2, PTL DEF TreeSpec

(* For any tree, file, and requests of administrators and editors:         *)
(* requests leave a tree, and so does an import nothing came between and   *)
(* nothing cut short; and no id of a deleted target is given again.        *)
THEOREM TreeIsKept == TreeSpec => []EditsKeepTheTree
<1>1. TreeInv => EditsKeepTheTree
  BY DEF TreeInv, NothingComesBack, AtRestATree, EditsKeepTheTree
<1> QED
  BY <1>1, TreeInvariant, PTL

(* An import neither raced nor cut short ends with every target of the     *)
(* file stored at its path with the file's settings, whatever tree it      *)
(* began with.                                                             *)
THEOREM ImportsReachTheFile == TreeSpec => []ImportReachesTheFile
<1>1. TreeInv => ImportReachesTheFile
  BY DEF TreeInv
<1> QED
  BY <1>1, TreeInvariant, PTL

(* No step of an editor touches a node that is not under a grant, or       *)
(* leaves one that is not.                                                 *)
THEOREM EditorsKeepToScope == TreeSpec => EditorKeepsToScope
<1>1. TreeInv => RowsTyped /\ DOMAIN rows \subseteq 0..lastId /\ lastId \in Nat /\ NONE \notin Nat
  BY TreeAssumption DEF TreeInv, TreeTyped
<1>2. TreeInv /\ [TreeNext]_treeVars
        => [\/ rows' = rows
            \/ \A n \in DOMAIN rows \cup DOMAIN rows' :
                 \/ n \in DOMAIN rows \cap DOMAIN rows' /\ rows[n] = rows'[n]
                 \/ /\ n \in DOMAIN rows => InScope(rows, n)
                    /\ n \in DOMAIN rows' => InScope(rows', n)
            \/ ~Edit("editor")]_treeVars
  <2> SUFFICES ASSUME TreeInv, Edit("editor") PROVE StepWithinScope
    BY DEF StepWithinScope
  <2> QED
    BY <1>1, EditorsStep
<1> QED
  BY <1>2, TreeInvariant, PTL DEF TreeSpec, EditorKeepsToScope

-----------------------------------------------------------------------------
(* The limits.                                                             *)

(* In a tree whose root has a setting, every node's is one of the values.  *)
LEMMA SettingsAreValues ==
  ASSUME NEW r, Rooted(r), NEW f, NEW V, r[Root][f] # NONE,
         \A n \in DOMAIN r : r[n][f] \in V \cup {NONE}
  PROVE  \A n \in DOMAIN r : Resolved(r, n, f) \in V
<1> DEFINE P == {n \in DOMAIN r : Resolved(r, n, f) \in V}
<1>1. ASSUME NEW n \in DOMAIN r, r[n][f] # NONE PROVE n \in P
  BY <1>1, OwnSetting
<1>2. Root \in P
  BY <1>1, RootOfTree
<1>3. ASSUME NEW n \in DOMAIN r \ {Root}, r[n].parent \in P PROVE n \in P
  <2>1. CASE r[n][f] # NONE
    BY <1>1, <2>1
  <2>2. CASE r[n][f] = NONE
    BY <1>3, <2>2, ParentsSetting
  <2> QED
    BY <2>1, <2>2
<1>4. DOMAIN r \subseteq P
  <2> HIDE DEF P
  <2> QED
    BY <1>2, <1>3, TreeInduction
<1> QED
  BY <1>4

(* Rows that are left, with whatever is above them, have above them what   *)
(* they had.                                                               *)
LEMMA LeftAsTheyWere ==
  ASSUME NEW r, NEW s, DOMAIN s \subseteq DOMAIN r, \A k \in DOMAIN s : s[k] = r[k],
         HoldsParents(r, DOMAIN s)
  PROVE  \A n \in DOMAIN s : Above(s, n) = Above(r, n)
<1>1. ASSUME NEW n \in DOMAIN s PROVE Above(s, n) \subseteq Above(r, n)
  <2>1. Above(r, n) \subseteq DOMAIN s
    BY AboveIsLeast
  <2>2. HoldsParents(s, Above(r, n))
    BY <2>1, AboveBasics DEF HoldsParents
  <2> QED
    BY <2>1, <2>2, AboveBasics, AboveIsLeast
<1>2. ASSUME NEW n \in DOMAIN s PROVE Above(r, n) \subseteq Above(s, n)
  <2>1. Above(s, n) \subseteq DOMAIN s /\ n \in Above(s, n) /\ HoldsParents(s, Above(s, n))
    BY AboveBasics
  <2>2. HoldsParents(r, Above(s, n))
    BY <2>1 DEF HoldsParents
  <2> QED
    BY <2>1, <2>2, AboveIsLeast
<1>3. \A n \in DOMAIN s : Above(s, n) = Above(r, n)
  BY <1>1, <1>2
<1> QED
  BY <1>3

(* What is not under a node has nothing under it above.                    *)
LEMMA NotUnderHoldsParents ==
  ASSUME NEW r, NEW n \in DOMAIN r
  PROVE  HoldsParents(r, DOMAIN r \ Under(r, n))
<1> SUFFICES ASSUME NEW k \in DOMAIN r \ Under(r, n), r[k].parent \in DOMAIN r,
                    n \in Above(r, r[k].parent)
             PROVE  FALSE
  BY DEF HoldsParents, Under
<1> QED
  BY AboveParent DEF Under

(* A tree without a subtree reaches its root.                              *)
LEMMA PrunedIsRooted ==
  ASSUME NEW r, Rooted(r), NEW n \in DOMAIN r \ {Root},
         NEW s, DOMAIN s = DOMAIN r \ Under(r, n), \A k \in DOMAIN s : s[k] = r[k]
  PROVE  Rooted(s) /\ HoldsParents(r, DOMAIN s)
<1>1. HoldsParents(r, DOMAIN s)
  BY NotUnderHoldsParents
<1>2. Root \in DOMAIN s
  BY RootOfTree DEF Under
<1>3. OneRoot(s)
  BY <1>2 DEF Rooted, OneRoot
<1>4. ReachesRoot(s)
  BY <1>1, LeftAsTheyWere DEF Rooted, ReachesRoot
<1> QED
  BY <1>1, <1>3, <1>4 DEF Rooted

(* What is left keeps the settings it had.                                 *)
LEMMA PrunedSettings ==
  ASSUME NEW r, NEW s, Rooted(r), Rooted(s), DOMAIN s \subseteq DOMAIN r,
         \A k \in DOMAIN s : s[k] = r[k], NEW f, r[Root][f] # NONE
  PROVE  \A n \in DOMAIN s : Resolved(s, n, f) = Resolved(r, n, f)
<1> DEFINE P == {n \in DOMAIN s : Resolved(s, n, f) = Resolved(r, n, f)}
<1>1. ASSUME NEW n \in DOMAIN s, s[n][f] # NONE PROVE n \in P
  <2>1. Resolved(s, n, f) = s[n][f] /\ Resolved(r, n, f) = r[n][f]
    BY <1>1, OwnSetting
  <2> QED
    BY <2>1
<1>2. Root \in P
  BY <1>1, RootOfTree
<1>3. ASSUME NEW n \in DOMAIN s \ {Root}, s[n].parent \in P PROVE n \in P
  <2>1. CASE s[n][f] # NONE
    BY <1>1, <2>1
  <2>2. CASE s[n][f] = NONE
    <3>1. r[n][f] = NONE /\ r[n].parent = s[n].parent /\ n \in DOMAIN r \ {Root}
      BY <2>2
    <3>2. /\ Resolved(s, n, f) = Resolved(s, s[n].parent, f)
          /\ Resolved(r, n, f) = Resolved(r, r[n].parent, f)
      BY <2>2, <3>1, ParentsSetting
    <3> QED
      BY <1>3, <3>1, <3>2
  <2> QED
    BY <2>1, <2>2
<1>4. DOMAIN s \subseteq P
  <2> HIDE DEF P
  <2> QED
    BY <1>2, <1>3, TreeInduction
<1> QED
  BY <1>4

(* Loads are numbers, and the share of its interval a target waits is      *)
(* counted exactly.                                                        *)
LEMMA LoadsAreNumbers ==
  ASSUME NEW load \in [Loads -> LimValues]
  PROVE  /\ RateOf(load) \in Nat /\ BytesOf(load) \in Nat /\ WaitOf(load) \in Nat
         /\ load["timeout"] \in Nat /\ load["interval"] \in Nat
         /\ load["timeout"] <= load["interval"] <=> WaitOf(load) <= PerTicks
<1> DEFINE i == load["interval"]
           w == load["timeout"]
           q == PerTicks \div i
<1>1. /\ {i, w, load["pings"], load["size"]} \subseteq Nat \ {0}
      /\ PerTicks \in Nat /\ PerTicks > 0 /\ PerTicks % i = 0
  BY LimitsAssumption DEF Loads
<1>2. q \in Nat /\ PerTicks = i * q
  BY <1>1
<1>3. q > 0
  BY <1>1, <1>2
<1> HIDE DEF q
<1>4. RateOf(load) = load["pings"] * q /\ WaitOf(load) = w * q
      /\ BytesOf(load) = RateOf(load) * load["size"]
  BY DEF RateOf, WaitOf, BytesOf, q
<1>5. RateOf(load) \in Nat /\ WaitOf(load) \in Nat
  BY <1>1, <1>2, <1>4
<1>6. BytesOf(load) \in Nat
  BY <1>1, <1>4, <1>5
<1>7. w <= i <=> w * q <= i * q
  <2> HIDE DEF i, w
  <2>1. ASSUME w <= i PROVE w * q <= i * q
    BY <1>1, <1>2, <2>1
  <2>2. ASSUME ~(w <= i) PROVE ~(w * q <= i * q)
    <3>1. (w - i) * q > 0
      BY <1>1, <1>2, <1>3, <2>2
    <3>2. w * q = i * q + (w - i) * q /\ w * q \in Int /\ i * q \in Int /\ (w - i) * q \in Int
      BY <1>1, <1>2
    <3> QED
      BY <3>1, <3>2
  <2> QED
    BY <2>1, <2>2
<1> QED
  BY <1>1, <1>2, <1>4, <1>5, <1>6, <1>7

(* A load that is no worse than one within the limits is within them, and  *)
(* one no worse than what is no worse than a third is no worse than that.  *)
LEMMA NoWorseIsAnOrder ==
  ASSUME NEW a \in [Loads -> LimValues], NEW b \in [Loads -> LimValues], NotWorse(a, b)
  PROVE  /\ WithinLimits(a) => WithinLimits(b)
         /\ \A c \in [Loads -> LimValues] : NotWorse(b, c) => NotWorse(a, c)
<1>1. MaxRate * PerTicks \in Nat /\ MaxBytes * PerTicks \in Nat /\ PerTicks \in Nat
  BY LimitsAssumption
<1>2. RateOf(b) <= RateOf(a) /\ WaitOf(b) <= WaitOf(a) /\ BytesOf(b) <= BytesOf(a)
  BY DEF NotWorse, NotFaster
<1>3. ASSUME WithinLimits(a) PROVE WithinLimits(b)
  BY <1>1, <1>2, <1>3, LoadsAreNumbers DEF WithinLimits
<1>4. ASSUME NEW c \in [Loads -> LimValues], NotWorse(b, c) PROVE NotWorse(a, c)
  BY <1>2, <1>4, LoadsAreNumbers DEF NotWorse, NotFaster
<1> QED
  BY <1>3, <1>4

(* A tree's pings are finitely many. *)
LEMMA PingsAreFinite ==
  ASSUME NEW t, NEW R, IsFiniteSet(R), \A n \in R : RateOf(LoadOf(t, n)) \in Nat
  PROVE  IsFiniteSet(UNION {{n} \X (1..RateOf(LoadOf(t, n))) : n \in R})
<1> DEFINE F == [n \in R |-> {n} \X (1..RateOf(LoadOf(t, n)))]
           T == {{n} \X (1..RateOf(LoadOf(t, n))) : n \in R}
<1>1. F \in Surjection(R, T)
  BY DEF Surjection
<1>2. IsFiniteSet(T)
  <2> HIDE DEF F, T
  <2> QED
    BY <1>1, FS_Surjection
<1>3. ASSUME NEW n \in R PROVE IsFiniteSet({n} \X (1..RateOf(LoadOf(t, n))))
  <2>1. IsFiniteSet({n})
    BY FS_Singleton
  <2>2. RateOf(LoadOf(t, n)) \in Int /\ 1 \in Int
    OBVIOUS
  <2>3. IsFiniteSet(1..RateOf(LoadOf(t, n)))
    BY <2>2, FS_Interval
  <2> QED
    BY <2>1, <2>3, FS_Product
<1>4. \A S \in T : IsFiniteSet(S)
  BY <1>3
<1> QED
  <2> HIDE DEF T
  <2>1. IsFiniteSet(UNION T)
    BY <1>2, <1>4, FS_UNION
  <2> QED
    BY <2>1 DEF T

(* Rows the limits are asked about: a tree that says what to do.           *)
LimitsTree(t) ==
  /\ DOMAIN t \subseteq LimNodes /\ t \in [DOMAIN t -> LimNode]
  /\ IsPlanned(t)

(* Such a tree's loads, levels and pings can be counted.                   *)
LEMMA LimitsTreeIs ==
  ASSUME NEW t, LimitsTree(t)
  PROVE  /\ Rooted(t) /\ IsFiniteSet(DOMAIN t)
         /\ \A n \in DOMAIN t : LoadOf(t, n) \in [Loads -> LimValues] /\ LevelOf(t, n) \in Nat
         /\ IsFiniteSet(PingsOf(t)) /\ TotalOf(t) \in Nat
<1>1. Rooted(t)
  BY LimitsAssumption DEF LimitsTree, IsPlanned, Rooted
<1>2. IsFiniteSet(DOMAIN t)
  BY LimitsAssumption, FS_Subset DEF LimitsTree
<1>3. ASSUME NEW n \in DOMAIN t PROVE LoadOf(t, n) \in [Loads -> LimValues]
  <2>1. ASSUME NEW f \in Loads PROVE Resolved(t, n, f) \in LimValues
    <3>1. \A m \in DOMAIN t : t[m][f] \in LimValues \cup {NONE}
      <4>1. \A m \in DOMAIN t : t[m] \in LimNode
        BY DEF LimitsTree
      <4> QED
        BY <4>1 DEF LimNode, Loads
    <3>2. t[Root][f] # NONE
      BY DEF LimitsTree, IsPlanned, IsComplete
    <3> QED
      BY <1>1, <3>1, <3>2, SettingsAreValues
  <2> QED
    BY <2>1 DEF LoadOf
<1>4. ASSUME NEW n \in DOMAIN t PROVE LevelOf(t, n) \in Nat
  <2>1. IsFiniteSet(Above(t, n)) /\ n \in Above(t, n)
    BY <1>2, AboveBasics, FS_Subset
  <2>2. Cardinality(Above(t, n)) \in Nat /\ Cardinality(Above(t, n)) # 0
    BY <2>1, FS_CardinalityType, FS_EmptySet
  <2> QED
    BY <2>2 DEF LevelOf
<1>5. IsFiniteSet(PingsOf(t))
  <2>1. IsFiniteSet(Running(t))
    BY <1>2, FS_Subset DEF Running
  <2>2. \A n \in Running(t) : RateOf(LoadOf(t, n)) \in Nat
    BY <1>3, LoadsAreNumbers DEF Running
  <2> QED
    BY <2>1, <2>2, PingsAreFinite DEF PingsOf
<1>6. TotalOf(t) \in Nat
  BY <1>5, FS_CardinalityType DEF TotalOf
<1> QED
  BY <1>1, <1>2, <1>3, <1>4, <1>5, <1>6

(* What a tree exceeds, another has exceeded as far.                       *)
NoFurtherThan(l, t) ==
  /\ \A n \in Running(t) :
       WithinLimits(LoadOf(t, n)) \/ (WasRunning(l, n) /\ NotWorse(LoadOf(l, n), LoadOf(t, n)))
  /\ TotalOf(t) <= MaxTotal * PerTicks \/ TotalOf(t) <= TotalOf(l)
  /\ \A n \in DOMAIN t :
       LevelOf(t, n) <= MaxLevels \/ (n \in DOMAIN l /\ LevelOf(t, n) <= LevelOf(l, n))

(* A request that passes the check exceeds nothing that was not exceeded.  *)
LEMMA PassedGoesNoFurther ==
  ASSUME NEW l, NEW t, NEW u, LimitsTree(l), LimitsTree(t), LimitsTree(u),
         NoFurtherThan(l, t), ~Worsens(t, u)
  PROVE  NoFurtherThan(l, u)
<1>1. ASSUME NEW n \in Running(u)
      PROVE  WithinLimits(LoadOf(u, n)) \/ (WasRunning(l, n) /\ NotWorse(LoadOf(l, n), LoadOf(u, n)))
  <2>1. WithinLimits(LoadOf(u, n)) \/ (n \in Running(t) /\ NotWorse(LoadOf(t, n), LoadOf(u, n)))
    BY <1>1 DEF Worsens, WasRunning
  <2>2. LoadOf(u, n) \in [Loads -> LimValues]
    BY LimitsTreeIs DEF Running
  <2>3. CASE n \in Running(t) /\ NotWorse(LoadOf(t, n), LoadOf(u, n))
    <3>1. LoadOf(t, n) \in [Loads -> LimValues]
      BY <2>3, LimitsTreeIs DEF Running
    <3>2. CASE WithinLimits(LoadOf(t, n))
      BY <2>2, <2>3, <3>1, <3>2, NoWorseIsAnOrder
    <3>3. CASE WasRunning(l, n) /\ NotWorse(LoadOf(l, n), LoadOf(t, n))
      <4>1. LoadOf(l, n) \in [Loads -> LimValues]
        BY <3>3, LimitsTreeIs DEF WasRunning, Running
      <4> QED
        BY <2>2, <2>3, <3>1, <3>3, <4>1, NoWorseIsAnOrder
    <3> QED
      BY <2>3, <3>2, <3>3 DEF NoFurtherThan
  <2> QED
    BY <2>1, <2>3
<1>2. TotalOf(u) <= MaxTotal * PerTicks \/ TotalOf(u) <= TotalOf(l)
  <2>1. {TotalOf(l), TotalOf(t), TotalOf(u)} \subseteq Nat /\ MaxTotal * PerTicks \in Nat
    BY LimitsTreeIs, LimitsAssumption
  <2>2. TotalOf(u) <= MaxTotal * PerTicks \/ TotalOf(u) <= TotalOf(t)
    BY <2>1 DEF Worsens
  <2>3. TotalOf(t) <= MaxTotal * PerTicks \/ TotalOf(t) <= TotalOf(l)
    BY DEF NoFurtherThan
  <2> QED
    BY ONLY <2>1, <2>2, <2>3
<1>3. ASSUME NEW n \in DOMAIN u
      PROVE  LevelOf(u, n) <= MaxLevels \/ (n \in DOMAIN l /\ LevelOf(u, n) <= LevelOf(l, n))
  <2>1. LevelOf(u, n) \in Nat /\ MaxLevels \in Nat
    BY LimitsTreeIs, LimitsAssumption
  <2>2. CASE LevelOf(u, n) > MaxLevels
    <3>1. n \in DOMAIN t /\ ~(LevelOf(t, n) < LevelOf(u, n))
      BY <2>2 DEF Worsens
    <3>2. LevelOf(t, n) \in Nat
      BY <3>1, LimitsTreeIs
    <3>3. LevelOf(u, n) <= LevelOf(t, n) /\ ~(LevelOf(t, n) <= MaxLevels)
      BY <2>1, <2>2, <3>1, <3>2
    <3>4. n \in DOMAIN l /\ LevelOf(t, n) <= LevelOf(l, n)
      BY <3>1, <3>3 DEF NoFurtherThan
    <3>5. LevelOf(l, n) \in Nat
      BY <3>4, LimitsTreeIs
    <3> QED
      BY <2>1, <3>2, <3>3, <3>4, <3>5
  <2> QED
    BY <2>1, <2>2
<1> QED
  BY <1>1, <1>2, <1>3 DEF NoFurtherThan

(* Neither does what is left when a subtree goes.                          *)
LEMMA PrunedGoesNoFurther ==
  ASSUME NEW l, NEW t, LimitsTree(l), LimitsTree(t), NoFurtherThan(l, t),
         NEW n \in DOMAIN t \ {Root},
         NEW u, u = [m \in DOMAIN t \ Under(t, n) |-> t[m]]
  PROVE  LimitsTree(u) /\ NoFurtherThan(l, u)
<1>1. DOMAIN u = DOMAIN t \ Under(t, n) /\ \A m \in DOMAIN u : u[m] = t[m]
  OBVIOUS
<1>2. Rooted(t)
  BY LimitsTreeIs
<1>3. Rooted(u) /\ HoldsParents(t, DOMAIN u)
  BY <1>1, <1>2, PrunedIsRooted
<1>4. Root \in DOMAIN u /\ u[Root] = t[Root]
  BY <1>1, <1>3, RootOfTree
<1>5. LimitsTree(u)
  <2>1. IsPlanned(u)
    BY <1>3, <1>4 DEF IsPlanned, IsComplete, LimitsTree, Rooted
  <2>2. DOMAIN u \subseteq LimNodes
    BY <1>1 DEF LimitsTree
  <2>3. u \in [DOMAIN u -> LimNode]
    BY <1>1 DEF LimitsTree
  <2> QED
    BY <2>1, <2>2, <2>3 DEF LimitsTree
<1>6. \A m \in DOMAIN u : LoadOf(u, m) = LoadOf(t, m)
  <2>1. ASSUME NEW f \in Loads PROVE \A m \in DOMAIN u : Resolved(u, m, f) = Resolved(t, m, f)
    <3>1. t[Root][f] # NONE
      BY DEF LimitsTree, IsPlanned, IsComplete
    <3> QED
      BY <1>1, <1>2, <1>3, <3>1, PrunedSettings
  <2> QED
    BY <2>1 DEF LoadOf
<1>7. Running(u) \subseteq Running(t)
  BY <1>1 DEF Running
<1>8. \A m \in DOMAIN u : LevelOf(u, m) = LevelOf(t, m)
  BY <1>1, <1>3, LeftAsTheyWere DEF LevelOf
<1>9. TotalOf(u) \in Nat /\ TotalOf(t) \in Nat /\ TotalOf(u) <= TotalOf(t)
  <2>1. PingsOf(u) \subseteq PingsOf(t)
    <3>1. \A m \in Running(u) : m \in Running(t) /\ LoadOf(u, m) = LoadOf(t, m)
      BY <1>6, <1>7 DEF Running
    <3> QED
      BY <3>1 DEF PingsOf
  <2>2. IsFiniteSet(PingsOf(t)) /\ TotalOf(u) \in Nat /\ TotalOf(t) \in Nat
    BY <1>5, LimitsTreeIs
  <2> QED
    BY <2>1, <2>2, FS_Subset DEF TotalOf
<1>10. TotalOf(u) <= MaxTotal * PerTicks \/ TotalOf(u) <= TotalOf(l)
  <2>1. {TotalOf(l), TotalOf(t), TotalOf(u)} \subseteq Nat /\ MaxTotal * PerTicks \in Nat
    BY <1>9, LimitsTreeIs, LimitsAssumption
  <2>2. TotalOf(t) <= MaxTotal * PerTicks \/ TotalOf(t) <= TotalOf(l)
    BY DEF NoFurtherThan
  <2> QED
    BY ONLY <1>9, <2>1, <2>2
<1>11. \A m \in Running(u) :
         WithinLimits(LoadOf(u, m)) \/ (WasRunning(l, m) /\ NotWorse(LoadOf(l, m), LoadOf(u, m)))
  <2>1. \A m \in Running(u) : m \in Running(t) /\ LoadOf(u, m) = LoadOf(t, m)
    BY <1>6, <1>7 DEF Running
  <2> QED
    BY <2>1 DEF NoFurtherThan
<1>12. \A m \in DOMAIN u :
         LevelOf(u, m) <= MaxLevels \/ (m \in DOMAIN l /\ LevelOf(u, m) <= LevelOf(l, m))
  BY <1>1, <1>8 DEF NoFurtherThan
<1> QED
  BY <1>5, <1>10, <1>11, <1>12 DEF NoFurtherThan

(* The inductive invariant: the tree, and the tree there was before there  *)
(* were limits, are trees, and the one goes no further than the other.     *)
LimitsInv == LimitsTree(nodes) /\ LimitsTree(legacy) /\ OnlyLegacyExceeds

(* The property is about the two trees. *)
LEMMA ExceedsNoFurther == OnlyLegacyExceeds <=> NoFurtherThan(legacy, nodes)
BY DEF OnlyLegacyExceeds, NoFurtherThan

(* The first tree goes no further than itself. *)
LEMMA LimitsInitInv == LimitsInit => LimitsInv
<1> SUFFICES ASSUME LimitsInit PROVE LimitsInv
  OBVIOUS
<1>1. LimitsTree(nodes)
  <2>1. PlannedTree \in [DOMAIN PlannedTree -> LimNode] /\ DOMAIN PlannedTree \subseteq LimNodes
        /\ LimValues \subseteq Nat
    BY LimitsAssumption
  <2>2. PICK n \in DOMAIN PlannedTree, m \in DOMAIN PlannedTree, mode \in Modes, f \in Loads,
             v \in LimValues :
          nodes = IF n = Root THEN [PlannedTree EXCEPT ![n][f] = v]
                  ELSE [PlannedTree EXCEPT ![n].parent = m, ![n].mode = mode, ![n][f] = v]
    BY DEF LimitsInit
  <2>3. nodes \in [DOMAIN PlannedTree -> LimNode]
    <3>1. CASE n = Root
      BY <2>1, <2>2, <3>1 DEF LimNode, Loads
    <3>2. CASE n # Root
      <4>1. nodes = [PlannedTree EXCEPT ![n].parent = m, ![n].mode = mode, ![n][f] = v]
        BY <2>2, <3>2
      <4> QED
        BY <2>1, <4>1 DEF LimNode, Loads
    <3> QED
      BY <3>1, <3>2
  <2>4. DOMAIN nodes = DOMAIN PlannedTree
    BY <2>3
  <2>5. IsPlanned(nodes)
    BY DEF LimitsInit
  <2> QED
    BY <2>1, <2>3, <2>4, <2>5 DEF LimitsTree
<1>2. legacy = nodes
  BY DEF LimitsInit
<1>3. NoFurtherThan(nodes, nodes)
  <2>1. TotalOf(nodes) \in Nat /\ \A n \in DOMAIN nodes : LevelOf(nodes, n) \in Nat
    BY <1>1, LimitsTreeIs
  <2>2. \A n \in Running(nodes) : NotWorse(LoadOf(nodes, n), LoadOf(nodes, n))
    BY <1>1, LimitsTreeIs, LoadsAreNumbers DEF NotWorse, NotFaster, Running
  <2> QED
    BY <2>1, <2>2 DEF NoFurtherThan, WasRunning
<1> QED
  BY <1>1, <1>2, <1>3, ExceedsNoFurther DEF LimitsInv

(* A request keeps it.                                                     *)
LEMMA ChangedInv ==
  ASSUME LimitsInv, NEW u, DOMAIN u \subseteq LimNodes, u \in [DOMAIN u -> LimNode], Changed(u)
  PROVE  LimitsInv'
<1>1. nodes' = u /\ legacy' = legacy /\ IsPlanned(u) /\ ~Worsens(nodes, u)
  BY DEF Changed
<1>2. LimitsTree(u)
  BY <1>1 DEF LimitsTree
<1>3. NoFurtherThan(legacy, u)
  BY <1>1, <1>2, ExceedsNoFurther, PassedGoesNoFurther DEF LimitsInv
<1>4. LimitsTree(legacy)
  BY DEF LimitsInv
<1>5. OnlyLegacyExceeds'
  BY <1>1, <1>3 DEF OnlyLegacyExceeds, NoFurtherThan
<1> QED
  BY <1>1, <1>2, <1>4, <1>5 DEF LimitsInv

(* Every request does.                                                     *)
LEMMA LimitsNextInv == LimitsInv /\ [LimitsNext]_limitVars => LimitsInv'
<1> SUFFICES ASSUME LimitsInv, [LimitsNext]_limitVars PROVE LimitsInv'
  OBVIOUS
<1>1. DOMAIN nodes \subseteq LimNodes /\ nodes \in [DOMAIN nodes -> LimNode]
  BY DEF LimitsInv, LimitsTree
<1>2. ASSUME NEW m \in LimNodes, NEW mode \in Modes, NEW f \in Loads, NEW v \in LimValues,
             CreateNode(m, mode, f, v)
      PROVE  LimitsInv'
  <2> DEFINE n == CHOOSE k \in LimNodes \ DOMAIN nodes : TRUE
             u == [k \in DOMAIN nodes \cup {n} |->
                     IF k = n THEN NewNode(m, mode, f, v) ELSE nodes[k]]
  <2>1. n \in LimNodes
    BY <1>2 DEF CreateNode
  <2>2. NewNode(m, mode, f, v) \in LimNode
    BY DEF NewNode, LimNode
  <2>3. DOMAIN u \subseteq LimNodes /\ u \in [DOMAIN u -> LimNode]
    BY <1>1, <2>1, <2>2
  <2>4. Changed(u)
    BY <1>2 DEF CreateNode
  <2> HIDE DEF u
  <2> QED
    BY <2>3, <2>4, ChangedInv
<1>3. ASSUME NEW n \in LimNodes, NEW f \in Loads, NEW v \in LimValues \cup {NONE},
             SetLoad(n, f, v)
      PROVE  LimitsInv'
  <2> DEFINE u == [nodes EXCEPT ![n][f] = v]
  <2>1. DOMAIN u = DOMAIN nodes /\ u \in [DOMAIN nodes -> LimNode]
    BY <1>1, <1>3 DEF SetLoad, LimNode, Loads
  <2>2. Changed(u)
    BY <1>3 DEF SetLoad
  <2> HIDE DEF u
  <2> QED
    BY <1>1, <2>1, <2>2, ChangedInv
<1>4. ASSUME NEW n \in LimNodes, NEW mode \in Modes, SetMode(n, mode) PROVE LimitsInv'
  <2> DEFINE u == [nodes EXCEPT ![n].mode = mode]
  <2>1. DOMAIN u = DOMAIN nodes /\ u \in [DOMAIN nodes -> LimNode]
    BY <1>1, <1>4 DEF SetMode, LimNode
  <2>2. Changed(u)
    BY <1>4 DEF SetMode
  <2> HIDE DEF u
  <2> QED
    BY <1>1, <2>1, <2>2, ChangedInv
<1>5. ASSUME NEW n \in LimNodes, NEW m \in LimNodes, MoveInTree(n, m) PROVE LimitsInv'
  <2> DEFINE u == [nodes EXCEPT ![n].parent = m]
  <2>1. DOMAIN u = DOMAIN nodes /\ u \in [DOMAIN nodes -> LimNode]
    BY <1>1, <1>5 DEF MoveInTree, LimNode
  <2>2. Changed(u)
    BY <1>5 DEF MoveInTree
  <2> HIDE DEF u
  <2> QED
    BY <1>1, <2>1, <2>2, ChangedInv
<1>6. ASSUME NEW n \in LimNodes, DeleteNode(n) PROVE LimitsInv'
  <2> DEFINE u == [m \in DOMAIN nodes \ Under(nodes, n) |-> nodes[m]]
  <2>1. nodes' = u /\ legacy' = legacy /\ n \in DOMAIN nodes \ {Root}
    BY <1>6 DEF DeleteNode
  <2>2. LimitsTree(u) /\ NoFurtherThan(legacy, u)
    BY <2>1, ExceedsNoFurther, PrunedGoesNoFurther DEF LimitsInv
  <2>3. LimitsTree(legacy)
    BY DEF LimitsInv
  <2>4. OnlyLegacyExceeds'
    BY <2>1, <2>2 DEF OnlyLegacyExceeds, NoFurtherThan
  <2> QED
    BY <2>1, <2>2, <2>3, <2>4 DEF LimitsInv
<1>7. ASSUME UNCHANGED limitVars PROVE LimitsInv'
  <2>1. nodes' = nodes /\ legacy' = legacy
    BY <1>7 DEF limitVars
  <2>2. LimitsTree(nodes) /\ LimitsTree(legacy) /\ OnlyLegacyExceeds
    BY DEF LimitsInv
  <2>3. OnlyLegacyExceeds'
    BY <2>1, <2>2 DEF OnlyLegacyExceeds
  <2> QED
    BY <2>1, <2>2, <2>3 DEF LimitsInv
<1> QED
  BY <1>2, <1>3, <1>4, <1>5, <1>6, <1>7 DEF LimitsNext

(* For any tree there was before the limits, any limits and any requests:  *)
(* what exceeds a limit did so before, and no less (limits.go:250).        *)
THEOREM OnlyTheLegacyExceeds == LimitsSpec => []OnlyLegacyExceeds
<1>1. LimitsInv => OnlyLegacyExceeds
  BY DEF LimitsInv
<1> QED
  BY <1>1, LimitsInitInv, LimitsNextInv, PTL DEF LimitsSpec
=============================================================================
