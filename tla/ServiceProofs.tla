--------------------------- MODULE ServiceProofs ----------------------------
(***************************************************************************)
(* What the services beside the prober promise, for any value of their     *)
(* constants: the history of the store, that series lie beside their rows  *)
(* and pruning spares what a retention keeps; the log of paths, that it has *)
(* a row for every change and for nothing else; the queue of the           *)
(* dispatcher, that it loses batches to newer ones only; and the mirror of *)
(* an agent, that a pull leaves what its answer said.                      *)
(***************************************************************************)
EXTENDS History, PathLog, DeliveryQueue, AgentMirror, FiniteSetTheorems, SequenceTheorems,
        WellFoundedInduction, TLAPS

-----------------------------------------------------------------------------
(* The history.                                                            *)

Horizon == [Leaves -> Nat]

HistoryTyped ==
  /\ instant \in Instants /\ writes \in Nat
  /\ table \in [RowKeys -> Nat] /\ seriesOf \in [RowKeys -> Nat]
  /\ keep \in Horizon /\ strictest \in Horizon /\ hosted \subseteq Leaves

Sweeps ==
  [pc : {"targets", "slice"}, keep : Horizon, now : Instants, left : SUBSET Leaves,
   target : Leaves \cup {Nowhere}, end : Int]

(* A sweep goes by what it read when it began, and nothing stricter than    *)
(* that is forgotten: its horizons are at least the strictest in force      *)
(* since, its clock is not ahead, and its slice ends by its cutoff.         *)
SweepIsLenient ==
  \/ sweeper = [pc |-> "tick"]
  \/ /\ sweeper \in Sweeps
     /\ sweeper.now <= instant
     /\ \A t \in sweeper.left : 0 < strictest[t] /\ strictest[t] <= sweeper.keep[t]
     /\ sweeper.pc = "slice" => /\ sweeper.target \in sweeper.left
                                /\ sweeper.end <= Cutoff(sweeper.target)

HistoryInv == HistoryTyped /\ SweepIsLenient /\ SeriesAreOfTheirRow

-----------------------------------------------------------------------------
(* The oldest row of a target that has any is one of its rows.             *)
LEMMA LeastIsIn ==
  ASSUME NEW S \in SUBSET Nat, S # {}
  PROVE  Min(S) \in S
<1>1. IsWellFoundedOn(OpToRel(<, Nat), Nat)
  BY NatLessThanWellFounded
<1>2. PICK d \in S : \A e \in S : ~(<<e, d>> \in OpToRel(<, Nat))
  BY <1>1, WFMin, Zenon
<1>3. \A e \in S : ~(e < d)
  BY <1>2, Zenon DEF OpToRel
<1>4. \A e \in S : d <= e
  BY <1>3
<1> QED
  BY <1>4 DEF Min

(* The lesser of two horizons is one of them. *)
LEMMA LesserOfTwo ==
  ASSUME NEW x \in Int, NEW y \in Int
  PROVE  Min({x, y}) \in Int /\ Min({x, y}) <= x /\ Min({x, y}) <= y /\ Min({x, y}) \in {x, y}
<1>1. \E m \in {x, y} : \A n \in {x, y} : m <= n
  OBVIOUS
<1> QED
  BY <1>1 DEF Min

(* A slice ends by the cutoff of its target.                               *)
LEMMA SliceEndsByCutoff ==
  ASSUME HistoryTyped, sweeper \in Sweeps, NEW t \in Leaves, ~Pruned(t)
  PROVE  SliceEnd(t) \in Int /\ SliceEnd(t) <= Cutoff(t)
<1> USE HistoryAssumption
<1>1. Ticks(t) \subseteq Nat
  BY DEF Ticks, HeldIn, RowKeys, Instants
<1>2. Ticks(t) # {}
  BY DEF Pruned
<1>3. Min(Ticks(t)) \in Nat
  BY <1>1, <1>2, LeastIsIn
<1>4. Cutoff(t) \in Int
  BY DEF Cutoff, Sweeps, Horizon, Instants
<1>5. Min(Ticks(t)) + SliceTicks \in Int
  BY <1>3
<1> QED
  BY <1>4, <1>5, LesserOfTwo DEF SliceEnd

-----------------------------------------------------------------------------
(* At first nothing is stored and no sweep under way. *)
LEMMA HistoryInitHoldsIt == HistoryInit => HistoryInv
<1> SUFFICES ASSUME HistoryInit PROVE HistoryInv
  OBVIOUS
<1>1. HistoryTyped
  <2>1. keep \in Horizon /\ strictest = keep
    BY HistoryAssumption DEF HistoryInit, Horizon
  <2>2. instant \in Instants /\ writes \in Nat
    BY HistoryAssumption DEF HistoryInit, Instants
  <2> QED
    BY <2>1, <2>2 DEF HistoryInit, HistoryTyped
<1>2. SweepIsLenient
  BY DEF HistoryInit, SweepIsLenient
<1>3. SeriesAreOfTheirRow
  BY DEF HistoryInit, SeriesAreOfTheirRow
<1> QED
  BY <1>1, <1>2, <1>3 DEF HistoryInv

(* A write leaves the sweep alone.                                         *)
LEMMA WritesKeepIt ==
  ASSUME HistoryInv, NEW k \in RowKeys, NEW w \in Nat, NEW measured \in BOOLEAN,
         w = writes + 1, writes' = w, table' = [table EXCEPT ![k] = w],
         seriesOf' = SeriesAfter(k, w, measured),
         UNCHANGED <<instant, keep, hosted, sweeper, strictest>>
  PROVE  HistoryInv'
<1> USE DEF HistoryInv
<1>1. HistoryTyped'
  BY DEF HistoryTyped, SeriesAfter
<1>2. SweepIsLenient'
  BY DEF SweepIsLenient, Cutoff
<1>3. SeriesAreOfTheirRow'
  BY DEF SeriesAreOfTheirRow, HistoryTyped, SeriesAfter
<1> QED
  BY <1>1, <1>2, <1>3

(* A read, an end of a sweep or of a request changes no row.               *)
LEMMA OthersKeepIt ==
  ASSUME HistoryInv, UNCHANGED <<table, seriesOf, keep, writes, strictest>>,
         hosted' \subseteq Leaves, instant' \in Instants, instant <= instant', sweeper' = sweeper \/ sweeper' = [pc |-> "tick"]
  PROVE  HistoryInv'
<1> USE DEF HistoryInv
<1>1. HistoryTyped'
  BY DEF HistoryTyped
<1>2. SweepIsLenient'
  <2>1. CASE sweeper' = [pc |-> "tick"]
    BY <2>1 DEF SweepIsLenient
  <2>2. CASE sweeper' = sweeper /\ sweeper \in Sweeps
    BY <2>2 DEF SweepIsLenient, Cutoff, Sweeps, HistoryTyped, Instants
  <2> QED
    BY <2>1, <2>2 DEF SweepIsLenient
<1>3. SeriesAreOfTheirRow'
  BY DEF SeriesAreOfTheirRow
<1> QED
  BY <1>1, <1>2, <1>3

(* A sweep begins with the horizons of its moment, *)
LEMMA BeginKeepsIt == HistoryInv /\ BeginSweep => HistoryInv'
<1> SUFFICES ASSUME HistoryInv, BeginSweep PROVE HistoryInv'
  OBVIOUS
<1> USE DEF HistoryInv
<1>1. HistoryTyped'
  BY DEF HistoryTyped, BeginSweep, configured
<1>2. SweepIsLenient'
  <2>1. sweeper' \in Sweeps
    <3>1. sweeper' = [pc |-> "targets", keep |-> keep, now |-> instant, left |-> Swept,
                      target |-> Nowhere, end |-> 0]
      BY DEF BeginSweep
    <3>2. keep \in Horizon /\ instant \in Instants /\ Swept \in SUBSET Leaves
      BY DEF HistoryTyped, Swept
    <3> QED
      BY <3>1, <3>2 DEF Sweeps
  <2>2. sweeper'.now = instant' /\ sweeper'.pc = "targets" /\ sweeper'.left = Swept
        /\ sweeper'.keep = keep /\ strictest' = keep /\ instant \in Nat /\ instant' = instant
    BY DEF BeginSweep, HistoryTyped, Instants
  <2>3. \A t \in Swept : 0 < keep[t] /\ keep[t] <= keep[t]
    BY DEF Swept, HistoryTyped, Horizon
  <2> QED
    BY <2>1, <2>2, <2>3 DEF SweepIsLenient
<1>3. SeriesAreOfTheirRow'
  BY DEF SeriesAreOfTheirRow, BeginSweep, configured
<1> QED
  BY <1>1, <1>2, <1>3

(* finds a slice that ends by its cutoff, *)
LEMMA FindKeepsIt ==
  ASSUME HistoryInv, NEW t \in Leaves, FindSlice(t)
  PROVE  HistoryInv'
<1> USE DEF HistoryInv
<1>1. sweeper \in Sweeps
  BY DEF FindSlice, SweepIsLenient
<1>2. /\ sweeper' \in Sweeps /\ sweeper'.now = sweeper.now /\ sweeper'.left = sweeper.left
      /\ sweeper'.keep = sweeper.keep /\ sweeper'.target = t /\ sweeper'.end = SliceEnd(t)
  BY <1>1, SliceEndsByCutoff DEF FindSlice, Sweeps
<1>3. HistoryTyped'
  BY DEF HistoryTyped, FindSlice, configured
<1>4. SweepIsLenient'
  <2>1. t \in sweeper.left /\ SliceEnd(t) <= Cutoff(t)
    BY <1>1, SliceEndsByCutoff DEF FindSlice
  <2>2. instant' = instant /\ strictest' = strictest
    BY DEF FindSlice
  <2>3. /\ sweeper.now <= instant
        /\ \A u \in sweeper.left : 0 < strictest[u] /\ strictest[u] <= sweeper.keep[u]
    BY DEF SweepIsLenient, FindSlice
  <2> QED
    BY <1>2, <2>1, <2>2, <2>3 DEF SweepIsLenient, Cutoff
<1>5. SeriesAreOfTheirRow'
  BY DEF SeriesAreOfTheirRow, FindSlice
<1> QED
  BY <1>3, <1>4, <1>5

(* A target's end, or a slice's, leaves the sweep to the others.           *)
LEMMA LeavingKeepsSweep ==
  ASSUME HistoryInv, sweeper \in Sweeps, sweeper' \in Sweeps,
         sweeper'.now = sweeper.now, sweeper'.keep = sweeper.keep,
         sweeper'.left \subseteq sweeper.left, sweeper'.pc = "targets",
         UNCHANGED <<instant, strictest>>
  PROVE  SweepIsLenient'
<1>1. sweeper # [pc |-> "tick"]
  BY DEF Sweeps
<1>2. /\ sweeper.now <= instant
      /\ \A t \in sweeper.left : 0 < strictest[t] /\ strictest[t] <= sweeper.keep[t]
  BY <1>1 DEF HistoryInv, SweepIsLenient
<1> QED
  BY <1>2 DEF SweepIsLenient

(* deletes no more than that slice, *)
LEMMA DeleteKeepsIt == HistoryInv /\ DeleteSlice => HistoryInv'
<1> SUFFICES ASSUME HistoryInv, DeleteSlice PROVE HistoryInv'
  OBVIOUS
<1> USE DEF HistoryInv
<1>1. sweeper \in Sweeps
  BY DEF DeleteSlice, SweepIsLenient
<1>2. HistoryTyped'
  BY DEF HistoryTyped, DeleteSlice, WithoutBefore, configured
<1>3. SweepIsLenient'
  <2>1. /\ sweeper' \in Sweeps /\ sweeper'.pc = "targets" /\ sweeper'.now = sweeper.now
        /\ sweeper'.keep = sweeper.keep /\ sweeper'.left = sweeper.left
    BY <1>1 DEF DeleteSlice, Sweeps
  <2> QED
    BY <1>1, <2>1, LeavingKeepsSweep DEF DeleteSlice
<1>4. SeriesAreOfTheirRow'
  BY DEF SeriesAreOfTheirRow, DeleteSlice, WithoutBefore
<1> QED
  BY <1>2, <1>3, <1>4

(* and gives a target up when it is done, or when a delete fails. *)
LEMMA LeavingKeepsIt ==
  ASSUME HistoryInv, NEW t \in Leaves, TargetPruned(t) \/ PruneFails(t)
  PROVE  HistoryInv'
<1> USE DEF HistoryInv
<1>1. sweeper \in Sweeps
  BY DEF TargetPruned, PruneFails, SweepIsLenient
<1>2. HistoryTyped'
  BY DEF HistoryTyped, TargetPruned, PruneFails, configured
<1>3. /\ sweeper' \in Sweeps /\ sweeper'.pc = "targets" /\ sweeper'.now = sweeper.now
      /\ sweeper'.keep = sweeper.keep /\ sweeper'.left \subseteq sweeper.left
  <2>1. CASE TargetPruned(t)
    BY <1>1, <2>1 DEF TargetPruned, Sweeps
  <2>2. CASE PruneFails(t)
    BY <1>1, <2>2 DEF PruneFails, Sweeps
  <2> QED
    BY <2>1, <2>2
<1>4. SweepIsLenient'
  BY <1>1, <1>3, LeavingKeepsSweep DEF TargetPruned, PruneFails
<1>5. SeriesAreOfTheirRow'
  BY DEF SeriesAreOfTheirRow, TargetPruned, PruneFails
<1> QED
  BY <1>2, <1>4, <1>5

(* An edit of the retention can only make the strictest stricter, and does *)
(* not lift it from a target that a sweep prunes.                          *)
LEMMA RetuneKeepsIt ==
  ASSUME HistoryInv, NEW t \in Leaves, NEW h \in Horizons, SetRetention(t, h)
  PROVE  HistoryInv'
<1> USE HistoryAssumption DEF HistoryInv
<1>1. h \in Nat /\ strictest[t] \in Nat
  BY DEF HistoryTyped, Horizon
<1>2. PICK s \in Nat : /\ strictest' = [strictest EXCEPT ![t] = s]
                       /\ strictest[t] > 0 => s > 0 /\ s <= strictest[t]
  <2> DEFINE s == IF strictest[t] = 0 THEN h
                  ELSE IF h = 0 THEN strictest[t] ELSE Min({strictest[t], h})
  <2>1. strictest' = [strictest EXCEPT ![t] = s]
    BY DEF SetRetention
  <2>2. s \in Nat /\ (strictest[t] > 0 => s > 0 /\ s <= strictest[t])
    <3> DEFINE o == strictest[t] m == Min({o, h})
    <3>1. o \in Nat /\ h \in Nat /\ s = IF o = 0 THEN h ELSE IF h = 0 THEN o ELSE m
      BY <1>1
    <3> HIDE DEF o, s
    <3>2. m \in {o, h} /\ m <= o
      <4>1. o \in Int /\ h \in Int
        BY <3>1
      <4> HIDE DEF m
      <4>2. /\ Min({o, h}) \in Int /\ Min({o, h}) <= o /\ Min({o, h}) <= h
            /\ Min({o, h}) \in {o, h}
        BY ONLY <4>1, LesserOfTwo, Zenon
      <4> QED
        BY <4>2 DEF m
    <3> HIDE DEF m
    <3>3. s \in Nat /\ (o > 0 => s > 0 /\ s <= o)
      BY <3>1, <3>2
    <3> QED
      BY <3>3 DEF o
  <2> QED
    BY <2>1, <2>2
<1>3. HistoryTyped'
  BY <1>1, <1>2 DEF HistoryTyped, Horizon, SetRetention
<1>4. SweepIsLenient'
  <2>1. CASE sweeper = [pc |-> "tick"]
    BY <2>1 DEF SetRetention, SweepIsLenient
  <2>2. CASE sweeper \in Sweeps /\ sweeper # [pc |-> "tick"]
    <3>1. sweeper' = sweeper /\ instant' = instant
      BY DEF SetRetention
    <3>2. \A u \in sweeper.left : 0 < strictest'[u] /\ strictest'[u] <= sweeper.keep[u]
      <4> TAKE u \in sweeper.left
      <4>1. u \in Leaves /\ strictest[u] \in Nat /\ sweeper.keep[u] \in Nat
            /\ 0 < strictest[u] /\ strictest[u] <= sweeper.keep[u]
        BY <2>2 DEF SweepIsLenient, Sweeps, HistoryTyped, Horizon
      <4>2. CASE u = t
        BY <1>2, <4>1, <4>2 DEF HistoryTyped, Horizon
      <4>3. CASE u # t
        BY <1>2, <4>1, <4>3 DEF HistoryTyped, Horizon
      <4> QED
        BY <4>2, <4>3
    <3> QED
      BY <2>2, <3>1, <3>2 DEF SweepIsLenient, Cutoff
  <2> QED
    BY <2>1, <2>2 DEF SweepIsLenient
<1>5. SeriesAreOfTheirRow'
  BY DEF SeriesAreOfTheirRow, SetRetention
<1> QED
  BY <1>3, <1>4, <1>5

(* Every step keeps the invariant. *)
LEMMA HistoryNextKeepsIt ==
  ASSUME HistoryInv, [HistoryNext]_historyVars
  PROVE  HistoryInv'
<1> USE HistoryAssumption
<1>1. ASSUME NEW t \in Leaves, NEW measured \in BOOLEAN, WriteLive(t, measured)
      PROVE  HistoryInv'
  <2>1. <<t, Master, instant>> \in RowKeys
    BY <1>1 DEF HistoryInv, HistoryTyped, RowKeys
  <2> DEFINE k == <<t, Master, instant>> w == writes + 1
  <2>2. w \in Nat
    BY DEF HistoryInv, HistoryTyped
  <2>3. /\ writes' = w /\ table' = [table EXCEPT ![k] = w] /\ seriesOf' = SeriesAfter(k, w, measured)
        /\ UNCHANGED <<instant, keep, hosted, sweeper, strictest>>
    BY <1>1 DEF WriteLive, configured
  <2>4. k \in RowKeys /\ w = writes + 1
    BY <2>1
  <2> HIDE DEF k, w
  <2> QED
    BY <2>2, <2>3, <2>4, WritesKeepIt
<1>2. ASSUME NEW t \in Leaves, NEW measured \in BOOLEAN, NEW a \in Remotes, NEW ts \in Instants,
             StoreSubmitted(t, a, ts, measured)
      PROVE  HistoryInv'
  <2> DEFINE k == <<t, a, ts>> w == writes + 1
  <2>1. k \in RowKeys /\ w = writes + 1 /\ w \in Nat
    BY <1>2 DEF HistoryInv, HistoryTyped, RowKeys
  <2>2. /\ writes' = w /\ table' = [table EXCEPT ![k] = w] /\ seriesOf' = SeriesAfter(k, w, measured)
        /\ UNCHANGED <<instant, keep, hosted, sweeper, strictest>>
    BY <1>2 DEF StoreSubmitted, configured
  <2> HIDE DEF k, w
  <2> QED
    BY <2>1, <2>2, WritesKeepIt
<1>3. ASSUME NEW t \in Leaves, NEW a \in Remotes \cup {Master}, ReadRows(t, a)
      PROVE  HistoryInv'
  BY <1>3, OthersKeepIt DEF ReadRows, configured, HistoryInv, HistoryTyped, Instants
<1>4. CASE AttachSeries \/ AnswerError \/ EndSweep \/ ListFails \/ RestartSweeper \/ InstantPasses
           \/ ImportEnds
  BY <1>4, OthersKeepIt
     DEF AttachSeries, AnswerError, EndSweep, ListFails, RestartSweeper, InstantPasses, ImportEnds,
         configured, HistoryInv, HistoryTyped, Instants
<1>5. CASE BeginSweep
  BY <1>5, BeginKeepsIt
<1>6. ASSUME NEW t \in Leaves, FindSlice(t) PROVE HistoryInv'
  BY <1>6, FindKeepsIt
<1>7. ASSUME NEW t \in Leaves, TargetPruned(t) PROVE HistoryInv'
  BY <1>7, LeavingKeepsIt
<1>8. CASE DeleteSlice
  BY <1>8, DeleteKeepsIt
<1>9. ASSUME NEW t \in Leaves, PruneFails(t) PROVE HistoryInv'
  BY <1>9, LeavingKeepsIt
<1>10. ASSUME NEW t \in Leaves, NEW h \in Horizons, SetRetention(t, h) PROVE HistoryInv'
  BY <1>10, RetuneKeepsIt
<1>11. ASSUME NEW t \in Leaves, SetHost(t) PROVE HistoryInv'
  BY <1>11, OthersKeepIt DEF SetHost, HistoryInv, HistoryTyped, Instants
<1>12. CASE UNCHANGED historyVars
  BY <1>12, OthersKeepIt DEF historyVars, configured, HistoryInv, HistoryTyped, Instants
<1> QED
  BY <1>1, <1>2, <1>3, <1>4, <1>5, <1>6, <1>7, <1>8, <1>9, <1>10, <1>11, <1>12
     DEF HistoryNext, Sweeping

-----------------------------------------------------------------------------
(* A series lies beside the row of its own write, whatever is written over *)
(* or pruned, live or late (writeMeasurements and PruneMeasurements,       *)
(* sqlite.go).                                                             *)
THEOREM SeriesBelongToTheirRows == HistorySpec => []SeriesAreOfTheirRow
<1>1. HistoryInit => HistoryInv
  BY HistoryInitHoldsIt
<1>2. HistoryInv /\ [HistoryNext]_historyVars => HistoryInv'
  BY HistoryNextKeepsIt
<1>3. HistoryInv => SeriesAreOfTheirRow
  BY DEF HistoryInv
<1> QED
  BY <1>1, <1>2, <1>3, PTL DEF HistorySpec

(* What a step prunes is older than every retention in force since the     *)
(* sweep began, though the sweep goes by a clock and settings read then    *)
(* (sweepRetention, retention.go).                                         *)
THEOREM PruningSparesTheYoung == HistorySpec => NothingYoungIsPruned
<1> DEFINE spares == \A k \in RowKeys : table[k] # 0 /\ table'[k] = 0
                       => strictest[k[1]] > 0 /\ k[3] < instant - strictest[k[1]]
<1>1. HistoryInit => HistoryInv
  BY HistoryInitHoldsIt
<1>2. HistoryInv /\ [HistoryNext]_historyVars => HistoryInv'
  BY HistoryNextKeepsIt
<1>3. HistoryInv /\ [HistoryNext]_historyVars => [spares]_historyVars
  <2> SUFFICES ASSUME HistoryInv, HistoryNext, NEW k \in RowKeys, table[k] # 0, table'[k] = 0
               PROVE  strictest[k[1]] > 0 /\ k[3] < instant - strictest[k[1]]
    OBVIOUS
  <2> USE HistoryAssumption
  <2>1. CASE DeleteSlice
    <3> DEFINE t == sweeper.target
    <3>1. sweeper \in Sweeps /\ t \in Leaves /\ t \in sweeper.left
      BY <2>1 DEF DeleteSlice, HistoryInv, SweepIsLenient, Sweeps
    <3>2. /\ sweeper.end <= sweeper.now - sweeper.keep[t] /\ sweeper.now <= instant
          /\ 0 < strictest[t] /\ strictest[t] <= sweeper.keep[t]
      BY <2>1, <3>1 DEF DeleteSlice, HistoryInv, SweepIsLenient, Cutoff
    <3>3. k[1] = t /\ k[3] < sweeper.end
      BY <2>1 DEF DeleteSlice, WithoutBefore
    <3>4. {k[3], sweeper.end, sweeper.now, instant, strictest[t], sweeper.keep[t]} \subseteq Int
      BY <3>1 DEF Sweeps, HistoryInv, HistoryTyped, Horizon, RowKeys, Instants
    <3> HIDE DEF t
    <3> QED
      BY ONLY <3>2, <3>3, <3>4
  <2>2. CASE ~DeleteSlice
    <3>1. ASSUME NEW t \in Leaves, NEW measured \in BOOLEAN, WriteLive(t, measured)
          PROVE  FALSE
      BY <3>1 DEF WriteLive, HistoryInv, HistoryTyped
    <3>2. ASSUME NEW t \in Leaves, NEW measured \in BOOLEAN, NEW a \in Remotes,
                 NEW ts \in Instants, StoreSubmitted(t, a, ts, measured)
          PROVE  FALSE
      BY <3>2 DEF StoreSubmitted, HistoryInv, HistoryTyped
    <3>3. table' # table
      OBVIOUS
    <3> QED
      BY <2>2, <3>1, <3>2, <3>3
         DEF HistoryNext, Sweeping, ReadRows, AttachSeries, AnswerError, BeginSweep, EndSweep,
             FindSlice, TargetPruned, PruneFails, ListFails, RestartSweeper, SetRetention, SetHost,
             ImportEnds, InstantPasses, configured
  <2> QED
    BY <2>1, <2>2
<1>4. HistoryInv /\ [HistoryNext]_historyVars => [spares]_historyVars
  BY <1>3
<1> QED
  BY <1>1, <1>2, <1>4, PTL DEF HistorySpec, NothingYoungIsPruned

-----------------------------------------------------------------------------
(* The log of paths.                                                       *)

PathRow == [hops : Routes, submitted : BOOLEAN]

TracerState == {NotTracing} \cup [pc : {"found", "differs"}, hops : Routes]

Pushed == pushing # NotPushing

PathTypeOK ==
  /\ traced \in Nat
  /\ route \in Routes
  /\ tracers \in [current : TracerState, old : TracerState]
  /\ paths = [s \in DOMAIN paths |-> paths[s]]
  /\ \A s \in DOMAIN paths : s \in 1..traced /\ paths[s] \in PathRow
  /\ DOMAIN pathLog \subseteq 1..traced
  /\ lost \in BOOLEAN
  /\ Pushed => /\ pushing.pc \in {"sent", "answered"}
             /\ pushing = [pc |-> pushing.pc, batch |-> pushing.batch]

(* The agent's table never loses the latest row.                            *)
LatestKept == traced > 0 => traced \in DOMAIN paths

(* What a submission carries is what the table has, which keeps it until    *)
(* the submission is over.                                                  *)
BatchIsTheTable ==
  Pushed =>
    \A s \in DOMAIN pushing.batch : s \in DOMAIN paths /\ pushing.batch[s] = paths[s].hops

(* What was recorded at a second, by the master's table or the agent's.     *)
RecordedAt(s) == IF s \in DOMAIN pathLog THEN pathLog[s] ELSE paths[s].hops

(* Nothing recorded is only in a table that forgets it.                     *)
NothingIsLost ==
  /\ \A s \in 1..traced : s \in DOMAIN pathLog \/ (s \in DOMAIN paths /\ ~paths[s].submitted)
  /\ Pushed => (pushing.pc = "answered" => DOMAIN pushing.batch \subseteq DOMAIN pathLog)
  /\ \A s \in DOMAIN pathLog \cap DOMAIN paths : pathLog[s] = paths[s].hops

(* The master has what was recorded up to some second, a submission goes on *)
(* from there.                                                              *)
FromTheOldest ==
  /\ \A s \in DOMAIN pathLog : \A r \in 1..s : r \in DOMAIN pathLog
  /\ Pushed =>
       \A s \in DOMAIN pushing.batch : \A r \in 1..s : r \in DOMAIN pushing.batch \cup DOMAIN pathLog

(* What is recorded is not what was recorded before it.                     *)
EachIsAChange ==
  /\ \A s \in 1..traced : s + 1 <= traced => RecordedAt(s) # RecordedAt(s + 1)
  /\ tracers.current.pc = "differs" /\ traced > 0 => tracers.current.hops # paths[traced].hops

PathInv ==
  /\ PathTypeOK /\ LatestKept /\ BatchIsTheTable
  /\ ~lost => NothingIsLost /\ FromTheOldest /\ EachIsAChange

-----------------------------------------------------------------------------
(* The newest row of a log that has the last traced second. *)
LEMMA NewestIsTraced ==
  ASSUME NEW n \in Nat, NEW log, DOMAIN log \subseteq 1..n, n \in DOMAIN log
  PROVE  Newest(log) = n
<1>1. log # <<>>
  OBVIOUS
<1>2. Newest(log) = CHOOSE s \in DOMAIN log : \A r \in DOMAIN log : r <= s
  BY <1>1 DEF Newest
<1>3. \A r \in DOMAIN log : r <= n
  OBVIOUS
<1>4. \A s \in DOMAIN log : (\A r \in DOMAIN log : r <= s) => s = n
  OBVIOUS
<1> QED
  BY <1>2, <1>3, <1>4

(* The rows that go are the oldest: whatever is not submitted and older     *)
(* than one that goes, goes too.                                            *)
LEMMA OldestGo ==
  ASSUME PathTypeOK, NEW s \in PendingPaths, NEW r \in Unsubmitted, r < s
  PROVE  r \in PendingPaths
<1> DEFINE Older(x) == {y \in Unsubmitted : y < x}
<1>1. traced \in Nat /\ Unsubmitted \subseteq 1..traced /\ s \in Unsubmitted /\ PushPaths \in Nat
  BY PathLogAssumption DEF PathTypeOK, Unsubmitted, PendingPaths
<1>2. /\ r \in Int /\ s \in Int /\ \A y \in Unsubmitted : y \in Int
      /\ 1 \in Int /\ traced \in Int
  BY <1>1
<1>3. /\ Older(r) \subseteq Older(s) /\ Older(s) \subseteq 1..traced
      /\ IsFiniteSet(Older(s))
  <2>1. \A y \in Unsubmitted : y < r => y < s
    BY <1>2
  <2>2. IsFiniteSet(1..traced)
    BY <1>2, FS_Interval
  <2>3. Older(s) \subseteq 1..traced
    BY <1>1
  <2> QED
    BY <2>1, <2>2, <2>3, FS_Subset
<1>4. Cardinality(Older(s)) < PushPaths
  BY DEF PendingPaths
<1> HIDE DEF Older
<1>5. Cardinality(Older(r)) \in Nat /\ Cardinality(Older(s)) \in Nat
      /\ Cardinality(Older(r)) <= Cardinality(Older(s))
  BY <1>3, FS_Subset, FS_CardinalityType
<1>6. Cardinality(Older(r)) < PushPaths
  BY <1>1, <1>4, <1>5
<1> QED
  BY <1>6 DEF PendingPaths, Older

(* At first nothing has been traced. *)
LEMMA PathInitInv == PathInit => PathInv
<1> SUFFICES ASSUME PathInit PROVE PathInv
  OBVIOUS
<1>1. /\ route \in Routes /\ tracers = [current |-> NotTracing, old |-> NotTracing]
      /\ paths = <<>> /\ pushing = NotPushing /\ pathLog = <<>> /\ traced = 0 /\ lost = FALSE
  BY DEF PathInit, PathStart
<1>2. DOMAIN paths = {} /\ DOMAIN pathLog = {} /\ paths = [s \in DOMAIN paths |-> paths[s]]
      /\ ~Pushed
  BY <1>1 DEF Pushed
<1>3. PathTypeOK
  BY <1>1, <1>2 DEF PathTypeOK, TracerState
<1>4. tracers.current.pc # "differs"
  BY <1>1 DEF NotTracing
<1> QED
  BY <1>1, <1>2, <1>3, <1>4
     DEF PathInv, LatestKept, BatchIsTheTable, NothingIsLost, FromTheOldest, EachIsAChange

-----------------------------------------------------------------------------
(* The tracer writes nothing until it records.                              *)
LEMMA TracerSteps ==
  ASSUME PathInv,
         (\E r \in Routes : RouteChanges(r)) \/ Trace \/ Compare \/ Retrace
  PROVE  PathInv'
<1>1. UNCHANGED <<paths, pushing, pathLog, traced, lost>>
  BY DEF RouteChanges, Trace, Compare, Retrace
<1>2. /\ route \in Routes /\ tracers \in [current : TracerState, old : TracerState]
      /\ traced \in Nat
      /\ tracers = [current |-> tracers.current, old |-> tracers.old]
  BY DEF PathInv, PathTypeOK
<1>3. route' \in Routes
  BY <1>2 DEF RouteChanges, Trace, Compare, Retrace
<1>4. /\ tracers' \in [current : TracerState, old : TracerState]
      /\ tracers'.current.pc = "differs" =>
           \/ tracers'.current = tracers.current
           \/ tracers'.current.hops # LastPath
  <2>1. CASE tracers' = tracers
    BY <1>2, <2>1
  <2>2. CASE Trace
    BY <1>2, <2>2 DEF Trace, TracerState
  <2>3. CASE Compare
    <3>1. tracers.current.pc = "found" /\ tracers.current \in [pc : {"found", "differs"}, hops : Routes]
      BY <1>2, <2>3 DEF Compare, TracerState, NotTracing
    <3>2. CASE LastPath = tracers.current.hops
      BY <1>2, <2>3, <3>2 DEF Compare, TracerState, NotTracing
    <3>3. CASE LastPath # tracers.current.hops
      BY <1>2, <2>3, <3>1, <3>3 DEF Compare, TracerState
    <3> QED
      BY <3>2, <3>3
  <2>4. CASE Retrace
    BY <1>2, <2>4 DEF Retrace, TracerState, NotTracing
  <2> QED
    BY <2>1, <2>2, <2>3, <2>4 DEF RouteChanges
<1>5. PathTypeOK' /\ LatestKept' /\ BatchIsTheTable'
  BY <1>1, <1>3, <1>4 DEF PathInv, PathTypeOK, LatestKept, BatchIsTheTable, Pushed
<1>6. NothingIsLost' = NothingIsLost /\ FromTheOldest' = FromTheOldest
  BY <1>1 DEF NothingIsLost, FromTheOldest, Pushed
<1>7. ASSUME EachIsAChange PROVE EachIsAChange'
  <2>1. ASSUME traced > 0 PROVE LastPath = paths[traced].hops
    <3>1. traced \in DOMAIN paths /\ DOMAIN paths \subseteq 1..traced
      BY <2>1 DEF PathInv, PathTypeOK, LatestKept
    <3>2. Newest(paths) = traced /\ paths # <<>>
      BY <1>2, <3>1, NewestIsTraced
    <3> QED
      BY <3>2 DEF LastPath
  <2>2. \A s \in 1..traced' : s + 1 <= traced' => RecordedAt(s)' # RecordedAt(s + 1)'
    BY <1>1, <1>7 DEF EachIsAChange, RecordedAt
  <2> QED
    BY <1>1, <1>4, <1>7, <2>1, <2>2 DEF EachIsAChange
<1> QED
  BY <1>1, <1>5, <1>6, <1>7 DEF PathInv

(* A trace is recorded: it differs from what was recorded last. *)
LEMMA RecordStep ==
  ASSUME PathInv, NEW who \in {"current", "old"}, RecordPath(who)
  PROVE  PathInv'
<1> DEFINE n == traced + 1
           row == [hops |-> tracers.current.hops, submitted |-> FALSE]
<1>1. /\ traced' = n /\ tracers.current.pc = "differs"
      /\ paths' = [s \in DOMAIN paths \cup {n} |-> IF s = n THEN row ELSE paths[s]]
      /\ tracers' = [tracers EXCEPT !.current = NotTracing]
      /\ UNCHANGED <<route, pushing, pathLog, lost>>
  BY DEF RecordPath, Records
<1>2. /\ traced \in Nat /\ n \in Nat /\ n > traced /\ n \notin 1..traced /\ 1..n = 1..traced \cup {n}
      /\ DOMAIN paths \subseteq 1..traced /\ DOMAIN pathLog \subseteq 1..traced
      /\ tracers \in [current : TracerState, old : TracerState]
  BY DEF PathInv, PathTypeOK
<1>3. tracers.current \in [pc : {"found", "differs"}, hops : Routes]
  BY <1>1, <1>2 DEF TracerState, NotTracing
<1>4. row \in PathRow /\ ~row.submitted /\ row.hops = tracers.current.hops
  BY <1>3 DEF PathRow
<1>5. /\ tracers' \in [current : TracerState, old : TracerState]
      /\ tracers'.current.pc # "differs"
  BY <1>1, <1>2 DEF TracerState, NotTracing
<1> HIDE DEF row
<1>6. /\ DOMAIN paths' = DOMAIN paths \cup {n} /\ paths'[n] = row
      /\ \A s \in DOMAIN paths : paths'[s] = paths[s]
      /\ paths' = [s \in DOMAIN paths' |-> paths'[s]]
  BY <1>1, <1>2
<1> HIDE DEF n
<1>7. PathTypeOK'
  <2>1. \A s \in DOMAIN paths' : s \in 1..n /\ paths'[s] \in PathRow
    BY <1>2, <1>4, <1>6 DEF PathInv, PathTypeOK
  <2> QED
    BY <1>1, <1>2, <1>5, <1>6, <2>1 DEF PathInv, PathTypeOK, Pushed
<1>8. LatestKept' /\ BatchIsTheTable'
  BY <1>1, <1>6 DEF PathInv, LatestKept, BatchIsTheTable, Pushed
<1>9. ASSUME ~lost PROVE NothingIsLost' /\ FromTheOldest' /\ EachIsAChange'
  <2>1. NothingIsLost'
    BY <1>1, <1>2, <1>4, <1>6, <1>9 DEF PathInv, NothingIsLost, Pushed
  <2>2. FromTheOldest'
    BY <1>1, <1>9 DEF PathInv, FromTheOldest, Pushed
  <2>3. \A s \in 1..traced : RecordedAt(s)' = RecordedAt(s)
    <3> SUFFICES ASSUME NEW s \in 1..traced PROVE RecordedAt(s)' = RecordedAt(s)
      OBVIOUS
    <3>1. s \in DOMAIN pathLog \/ s \in DOMAIN paths
      BY <1>9 DEF PathInv, NothingIsLost
    <3> QED
      BY <1>1, <1>6, <3>1 DEF RecordedAt
  <2>4. ASSUME NEW s, s = n PROVE RecordedAt(s)' = tracers.current.hops
    BY <1>1, <1>2, <1>4, <1>6, <2>4 DEF RecordedAt
  <2>5. ASSUME traced > 0 PROVE RecordedAt(traced) # tracers.current.hops
    <3>1. RecordedAt(traced) = paths[traced].hops
      BY <1>2, <1>9, <2>5 DEF PathInv, NothingIsLost, LatestKept, RecordedAt
    <3> QED
      BY <1>1, <1>9, <2>5, <3>1 DEF PathInv, EachIsAChange
  <2>6. ASSUME NEW s \in 1..n, s + 1 <= n PROVE RecordedAt(s)' # RecordedAt(s + 1)'
    <3>1. s \in 1..traced
      BY <1>2, <2>6 DEF n
    <3>2. CASE s + 1 <= traced
      <4>1. s + 1 \in 1..traced /\ RecordedAt(s) # RecordedAt(s + 1)
        BY <1>2, <1>9, <3>1, <3>2 DEF PathInv, EachIsAChange
      <4> QED
        BY <2>3, <3>1, <4>1
    <3>3. CASE s = traced
      <4>1. traced > 0 /\ s + 1 = n /\ traced \in 1..traced
        BY <1>2, <3>1, <3>3 DEF n
      <4> QED
        BY <2>3, <2>4, <2>5, <3>3, <4>1
    <3> QED
      BY <1>2, <3>1, <3>2, <3>3
  <2> QED
    BY <1>1, <1>5, <2>1, <2>2, <2>6 DEF EachIsAChange
<1> QED
  BY <1>1, <1>7, <1>8, <1>9 DEF PathInv

-----------------------------------------------------------------------------
(* The master's table and the agent's show the same past while neither      *)
(* forgets.                                                                 *)
LEMMA StartPathPushStep ==
  ASSUME PathInv, StartPathPush
  PROVE  PathInv'
<1> DEFINE b == [s \in PendingPaths |-> paths[s].hops]
<1>1. /\ pushing = NotPushing /\ pushing' = [pc |-> "sent", batch |-> b]
      /\ UNCHANGED <<route, tracers, paths, pathLog, traced, lost>>
  BY DEF StartPathPush
<1>2. /\ Pushed' /\ pushing'.pc = "sent" /\ pushing'.batch = b
  BY <1>1 DEF Pushed, NotPushing
<1>3. /\ DOMAIN b = PendingPaths /\ PendingPaths \subseteq Unsubmitted
      /\ \A s \in PendingPaths : b[s] = paths[s].hops
  BY DEF PendingPaths
<1> HIDE DEF b
<1>4. PathTypeOK' /\ LatestKept' /\ BatchIsTheTable'
  BY <1>1, <1>2, <1>3 DEF PathInv, PathTypeOK, LatestKept, BatchIsTheTable, Unsubmitted
<1>5. ASSUME ~lost PROVE NothingIsLost' /\ FromTheOldest' /\ EachIsAChange'
  <2>1. NothingIsLost' /\ EachIsAChange'
    BY <1>1, <1>2, <1>5 DEF PathInv, NothingIsLost, EachIsAChange, RecordedAt
  <2>2. ASSUME NEW s \in PendingPaths, NEW r \in 1..s
        PROVE  r \in PendingPaths \cup DOMAIN pathLog
    <3>1. s \in 1..traced /\ traced \in Nat /\ r \in 1..traced
      BY <1>3 DEF Unsubmitted, PathInv, PathTypeOK
    <3>2. r \in DOMAIN pathLog \/ r \in Unsubmitted
      BY <1>5, <3>1 DEF PathInv, NothingIsLost, Unsubmitted
    <3>3. r = s \/ r < s
      BY <3>1
    <3> QED
      BY <3>2, <3>3, OldestGo DEF PathInv
  <2> QED
    BY <1>1, <1>2, <1>3, <1>5, <2>1, <2>2 DEF PathInv, FromTheOldest
<1> QED
  BY <1>1, <1>4, <1>5 DEF PathInv

(* The master takes a submission: it goes on from what the log has. *)
LEMMA HandlePathsStep ==
  ASSUME PathInv, HandlePaths
  PROVE  PathInv'
<1> DEFINE b == pushing.batch
<1>1. /\ pushing.pc = "sent" /\ pathLog' = IngestPaths(b)
      /\ pushing' = [pushing EXCEPT !.pc = "answered"]
      /\ UNCHANGED <<route, tracers, paths, traced, lost>>
  BY DEF HandlePaths
<1>2. Pushed /\ pushing = [pc |-> pushing.pc, batch |-> b]
  BY <1>1 DEF PathInv, PathTypeOK, Pushed, NotPushing
<1>3. Pushed' /\ pushing' = [pc |-> "answered", batch |-> b]
      /\ pushing'.pc = "answered" /\ pushing'.batch = b
  BY <1>1, <1>2 DEF Pushed, NotPushing
<1> HIDE DEF b
<1>4. /\ DOMAIN pathLog' = DOMAIN pathLog \cup DOMAIN b
      /\ \A s \in DOMAIN pathLog : pathLog'[s] = pathLog[s]
      /\ \A s \in DOMAIN b : s \notin DOMAIN pathLog => pathLog'[s] = b[s]
  BY <1>1 DEF IngestPaths
<1>5. \A s \in DOMAIN b : s \in DOMAIN paths /\ s \in 1..traced /\ b[s] = paths[s].hops
  BY <1>2 DEF PathInv, PathTypeOK, BatchIsTheTable, b
<1>6. PathTypeOK' /\ LatestKept' /\ BatchIsTheTable'
  <2>1. PathTypeOK'
    BY <1>1, <1>3, <1>4, <1>5 DEF PathInv, PathTypeOK
  <2> QED
    BY <1>1, <1>3, <1>5, <2>1 DEF PathInv, LatestKept, BatchIsTheTable
<1>7. ASSUME ~lost PROVE NothingIsLost' /\ FromTheOldest' /\ EachIsAChange'
  <2>1. NothingIsLost'
    BY <1>1, <1>3, <1>4, <1>5, <1>7 DEF PathInv, NothingIsLost
  <2>2. FromTheOldest'
    <3>1. \A s \in DOMAIN b : \A r \in 1..s : r \in DOMAIN b \cup DOMAIN pathLog
      BY <1>2, <1>7 DEF PathInv, FromTheOldest, b
    <3> QED
      BY <1>1, <1>3, <1>4, <1>7, <3>1 DEF PathInv, FromTheOldest
  <2>3. \A s \in 1..traced : RecordedAt(s)' = RecordedAt(s)
    BY <1>1, <1>4, <1>5 DEF RecordedAt
  <2>4. \A s \in 1..traced : s + 1 <= traced => s + 1 \in 1..traced
    BY DEF PathInv, PathTypeOK
  <2> HIDE DEF PathInv
  <2> QED
    BY <1>1, <1>7, <2>1, <2>2, <2>3, <2>4 DEF PathInv, EachIsAChange
<1> QED
  BY <1>1, <1>6, <1>7 DEF PathInv

(* The submission ends: dropped by the master, failed, or with the agent.   *)
LEMMA FaultSteps ==
  ASSUME PathInv, DropPaths \/ PushFails \/ AgentRestarts
  PROVE  PathInv'
<1>1. CASE DropPaths
  <2>1. /\ lost' = TRUE /\ pushing.pc = "sent" /\ pushing' = [pushing EXCEPT !.pc = "answered"]
        /\ UNCHANGED <<route, tracers, paths, pathLog, traced>>
    BY <1>1 DEF DropPaths
  <2>2. Pushed /\ pushing = [pc |-> pushing.pc, batch |-> pushing.batch]
    BY <2>1 DEF PathInv, PathTypeOK, Pushed, NotPushing
  <2>3. Pushed' /\ pushing' = [pc |-> "answered", batch |-> pushing.batch]
        /\ pushing'.pc = "answered" /\ pushing'.batch = pushing.batch
    BY <2>1, <2>2 DEF Pushed, NotPushing
  <2> QED
    BY <2>1, <2>2, <2>3 DEF PathInv, PathTypeOK, LatestKept, BatchIsTheTable
<1>2. CASE PushFails
  <2>1. /\ pushing' = NotPushing /\ UNCHANGED <<route, tracers, paths, pathLog, traced, lost>>
    BY <1>2 DEF PushFails
  <2> QED
    BY <2>1 DEF PathInv, PathTypeOK, LatestKept, BatchIsTheTable, Pushed, NothingIsLost,
                FromTheOldest, EachIsAChange, RecordedAt
<1>3. CASE AgentRestarts
  <2>1. /\ pushing' = NotPushing /\ tracers' = [current |-> NotTracing, old |-> NotTracing]
        /\ UNCHANGED <<route, paths, pathLog, traced, lost>>
    BY <1>3 DEF AgentRestarts
  <2>2. tracers' \in [current : TracerState, old : TracerState] /\ tracers'.current.pc # "differs"
    BY <2>1 DEF TracerState, NotTracing
  <2> QED
    BY <2>1, <2>2 DEF PathInv, PathTypeOK, LatestKept, BatchIsTheTable, Pushed, NothingIsLost,
                      FromTheOldest, EachIsAChange, RecordedAt
<1> QED
  BY <1>1, <1>2, <1>3

(* The agent marks what the master has, and forgets all of it but the      *)
(* latest.                                                                 *)
LEMMA SubmittedStep ==
  ASSUME PathInv, PathsSubmitted
  PROVE  PathInv'
<1> DEFINE marked == [s \in DOMAIN paths |-> [paths[s] EXCEPT !.submitted = @ \/ Confirmed(s)]]
           Kept == {r \in DOMAIN paths : (paths[r].submitted \/ Confirmed(r)) => r = traced}
<1>1. /\ pushing.pc = "answered" /\ paths' = Remembers(marked) /\ pushing' = NotPushing
      /\ UNCHANGED <<route, tracers, pathLog, traced, lost>>
  BY DEF PathsSubmitted
<1>2. /\ traced \in Nat /\ \A s \in DOMAIN paths : s \in 1..traced /\ paths[s] \in PathRow
      /\ Pushed
  BY <1>1 DEF PathInv, PathTypeOK, Pushed, NotPushing
<1>3. /\ DOMAIN marked = DOMAIN paths
      /\ \A s \in DOMAIN paths : /\ marked[s] \in PathRow /\ marked[s].hops = paths[s].hops
                                 /\ marked[s].submitted <=> paths[s].submitted \/ Confirmed(s)
  <2> SUFFICES ASSUME NEW s \in DOMAIN paths
               PROVE  /\ marked[s] \in PathRow /\ marked[s].hops = paths[s].hops
                      /\ marked[s].submitted <=> paths[s].submitted \/ Confirmed(s)
    OBVIOUS
  <2>1. Confirmed(s) \in BOOLEAN
    BY DEF Confirmed
  <2>2. marked[s] = [paths[s] EXCEPT !.submitted = paths[s].submitted \/ Confirmed(s)]
    OBVIOUS
  <2> QED
    BY <1>2, <2>1, <2>2 DEF PathRow
<1> HIDE DEF marked
<1>4. ASSUME NEW s \in DOMAIN paths PROVE Newest(marked) = traced
  BY <1>2, <1>3, <1>4, NewestIsTraced DEF PathInv, LatestKept
<1>5. /\ DOMAIN paths' = Kept /\ \A s \in Kept : paths'[s] = marked[s]
      /\ paths' = [s \in DOMAIN paths' |-> paths'[s]]
  <2>1. {r \in DOMAIN marked : marked[r].submitted => r = Newest(marked)} = Kept
    BY <1>3, <1>4 DEF Confirmed
  <2> QED
    BY <1>1, <2>1 DEF Remembers
<1> HIDE DEF Kept
<1>6. PathTypeOK' /\ LatestKept' /\ BatchIsTheTable'
  <2>1. ~Pushed'
    BY <1>1 DEF Pushed
  <2>2. \A s \in DOMAIN paths' : s \in 1..traced /\ paths'[s] \in PathRow
    BY <1>2, <1>3, <1>5 DEF Kept, Confirmed
  <2> QED
    BY <1>1, <1>5, <2>1, <2>2 DEF PathInv, PathTypeOK, LatestKept, BatchIsTheTable, Kept
<1>7. ASSUME ~lost PROVE NothingIsLost' /\ FromTheOldest' /\ EachIsAChange'
  <2>1. DOMAIN pushing.batch \subseteq DOMAIN pathLog
    BY <1>1, <1>2, <1>7 DEF PathInv, NothingIsLost
  <2>2. NothingIsLost'
    <3>1. ASSUME NEW s \in 1..traced, s \notin DOMAIN pathLog
          PROVE  s \in DOMAIN paths' /\ ~paths'[s].submitted
      BY <1>3, <1>5, <1>7, <2>1, <3>1 DEF PathInv, NothingIsLost, Kept, Confirmed
    <3> QED
      BY <1>1, <1>3, <1>5, <1>7, <3>1 DEF PathInv, NothingIsLost, Kept, Pushed, Confirmed
  <2>3. FromTheOldest'
    BY <1>1, <1>7 DEF PathInv, FromTheOldest, Pushed
  <2>4. \A s \in 1..traced : RecordedAt(s)' = RecordedAt(s)
    <3> SUFFICES ASSUME NEW s \in 1..traced PROVE RecordedAt(s)' = RecordedAt(s)
      OBVIOUS
    <3>1. CASE s \in DOMAIN pathLog
      BY <1>1, <3>1 DEF RecordedAt
    <3>2. CASE s \notin DOMAIN pathLog
      <4>1. s \in DOMAIN paths' /\ s \in DOMAIN paths
        BY <1>1, <1>5, <2>2, <3>2 DEF NothingIsLost, Kept
      <4> QED
        BY <1>1, <1>3, <1>5, <3>2, <4>1 DEF RecordedAt, Kept, Confirmed
    <3> QED
      BY <3>1, <3>2
  <2>5. traced > 0 => paths'[traced].hops = paths[traced].hops
    BY <1>3, <1>5 DEF PathInv, LatestKept, Kept, Confirmed
  <2>6. \A s \in 1..traced : s + 1 <= traced => s + 1 \in 1..traced
    BY <1>2
  <2> QED
    BY <1>1, <1>7, <2>2, <2>3, <2>4, <2>5, <2>6 DEF PathInv, EachIsAChange
<1> QED
  BY <1>1, <1>6, <1>7 DEF PathInv

-----------------------------------------------------------------------------
(* Until an answer is lost or rows are dropped, neighbours in the path log *)
(* differ: every row of it marks a change of the route.                    *)
THEOREM PathLogMarksAreChanges == PathSpec => []MarksAreChanges
<1>1. PathInv /\ [PathNext]_pathVars => PathInv'
  <2> SUFFICES ASSUME PathInv, [PathNext]_pathVars PROVE PathInv'
    OBVIOUS
  <2>1. CASE UNCHANGED pathVars
    BY <2>1 DEF pathVars, PathInv, PathTypeOK, LatestKept, BatchIsTheTable, Pushed, NothingIsLost,
                FromTheOldest, EachIsAChange, RecordedAt
  <2>2. CASE \E who \in {"current", "old"} : RecordPath(who)
    BY <2>2, RecordStep
  <2> QED
    BY <2>1, <2>2, TracerSteps, StartPathPushStep, HandlePathsStep, SubmittedStep, FaultSteps
       DEF PathNext
<1>2. PathInv => MarksAreChanges
  <2> SUFFICES ASSUME PathInv, ~lost, NEW r \in DOMAIN pathLog, NEW s \in DOMAIN pathLog,
                      r < s, pathLog[r] = pathLog[s]
               PROVE  \E m \in DOMAIN pathLog : r < m /\ m < s
    BY DEF MarksAreChanges
  <2>1. /\ traced \in Nat /\ r \in 1..traced /\ s \in 1..traced
        /\ RecordedAt(r) = RecordedAt(s)
    BY DEF PathInv, PathTypeOK, RecordedAt
  <2>2. r + 1 # s
    BY <2>1 DEF PathInv, EachIsAChange
  <2>3. r + 1 \in 1..s /\ r + 1 < s
    BY <2>1, <2>2
  <2>4. r + 1 \in DOMAIN pathLog
    BY <2>3 DEF PathInv, FromTheOldest
  <2> QED
    BY <2>1, <2>3, <2>4
<1> QED
  BY <1>1, <1>2, PathInitInv, PTL DEF PathSpec

-----------------------------------------------------------------------------
(* The queue.                                                              *)

(* How many batches have left the channel: it holds the rest, in order.     *)
GoneOut == Len(entered) - Len(ch)

InHands(b) == worker.pc = "send" /\ worker.batch = b

ChannelHoldsTheRest ==
  /\ entered \in Seq(Batches) /\ Len(ch) <= Len(entered)
  /\ \A i \in 1..Len(ch) : ch[i] = entered[GoneOut + i]

(* No batch is put into the channel twice.                                  *)
EachEntersOnce ==
  /\ \A x, y \in 1..Len(entered) : entered[x] = entered[y] => x = y
  /\ \A x \in 1..Len(entered), p \in Producers :
       entered[x][1] = p => /\ entered[x][2] <= posted[p]
                            /\ producer[p] # "idle" => entered[x][2] < posted[p]
  /\ \A p \in Producers : producer[p] # "idle" => posted[p] > 0

(* What left is in the worker's hands or counted, and nothing else is.      *)
WhatLeftIsCounted ==
  /\ \A x \in 1..Len(entered) :
       IF x <= GoneOut THEN InHands(entered[x]) <=> outcome[entered[x]] = "none"
                       ELSE ~InHands(entered[x]) /\ outcome[entered[x]] = "none"
  /\ \A b \in Batches : InHands(b) \/ outcome[b] # "none" => \E x \in 1..Len(entered) : entered[x] = b

TakenInOrder ==
  /\ taken \in Seq(Batches)
  /\ \A i \in 1..Len(taken) : \E x \in 1..Len(entered) : x <= GoneOut /\ entered[x] = taken[i]
  /\ \A i, j \in 1..Len(taken) : \A x, y \in 1..Len(entered) :
       i < j /\ entered[x] = taken[i] /\ entered[y] = taken[j] => x < y

(* Whoever drops the last batch has the next one in hand.                   *)
TheLastIsKept ==
  /\ entered # <<>>
  /\ outcome[entered[Len(entered)]] = "dropped"
  => \E p \in Producers : producer[p] # "idle"

(* The worker goes for good only when the channel is empty, and after       *)
(* CloseQueue was called.                                                   *)
WorkerLeavesNothing ==
  /\ worker.pc \in {"drain", "done"} \/ (worker.pc = "send" /\ worker.draining) => closing # "open"
  /\ closing = "closed" => worker.pc = "done"
  /\ \A b \in before : \E x \in 1..Len(entered) : entered[x] = b
  /\ worker.pc = "done" => \A b \in before : outcome[b] # "none"

QueueInv ==
  /\ QueueTypeOK /\ ChannelHoldsTheRest /\ EachEntersOnce /\ WhatLeftIsCounted
  /\ TakenInOrder /\ TheLastIsKept /\ WorkerLeavesNothing

-----------------------------------------------------------------------------
(* The lengths, and that what is counted is in the channel's history.       *)
LEMMA QueueLengths ==
  ASSUME QueueInv
  PROVE  /\ Len(ch) \in Nat /\ Len(entered) \in Nat /\ Len(taken) \in Nat
         /\ DOMAIN ch = 1..Len(ch) /\ DOMAIN entered = 1..Len(entered) /\ DOMAIN taken = 1..Len(taken)
         /\ GoneOut \in Nat /\ GoneOut <= Len(entered) /\ Len(ch) = Len(entered) - GoneOut
         /\ ch \in Seq(Batches)
         /\ \A x \in 1..Len(entered) : entered[x] \in Batches
<1>1. ch \in Seq(Batches) /\ entered \in Seq(Batches) /\ taken \in Seq(Batches)
      /\ Len(ch) <= Len(entered)
  BY DEF QueueInv, QueueTypeOK, ChannelHoldsTheRest, TakenInOrder
<1>2. /\ Len(ch) \in Nat /\ Len(entered) \in Nat /\ Len(taken) \in Nat
      /\ DOMAIN ch = 1..Len(ch) /\ DOMAIN entered = 1..Len(entered) /\ DOMAIN taken = 1..Len(taken)
      /\ entered \in [1..Len(entered) -> Batches]
  BY <1>1, LenProperties
<1> QED
  BY <1>1, <1>2 DEF GoneOut

(* The batch at the head of the channel is the first that has not left: in  *)
(* nobody's hands, and not counted.                                         *)
LEMMA TheHead ==
  ASSUME QueueInv, ch # <<>>
  PROVE  /\ GoneOut + 1 \in 1..Len(entered)
         /\ Head(ch) \in Batches /\ Head(ch) = entered[GoneOut + 1]
         /\ \A x \in 1..Len(entered) : entered[x] = Head(ch) => x = GoneOut + 1
         /\ Tail(ch) \in Seq(Batches) /\ Len(Tail(ch)) \in Nat /\ Len(Tail(ch)) = Len(ch) - 1
         /\ \A i \in 1..Len(Tail(ch)) : Tail(ch)[i] = entered[GoneOut + 1 + i]
         /\ outcome[Head(ch)] = "none" /\ ~InHands(Head(ch))
<1>1. /\ Len(ch) \in Nat /\ Len(entered) \in Nat /\ GoneOut \in Nat /\ Len(ch) = Len(entered) - GoneOut
      /\ ch \in Seq(Batches)
  BY QueueLengths
<1>2. /\ Head(ch) \in Batches /\ Tail(ch) \in Seq(Batches) /\ Len(Tail(ch)) = Len(ch) - 1
      /\ \A i \in 1..Len(Tail(ch)) : Tail(ch)[i] = ch[i + 1]
  BY <1>1, HeadTailProperties
<1>3. Len(ch) > 0 /\ Head(ch) = ch[1]
  BY <1>1
<1>4. /\ Len(Tail(ch)) \in Nat /\ 1 \in 1..Len(ch) /\ GoneOut + 1 \in 1..Len(entered)
      /\ \A i \in 1..Len(Tail(ch)) : i + 1 \in 1..Len(ch) /\ GoneOut + (i + 1) = GoneOut + 1 + i
  BY <1>1, <1>2, <1>3
<1>5. \A i \in 1..Len(ch) : ch[i] = entered[GoneOut + i]
  BY DEF QueueInv, ChannelHoldsTheRest
<1>6. Head(ch) = entered[GoneOut + 1]
  BY <1>3, <1>4, <1>5
<1>7. \A i \in 1..Len(Tail(ch)) : Tail(ch)[i] = entered[GoneOut + 1 + i]
  BY <1>2, <1>4, <1>5
<1>8. \A x \in 1..Len(entered) : entered[x] = Head(ch) => x = GoneOut + 1
  BY <1>4, <1>6 DEF QueueInv, EachEntersOnce
<1>9. ~(GoneOut + 1 <= GoneOut)
  BY <1>1
<1>10. outcome[Head(ch)] = "none" /\ ~InHands(Head(ch))
  BY <1>4, <1>6, <1>9 DEF QueueInv, WhatLeftIsCounted
<1> QED
  BY <1>2, <1>4, <1>6, <1>7, <1>8, <1>10

(* What the channel looks like once its head is gone.                       *)
LEMMA HeadGone ==
  ASSUME QueueInv, ch # <<>>, ch' = Tail(ch), entered' = entered
  PROVE  GoneOut' = GoneOut + 1 /\ ChannelHoldsTheRest'
<1>1. /\ Len(ch) \in Nat /\ Len(entered) \in Nat /\ GoneOut \in Nat /\ Len(ch) = Len(entered) - GoneOut
      /\ entered \in Seq(Batches)
  BY QueueLengths DEF QueueInv, ChannelHoldsTheRest
<1>2. Len(ch') = Len(ch) - 1 /\ \A i \in 1..Len(ch') : ch'[i] = entered[GoneOut + 1 + i]
  BY TheHead
<1>3. GoneOut' = GoneOut + 1
  BY <1>1, <1>2 DEF GoneOut
<1> QED
  BY <1>1, <1>2, <1>3 DEF ChannelHoldsTheRest

(* At first nothing has entered the channel. *)
LEMMA QueueInitInv == QueueInit => QueueInv
<1> SUFFICES ASSUME QueueInit PROVE QueueInv
  OBVIOUS
<1>1. /\ ch = <<>> /\ entered = <<>> /\ taken = <<>> /\ before = {}
      /\ producer = [p \in Producers |-> "idle"] /\ posted = [p \in Producers |-> 0]
      /\ worker.pc = "select" /\ closing = "open" /\ outcome = [b \in Batches |-> "none"]
  BY DEF QueueInit, Working
<1>2. /\ ch \in Seq(Batches) /\ entered \in Seq(Batches) /\ taken \in Seq(Batches)
      /\ Len(ch) = 0 /\ Len(entered) = 0 /\ Len(taken) = 0
  BY <1>1
<1>3. QueueTypeOK
  BY <1>1, <1>2, QueueAssumption DEF QueueTypeOK
<1>4. ChannelHoldsTheRest
  BY <1>1, <1>2 DEF ChannelHoldsTheRest
<1>5. EachEntersOnce /\ WhatLeftIsCounted
  BY <1>1, <1>2 DEF EachEntersOnce, WhatLeftIsCounted, InHands
<1>6. TakenInOrder /\ TheLastIsKept /\ WorkerLeavesNothing
  BY <1>1, <1>2 DEF TakenInOrder, TheLastIsKept, WorkerLeavesNothing
<1> QED
  BY <1>3, <1>4, <1>5, <1>6 DEF QueueInv

-----------------------------------------------------------------------------
(* A producer has its next batch in hand. *)
LEMMA NotifyStep ==
  ASSUME QueueInv, NEW p \in Producers, NotifyQueue(p)
  PROVE  QueueInv'
<1>1. /\ producer[p] = "idle" /\ posted[p] < MaxPosts
      /\ posted' = [posted EXCEPT ![p] = @ + 1] /\ producer' = [producer EXCEPT ![p] = "put"]
      /\ UNCHANGED <<ch, worker, closing, outcome, entered, taken, before>>
  BY DEF NotifyQueue
<1>2. /\ posted \in [Producers -> 0..MaxPosts] /\ MaxPosts \in Nat
      /\ producer \in [Producers -> {"idle", "put", "evict"}]
  BY QueueAssumption DEF QueueInv, QueueTypeOK
<1>3. /\ posted' \in [Producers -> 0..MaxPosts] /\ producer' \in [Producers -> {"idle", "put", "evict"}]
      /\ posted'[p] = posted[p] + 1 /\ producer'[p] = "put"
      /\ \A q \in Producers : q # p => posted'[q] = posted[q] /\ producer'[q] = producer[q]
  BY <1>1, <1>2
<1>4. QueueTypeOK' /\ ChannelHoldsTheRest'
  BY <1>1, <1>3 DEF QueueInv, QueueTypeOK, ChannelHoldsTheRest, GoneOut
<1>5. EachEntersOnce'
  <2>1. \A x \in 1..Len(entered) : entered[x][2] \in Nat
    BY QueueLengths DEF Batches
  <2>2. \A x \in 1..Len(entered), q \in Producers :
          entered[x][1] = q => /\ entered[x][2] <= posted'[q]
                               /\ producer'[q] # "idle" => entered[x][2] < posted'[q]
    <3> SUFFICES ASSUME NEW x \in 1..Len(entered), NEW q \in Producers, entered[x][1] = q
                 PROVE  /\ entered[x][2] <= posted'[q]
                        /\ producer'[q] # "idle" => entered[x][2] < posted'[q]
      OBVIOUS
    <3>1. /\ entered[x][2] <= posted[q]
          /\ producer[q] # "idle" => entered[x][2] < posted[q]
      BY DEF QueueInv, EachEntersOnce
    <3>2. CASE q = p
      BY <1>2, <1>3, <2>1, <3>1, <3>2
    <3>3. CASE q # p
      BY <1>3, <3>1, <3>3
    <3> QED
      BY <3>2, <3>3
  <2>3. \A q \in Producers : producer'[q] # "idle" => posted'[q] > 0
    BY <1>2, <1>3 DEF QueueInv, EachEntersOnce
  <2> QED
    BY <1>1, <2>2, <2>3 DEF QueueInv, EachEntersOnce
<1>6. WhatLeftIsCounted' /\ TakenInOrder'
  <2>1. WhatLeftIsCounted'
    BY <1>1 DEF QueueInv, WhatLeftIsCounted, GoneOut, InHands
  <2>2. TakenInOrder'
    BY <1>1 DEF QueueInv, TakenInOrder, GoneOut
  <2> QED
    BY <2>1, <2>2
<1>7. TheLastIsKept' /\ WorkerLeavesNothing'
  BY <1>1, <1>3 DEF QueueInv, TheLastIsKept, WorkerLeavesNothing
<1> QED
  BY <1>4, <1>5, <1>6, <1>7 DEF QueueInv

(* A batch enters the channel as its last. *)
LEMMA PutStep ==
  ASSUME QueueInv, NEW p \in Producers, PutBatch(p)
  PROVE  QueueInv'
<1>1. /\ producer[p] = "put"
      /\ UNCHANGED <<posted, worker, closing, outcome, taken, before>>
  BY DEF PutBatch
<1>2. producer \in [Producers -> {"idle", "put", "evict"}]
  BY DEF QueueInv, QueueTypeOK
<1>3. CASE ~HasRoom
  <2>1. producer' = [producer EXCEPT ![p] = "evict"] /\ UNCHANGED <<ch, entered>>
    BY <1>3 DEF PutBatch
  <2>2. /\ producer' \in [Producers -> {"idle", "put", "evict"}] /\ producer'[p] # "idle"
        /\ \A q \in Producers : producer'[q] # "idle" <=> producer[q] # "idle"
    BY <1>1, <1>2, <2>1
  <2>3. QueueTypeOK' /\ ChannelHoldsTheRest'
    BY <1>1, <2>1, <2>2 DEF QueueInv, QueueTypeOK, ChannelHoldsTheRest, GoneOut
  <2>4. EachEntersOnce' /\ WhatLeftIsCounted' /\ TakenInOrder'
    BY <1>1, <2>1, <2>2
       DEF QueueInv, EachEntersOnce, WhatLeftIsCounted, TakenInOrder, GoneOut, InHands
  <2>5. TheLastIsKept' /\ WorkerLeavesNothing'
    BY <1>1, <2>1, <2>2 DEF QueueInv, TheLastIsKept, WorkerLeavesNothing
  <2> QED
    BY <2>3, <2>4, <2>5 DEF QueueInv
<1>4. CASE HasRoom
  <2> DEFINE b == Handing(p)
             n == Len(entered) + 1
  <2>1. /\ ch' = Append(ch, b) /\ entered' = Append(entered, b)
        /\ producer' = [producer EXCEPT ![p] = "idle"] /\ Len(ch) < QueueSize
    BY <1>4 DEF PutBatch, HasRoom
  <2>2. /\ Len(ch) \in Nat /\ Len(entered) \in Nat /\ GoneOut \in Nat /\ GoneOut <= Len(entered)
        /\ Len(ch) = Len(entered) - GoneOut /\ ch \in Seq(Batches) /\ entered \in Seq(Batches)
        /\ QueueSize \in Nat /\ MaxPosts \in Nat
    BY QueueLengths, QueueAssumption DEF QueueInv, ChannelHoldsTheRest
  <2>3. b = <<p, posted[p]>> /\ posted[p] \in 1..MaxPosts
    BY <1>1, QueueAssumption DEF Handing, QueueInv, QueueTypeOK, EachEntersOnce
  <2>4. b \in Batches /\ b[1] = p /\ b[2] = posted[p]
    BY <2>3 DEF Batches
  <2>5. \A x \in 1..Len(entered) : entered[x] # b
    <3> SUFFICES ASSUME NEW x \in 1..Len(entered), entered[x] = b PROVE FALSE
      OBVIOUS
    <3> HIDE DEF b
    <3>1. entered[x][1] = p /\ producer[p] # "idle" => entered[x][2] < posted[p]
      BY DEF QueueInv, EachEntersOnce
    <3>2. posted[p] < posted[p]
      BY <1>1, <2>4, <3>1
    <3> QED
      BY <2>2, <2>3, <3>2
  <2>6. outcome[b] = "none" /\ ~InHands(b)
    BY <2>4, <2>5 DEF QueueInv, WhatLeftIsCounted
  <2> HIDE DEF b
  <2>7. /\ ch' \in Seq(Batches) /\ entered' \in Seq(Batches)
        /\ Len(ch') = Len(ch) + 1 /\ Len(entered') = n
        /\ ch'[Len(ch) + 1] = b /\ entered'[n] = b
        /\ \A i \in 1..Len(ch) : ch'[i] = ch[i]
        /\ \A x \in 1..Len(entered) : entered'[x] = entered[x]
    BY <2>1, <2>2, <2>4, AppendProperties
  <2>8. GoneOut' = GoneOut
    BY <2>2, <2>7 DEF GoneOut
  <2>9. 1..Len(entered') = 1..Len(entered) \cup {n} /\ n \notin 1..Len(entered) /\ GoneOut < n
        /\ n \in Nat /\ 1..Len(ch') = 1..Len(ch) \cup {Len(ch) + 1} /\ GoneOut + (Len(ch) + 1) = n
    BY <2>2, <2>7
  <2>10. /\ producer' \in [Producers -> {"idle", "put", "evict"}] /\ producer'[p] = "idle"
         /\ \A q \in Producers : q # p => producer'[q] = producer[q]
    BY <1>2, <2>1
  <2> HIDE DEF n
  <2>11. QueueTypeOK'
    BY <1>1, <2>1, <2>2, <2>7, <2>10 DEF QueueInv, QueueTypeOK
  <2>12. ChannelHoldsTheRest'
    <3>1. \A i \in 1..Len(ch) : ch[i] = entered[GoneOut + i] /\ GoneOut + i \in 1..Len(entered)
      BY <2>2 DEF QueueInv, ChannelHoldsTheRest
    <3>2. \A i \in 1..Len(ch') : ch'[i] = entered'[GoneOut + i]
      BY <2>7, <2>9, <3>1
    <3>3. Len(ch') <= Len(entered')
      BY <2>2, <2>7, <2>9 DEF n
    <3> QED
      BY <2>7, <2>8, <3>2, <3>3 DEF ChannelHoldsTheRest
  <2>13. EachEntersOnce'
    <3>1. \A x, y \in 1..Len(entered') : entered'[x] = entered'[y] => x = y
      BY <2>5, <2>7, <2>9 DEF QueueInv, EachEntersOnce
    <3>2. ASSUME NEW x \in 1..Len(entered'), NEW q \in Producers, entered'[x][1] = q
          PROVE  /\ entered'[x][2] <= posted[q]
                 /\ producer'[q] # "idle" => entered'[x][2] < posted[q]
      <4>1. CASE x = n
        BY <2>3, <2>4, <2>7, <2>10, <3>2, <4>1
      <4>2. CASE x \in 1..Len(entered)
        BY <2>7, <2>10, <3>2, <4>2 DEF QueueInv, EachEntersOnce
      <4> QED
        BY <2>9, <4>1, <4>2
    <3> QED
      BY <1>1, <2>10, <3>1, <3>2 DEF QueueInv, EachEntersOnce
  <2>14. WhatLeftIsCounted'
    <3>1. ASSUME NEW x \in 1..Len(entered')
          PROVE  IF x <= GoneOut THEN InHands(entered'[x]) <=> outcome[entered'[x]] = "none"
                                 ELSE ~InHands(entered'[x]) /\ outcome[entered'[x]] = "none"
      <4>1. CASE x = n
        <5>1. ~(n <= GoneOut)
          BY <2>2, <2>9
        <5> QED
          BY <2>6, <2>7, <4>1, <5>1
      <4>2. CASE x \in 1..Len(entered)
        BY <2>7, <4>2 DEF QueueInv, WhatLeftIsCounted
      <4> QED
        BY <2>9, <4>1, <4>2
    <3>2. \A c \in Batches : InHands(c) \/ outcome[c] # "none" => \E x \in 1..Len(entered') : entered'[x] = c
      BY <2>7, <2>9 DEF QueueInv, WhatLeftIsCounted
    <3> QED
      BY <1>1, <2>8, <3>1, <3>2 DEF WhatLeftIsCounted, InHands
  <2>15. TakenInOrder'
    <3>1. \A i \in 1..Len(taken) : \E x \in 1..Len(entered) : x <= GoneOut /\ entered[x] = taken[i]
      BY DEF QueueInv, TakenInOrder
    <3>2. \A i \in 1..Len(taken) : taken[i] # b
      BY <2>5, <3>1
    <3>3. \A i, j \in 1..Len(taken) : \A x, y \in 1..Len(entered') :
            i < j /\ entered'[x] = taken[i] /\ entered'[y] = taken[j] => x < y
      <4> SUFFICES ASSUME NEW i \in 1..Len(taken), NEW j \in 1..Len(taken),
                          NEW x \in 1..Len(entered'), NEW y \in 1..Len(entered'),
                          i < j, entered'[x] = taken[i], entered'[y] = taken[j]
                   PROVE  x < y
        OBVIOUS
      <4>1. x # n /\ y # n
        BY <2>7, <3>2
      <4>2. x \in 1..Len(entered) /\ y \in 1..Len(entered)
        BY <2>9, <4>1
      <4> QED
        BY <2>7, <4>2 DEF QueueInv, TakenInOrder
    <3> QED
      <4>1. taken \in Seq(Batches)
        BY DEF QueueInv, TakenInOrder
      <4>2. \A i \in 1..Len(taken) : \E x \in 1..Len(entered') : x <= GoneOut' /\ entered'[x] = taken[i]
        <5> SUFFICES ASSUME NEW i \in 1..Len(taken)
                     PROVE  \E x \in 1..Len(entered') : x <= GoneOut' /\ entered'[x] = taken[i]
          OBVIOUS
        <5>1. PICK x \in 1..Len(entered) : x <= GoneOut /\ entered[x] = taken[i]
          BY <3>1
        <5>2. x \in 1..Len(entered') /\ entered'[x] = entered[x]
          BY <2>7, <2>9
        <5> QED
          BY <2>8, <5>1, <5>2
      <4> QED
        BY <1>1, <3>3, <4>1, <4>2 DEF TakenInOrder
  <2>16. TheLastIsKept' /\ WorkerLeavesNothing'
    <3>1. outcome'[entered'[Len(entered')]] = "none"
      BY <1>1, <2>6, <2>7
    <3>2. \A c \in before : \E x \in 1..Len(entered') : entered'[x] = c
      BY <2>7, <2>9 DEF QueueInv, WorkerLeavesNothing
    <3> QED
      BY <1>1, <3>1, <3>2 DEF QueueInv, TheLastIsKept, WorkerLeavesNothing
  <2> QED
    BY <2>11, <2>12, <2>13, <2>14, <2>15, <2>16 DEF QueueInv
<1> QED
  BY <1>3, <1>4

(* A producer drops the head of a full channel; the batch it has in hand   *)
(* is newer.                                                               *)
LEMMA EvictStep ==
  ASSUME QueueInv, NEW p \in Producers, EvictFor(p)
  PROVE  QueueInv'
<1>1. /\ producer[p] = "evict" /\ producer' = [producer EXCEPT ![p] = "put"]
      /\ UNCHANGED <<posted, worker, closing, entered, taken, before>>
  BY DEF EvictFor, EvictOldest
<1>2. /\ producer' \in [Producers -> {"idle", "put", "evict"}] /\ producer'[p] # "idle"
      /\ \A q \in Producers : producer'[q] # "idle" <=> producer[q] # "idle"
  BY <1>1 DEF QueueInv, QueueTypeOK
<1>3. EachEntersOnce'
  BY <1>1, <1>2 DEF QueueInv, EachEntersOnce
<1>4. TheLastIsKept'
  BY <1>2 DEF TheLastIsKept
<1>5. CASE ch = <<>> /\ UNCHANGED <<ch, outcome>>
  <2>1. QueueTypeOK' /\ ChannelHoldsTheRest'
    BY <1>1, <1>2, <1>5 DEF QueueInv, QueueTypeOK, ChannelHoldsTheRest, GoneOut
  <2>2. WhatLeftIsCounted' /\ TakenInOrder' /\ WorkerLeavesNothing'
    BY <1>1, <1>5 DEF QueueInv, WhatLeftIsCounted, TakenInOrder, WorkerLeavesNothing, GoneOut, InHands
  <2> QED
    BY <1>3, <1>4, <2>1, <2>2 DEF QueueInv
<1>6. CASE ch # <<>> /\ EvictOldest(p)
  <2> DEFINE b == Head(ch)
  <2>1. ch' = Tail(ch) /\ outcome' = [outcome EXCEPT ![b] = "dropped"]
    BY <1>6 DEF EvictOldest
  <2>2. /\ b \in Batches /\ GoneOut + 1 \in 1..Len(entered) /\ b = entered[GoneOut + 1]
        /\ \A x \in 1..Len(entered) : entered[x] = b => x = GoneOut + 1
        /\ ch' \in Seq(Batches) /\ Len(ch') = Len(ch) - 1
        /\ outcome[b] = "none" /\ ~InHands(b)
    BY <1>6, <2>1, TheHead
  <2>3. GoneOut' = GoneOut + 1 /\ ChannelHoldsTheRest'
    BY <1>1, <1>6, <2>1, HeadGone
  <2>4. /\ Len(ch) \in Nat /\ Len(entered) \in Nat /\ GoneOut \in Nat
        /\ \A x \in 1..Len(entered) : entered[x] \in Batches
    BY QueueLengths
  <2> HIDE DEF b
  <2>5. /\ outcome' \in [Batches -> {"none", "ok", "failed", "dropped"}] /\ outcome'[b] = "dropped"
        /\ \A c \in Batches : c # b => outcome'[c] = outcome[c]
    BY <2>1, <2>2 DEF QueueInv, QueueTypeOK
  <2>6. QueueTypeOK'
    <3>1. Len(ch') <= QueueSize
      BY <2>2, <2>4, QueueAssumption DEF QueueInv, QueueTypeOK
    <3> QED
      BY <1>1, <1>2, <2>2, <2>5, <3>1 DEF QueueInv, QueueTypeOK
  <2>7. WhatLeftIsCounted'
    <3>1. ASSUME NEW x \in 1..Len(entered)
          PROVE  IF x <= GoneOut + 1
                 THEN InHands(entered[x]) <=> outcome'[entered[x]] = "none"
                 ELSE ~InHands(entered[x]) /\ outcome'[entered[x]] = "none"
      <4>1. IF x <= GoneOut THEN InHands(entered[x]) <=> outcome[entered[x]] = "none"
                            ELSE ~InHands(entered[x]) /\ outcome[entered[x]] = "none"
        BY DEF QueueInv, WhatLeftIsCounted
      <4>2. CASE x = GoneOut + 1
        BY <2>2, <2>4, <2>5, <4>2
      <4>3. CASE x # GoneOut + 1
        <5>1. outcome'[entered[x]] = outcome[entered[x]]
          BY <2>2, <2>4, <2>5, <4>3
        <5>2. x <= GoneOut + 1 <=> x <= GoneOut
          BY <2>4, <4>3
        <5> QED
          BY <4>1, <5>1, <5>2
      <4> QED
        BY <4>2, <4>3
    <3>2. \A c \in Batches : InHands(c) \/ outcome'[c] # "none" => \E x \in 1..Len(entered) : entered[x] = c
      BY <2>2, <2>5 DEF QueueInv, WhatLeftIsCounted
    <3> QED
      BY <1>1, <2>3, <3>1, <3>2 DEF WhatLeftIsCounted, InHands
  <2>8. TakenInOrder'
    <3>1. \A x \in 1..Len(entered) : x <= GoneOut => x <= GoneOut + 1
      BY <2>4
    <3> QED
      BY <1>1, <2>3, <3>1 DEF QueueInv, TakenInOrder
  <2>9. WorkerLeavesNothing'
    <3>1. \A c \in before : c \in Batches
      BY DEF QueueInv, QueueTypeOK
    <3> QED
      BY <1>1, <2>5, <3>1 DEF QueueInv, WorkerLeavesNothing
  <2> QED
    BY <1>3, <1>4, <2>3, <2>6, <2>7, <2>8, <2>9 DEF QueueInv
<1> QED
  BY <1>5, <1>6 DEF EvictFor

-----------------------------------------------------------------------------
(* The worker takes the head. *)
LEMMA TakeStep ==
  ASSUME QueueInv, TakeBatch
  PROVE  QueueInv'
<1> DEFINE b == Head(ch)
<1>1. /\ worker.pc \in {"select", "drain"} /\ ch # <<>> /\ ch' = Tail(ch)
      /\ worker' = [pc |-> "send", batch |-> b, draining |-> worker.pc = "drain", live |-> closing # "over"]
      /\ taken' = Append(taken, b)
      /\ UNCHANGED <<producer, posted, closing, outcome, entered, before>>
  BY DEF TakeBatch, SendingFrom
<1>2. /\ b \in Batches /\ GoneOut + 1 \in 1..Len(entered) /\ b = entered[GoneOut + 1]
      /\ \A x \in 1..Len(entered) : entered[x] = b => x = GoneOut + 1
      /\ ch' \in Seq(Batches) /\ Len(ch') = Len(ch) - 1
      /\ outcome[b] = "none"
  BY <1>1, TheHead
<1>3. GoneOut' = GoneOut + 1 /\ ChannelHoldsTheRest'
  BY <1>1, HeadGone
<1>4. /\ Len(ch) \in Nat /\ Len(entered) \in Nat /\ Len(taken) \in Nat /\ GoneOut \in Nat
      /\ \A x \in 1..Len(entered) : entered[x] \in Batches
      /\ taken \in Seq(Batches)
  BY QueueLengths DEF QueueInv, TakenInOrder
<1> HIDE DEF b
<1>5. /\ worker'.pc = "send" /\ worker'.batch = b /\ worker'.draining = (worker.pc = "drain")
      /\ worker'.live = (closing # "over")
  BY <1>1
<1>6. /\ \A c \in Batches : ~InHands(c)
      /\ \A c \in Batches : InHands(c)' <=> c = b
  BY <1>1, <1>5 DEF InHands
<1>7. QueueTypeOK'
  <2>1. Len(ch') <= QueueSize
    BY <1>2, <1>4, QueueAssumption DEF QueueInv, QueueTypeOK
  <2>2. {worker'.draining, worker'.live} \subseteq BOOLEAN
    BY <1>5
  <2> QED
    BY <1>1, <1>2, <1>5, <2>1, <2>2 DEF QueueInv, QueueTypeOK
<1>8. EachEntersOnce' /\ TheLastIsKept'
  BY <1>1 DEF QueueInv, EachEntersOnce, TheLastIsKept
<1>9. WhatLeftIsCounted'
  <2>1. ASSUME NEW x \in 1..Len(entered)
        PROVE  IF x <= GoneOut + 1
               THEN InHands(entered[x])' <=> outcome[entered[x]] = "none"
               ELSE ~InHands(entered[x])' /\ outcome[entered[x]] = "none"
    <3>1. IF x <= GoneOut THEN outcome[entered[x]] # "none" ELSE outcome[entered[x]] = "none"
      BY <1>4, <1>6 DEF QueueInv, WhatLeftIsCounted
    <3>2. InHands(entered[x])' <=> entered[x] = b
      BY <1>1, <1>5 DEF InHands
    <3>3. entered[x] = b <=> x = GoneOut + 1
      BY <1>2
    <3> QED
      BY <1>4, <3>1, <3>2, <3>3
  <2>2. \A c \in Batches : c = b \/ outcome[c] # "none" => \E x \in 1..Len(entered) : entered[x] = c
    BY <1>2 DEF QueueInv, WhatLeftIsCounted
  <2> QED
    BY <1>1, <1>3, <1>5, <2>1, <2>2 DEF WhatLeftIsCounted, InHands
<1>10. TakenInOrder'
  <2> DEFINE n == Len(taken) + 1
  <2>1. /\ taken' \in Seq(Batches) /\ Len(taken') = n /\ taken'[n] = b
        /\ \A i \in 1..Len(taken) : taken'[i] = taken[i]
    BY <1>1, <1>2, <1>4, AppendProperties
  <2>2. 1..Len(taken') = 1..Len(taken) \cup {n} /\ \A i \in 1..Len(taken) : i < n
    BY <1>4, <2>1
  <2> HIDE DEF n
  <2>3. \A i \in 1..Len(taken') : \E x \in 1..Len(entered) : x <= GoneOut + 1 /\ entered[x] = taken'[i]
    <3>1. \A x \in 1..Len(entered) : x <= GoneOut => x <= GoneOut + 1
      BY <1>4
    <3>2. GoneOut + 1 <= GoneOut + 1
      BY <1>4
    <3> QED
      BY <1>2, <2>1, <2>2, <3>1, <3>2 DEF QueueInv, TakenInOrder
  <2>4. ASSUME NEW i \in 1..Len(taken'), NEW j \in 1..Len(taken'),
               NEW x \in 1..Len(entered), NEW y \in 1..Len(entered),
               i < j, entered[x] = taken'[i], entered[y] = taken'[j]
        PROVE  x < y
    <3>1. i \in 1..Len(taken)
      BY <1>4, <2>1, <2>2, <2>4 DEF n
    <3>2. CASE j = n
      <4>1. y = GoneOut + 1
        BY <1>2, <2>1, <2>4, <3>2
      <4>2. PICK z \in 1..Len(entered) : z <= GoneOut /\ entered[z] = entered[x]
        BY <2>1, <2>4, <3>1 DEF QueueInv, TakenInOrder
      <4>3. z = x
        BY <4>2 DEF QueueInv, EachEntersOnce
      <4> QED
        BY <1>4, <4>1, <4>2, <4>3
    <3>3. CASE j \in 1..Len(taken)
      BY <2>1, <2>4, <3>1, <3>3 DEF QueueInv, TakenInOrder
    <3> QED
      BY <2>2, <3>2, <3>3
  <2>5. GoneOut' = GoneOut + 1 /\ entered' = entered
    BY <1>1, <1>3
  <2>6. \A i \in 1..Len(taken') :
          \E x \in 1..Len(entered') : x <= GoneOut' /\ entered'[x] = taken'[i]
    BY <2>3, <2>5
  <2>7. \A i, j \in 1..Len(taken') : \A x, y \in 1..Len(entered') :
          i < j /\ entered'[x] = taken'[i] /\ entered'[y] = taken'[j] => x < y
    BY <2>4, <2>5
  <2> QED
    BY <2>1, <2>6, <2>7 DEF TakenInOrder
<1>11. WorkerLeavesNothing'
  <2>1. worker.pc = "drain" => closing # "open"
    BY DEF QueueInv, WorkerLeavesNothing
  <2>2. closing # "closed"
    BY <1>1 DEF QueueInv, WorkerLeavesNothing
  <2> QED
    BY <1>1, <1>5, <2>1, <2>2 DEF QueueInv, WorkerLeavesNothing
<1> QED
  BY <1>3, <1>7, <1>8, <1>9, <1>10, <1>11 DEF QueueInv

(* What the worker has in hand is handled. *)
LEMMA SendStep ==
  ASSUME QueueInv, NEW result \in {"ok", "failed"}, SendBatch(result)
  PROVE  QueueInv'
<1> DEFINE b == worker.batch
<1>1. /\ worker.pc = "send" /\ outcome' = [outcome EXCEPT ![b] = result]
      /\ worker' = [pc |-> IF worker.draining THEN "drain" ELSE "select"]
      /\ UNCHANGED <<ch, producer, posted, closing, entered, taken, before>>
  BY DEF SendBatch
<1>2. b \in Batches /\ worker.draining \in BOOLEAN /\ InHands(b)
  BY <1>1 DEF QueueInv, QueueTypeOK, InHands
<1>3. \A c \in Batches : InHands(c) <=> c = b
  BY <1>1 DEF InHands
<1>4. /\ worker'.pc \in {"drain", "select"}
      /\ worker'.pc = "drain" => worker.draining
  BY <1>1, <1>2
<1> HIDE DEF b
<1>5. /\ outcome' \in [Batches -> {"none", "ok", "failed", "dropped"}] /\ outcome'[b] = result
      /\ \A c \in Batches : c # b => outcome'[c] = outcome[c]
  BY <1>1, <1>2 DEF QueueInv, QueueTypeOK
<1>6. QueueTypeOK' /\ ChannelHoldsTheRest'
  BY <1>1, <1>4, <1>5 DEF QueueInv, QueueTypeOK, ChannelHoldsTheRest, GoneOut
<1>7. EachEntersOnce' /\ TakenInOrder'
  <2>1. EachEntersOnce'
    BY <1>1 DEF QueueInv, EachEntersOnce
  <2>2. GoneOut' = GoneOut /\ UNCHANGED <<entered, taken>>
    BY <1>1 DEF GoneOut
  <2>3. TakenInOrder'
    BY <2>2 DEF QueueInv, TakenInOrder
  <2> QED
    BY <2>1, <2>3
<1>8. /\ GoneOut' = GoneOut /\ \A c \in Batches : ~InHands(c)'
      /\ \A x \in 1..Len(entered) : entered[x] \in Batches
  BY <1>1, <1>4, QueueLengths DEF GoneOut, InHands
<1>9. WhatLeftIsCounted'
  <2>1. ASSUME NEW x \in 1..Len(entered)
        PROVE  IF x <= GoneOut THEN outcome'[entered[x]] # "none"
                               ELSE outcome'[entered[x]] = "none"
    <3>1. IF x <= GoneOut THEN InHands(entered[x]) <=> outcome[entered[x]] = "none"
                          ELSE ~InHands(entered[x]) /\ outcome[entered[x]] = "none"
      BY DEF QueueInv, WhatLeftIsCounted
    <3> QED
      BY <1>3, <1>5, <1>8, <3>1
  <2>2. \A c \in Batches : outcome'[c] # "none" => \E x \in 1..Len(entered) : entered[x] = c
    BY <1>2, <1>5 DEF QueueInv, WhatLeftIsCounted
  <2>3. worker'.pc # "send"
    BY <1>4
  <2> QED
    BY <1>1, <1>8, <2>1, <2>2, <2>3 DEF WhatLeftIsCounted, InHands
<1>10. TheLastIsKept'
  <2> SUFFICES ASSUME entered # <<>>, outcome'[entered[Len(entered)]] = "dropped"
               PROVE  \E p \in Producers : producer[p] # "idle"
    BY <1>1 DEF TheLastIsKept
  <2>1. entered[Len(entered)] \in Batches
    <3>1. Len(entered) \in 1..Len(entered)
      BY QueueLengths DEF QueueInv, ChannelHoldsTheRest
    <3> QED
      BY <1>8, <3>1
  <2> QED
    BY <1>5, <2>1 DEF QueueInv, TheLastIsKept
<1>11. WorkerLeavesNothing'
  BY <1>1, <1>4 DEF QueueInv, WorkerLeavesNothing
<1> QED
  BY <1>6, <1>7, <1>9, <1>10, <1>11 DEF QueueInv

(* The worker stops, and returns once the channel is empty: whatever was    *)
(* handed over by then is counted.                                          *)
LEMMA StopSteps ==
  ASSUME QueueInv, StopWorker \/ WorkerDone
  PROVE  QueueInv'
<1>1. /\ worker.pc \in {"select", "drain"} /\ worker'.pc \in {"drain", "done"} /\ closing # "open"
      /\ UNCHANGED <<ch, producer, posted, closing, outcome, entered, taken, before>>
      /\ worker'.pc = "done" => ch = <<>>
  BY DEF StopWorker, WorkerDone, WorkerReturns, QueueInv, WorkerLeavesNothing
<1>2. \A c : ~InHands(c) /\ ~InHands(c)'
  BY <1>1 DEF InHands
<1>3. QueueTypeOK' /\ ChannelHoldsTheRest'
  BY <1>1 DEF QueueInv, QueueTypeOK, ChannelHoldsTheRest, GoneOut
<1>4. EachEntersOnce' /\ TakenInOrder' /\ TheLastIsKept'
  BY <1>1 DEF QueueInv, EachEntersOnce, TakenInOrder, TheLastIsKept, GoneOut
<1>5. WhatLeftIsCounted'
  <2>1. \A x \in 1..Len(entered) : IF x <= GoneOut THEN outcome[entered[x]] # "none"
                                                   ELSE outcome[entered[x]] = "none"
    BY <1>2 DEF QueueInv, WhatLeftIsCounted
  <2>2. GoneOut' = GoneOut /\ worker'.pc # "send"
    BY <1>1 DEF GoneOut
  <2>3. \A c \in Batches : outcome[c] # "none" => \E x \in 1..Len(entered) : entered[x] = c
    BY DEF QueueInv, WhatLeftIsCounted
  <2> QED
    BY <1>1, <2>1, <2>2, <2>3 DEF WhatLeftIsCounted, InHands
<1>6. WorkerLeavesNothing'
  <2>1. ASSUME ch = <<>>, NEW c \in before
        PROVE  outcome[c] # "none"
    <3>1. PICK x \in 1..Len(entered) : entered[x] = c
      BY DEF QueueInv, WorkerLeavesNothing
    <3>2. GoneOut = Len(entered) /\ Len(entered) \in Nat
      BY <2>1, QueueLengths
    <3>3. x <= GoneOut
      BY <3>2
    <3> QED
      BY <1>2, <3>1, <3>3 DEF QueueInv, WhatLeftIsCounted
  <2>2. closing # "closed"
    BY <1>1 DEF QueueInv, WorkerLeavesNothing
  <2> QED
    BY <1>1, <2>1, <2>2 DEF QueueInv, WorkerLeavesNothing
<1> QED
  BY <1>3, <1>4, <1>5, <1>6 DEF QueueInv

(* CloseQueue, and its end. *)
LEMMA ClosingSteps ==
  ASSUME QueueInv, CloseQueue \/ GraceOver \/ QueueClosed
  PROVE  QueueInv'
<1>1. /\ UNCHANGED <<ch, producer, posted, worker, outcome, entered, taken>>
      /\ closing' \in {"grace", "over", "closed"}
      /\ closing' = "closed" => worker.pc = "done"
  BY DEF CloseQueue, GraceOver, QueueClosed
<1>2. /\ before' \subseteq Batches
      /\ \A b \in before' : \E x \in 1..Len(entered) : entered[x] = b
      /\ worker.pc = "done" => \A b \in before' : outcome[b] # "none"
  <2>1. CASE CloseQueue
    <3>1. worker.pc # "done"
      BY <2>1 DEF CloseQueue, QueueInv, WorkerLeavesNothing
    <3>2. before' = {b \in Batches : b \in ToSet(entered)} /\ DOMAIN entered = 1..Len(entered)
      BY <2>1, QueueLengths DEF CloseQueue
    <3> QED
      BY <3>1, <3>2 DEF ToSet
  <2>2. CASE before' = before
    BY <2>2 DEF QueueInv, QueueTypeOK, WorkerLeavesNothing
  <2> QED
    BY <2>1, <2>2 DEF GraceOver, QueueClosed
<1>3. QueueTypeOK' /\ ChannelHoldsTheRest'
  BY <1>1, <1>2 DEF QueueInv, QueueTypeOK, ChannelHoldsTheRest, GoneOut
<1>4. EachEntersOnce' /\ TakenInOrder' /\ TheLastIsKept' /\ WhatLeftIsCounted'
  BY <1>1 DEF QueueInv, EachEntersOnce, TakenInOrder, TheLastIsKept, WhatLeftIsCounted, GoneOut, InHands
<1>5. WorkerLeavesNothing'
  BY <1>1, <1>2 DEF QueueInv, WorkerLeavesNothing
<1> QED
  BY <1>3, <1>4, <1>5 DEF QueueInv

-----------------------------------------------------------------------------
(* Exactly one place for each batch handed over.                            *)
LEMMA OnePlaceEach ==
  ASSUME QueueInv, NEW b \in ToSet(entered)
  PROVE  Cardinality({i \in DOMAIN ch : ch[i] = b})
         + (IF worker.pc = "send" /\ worker.batch = b THEN 1 ELSE 0)
         + (IF outcome[b] # "none" THEN 1 ELSE 0) = 1
<1>1. /\ Len(ch) \in Nat /\ Len(entered) \in Nat /\ GoneOut \in Nat /\ Len(ch) = Len(entered) - GoneOut
      /\ DOMAIN ch = 1..Len(ch) /\ DOMAIN entered = 1..Len(entered)
  BY QueueLengths
<1>2. PICK x \in 1..Len(entered) : entered[x] = b
  BY <1>1 DEF ToSet
<1>3. \A i \in 1..Len(ch) : GoneOut + i \in 1..Len(entered) /\ ch[i] = entered[GoneOut + i]
  BY <1>1 DEF QueueInv, ChannelHoldsTheRest
<1>4. \A i \in 1..Len(ch) : ch[i] = b <=> GoneOut + i = x
  BY <1>2, <1>3 DEF QueueInv, EachEntersOnce
<1>5. CASE x <= GoneOut
  <2>1. {i \in DOMAIN ch : ch[i] = b} = {}
    BY <1>1, <1>4, <1>5
  <2>2. Cardinality({i \in DOMAIN ch : ch[i] = b}) = 0
    BY <2>1, FS_EmptySet
  <2>3. (worker.pc = "send" /\ worker.batch = b) <=> outcome[b] = "none"
    BY <1>2, <1>5 DEF QueueInv, WhatLeftIsCounted, InHands
  <2> QED
    BY <2>2, <2>3
<1>6. CASE ~(x <= GoneOut)
  <2>1. x - GoneOut \in 1..Len(ch) /\ \A i \in 1..Len(ch) : GoneOut + i = x <=> i = x - GoneOut
    BY <1>1, <1>6
  <2>2. {i \in DOMAIN ch : ch[i] = b} = {x - GoneOut}
    BY <1>1, <1>4, <2>1
  <2>3. Cardinality({i \in DOMAIN ch : ch[i] = b}) = 1
    BY <2>2, FS_Singleton
  <2>4. ~(worker.pc = "send" /\ worker.batch = b) /\ outcome[b] = "none"
    BY <1>2, <1>6 DEF QueueInv, WhatLeftIsCounted, InHands
  <2> QED
    BY <2>3, <2>4
<1> QED
  BY <1>5, <1>6

(* For any number of producers, batches and places: every batch that       *)
(* entered the channel is in it, in the worker's hands or counted, once;   *)
(* the worker takes them in order; the last to enter is not the one        *)
(* dropped; and a close leaves none of those before it behind.             *)
THEOREM QueueLosesOnlyTheOldest == QueueSpec => []OnlyTheOldestGoes
<1>1. QueueInv /\ [QueueNext]_queueVars => QueueInv'
  <2> SUFFICES ASSUME QueueInv, [QueueNext]_queueVars PROVE QueueInv'
    OBVIOUS
  <2>1. CASE UNCHANGED queueVars
    BY <2>1 DEF queueVars, QueueInv, QueueTypeOK, ChannelHoldsTheRest, EachEntersOnce,
                WhatLeftIsCounted, TakenInOrder, TheLastIsKept, WorkerLeavesNothing, GoneOut, InHands
  <2>2. CASE \E p \in Producers : NotifyQueue(p) \/ PutBatch(p) \/ EvictFor(p)
    BY <2>2, NotifyStep, PutStep, EvictStep
  <2>3. CASE WorkerStep
    BY <2>3, TakeStep, StopSteps, SendStep DEF WorkerStep
  <2> QED
    BY <2>1, <2>2, <2>3, ClosingSteps DEF QueueNext
<1>2. QueueInv => OnlyTheOldestGoes
  <2> SUFFICES ASSUME QueueInv PROVE OnlyTheOldestGoes
    OBVIOUS
  <2>1. DOMAIN entered = 1..Len(entered) /\ DOMAIN taken = 1..Len(taken) /\ Len(entered) \in Nat
    BY QueueLengths
  <2>2. \A i, j \in DOMAIN taken : i < j => PlaceOf(taken[i]) < PlaceOf(taken[j])
    <3>1. \A i \in DOMAIN taken : /\ PlaceOf(taken[i]) \in 1..Len(entered)
                                  /\ entered[PlaceOf(taken[i])] = taken[i]
      BY <2>1 DEF PlaceOf, QueueInv, TakenInOrder
    <3> QED
      BY <2>1, <3>1 DEF QueueInv, TakenInOrder
  <2>3. ASSUME \A p \in Producers : producer[p] = "idle", NEW b \in Batches, outcome[b] = "dropped"
        PROVE  \E i \in DOMAIN entered : entered[i] = b /\ i < Len(entered)
    <3>1. PICK x \in 1..Len(entered) : entered[x] = b
      BY <2>3 DEF QueueInv, WhatLeftIsCounted
    <3>2. entered # <<>>
      BY <2>1, <3>1
    <3>3. x # Len(entered)
      BY <2>3, <3>1, <3>2 DEF QueueInv, TheLastIsKept
    <3>4. Len(entered) \in Nat /\ x \in DOMAIN entered
      BY <2>1
    <3>5. x < Len(entered)
      BY <3>3, <3>4
    <3> QED
      BY <3>1, <3>4, <3>5
  <2>4. closing = "closed" => \A b \in before : outcome[b] # "none"
    BY DEF QueueInv, WorkerLeavesNothing
  <2> QED
    BY <2>2, <2>3, <2>4, OnePlaceEach DEF OnlyTheOldestGoes
<1> QED
  BY <1>1, <1>2, QueueInitInv, PTL DEF QueueSpec

-----------------------------------------------------------------------------
(* AgentMirror: what a pull has written so far, and what it has left alone. *)

(* No two rows of the agent's tree have one name. *)
NamesDiffer == \A i, j \in DOMAIN local : local[i].name = local[j].name => i = j

(* The rows the pull has written as wanted. *)
Upserted == IF pull.pc = "upsert" THEN DOMAIN pull.names \ pull.todo ELSE DOMAIN pull.names

(* The rows the pull has disabled. *)
Disabled == IF pull.pc = "disable" THEN LeftOver(pull) \ pull.todo ELSE {}

(* The agent's tree is the one that was read, but for the rows written as   *)
(* wanted and those disabled since.                                         *)
PullUnderWay ==
  /\ pull.pc \in {"upsert", "disable"}
  /\ pull.pc = "upsert" => pull.todo \subseteq DOMAIN pull.names
  /\ pull.pc = "disable" => pull.todo \subseteq LeftOver(pull)
  /\ DOMAIN local = DOMAIN pull.existing \cup Upserted
  /\ \A i \in Upserted : local[i] = [name |-> pull.names[i], enabled |-> TRUE]
  /\ \A i \in Disabled : local[i] = [name |-> pull.existing[i].name, enabled |-> FALSE]
  /\ \A i \in DOMAIN local \ (Upserted \cup Disabled) : local[i] = pull.existing[i]

(* The invariant of the mirror. *)
MirrorInv == NamesDiffer /\ (pull = NotPulling \/ PullUnderWay)

(* Nobody writes an agent's rows but its pull. *)
LEMMA MirrorStands ==
  ASSUME MirrorInv, UNCHANGED <<local, pull>>
  PROVE  MirrorInv'
BY DEF MirrorInv, NamesDiffer, PullUnderWay, Upserted, Disabled, LeftOver, NotPulling

(* A pull that begins has written nothing. *)
LEMMA StartPullKeepsIt ==
  ASSUME MirrorInv, StartPull
  PROVE  MirrorInv'
<1>1. /\ pull' = [pc |-> "upsert", names |-> [i \in Mine |-> LocalName(given[i].path)],
                  todo |-> Mine, existing |-> local]
      /\ local' = local
  BY DEF StartPull
<1>2. Upserted' = {} /\ Disabled' = {}
  BY <1>1 DEF Upserted, Disabled
<1>3. PullUnderWay'
  BY <1>1, <1>2 DEF PullUnderWay
<1> QED
  BY <1>1, <1>3 DEF MirrorInv, NamesDiffer

(* A wanted row takes a free name; one that is not ends the pull. *)
LEMMA MirrorRowKeepsIt ==
  ASSUME MirrorInv, NEW i, MirrorRow(i)
  PROVE  MirrorInv'
<1>1. PullUnderWay /\ pull.pc = "upsert" /\ i \in pull.todo /\ NamesDiffer
  BY DEF MirrorInv, MirrorRow, NotPulling
<1>2. CASE NameIsFree(i, pull.names[i])
  <2> DEFINE row == [name |-> pull.names[i], enabled |-> TRUE]
  <2>1. /\ local' = [j \in DOMAIN local \cup {i} |-> IF j = i THEN row ELSE local[j]]
        /\ pull' = [pull EXCEPT !.todo = @ \ {i}]
    BY <1>2 DEF MirrorRow, Upsert
  <2>2. pull'.pc = pull.pc /\ pull'.names = pull.names /\ pull'.existing = pull.existing
        /\ pull'.todo = pull.todo \ {i}
    BY <2>1
  <2>3. NamesDiffer'
    BY <1>1, <1>2, <2>1 DEF NamesDiffer, NameIsFree
  <2>4. Upserted' = Upserted \cup {i} /\ Disabled' = {} /\ Disabled = {}
    BY <1>1, <2>2 DEF Upserted, Disabled, PullUnderWay
  <2>5. PullUnderWay'
    BY <1>1, <2>1, <2>2, <2>4 DEF PullUnderWay
  <2> QED
    BY <2>3, <2>5 DEF MirrorInv
<1>3. CASE ~NameIsFree(i, pull.names[i])
  BY <1>1, <1>3 DEF MirrorRow, MirrorInv, NamesDiffer
<1> QED
  BY <1>2, <1>3

(* When all that is wanted is written, nothing is disabled yet. *)
LEMMA StartDisablingKeepsIt ==
  ASSUME MirrorInv, StartDisabling
  PROVE  MirrorInv'
<1>1. PullUnderWay /\ pull.pc = "upsert" /\ pull.todo = {} /\ local' = local
      /\ pull' = [pull EXCEPT !.pc = "disable", !.todo = LeftOver(pull)]
  BY DEF MirrorInv, StartDisabling, NotPulling
<1>2. pull'.pc = "disable" /\ pull'.names = pull.names /\ pull'.existing = pull.existing
      /\ pull'.todo = LeftOver(pull)
  BY <1>1 DEF PullUnderWay
<1>3. LeftOver(pull)' = LeftOver(pull)
  BY <1>2 DEF LeftOver
<1>4. Upserted' = Upserted /\ Disabled' = {} /\ Disabled = {}
  BY <1>1, <1>2, <1>3 DEF Upserted, Disabled
<1>5. PullUnderWay'
  BY <1>1, <1>2, <1>3, <1>4 DEF PullUnderWay
<1> QED
  BY <1>1, <1>5 DEF MirrorInv, NamesDiffer

(* What is disabled is as it was read, so it keeps a name of its own. *)
LEMMA DisableRowKeepsIt ==
  ASSUME MirrorInv, NEW i, DisableRow(i)
  PROVE  MirrorInv'
<1> DEFINE row == [name |-> pull.existing[i].name, enabled |-> FALSE]
<1>1. /\ PullUnderWay /\ pull.pc = "disable" /\ i \in pull.todo /\ NamesDiffer
      /\ local' = [j \in DOMAIN local \cup {i} |-> IF j = i THEN row ELSE local[j]]
      /\ pull' = [pull EXCEPT !.todo = @ \ {i}]
  BY DEF MirrorInv, DisableRow, NotPulling, Upsert
<1>2. pull'.pc = pull.pc /\ pull'.names = pull.names /\ pull'.existing = pull.existing
      /\ pull'.todo = pull.todo \ {i}
  BY <1>1
<1>3. LeftOver(pull)' = LeftOver(pull)
  BY <1>2 DEF LeftOver
<1>4. /\ i \in DOMAIN pull.existing /\ i \notin DOMAIN pull.names
      /\ i \in DOMAIN local /\ local[i] = pull.existing[i]
  BY <1>1 DEF PullUnderWay, LeftOver, Upserted, Disabled
<1>5. Upserted' = Upserted /\ Disabled' = Disabled \cup {i}
  BY <1>1, <1>2, <1>3 DEF Upserted, Disabled, PullUnderWay
<1>6. NamesDiffer'
  BY <1>1, <1>4 DEF NamesDiffer
<1>7. /\ local'[i] = row /\ DOMAIN local' = DOMAIN local
      /\ \A j \in DOMAIN local : j # i => local'[j] = local[j]
  BY <1>1, <1>4
<1>8. Upserted = DOMAIN pull.names /\ Disabled = LeftOver(pull) \ pull.todo
  BY <1>1 DEF Upserted, Disabled
<1>9. pull'.pc = "disable" /\ pull'.todo \subseteq LeftOver(pull')
  BY <1>1, <1>2, <1>3 DEF PullUnderWay
<1>10. DOMAIN local' = DOMAIN pull'.existing \cup Upserted'
  BY <1>1, <1>2, <1>5, <1>7 DEF PullUnderWay
<1>11. \A j \in Upserted' : local'[j] = [name |-> pull'.names[j], enabled |-> TRUE]
  <2>1. \A j \in Upserted : j # i /\ j \in DOMAIN local /\ local[j] = [name |-> pull.names[j], enabled |-> TRUE]
    BY <1>1, <1>4, <1>8 DEF PullUnderWay
  <2> QED
    BY <2>1, <1>2, <1>5, <1>7
<1>12. \A j \in Disabled' : local'[j] = [name |-> pull'.existing[j].name, enabled |-> FALSE]
  <2>1. \A j \in Disabled : j # i /\ j \in DOMAIN local /\ local[j] = [name |-> pull.existing[j].name, enabled |-> FALSE]
    BY <1>1, <1>8 DEF PullUnderWay, LeftOver
  <2> QED
    BY <2>1, <1>2, <1>5, <1>7
<1>13. \A j \in DOMAIN local' \ (Upserted' \cup Disabled') : local'[j] = pull'.existing[j]
  <2>1. \A j \in DOMAIN local \ (Upserted \cup Disabled) : local[j] = pull.existing[j]
    BY <1>1 DEF PullUnderWay
  <2> QED
    BY <2>1, <1>2, <1>5, <1>7
<1>14. PullUnderWay'
  <2> HIDE DEF row
  <2> QED
    BY <1>1, <1>9, <1>10, <1>11, <1>12, <1>13 DEF PullUnderWay
<1> QED
  BY <1>6, <1>14 DEF MirrorInv

(* However a pull ends, the rows stay as it left them. *)
LEMMA PullEndsKeepsIt ==
  ASSUME MirrorInv, EndPull \/ PullLost
  PROVE  MirrorInv'
BY DEF MirrorInv, EndPull, PullLost, NamesDiffer

(* A pull that ends has written its answer; and no pull, ended or not, took *)
(* away a row that was wanted or made two of one name.                      *)
THEOREM MirrorsKeepTheirAnswer == MirrorSpec => []PullsKeepTheirAnswer
<1>1. MirrorInit => MirrorInv
  BY DEF MirrorInit, MirrorInv, NamesDiffer
<1>2. MirrorInv /\ [MirrorNext]_mirrorVars => MirrorInv'
  <2> SUFFICES ASSUME MirrorInv, [MirrorNext]_mirrorVars
               PROVE  MirrorInv'
    OBVIOUS
  <2>1. CASE UNCHANGED <<local, pull>>
    BY <2>1, MirrorStands
  <2>2. CASE MirrorStep
    BY <2>2, StartPullKeepsIt, StartDisablingKeepsIt, PullEndsKeepsIt, MirrorRowKeepsIt, DisableRowKeepsIt
    DEF MirrorStep
  <2>3. CASE PullLost
    BY <2>3, PullEndsKeepsIt
  <2>4. ASSUME NEW i, NEW path, AddTarget(path) \/ Reassign(i) \/ DropTarget(i) \/ MoveTarget(i, path)
        PROVE  UNCHANGED <<local, pull>>
    BY <2>4 DEF AddTarget, Reassign, DropTarget, MoveTarget, ChangeTree
  <2> QED
    BY <2>1, <2>2, <2>3, <2>4 DEF MirrorNext, mirrorVars
<1>3. MirrorInv => PullsKeepTheirAnswer
  <2> SUFFICES ASSUME MirrorInv
               PROVE  PullsKeepTheirAnswer
    OBVIOUS
  <2>1. NamesDiffer
    BY DEF MirrorInv
  <2>2. CASE pull = NotPulling
    BY <2>1, <2>2 DEF PullsKeepTheirAnswer, NamesDiffer, NotPulling
  <2>3. CASE PullUnderWay
    <3>1. \A i \in DOMAIN pull.existing : i \in DOMAIN local
      BY <2>3 DEF PullUnderWay
    <3>2. ASSUME NEW i \in DOMAIN pull.names \cap DOMAIN pull.existing, pull.existing[i].enabled
          PROVE  local[i].enabled
      <4>1. i \in DOMAIN local /\ i \notin Disabled
        BY <3>1 DEF Disabled, LeftOver
      <4>2. CASE i \in Upserted
        <5>1. local[i] = [name |-> pull.names[i], enabled |-> TRUE]
          BY <2>3, <4>2 DEF PullUnderWay
        <5> QED
          BY <5>1
      <4>3. CASE i \notin Upserted
        <5>1. local[i] = pull.existing[i]
          BY <2>3, <4>1, <4>3 DEF PullUnderWay
        <5> QED
          BY <5>1, <3>2
      <4> QED
        BY <4>2, <4>3
    <3>3. ASSUME pull.pc = "disable", pull.todo = {}
          PROVE  /\ {i \in DOMAIN local : local[i].enabled} = DOMAIN pull.names
                 /\ \A i \in DOMAIN pull.names : local[i].name = pull.names[i]
      <4>1. Upserted = DOMAIN pull.names /\ Disabled = LeftOver(pull)
        BY <3>3 DEF Upserted, Disabled
      <4>2. \A i \in DOMAIN pull.names : i \in DOMAIN local /\ local[i].enabled /\ local[i].name = pull.names[i]
        <5> SUFFICES ASSUME NEW i \in DOMAIN pull.names
                     PROVE  i \in DOMAIN local /\ local[i].enabled /\ local[i].name = pull.names[i]
          OBVIOUS
        <5>1. i \in DOMAIN local /\ local[i] = [name |-> pull.names[i], enabled |-> TRUE]
          BY <2>3, <4>1 DEF PullUnderWay
        <5> QED
          BY <5>1
      <4>3. \A i \in DOMAIN local \ DOMAIN pull.names : ~local[i].enabled
        <5> SUFFICES ASSUME NEW i \in DOMAIN local, i \notin DOMAIN pull.names
                     PROVE  ~local[i].enabled
          OBVIOUS
        <5>1. CASE i \in LeftOver(pull)
          <6>1. local[i] = [name |-> pull.existing[i].name, enabled |-> FALSE]
            BY <2>3, <4>1, <5>1 DEF PullUnderWay
          <6> QED
            BY <6>1
        <5>2. CASE i \notin LeftOver(pull)
          <6>1. local[i] = pull.existing[i] /\ i \in DOMAIN pull.existing
            BY <2>3, <4>1, <5>2 DEF PullUnderWay
          <6>2. ~pull.existing[i].enabled
            BY <6>1, <5>2 DEF LeftOver
          <6> QED
            BY <6>1, <6>2
        <5> QED
          BY <5>1, <5>2
      <4> QED
        BY <4>2, <4>3
    <3> QED
      BY <2>1, <3>2, <3>3 DEF PullsKeepTheirAnswer, NamesDiffer
  <2> QED
    BY <2>2, <2>3 DEF MirrorInv
<1> QED
  BY <1>1, <1>2, <1>3, PTL DEF MirrorSpec
=============================================================================
