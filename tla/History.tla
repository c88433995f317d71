------------------------------ MODULE History ------------------------------
(***************************************************************************)
(* The measurement history as the store keeps it: rows and the extra       *)
(* series beside them in a table of their own (store/sqlite.go), written   *)
(* live and by submissions, read in two statements, and pruned in slices   *)
(* past each target's retention (cmd/smokeng/retention.go).                *)
(***************************************************************************)
EXTENDS Integers, FiniteSets, FiniteSetsExt

CONSTANTS
  Leaves,      \* the targets that have been probed
  Master,      \* the agent id of the local writer
  Remotes,     \* the agents whose submissions are stored
  Horizons,    \* the values retention_s takes, in ticks; 0 keeps everything
  SliceTicks,  \* retentionSliceS
  LastInstant, \* bound: the last instant
  MaxWrites,   \* bound: rows written
  Nowhere,     \* no target
  MaxPruneFaults, \* bound: statements that fail and restarts of the process
  MaxRetunes   \* bound: edits of the tree

ASSUME HistoryAssumption ==
  /\ Master \notin Remotes /\ Horizons \subseteq Nat /\ 0 \in Horizons
  /\ SliceTicks \in Nat \ {0} /\ Nowhere \notin Leaves
  /\ {LastInstant, MaxWrites, MaxRetunes, MaxPruneFaults} \subseteq Nat

VARIABLES
  instant,  \* the wall clock
  table,    \* measurements: which write each row is of, 0 when there is none
  seriesOf, \* measurement_series, the same way
  keep,     \* each target's effective retention_s
  hosted,   \* the targets that have a host still
  unsound,  \* whether tree.New refuses the stored tree
  sweeper,  \* what the retention goroutine is doing
  reader,   \* one request reading a range
  probed,   \* whether each target is probed; retention does not ask
  writes, retunes, pruneFaults, \* bounds
  (* ghost *)
  strictest \* the shortest horizon in force since the sweep listed the targets

configured == <<keep, hosted, unsound, probed>>
historyVars ==
  <<instant, table, seriesOf, configured, sweeper, reader, writes, retunes, pruneFaults, strictest>>

Instants == 0..LastInstant

RowKeys == Leaves \X (Remotes \cup {Master}) \X Instants

HeldIn(t) == {k \in RowKeys : t[k] # 0}

HistoryInit ==
  /\ instant = 0
  /\ table = [k \in RowKeys |-> 0] /\ seriesOf = [k \in RowKeys |-> 0]
  /\ keep \in [Leaves -> Horizons] /\ strictest = keep
  /\ hosted = Leaves /\ unsound = FALSE
  /\ sweeper = [pc |-> "tick"] /\ reader = [pc |-> "idle"]
  /\ probed \in [Leaves -> BOOLEAN]
  /\ writes = 0 /\ retunes = 0 /\ pruneFaults = 0

-----------------------------------------------------------------------------
(* Writing: one transaction for the row and its series. *)

(* A replaced row takes its old series with it. *)
SeriesLeft(k, w, measured) == [seriesOf EXCEPT ![k] = IF measured THEN w ELSE @]
SeriesAfter(k, w, measured) == [seriesOf EXCEPT ![k] = IF measured THEN w ELSE 0]

(* writeMeasurements with replace: the local measurement writer.  The loop   *)
(* and a submission under way may still write for a target that has just     *)
(* lost its host.                                                            *)
WriteLive(t, measured) ==
  LET k == <<t, Master, instant>> w == writes + 1 IN
  /\ writes < MaxWrites
  /\ writes' = w
  /\ table' = [table EXCEPT ![k] = w]
  /\ seriesOf' = SeriesAfter(k, w, measured)
  /\ UNCHANGED <<instant, configured, sweeper, reader, retunes, pruneFaults, strictest>>

(* ... and without: a submission, which may be of an interval long past.  A  *)
(* row that is there stays, and so does its series.                          *)
StoreSubmitted(t, a, ts, measured) ==
  LET k == <<t, a, ts>> w == writes + 1 IN
  /\ writes < MaxWrites /\ ts <= instant /\ table[k] = 0
  /\ writes' = w
  /\ table' = [table EXCEPT ![k] = w]
  /\ seriesOf' = SeriesAfter(k, w, measured)
  /\ UNCHANGED <<instant, configured, sweeper, reader, retunes, pruneFaults, strictest>>

-----------------------------------------------------------------------------
(* QueryRange: the rows, and in a statement of its own, on whatever the      *)
(* database holds by then, the series of the same range.                     *)

ReadRows(t, a) ==
  /\ reader.pc = "idle"
  /\ reader' = [pc |-> "rows", of |-> <<t, a>>,
                found |-> {k \in HeldIn(table) : <<k[1], k[2]>> = <<t, a>>}]
  /\ UNCHANGED <<instant, table, seriesOf, configured, sweeper, writes, retunes,
                 pruneFaults, strictest>>

(* attachSeries: a series without a row among those read fails the request.  *)
(* "orphans" is a ghost: the ones that have no row in the database either.   *)
AttachSeries ==
  LET beside == {k \in HeldIn(seriesOf) : <<k[1], k[2]>> = reader.of} IN
  /\ reader.pc = "rows"
  /\ reader' = IF beside \subseteq reader.found
               THEN [pc |-> "idle"]
               ELSE [pc |-> "failed", orphans |-> beside \ HeldIn(table)]
  /\ UNCHANGED <<instant, table, seriesOf, configured, sweeper, writes, retunes,
                 pruneFaults, strictest>>

AnswerError ==
  /\ reader.pc = "failed"
  /\ reader' = [pc |-> "idle"]
  /\ UNCHANGED <<instant, table, seriesOf, configured, sweeper, writes, retunes,
                 pruneFaults, strictest>>

-----------------------------------------------------------------------------
(* runRetention. *)

(* Targets that keep everything are left alone, and nodes without a host,    *)
(* taken for groups; a disabled target is pruned like any other.             *)
SweptIfEnabled == {t \in hosted : keep[t] > 0 /\ probed[t]}
Swept == {t \in hosted : keep[t] > 0}

(* sweepRetention lists the tree once: retention and the clock are what they *)
(* were then for as long as the sweep lasts.  There is none on a tree that   *)
(* tree.New refuses.                                                         *)
BeginSweep ==
  /\ sweeper.pc = "tick" /\ ~unsound
  /\ sweeper' = [pc |-> "targets", keep |-> keep, now |-> instant,
                 left |-> Swept, target |-> Nowhere, end |-> 0]
  /\ strictest' = keep
  /\ UNCHANGED <<instant, table, seriesOf, configured, reader, writes, retunes,
                 pruneFaults>>

Cutoff(t) == sweeper.now - sweeper.keep[t]

Ticks(t) == {k[3] : k \in {k \in HeldIn(table) : k[1] = t}}

(* A target has been pruned when no row is left before its cutoff. *)
Pruned(t) == \A ts \in Ticks(t) : ts >= Cutoff(t)

SliceEndUncut(t) == Min(Ticks(t)) + SliceTicks
SliceEnd(t) == Min({Min(Ticks(t)) + SliceTicks, Cutoff(t)})

WithoutBefore(held, t, end) == [k \in RowKeys |-> IF k[1] = t /\ k[3] < end THEN 0 ELSE held[k]]

(* PruneMeasurements, one slice: the oldest row gives its end, and then rows *)
(* and series go in one transaction, whoever measured them.                  *)
FindSlice(t) ==
  /\ sweeper.pc = "targets" /\ t \in sweeper.left /\ ~Pruned(t)
  /\ sweeper' = [sweeper EXCEPT !.pc = "slice", !.target = t, !.end = SliceEnd(t)]
  /\ UNCHANGED <<instant, table, seriesOf, configured, reader, writes, retunes,
                 pruneFaults, strictest>>

DeleteSlice ==
  /\ sweeper.pc = "slice"
  /\ table' = WithoutBefore(table, sweeper.target, sweeper.end)
  /\ seriesOf' = WithoutBefore(seriesOf, sweeper.target, sweeper.end)
  /\ sweeper' = [sweeper EXCEPT !.pc = "targets"]
  /\ UNCHANGED <<instant, configured, reader, writes, retunes, pruneFaults, strictest>>

TargetPruned(t) ==
  /\ sweeper.pc = "targets" /\ t \in sweeper.left /\ Pruned(t)
  /\ sweeper' = [sweeper EXCEPT !.left = @ \ {t}]
  /\ UNCHANGED <<instant, table, seriesOf, configured, reader, writes, retunes,
                 pruneFaults, strictest>>

PruneFault == pruneFaults < MaxPruneFaults /\ pruneFaults' = pruneFaults + 1

(* A statement fails: the target waits for the next sweep, and this one goes *)
(* on with the others.                                                       *)
PruneFails(t) ==
  /\ PruneFault
  /\ \/ sweeper.pc = "targets" /\ t \in sweeper.left
     \/ sweeper.pc = "slice" /\ t = sweeper.target
  /\ sweeper' = [sweeper EXCEPT !.pc = "targets", !.left = @ \ {t}]
  /\ UNCHANGED <<instant, table, seriesOf, configured, reader, writes, retunes,
                 strictest>>

(* The listing fails: the sweep waits for the next tick. *)
ListFails ==
  /\ sweeper.pc = "tick" /\ PruneFault
  /\ UNCHANGED <<instant, table, seriesOf, configured, sweeper, reader, writes, retunes, strictest>>

EndSweep ==
  /\ sweeper.pc = "targets" /\ sweeper.left = {}
  /\ sweeper' = [pc |-> "tick"]
  /\ UNCHANGED <<instant, table, seriesOf, configured, reader, writes, retunes,
                 pruneFaults, strictest>>

(* The process is killed and started again: the sweep begins anew.  What was *)
(* committed is kept.                                                        *)
RestartSweeper ==
  /\ sweeper.pc # "tick" /\ PruneFault
  /\ sweeper' = [pc |-> "tick"] /\ reader' = [pc |-> "idle"]
  /\ UNCHANGED <<instant, table, seriesOf, configured, writes, retunes, strictest>>

-----------------------------------------------------------------------------

SetRetention(t, h) ==
  /\ retunes < MaxRetunes /\ h # keep[t]
  /\ keep' = [keep EXCEPT ![t] = h]
  /\ strictest' = [strictest EXCEPT ![t] = IF @ = 0 THEN h ELSE IF h = 0 THEN @ ELSE Min({@, h})]
  /\ retunes' = retunes + 1
  /\ UNCHANGED <<instant, table, seriesOf, sweeper, reader, hosted, unsound, probed,
                 writes, pruneFaults>>

(* A patch takes a target's host away, or gives it back. *)
SetHost(t) ==
  /\ hosted' = IF t \in hosted THEN hosted \ {t} ELSE hosted \cup {t}
  /\ retunes' = IF t \in hosted THEN retunes + 1 ELSE retunes
  /\ retunes' <= MaxRetunes
  /\ UNCHANGED <<instant, table, seriesOf, keep, unsound, probed, sweeper, reader, writes,
                 pruneFaults, strictest>>

(* An import cut short leaves a tree that tree.New refuses; another mends it. *)
ImportEnds ==
  /\ unsound' = ~unsound
  /\ retunes' = IF unsound THEN retunes ELSE retunes + 1
  /\ retunes' <= MaxRetunes
  /\ UNCHANGED <<instant, table, seriesOf, keep, hosted, probed, sweeper, reader, writes,
                 pruneFaults, strictest>>

InstantPasses ==
  /\ instant < LastInstant
  /\ instant' = instant + 1
  /\ UNCHANGED <<table, seriesOf, configured, sweeper, reader, writes, retunes,
                 pruneFaults, strictest>>

Sweeping ==
  \/ BeginSweep \/ EndSweep
  \/ \E t \in Leaves : FindSlice(t) \/ TargetPruned(t)
  \/ DeleteSlice

HistoryNext ==
  \/ \E t \in Leaves, measured \in BOOLEAN :
       \/ WriteLive(t, measured)
       \/ \E a \in Remotes, ts \in Instants : StoreSubmitted(t, a, ts, measured)
  \/ \E t \in Leaves, a \in Remotes \cup {Master} : ReadRows(t, a)
  \/ AttachSeries \/ AnswerError
  \/ Sweeping \/ ListFails \/ RestartSweeper
  \/ \E t \in Leaves :
       \/ PruneFails(t) \/ SetHost(t)
       \/ \E h \in Horizons : SetRetention(t, h)
  \/ ImportEnds
  \/ InstantPasses

HistorySpec == HistoryInit /\ [][HistoryNext]_historyVars

(* The sweep is a loop of one goroutine on a timer. *)
HistoryFairness == WF_historyVars(Sweeping)

-----------------------------------------------------------------------------

(* A series belongs to the row it lies beside: to the same write of it.  No  *)
(* series outlives its row, and none is left of a row that was replaced.     *)
SeriesAreOfTheirRow == \A k \in RowKeys : seriesOf[k] \in {0, table[k]}

(* Pruning takes what is past the horizon: a row that a sweep deletes was    *)
(* older than a retention in force while that sweep ran, so no slice reaches *)
(* into the history that is kept.                                            *)
NothingYoungIsPruned ==
  [][\A k \in RowKeys : table[k] # 0 /\ table'[k] = 0
       => strictest[k[1]] > 0 /\ k[3] < instant - strictest[k[1]]]_historyVars

(* Whatever arrives late, and whatever fails meanwhile, the history comes to *)
(* hold nothing past the horizon of its target, probed or not: as long as    *)
(* the stored tree comes to be one that tree.New accepts, for without that   *)
(* nothing is ever pruned, and where the target still has a host, for the    *)
(* rows of one that lost it are kept whatever its retention says.            *)
SweepsCatchUp ==
  <>[]~unsound =>
    <>[](\A k \in RowKeys :
           table[k] # 0 /\ k[1] \in hosted /\ keep[k[1]] > 0 => k[3] >= instant - keep[k[1]])

(* "A series row with no measurement is a broken invariant" (sqlite.go): a   *)
(* read fails for it only where the database holds one.                      *)
FailureMeansAnOrphan == reader.pc = "failed" => reader.orphans # {}

=============================================================================
