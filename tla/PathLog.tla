------------------------------ MODULE PathLog ------------------------------
(***************************************************************************)
(* The log of one target's path changes, from the tracer that finds them   *)
(* to the master that keeps them (internal/probe/engine.go, runTracer and  *)
(* traceOnce; internal/store/agents.go, LastPath to PathChanges;           *)
(* internal/agent/agent.go, pushPaths; internal/api/ingest.go,             *)
(* handleAgentPaths).                                                      *)
(*                                                                         *)
(* A tracer compares what it found with the last path recorded and records *)
(* it if they differ; the agent sends what the master has not confirmed,   *)
(* oldest first, and forgets what it has but the latest.  When the         *)
(* target's settings change a second tracer is started and the first       *)
(* cancelled, wherever it is.  Traces are further apart than the seconds   *)
(* their rows are told apart by.                                           *)
(***************************************************************************)
EXTENDS Naturals, FiniteSets, Sequences, SequencesExt

CONSTANTS
  Routes,            \* paths a trace can find
  Unknown,           \* no path
  PushPaths,         \* changes in one submission
  LastTrace,         \* bound: changes recorded
  MaxRouteChanges, MaxPathFaults   \* bounds: changes of the route, and faults

ASSUME PathLogAssumption ==
  /\ {PushPaths, LastTrace, MaxRouteChanges, MaxPathFaults} \subseteq Nat /\ PushPaths > 0
  /\ Unknown \notin Routes

VARIABLES
  route,       \* the path there is
  tracers,     \* the tracer in force and the one it replaced: what they know
  paths,       \* the agent's table: rows by time
  pushing,     \* the submission under way
  pathLog,     \* the master's table: paths by time
  traced,      \* seconds at which something was recorded
  pathFaults, routeChanges,
  (* ghost *)
  lost         \* the master dropped a change: not assigned, refused

pathVars == <<route, tracers, paths, pushing, pathLog, traced, pathFaults, routeChanges, lost>>

NotTracing == [pc |-> "waiting"]
NotPushing == [pc |-> "idle"]

PathStart(dropped) ==
  /\ route \in Routes
  /\ tracers = [current |-> NotTracing, old |-> NotTracing]
  /\ paths = <<>> /\ pushing = NotPushing /\ pathLog = <<>>
  /\ traced = 0 /\ pathFaults = 0 /\ routeChanges = 0 /\ lost = dropped

PathInit == PathStart(FALSE)

Newest(log) == IF log = <<>> THEN 0 ELSE CHOOSE s \in DOMAIN log : \A r \in DOMAIN log : r <= s

PathFault == pathFaults < MaxPathFaults /\ pathFaults' = pathFaults + 1

-----------------------------------------------------------------------------
(* The tracer.                                                             *)

RouteChanges(r) ==
  /\ routeChanges < MaxRouteChanges /\ routeChanges' = routeChanges + 1
  /\ r # route /\ route' = r
  /\ UNCHANGED <<tracers, paths, pushing, pathLog, traced, pathFaults, lost>>

Trace ==
  /\ tracers.current = NotTracing
  /\ tracers' = [tracers EXCEPT !.current = [pc |-> "found", hops |-> route]]
  /\ UNCHANGED <<route, paths, pushing, pathLog, traced, pathFaults, routeChanges, lost>>

LastPath == IF paths = <<>> THEN Unknown ELSE paths[Newest(paths)].hops

Compare ==
  /\ tracers.current.pc = "found"
  /\ tracers' = [tracers EXCEPT !.current =
                   IF LastPath = @.hops THEN NotTracing ELSE [pc |-> "differs", hops |-> @.hops]]
  /\ UNCHANGED <<route, paths, pushing, pathLog, traced, pathFaults, routeChanges, lost>>

(* Recording fails for a tracer that was cancelled, whose context is done;  *)
(* in the variant with a fault the write goes on.                           *)
EitherRecords(who) == tracers[who].pc = "differs"

Records(who) == who = "current" /\ tracers[who].pc = "differs"

RecordPath(who) ==
  /\ Records(who)
  /\ traced < LastTrace /\ traced' = traced + 1
  /\ paths' = [s \in DOMAIN paths \cup {traced + 1} |->
                IF s = traced + 1 THEN [hops |-> tracers[who].hops, submitted |-> FALSE] ELSE paths[s]]
  /\ tracers' = [tracers EXCEPT ![who] = NotTracing]
  /\ UNCHANGED <<route, pushing, pathLog, pathFaults, routeChanges, lost>>

(* The settings change: the tracer is cancelled and another one started. *)
Retrace ==
  /\ PathFault
  /\ tracers' = [current |-> NotTracing, old |-> tracers.current]
  /\ UNCHANGED <<route, paths, pushing, pathLog, traced, routeChanges, lost>>

-----------------------------------------------------------------------------
(* The push.                                                               *)

Unsubmitted == {s \in DOMAIN paths : ~paths[s].submitted}

(* The oldest, as many as one submission takes. *)
PendingPaths == {s \in Unsubmitted : Cardinality({r \in Unsubmitted : r < s}) < PushPaths}

StartPathPush ==
  /\ pushing = NotPushing /\ Unsubmitted # {}
  /\ pushing' = [pc |-> "sent", batch |-> [s \in PendingPaths |-> paths[s].hops]]
  /\ UNCHANGED <<route, tracers, paths, pathLog, traced, pathFaults, routeChanges, lost>>

(* The master writes what it has not, the first write wins, and answers; or *)
(* it drops rows of a target that is not assigned (any more), or refuses    *)
(* the submission as unreadable, and the agent takes both for an answer.    *)
IngestPaths(batch) ==
  [s \in DOMAIN pathLog \cup DOMAIN batch |-> IF s \in DOMAIN pathLog THEN pathLog[s] ELSE batch[s]]

HandlePaths ==
  /\ pushing.pc = "sent"
  /\ pathLog' = IngestPaths(pushing.batch)
  /\ pushing' = [pushing EXCEPT !.pc = "answered"]
  /\ UNCHANGED <<route, tracers, paths, traced, pathFaults, routeChanges, lost>>

DropPaths ==
  /\ pushing.pc = "sent" /\ PathFault
  /\ lost' = TRUE
  /\ pushing' = [pushing EXCEPT !.pc = "answered"]
  /\ UNCHANGED <<route, tracers, paths, pathLog, traced, routeChanges>>

(* What was confirmed is marked, and all that is marked but the latest row  *)
(* forgotten; in the variant with a fault the latest is too.                *)
RemembersNone(marked) ==
  [s \in {r \in DOMAIN marked : ~marked[r].submitted} |-> marked[s]]

Remembers(marked) ==
  [s \in {r \in DOMAIN marked : marked[r].submitted => r = Newest(marked)} |-> marked[s]]

(* In the variant with a fault whatever is in the table is taken for        *)
(* confirmed, found since the submission or not.                            *)
AnyConfirmed(s) == TRUE

Confirmed(s) == s \in DOMAIN pushing.batch

PathsSubmitted ==
  /\ pushing.pc = "answered"
  /\ paths' = Remembers([s \in DOMAIN paths |->
                          [paths[s] EXCEPT !.submitted = @ \/ Confirmed(s)]])
  /\ pushing' = NotPushing
  /\ UNCHANGED <<route, tracers, pathLog, traced, pathFaults, routeChanges, lost>>

(* The request or the answer is lost, the master refuses it for now, the    *)
(* table cannot be written, or the agent is started again.                  *)
PushFails ==
  /\ pushing # NotPushing /\ PathFault
  /\ pushing' = NotPushing
  /\ UNCHANGED <<route, tracers, paths, pathLog, traced, routeChanges, lost>>

AgentRestarts ==
  /\ PathFault
  /\ tracers' = [current |-> NotTracing, old |-> NotTracing]
  /\ pushing' = NotPushing
  /\ UNCHANGED <<route, paths, pathLog, traced, routeChanges, lost>>

PathStep ==
  \/ Trace \/ Compare \/ RecordPath("current")
  \/ StartPathPush \/ HandlePaths \/ PathsSubmitted

PathNext ==
  \/ \E r \in Routes : RouteChanges(r)
  \/ Trace \/ Compare \/ \E who \in {"current", "old"} : RecordPath(who)
  \/ StartPathPush \/ HandlePaths \/ PathsSubmitted
  \/ Retrace \/ DropPaths \/ PushFails \/ AgentRestarts

(* The tracer and the push loop go on, each by its own timer. *)
PathFairness ==
  /\ WF_pathVars(Trace \/ Compare \/ RecordPath("current"))
  /\ WF_pathVars(StartPathPush \/ HandlePaths \/ PathsSubmitted)

PathSpec == PathInit /\ [][PathNext]_pathVars /\ PathFairness

-----------------------------------------------------------------------------
(* Every mark in the master's log is a change of the route: no two rows in  *)
(* a row show one path, whatever is sent twice, forgotten or started again, *)
(* unless the master itself dropped one (agents.go:422-427, "arrive at the  *)
(* master as a mark where the route did not change").                       *)
MarksAreChanges ==
  ~lost => \A r, s \in DOMAIN pathLog :
             r < s /\ pathLog[r] = pathLog[s] => \E m \in DOMAIN pathLog : r < m /\ m < s

(* A route that stays is in the end the one in force in the master's log,   *)
(* unless the master dropped a change: the agent compares with what it      *)
(* recorded, not with what the master has.                                  *)
MasterLearnsThePath ==
  <>[](\/ lost \/ traced = LastTrace
       \/ pathLog # <<>> /\ pathLog[Newest(pathLog)] = route)
=============================================================================
