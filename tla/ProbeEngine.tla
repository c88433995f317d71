---------------------------- MODULE ProbeEngine ----------------------------
(***************************************************************************)
(* The probe engine (internal/probe/engine.go) inside the server that runs *)
(* it (cmd/smokeng/main.go): one goroutine per target, one per finalized   *)
(* interval, one writer, and the reload that starts and stops them, until  *)
(* a signal tears all of it down in order.                                 *)
(***************************************************************************)
EXTENDS Naturals, Sequences, FiniteSets, SequencesExt

CONSTANTS
  Targets,       \* leaves of the tree
  Specs,         \* ways a target may be configured to be measured
  NONE,          \* not measured; not running
  Backlog,       \* measurements the results channel holds
  MaxBuckets,    \* bound: intervals
  MaxLoops,      \* bound: target goroutines started
  MaxEdits, MaxPanics, MaxWriteFails   \* bounds: what happens to the engine

ASSUME EngineAssumption ==
  /\ IsFiniteSet(Targets)
  /\ NONE \notin Specs /\ NONE \notin Nat
  /\ Backlog \in Nat
  /\ {MaxBuckets, MaxLoops, MaxEdits, MaxPanics, MaxWriteFails} \subseteq Nat

VARIABLES
  want,       \* how the stored tree says each target is measured
  now,        \* the interval under way
  running,    \* the engine's map: which loop measures each target
  loops,      \* every target goroutine ever started
  finalizers, \* goroutines waiting for an interval to be over
  results,    \* the channel to the writer
  writer,     \* the writer and its batch
  stored,     \* measurements in the store
  dropped,    \* measurements counted as dropped
  engine,     \* the goroutine that reloads and tears down
  socket,     \* the shared sockets: none yet, open, closed
  serve,      \* the server around it
  edits, panics, fails,  \* counted against the bounds
  observed    \* ghost: measurements the rules were evaluated on

vars == <<want, now, running, loops, finalizers, results, writer, stored, dropped, engine, socket,
          serve, edits, panics, fails, observed>>
counts == <<edits, panics, fails>>

LoopIds == 1..MaxLoops
Measurement == [loop : LoopIds, target : Targets, bucket : 0..MaxBuckets]

TypeOK ==
  /\ want \in [Targets -> Specs \cup {NONE}]
  /\ running \in [Targets -> LoopIds \cup {NONE}]
  /\ loops \in Seq([target : Targets, spec : Specs, cancelled : BOOLEAN,
                    pc : {"waiting", "resolving", "probing", "ended"}, bucket : 0..MaxBuckets])
  /\ Len(loops) <= MaxLoops
  /\ {finalizers, stored, dropped, observed} \subseteq SUBSET Measurement
  /\ results \in Seq(Measurement) /\ Len(results) <= Backlog
  /\ writer \in [pc : {"run", "observe", "drain", "observeLast", "done"}, batch : Seq(Measurement)]
  /\ engine.pc \in {"run", "reload", "wait", "flush", "returned"}
  /\ socket \in {"none", "open", "closed"}
  /\ serve \in {"up", "shutdown", "engine", "exited"}

Init ==
  /\ want \in [Targets -> Specs]
  /\ now = 0
  /\ running = [t \in Targets |-> NONE] /\ loops = <<>> /\ finalizers = {}
  /\ results = <<>> /\ stored = {} /\ dropped = {} /\ observed = {}
  /\ writer = [pc |-> "run", batch |-> <<>>]
  /\ engine = [pc |-> "run"]
  /\ socket = "none" /\ serve = "up"
  /\ edits = 0 /\ panics = 0 /\ fails = 0

(* The process lives until serve returns; the context is cancelled by the   *)
(* signal, and every target's context with it.                              *)
Alive    == serve # "exited"
Stopping == serve # "up"
Cancelled(i) == Stopping \/ loops[i].cancelled
Step(i, pc)  == [loops EXCEPT ![i].pc = pc]

-----------------------------------------------------------------------------
(* The engine's own goroutine: it reloads when it starts and at each tick   *)
(* of its timer; a reload that cannot read the tree changes nothing.        *)

LoadSpecs ==
  /\ Alive /\ engine.pc = "run" /\ ~Stopping
  /\ engine' = [pc |-> "reload", specs |-> want]
  /\ UNCHANGED <<want, now, running, loops, finalizers, results, writer, stored, dropped, socket,
                 serve, counts, observed>>

Outdated(t) == running[t] # NONE /\ loops[running[t]].spec # engine.specs[t]

(* Which loops a reload cancels; in the variant with a fault, only those of *)
(* targets that are gone.                                                   *)
ReplacedIfGone == {t \in Targets : Outdated(t) /\ engine.specs[t] = NONE}

Replaced == {t \in Targets : Outdated(t)}

Reload ==
  LET started == {t \in Targets : engine.specs[t] # NONE /\ (running[t] = NONE \/ Outdated(t))}
      new     == SetToSeq(started)
      number  == [t \in started |-> Len(loops) + CHOOSE i \in DOMAIN new : new[i] = t]
  IN
  /\ Alive /\ engine.pc = "reload"
  /\ running' = [t \in Targets |-> IF t \in started THEN number[t]
                                   ELSE IF Outdated(t) THEN NONE ELSE running[t]]
  /\ loops' = [i \in DOMAIN loops |->
                 IF \E t \in Replaced : running[t] = i
                 THEN [loops[i] EXCEPT !.cancelled = TRUE] ELSE loops[i]]
              \o [i \in DOMAIN new |-> [target |-> new[i], spec |-> engine.specs[new[i]],
                                        cancelled |-> FALSE, pc |-> "waiting", bucket |-> 0]]
  /\ engine' = [pc |-> "run"]
  /\ UNCHANGED <<want, now, finalizers, results, writer, stored, dropped, socket, serve, counts,
                 observed>>

(* From here on no socket is opened; those open now are closed in the end.  *)
Teardown ==
  /\ Alive /\ engine.pc = "run" /\ Stopping
  /\ engine' = [pc |-> "wait", open |-> socket = "open"]
  /\ UNCHANGED <<want, now, running, loops, finalizers, results, writer, stored, dropped, socket,
                 serve, counts, observed>>

ShuttingDown == engine.pc \in {"wait", "flush", "returned"}

(* The wait group: every loop has returned and every finalizer too. *)
TargetsDone == finalizers = {} /\ \A i \in DOMAIN loops : loops[i].pc = "ended"

CloseSockets ==
  /\ Alive /\ engine.pc = "wait" /\ TargetsDone
  /\ socket' = IF engine.open THEN "closed" ELSE socket
  /\ engine' = [pc |-> "flush"]
  /\ UNCHANGED <<want, now, running, loops, finalizers, results, writer, stored, dropped, serve,
                 counts, observed>>

Return ==
  /\ Alive /\ engine.pc = "flush" /\ writer.pc = "done"
  /\ engine' = [pc |-> "returned"]
  /\ UNCHANGED <<want, now, running, loops, finalizers, results, writer, stored, dropped, socket,
                 serve, counts, observed>>

-----------------------------------------------------------------------------
(* A target's loop: wait for the interval, take a socket, send, hand the    *)
(* interval to a finalizer, go on.                                          *)

(* The first send of the interval is due. *)
Wake(i) ==
  /\ Alive /\ loops[i].pc = "waiting" /\ ~Cancelled(i)
  /\ loops[i].bucket <= now /\ now < MaxBuckets
  /\ loops' = [loops EXCEPT ![i].pc = "resolving", ![i].bucket = now]
  /\ UNCHANGED <<want, now, running, finalizers, results, writer, stored, dropped, engine, socket,
                 serve, counts, observed>>

(* The name has no address: the interval is skipped. *)
Unresolved(i) ==
  /\ Alive /\ loops[i].pc = "resolving"
  /\ loops' = IF Cancelled(i) THEN Step(i, "ended")
              ELSE [loops EXCEPT ![i].pc = "waiting", ![i].bucket = @ + 1]
  /\ UNCHANGED <<want, now, running, finalizers, results, writer, stored, dropped, engine, socket,
                 serve, counts, observed>>

(* Take the shared socket, opening it the first time, unless the teardown   *)
(* has begun; in the variant with a fault, whatever has begun.              *)
ConnectedAnyway(i) ==
  /\ loops' = Step(i, "probing")
  /\ socket' = IF socket = "none" THEN "open" ELSE socket

Connected(i) ==
  IF ShuttingDown THEN loops' = Step(i, "ended") /\ UNCHANGED socket
  ELSE /\ loops' = Step(i, "probing")
       /\ socket' = IF socket = "none" THEN "open" ELSE socket

Connect(i) ==
  /\ Alive /\ loops[i].pc = "resolving"
  /\ Connected(i)
  /\ UNCHANGED <<want, now, running, finalizers, results, writer, stored, dropped, engine, serve,
                 counts, observed>>

(* The sends are done, or cancelled part-way: the interval is finalized     *)
(* either way.                                                              *)
Send(i) ==
  /\ Alive /\ loops[i].pc = "probing"
  /\ finalizers' = finalizers \cup
       {[loop |-> i, target |-> loops[i].target, bucket |-> loops[i].bucket]}
  /\ loops' = IF Cancelled(i) THEN Step(i, "ended")
              ELSE [loops EXCEPT ![i].pc = "waiting", ![i].bucket = @ + 1]
  /\ UNCHANGED <<want, now, running, results, writer, stored, dropped, engine, socket, serve,
                 counts, observed>>

LoopReturns(i) ==
  /\ Alive /\ loops[i].pc = "waiting" /\ Cancelled(i)
  /\ loops' = Step(i, "ended")
  /\ UNCHANGED <<want, now, running, finalizers, results, writer, stored, dropped, engine, socket,
                 serve, counts, observed>>

(* A panic ends one loop.  Its target is descheduled, for a reload to start *)
(* again; in the variant with a fault it is not.                            *)
KeptScheduled(i) == running

Descheduled(i) ==
  LET t == loops[i].target IN
  IF running[t] # NONE /\ loops[running[t]].spec = loops[i].spec
  THEN [running EXCEPT ![t] = NONE] ELSE running

LoopPanics(i) ==
  LET t == loops[i].target
      r == running[t]
  IN
  /\ Alive /\ loops[i].pc # "ended" /\ panics < MaxPanics
  /\ panics' = panics + 1
  /\ running' = Descheduled(i)
  /\ loops' = IF r # NONE /\ loops[r].spec = loops[i].spec
              THEN [loops EXCEPT ![i].pc = "ended", ![r].cancelled = TRUE]
              ELSE Step(i, "ended")
  /\ UNCHANGED <<want, now, finalizers, results, writer, stored, dropped, engine, socket, serve,
                 edits, fails, observed>>

(* A measurement that does not fit is dropped and counted. *)
HasRoom == Len(results) < Backlog

(* The interval and the timeout are over, or the context is. *)
Finalize(f) ==
  /\ Alive
  /\ now > f.bucket \/ Cancelled(f.loop)
  /\ finalizers' = finalizers \ {f}
  /\ IF HasRoom
     THEN results' = Append(results, f) /\ UNCHANGED dropped
     ELSE dropped' = dropped \cup {f} /\ UNCHANGED results
  /\ UNCHANGED <<want, now, running, loops, writer, stored, engine, socket, serve, counts,
                 observed>>

-----------------------------------------------------------------------------
(* The writer: batch, store, then evaluate the rules on what was stored.    *)

Receive ==
  /\ Alive /\ writer.pc \in {"run", "drain"} /\ results # <<>>
  /\ writer' = [writer EXCEPT !.batch = Append(@, Head(results))]
  /\ results' = Tail(results)
  /\ UNCHANGED <<want, now, running, loops, finalizers, stored, dropped, engine, socket, serve,
                 counts, observed>>

StopWriter ==
  /\ Alive /\ writer.pc = "run" /\ engine.pc = "flush"
  /\ writer' = [writer EXCEPT !.pc = "drain"]
  /\ UNCHANGED <<want, now, running, loops, finalizers, results, stored, dropped, engine, socket,
                 serve, counts, observed>>

(* Once stopped, the writer flushes when the channel is empty; in the       *)
(* variants with a fault, at once, or never.                                *)
FlushesWhileRunning == writer.pc = "run"

FlushesAtOnce == writer.pc \in {"run", "drain"}

Flushes == \/ writer.pc = "run"
           \/ writer.pc = "drain" /\ results = <<>>

(* Storing comes first, and what was not stored is not evaluated. *)
AfterFailure == IF writer.pc = "run" THEN "run" ELSE "done"

Write ==
  /\ Alive /\ Flushes /\ writer.batch # <<>>
  /\ stored' = stored \cup ToSet(writer.batch)
  /\ writer' = [writer EXCEPT !.pc = IF @ = "run" THEN "observe" ELSE "observeLast"]
  /\ UNCHANGED <<want, now, running, loops, finalizers, results, dropped, engine, socket, serve,
                 counts, observed>>

WriteFails ==
  /\ Alive /\ Flushes /\ writer.batch # <<>>
  /\ fails < MaxWriteFails
  /\ fails' = fails + 1
  /\ dropped' = dropped \cup ToSet(writer.batch)
  /\ writer' = [pc |-> AfterFailure,
                batch |-> IF AfterFailure \in {"run", "done"} THEN <<>> ELSE writer.batch]
  /\ UNCHANGED <<want, now, running, loops, finalizers, results, stored, engine, socket, serve,
                 edits, panics, observed>>

Observe ==
  /\ Alive /\ writer.pc \in {"observe", "observeLast"}
  /\ observed' = observed \cup ToSet(writer.batch)
  /\ writer' = [pc |-> IF writer.pc = "observe" THEN "run" ELSE "done", batch |-> <<>>]
  /\ UNCHANGED <<want, now, running, loops, finalizers, results, stored, dropped, engine, socket,
                 serve, counts>>

WriterDone ==
  /\ Alive /\ writer.pc = "drain" /\ Flushes /\ writer.batch = <<>>
  /\ writer' = [writer EXCEPT !.pc = "done"]
  /\ UNCHANGED <<want, now, running, loops, finalizers, results, stored, dropped, engine, socket,
                 serve, counts, observed>>

-----------------------------------------------------------------------------
(* The server: a signal stops the HTTP server, then the engine is waited    *)
(* for.  A request that outlasts the grace makes serve return at once.      *)

Signal ==
  /\ serve = "up"
  /\ serve' = "shutdown"
  /\ UNCHANGED <<want, now, running, loops, finalizers, results, writer, stored, dropped, engine,
                 socket, counts, observed>>

ServerDown ==
  /\ serve = "shutdown"
  /\ serve' \in {"engine", "exited"}
  /\ UNCHANGED <<want, now, running, loops, finalizers, results, writer, stored, dropped, engine,
                 socket, counts, observed>>

Exit ==
  /\ serve = "engine" /\ engine.pc = "returned"
  /\ serve' = "exited"
  /\ UNCHANGED <<want, now, running, loops, finalizers, results, writer, stored, dropped, engine,
                 socket, counts, observed>>

EditTarget(t, spec) ==
  /\ Alive /\ edits < MaxEdits /\ spec # want[t]
  /\ edits' = edits + 1
  /\ want' = [want EXCEPT ![t] = spec]
  /\ UNCHANGED <<now, running, loops, finalizers, results, writer, stored, dropped, engine, socket,
                 serve, panics, fails, observed>>

Tick ==
  /\ Alive /\ now < MaxBuckets
  /\ now' = now + 1
  /\ UNCHANGED <<want, running, loops, finalizers, results, writer, stored, dropped, engine, socket,
                 serve, counts, observed>>

-----------------------------------------------------------------------------
Engine == LoadSpecs \/ Reload \/ Teardown \/ CloseSockets \/ Return

Loop(i) == Wake(i) \/ Unresolved(i) \/ Connect(i) \/ Send(i) \/ LoopReturns(i)

Writer == Receive \/ StopWriter \/ Write \/ WriteFails \/ Observe \/ WriterDone

Next ==
  \/ Engine
  \/ \E i \in DOMAIN loops : Loop(i) \/ LoopPanics(i)
  \/ \E f \in finalizers : Finalize(f)
  \/ Writer
  \/ Signal \/ ServerDown \/ Exit
  \/ \E t \in Targets, spec \in Specs \cup {NONE} : EditTarget(t, spec)
  \/ Tick

Spec == Init /\ [][Next]_vars

(* Go runs every goroutine that can run, and a reload comes with every tick *)
(* of its timer.  Nothing says a signal, an edit or a panic ever comes.     *)
Fairness ==
  /\ WF_vars(Engine) /\ WF_vars(Writer)
  /\ WF_vars(\E f \in finalizers : Finalize(f))
  /\ \A i \in LoopIds : WF_vars(i \in DOMAIN loops /\ Loop(i))
  /\ WF_vars(ServerDown) /\ WF_vars(Exit)

FairSpec == Spec /\ Fairness

-----------------------------------------------------------------------------
(* One loop at a time measures a target: any other is cancelled, so two     *)
(* never keep measuring it into the same series, whatever edits, panics and *)
(* reloads come between.                                                    *)
OneLoopPerTarget ==
  \A i \in DOMAIN loops :
    loops[i].pc # "ended" /\ ~loops[i].cancelled => running[loops[i].target] = i

(* Nothing is sent on, or asked of, a socket the teardown has closed, and   *)
(* none is left open behind it (engine.go Run, connFor).                    *)
SocketOutlivesItsUsers ==
  /\ socket = "closed" => finalizers = {} /\ \A i \in DOMAIN loops : loops[i].pc # "probing"
  /\ engine.pc = "returned" => socket # "open"

(* Once the engine has returned nothing is left in the pipeline ("a         *)
(* shutdown never loses finalized measurements", engine.go writer), and the *)
(* rules have been evaluated on all that is in the store; before, on        *)
(* nothing that is not.                                                     *)
ShutdownFlushes ==
  /\ engine.pc = "returned" => finalizers = {} /\ results = <<>> /\ writer.batch = <<>>
  /\ observed \subseteq stored
  /\ engine.pc = "returned" => observed = stored

(* Whatever is edited and whatever panics, each target ends up measured as  *)
(* the tree now says: no loop stays with settings of before, and none that  *)
(* panicked stays down.                                                     *)
TreeIsFollowed ==
  \A t \in Targets, spec \in Specs :
    <>[](want[t] = spec /\ ~Stopping) =>
      <>[](/\ running[t] # NONE
           /\ loops[running[t]].spec = spec
           /\ loops[running[t]].pc # "ended" /\ ~loops[running[t]].cancelled)

(* A signal ends the process: nothing in the teardown waits for ever.       *)
SignalEndsIt == serve = "shutdown" ~> serve = "exited"
=============================================================================
