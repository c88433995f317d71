-------------------------- MODULE ProbeEngineProofs --------------------------
(***************************************************************************)
(* What the probe engine promises for any number of targets, intervals,    *)
(* edits, panics and failed writes: one loop measures a target, sockets    *)
(* outlive their users, a clean end leaves nothing in the pipeline, and    *)
(* rules are evaluated on what was stored and on nothing else.             *)
(***************************************************************************)
EXTENDS ProbeEngine, FiniteSetTheorems, TLAPS

-----------------------------------------------------------------------------
(* The order of the teardown: the loops and the finalizers end, then the    *)
(* sockets are closed, then the writer empties the channel and ends.        *)
Flushing == engine.pc \in {"flush", "returned"}

TeardownOrder ==
  /\ Flushing => TargetsDone
  /\ writer.pc \in {"drain", "observeLast", "done"} => Flushing
  /\ writer.pc \in {"observeLast", "done"} => results = <<>>
  /\ writer.pc = "done" => writer.batch = <<>>
  /\ engine.pc = "returned" => writer.pc = "done"

(* The teardown knows of every socket there will be. *)
SocketsKnown ==
  /\ socket \in {"none", "open", "closed"}
  /\ engine.pc = "wait" => engine.open = (socket = "open")
  /\ socket = "closed" => Flushing
  /\ Flushing => socket # "open"

(* What has been evaluated is what has been stored, but for the batch the   *)
(* writer has stored and is about to evaluate.                              *)
Observing == writer.pc \in {"observe", "observeLast"}

EvidenceStored == stored = observed \cup (IF Observing THEN ToSet(writer.batch) ELSE {})

(* The map names, for a target, one of its own loops. *)
LoopRecord ==
  [target : Targets, spec : Specs, cancelled : BOOLEAN,
   pc : {"waiting", "resolving", "probing", "ended"}, bucket : Nat]

LoopsTyped ==
  /\ want \in [Targets -> Specs \cup {NONE}]
  /\ engine.pc = "reload" => engine.specs \in [Targets -> Specs \cup {NONE}]
  /\ now \in Nat
  /\ loops \in Seq(LoopRecord)
  /\ running \in [Targets -> Nat \cup {NONE}]

MapNamesOwnLoops ==
  \A t \in Targets : running[t] # NONE =>
    running[t] \in DOMAIN loops /\ loops[running[t]].target = t

IInv ==
  /\ LoopsTyped
  /\ MapNamesOwnLoops
  /\ OneLoopPerTarget
  /\ TeardownOrder
  /\ SocketsKnown
  /\ EvidenceStored

-----------------------------------------------------------------------------
(* The teardown keeps its order. *)
LEMMA TeardownIsKept ==
  ASSUME TeardownOrder, [Next]_vars
  PROVE  TeardownOrder'
<1> USE EngineAssumption DEF TeardownOrder, Flushing, TargetsDone
<1>1. ASSUME LoadSpecs PROVE TeardownOrder'
  BY <1>1 DEF LoadSpecs
<1>2. ASSUME Reload PROVE TeardownOrder'
  BY <1>2 DEF Reload
<1>3. ASSUME Teardown PROVE TeardownOrder'
  BY <1>3 DEF Teardown
<1>4. ASSUME CloseSockets PROVE TeardownOrder'
  BY <1>4 DEF CloseSockets
<1>5. ASSUME Return PROVE TeardownOrder'
  BY <1>5 DEF Return
<1>6. ASSUME NEW i \in DOMAIN loops, Wake(i) PROVE TeardownOrder'
  BY <1>6 DEF Wake
<1>7. ASSUME NEW i \in DOMAIN loops, Unresolved(i) PROVE TeardownOrder'
  BY <1>7 DEF Unresolved, Step
<1>8. ASSUME NEW i \in DOMAIN loops, Connect(i) PROVE TeardownOrder'
  BY <1>8 DEF Connect, Connected
<1>9. ASSUME NEW i \in DOMAIN loops, Send(i) PROVE TeardownOrder'
  BY <1>9 DEF Send
<1>10. ASSUME NEW i \in DOMAIN loops, LoopReturns(i) PROVE TeardownOrder'
  BY <1>10 DEF LoopReturns, Step
<1>11. ASSUME NEW i \in DOMAIN loops, LoopPanics(i) PROVE TeardownOrder'
  BY <1>11 DEF LoopPanics, Descheduled
<1>12. ASSUME NEW f \in finalizers, Finalize(f) PROVE TeardownOrder'
  BY <1>12 DEF Finalize, HasRoom
<1>13. ASSUME Receive PROVE TeardownOrder'
  BY <1>13 DEF Receive
<1>14. ASSUME StopWriter PROVE TeardownOrder'
  BY <1>14 DEF StopWriter
<1>15. ASSUME Write PROVE TeardownOrder'
  BY <1>15 DEF Write, Flushes
<1>16. ASSUME WriteFails PROVE TeardownOrder'
  BY <1>16 DEF WriteFails, AfterFailure, Flushes
<1>17. ASSUME Observe PROVE TeardownOrder'
  BY <1>17 DEF Observe
<1>18. ASSUME WriterDone PROVE TeardownOrder'
  BY <1>18 DEF WriterDone, Flushes
<1>19. ASSUME Signal PROVE TeardownOrder'
  BY <1>19 DEF Signal
<1>20. ASSUME ServerDown PROVE TeardownOrder'
  BY <1>20 DEF ServerDown
<1>21. ASSUME Exit PROVE TeardownOrder'
  BY <1>21 DEF Exit
<1>22. ASSUME NEW t \in Targets, NEW spec \in Specs \cup {NONE}, EditTarget(t, spec)
       PROVE TeardownOrder'
  BY <1>22 DEF EditTarget
<1>23. ASSUME Tick PROVE TeardownOrder'
  BY <1>23 DEF Tick
<1>24. ASSUME UNCHANGED vars PROVE TeardownOrder'
  BY <1>24 DEF vars
<1> QED
  BY <1>1, <1>2, <1>3, <1>4, <1>5, <1>6, <1>7, <1>8, <1>9, <1>10, <1>11, <1>12,
     <1>13, <1>14, <1>15, <1>16, <1>17, <1>18, <1>19, <1>20, <1>21, <1>22, <1>23, <1>24
     DEF Next, Engine, Loop, Writer

(* No socket is opened behind the teardown's back. *)
LEMMA SocketsAreKnown ==
  ASSUME TeardownOrder, SocketsKnown, [Next]_vars
  PROVE  SocketsKnown'
<1> USE EngineAssumption DEF TeardownOrder, SocketsKnown, Flushing
<1>1. ASSUME LoadSpecs PROVE SocketsKnown'
  BY <1>1 DEF LoadSpecs
<1>2. ASSUME Reload PROVE SocketsKnown'
  BY <1>2 DEF Reload
<1>3. ASSUME Teardown PROVE SocketsKnown'
  BY <1>3 DEF Teardown
<1>4. ASSUME CloseSockets PROVE SocketsKnown'
  BY <1>4 DEF CloseSockets
<1>5. ASSUME Return PROVE SocketsKnown'
  BY <1>5 DEF Return
<1>6. ASSUME NEW i \in DOMAIN loops, Wake(i) PROVE SocketsKnown'
  BY <1>6 DEF Wake
<1>7. ASSUME NEW i \in DOMAIN loops, Unresolved(i) PROVE SocketsKnown'
  BY <1>7 DEF Unresolved
<1>8. ASSUME NEW i \in DOMAIN loops, Connect(i) PROVE SocketsKnown'
  BY <1>8 DEF Connect, Connected, ShuttingDown
<1>9. ASSUME NEW i \in DOMAIN loops, Send(i) PROVE SocketsKnown'
  BY <1>9 DEF Send
<1>10. ASSUME NEW i \in DOMAIN loops, LoopReturns(i) PROVE SocketsKnown'
  BY <1>10 DEF LoopReturns
<1>11. ASSUME NEW i \in DOMAIN loops, LoopPanics(i) PROVE SocketsKnown'
  BY <1>11 DEF LoopPanics
<1>12. ASSUME NEW f \in finalizers, Finalize(f) PROVE SocketsKnown'
  BY <1>12 DEF Finalize
<1>13. ASSUME Receive PROVE SocketsKnown'
  BY <1>13 DEF Receive
<1>14. ASSUME StopWriter PROVE SocketsKnown'
  BY <1>14 DEF StopWriter
<1>15. ASSUME Write PROVE SocketsKnown'
  BY <1>15 DEF Write
<1>16. ASSUME WriteFails PROVE SocketsKnown'
  BY <1>16 DEF WriteFails
<1>17. ASSUME Observe PROVE SocketsKnown'
  BY <1>17 DEF Observe
<1>18. ASSUME WriterDone PROVE SocketsKnown'
  BY <1>18 DEF WriterDone
<1>19. ASSUME Signal PROVE SocketsKnown'
  BY <1>19 DEF Signal
<1>20. ASSUME ServerDown PROVE SocketsKnown'
  BY <1>20 DEF ServerDown
<1>21. ASSUME Exit PROVE SocketsKnown'
  BY <1>21 DEF Exit
<1>22. ASSUME NEW t \in Targets, NEW spec \in Specs \cup {NONE}, EditTarget(t, spec)
       PROVE SocketsKnown'
  BY <1>22 DEF EditTarget
<1>23. ASSUME Tick PROVE SocketsKnown'
  BY <1>23 DEF Tick
<1>24. ASSUME UNCHANGED vars PROVE SocketsKnown'
  BY <1>24 DEF vars
<1> QED
  BY <1>1, <1>2, <1>3, <1>4, <1>5, <1>6, <1>7, <1>8, <1>9, <1>10, <1>11, <1>12,
     <1>13, <1>14, <1>15, <1>16, <1>17, <1>18, <1>19, <1>20, <1>21, <1>22, <1>23, <1>24
     DEF Next, Engine, Loop, Writer

(* Storing comes before evaluating, and both take the whole batch. *)
LEMMA EvidenceIsKept ==
  ASSUME EvidenceStored, [Next]_vars
  PROVE  EvidenceStored'
<1> USE EngineAssumption DEF EvidenceStored, Observing
<1>1. ASSUME LoadSpecs PROVE EvidenceStored'
  BY <1>1 DEF LoadSpecs
<1>2. ASSUME Reload PROVE EvidenceStored'
  BY <1>2 DEF Reload
<1>3. ASSUME Teardown PROVE EvidenceStored'
  BY <1>3 DEF Teardown
<1>4. ASSUME CloseSockets PROVE EvidenceStored'
  BY <1>4 DEF CloseSockets
<1>5. ASSUME Return PROVE EvidenceStored'
  BY <1>5 DEF Return
<1>6. ASSUME NEW i \in DOMAIN loops, Wake(i) PROVE EvidenceStored'
  BY <1>6 DEF Wake
<1>7. ASSUME NEW i \in DOMAIN loops, Unresolved(i) PROVE EvidenceStored'
  BY <1>7 DEF Unresolved
<1>8. ASSUME NEW i \in DOMAIN loops, Connect(i) PROVE EvidenceStored'
  BY <1>8 DEF Connect
<1>9. ASSUME NEW i \in DOMAIN loops, Send(i) PROVE EvidenceStored'
  BY <1>9 DEF Send
<1>10. ASSUME NEW i \in DOMAIN loops, LoopReturns(i) PROVE EvidenceStored'
  BY <1>10 DEF LoopReturns
<1>11. ASSUME NEW i \in DOMAIN loops, LoopPanics(i) PROVE EvidenceStored'
  BY <1>11 DEF LoopPanics
<1>12. ASSUME NEW f \in finalizers, Finalize(f) PROVE EvidenceStored'
  BY <1>12 DEF Finalize
<1>13. ASSUME Receive PROVE EvidenceStored'
  BY <1>13 DEF Receive
<1>14. ASSUME StopWriter PROVE EvidenceStored'
  BY <1>14 DEF StopWriter
<1>15. ASSUME Write PROVE EvidenceStored'
  BY <1>15 DEF Write
<1>16. ASSUME WriteFails PROVE EvidenceStored'
  BY <1>16 DEF WriteFails, AfterFailure, Flushes
<1>17. ASSUME Observe PROVE EvidenceStored'
  BY <1>17 DEF Observe
<1>18. ASSUME WriterDone PROVE EvidenceStored'
  BY <1>18 DEF WriterDone
<1>19. ASSUME Signal PROVE EvidenceStored'
  BY <1>19 DEF Signal
<1>20. ASSUME ServerDown PROVE EvidenceStored'
  BY <1>20 DEF ServerDown
<1>21. ASSUME Exit PROVE EvidenceStored'
  BY <1>21 DEF Exit
<1>22. ASSUME NEW t \in Targets, NEW spec \in Specs \cup {NONE}, EditTarget(t, spec)
       PROVE EvidenceStored'
  BY <1>22 DEF EditTarget
<1>23. ASSUME Tick PROVE EvidenceStored'
  BY <1>23 DEF Tick
<1>24. ASSUME UNCHANGED vars PROVE EvidenceStored'
  BY <1>24 DEF vars
<1> QED
  BY <1>1, <1>2, <1>3, <1>4, <1>5, <1>6, <1>7, <1>8, <1>9, <1>10, <1>11, <1>12,
     <1>13, <1>14, <1>15, <1>16, <1>17, <1>18, <1>19, <1>20, <1>21, <1>22, <1>23, <1>24
     DEF Next, Engine, Loop, Writer
-----------------------------------------------------------------------------
(* SetToSeq lists a finite set, each member once. *)
LEMMA SetToSeqLists ==
  ASSUME NEW S, IsFiniteSet(S)
  PROVE  /\ SetToSeq(S) \in [1..Cardinality(S) -> S]
         /\ IsInjective(SetToSeq(S))
         /\ \A x \in S : \E n \in 1..Cardinality(S) : SetToSeq(S)[n] = x
<1>1. PICK f : f \in Bijection(1..Cardinality(S), S)
  BY FS_CardinalityType DEF ExistsBijection
<1>2. f \in [1..Cardinality(S) -> S] /\ IsInjective(f)
  BY <1>1 DEF Bijection, Injection
<1>3. SetToSeq(S) \in [1..Cardinality(S) -> S] /\ IsInjective(SetToSeq(S))
  BY <1>2 DEF SetToSeq
<1>4. SetToSeq(S) \in Injection(1..Cardinality(S), S)
  BY <1>3 DEF Injection
<1>5. Cardinality(S) \in Nat /\ Cardinality(1..Cardinality(S)) = Cardinality(S)
  BY FS_CardinalityType, FS_Interval
<1>6. SetToSeq(S) \in Surjection(1..Cardinality(S), S)
  BY <1>4, <1>5, FS_Injection
<1> QED
  BY <1>3, <1>6 DEF Surjection

(* What a loop's own steps leave of all loops: targets, settings and        *)
(* cancellations as they were, and none revived.                            *)
LoopsGoOn ==
  /\ loops' \in Seq(LoopRecord) /\ DOMAIN loops' = DOMAIN loops
  /\ \A j \in DOMAIN loops :
       /\ loops'[j].target = loops[j].target
       /\ loops'[j].spec = loops[j].spec
       /\ loops'[j].cancelled = loops[j].cancelled
       /\ loops[j].pc = "ended" => loops'[j].pc = "ended"

(* A loop that goes on, or ends, is in its place with what it had. *)
LEMMA LoopAdvances ==
  ASSUME LoopsTyped, NEW i \in DOMAIN loops, loops[i].pc # "ended",
         NEW r \in LoopRecord, loops' = [loops EXCEPT ![i] = r],
         r.target = loops[i].target, r.spec = loops[i].spec, r.cancelled = loops[i].cancelled
  PROVE  LoopsGoOn
BY DEF LoopsTyped, LoopsGoOn

(* Every step of a loop is of that form. *)
LEMMA LoopStep ==
  ASSUME LoopsTyped, MapNamesOwnLoops, OneLoopPerTarget, NEW i \in DOMAIN loops, Loop(i)
  PROVE  LoopsTyped' /\ MapNamesOwnLoops' /\ OneLoopPerTarget'
<1>1. loops[i] \in LoopRecord /\ loops[i].bucket \in Nat /\ now \in Nat
  <2>1. loops[i] \in LoopRecord /\ now \in Nat
    BY DEF LoopsTyped
  <2> QED
    BY <2>1 DEF LoopRecord
<1> DEFINE at(pc, b) == [loops[i] EXCEPT !.pc = pc, !.bucket = b]
<1>2. \A pc \in {"waiting", "resolving", "probing", "ended"}, b \in Nat :
        /\ at(pc, b) \in LoopRecord
        /\ at(pc, b).target = loops[i].target
        /\ at(pc, b).spec = loops[i].spec
        /\ at(pc, b).cancelled = loops[i].cancelled
  BY <1>1 DEF LoopRecord
<1>3. /\ loops[i].pc # "ended"
      /\ UNCHANGED <<running, want, now, engine>>
      /\ \E pc \in {"waiting", "resolving", "probing", "ended"}, b \in Nat :
           loops' = [loops EXCEPT ![i] = at(pc, b)]
  <2>1. CASE Wake(i)
    BY <1>1, <2>1 DEF Wake
  <2>2. CASE Unresolved(i)
    <3>1. loops' \in {[loops EXCEPT ![i] = at("ended", loops[i].bucket)],
                      [loops EXCEPT ![i] = at("waiting", loops[i].bucket + 1)]}
      BY <1>1, <2>2 DEF Unresolved, Step, LoopRecord
    <3>2. loops[i].pc # "ended" /\ UNCHANGED <<running, want, now, engine>>
      BY <2>2 DEF Unresolved
    <3> HIDE DEF at
    <3> QED
      BY <1>1, <3>1, <3>2
  <2>3. CASE Connect(i)
    BY <1>1, <2>3 DEF Connect, Connected, Step
  <2>4. CASE Send(i)
    <3>1. loops' \in {[loops EXCEPT ![i] = at("ended", loops[i].bucket)],
                      [loops EXCEPT ![i] = at("waiting", loops[i].bucket + 1)]}
      BY <1>1, <2>4 DEF Send, Step, LoopRecord
    <3>2. loops[i].pc # "ended" /\ UNCHANGED <<running, want, now, engine>>
      BY <2>4 DEF Send
    <3> HIDE DEF at
    <3> QED
      BY <1>1, <3>1, <3>2
  <2>5. CASE LoopReturns(i)
    BY <1>1, <2>5 DEF LoopReturns, Step
  <2> QED
    BY <2>1, <2>2, <2>3, <2>4, <2>5 DEF Loop
<1> HIDE DEF at
<1>4. LoopsGoOn
  BY <1>2, <1>3, LoopAdvances
<1> QED
  BY <1>3, <1>4 DEF LoopsGoOn, LoopsTyped, MapNamesOwnLoops, OneLoopPerTarget

(* A panic ends its loop, and takes out of the map only one it cancels.     *)
LEMMA PanicStep ==
  ASSUME LoopsTyped, MapNamesOwnLoops, OneLoopPerTarget, NEW i \in DOMAIN loops, LoopPanics(i)
  PROVE  LoopsTyped' /\ MapNamesOwnLoops' /\ OneLoopPerTarget'
<1> DEFINE t == loops[i].target
<1> DEFINE r == running[t]
<1>1. UNCHANGED <<want, now, engine>>
  BY DEF LoopPanics
<1>2. t \in Targets /\ r \in Nat \cup {NONE}
  <2>1. loops[i] \in LoopRecord
    BY DEF LoopsTyped
  <2> QED
    BY <2>1 DEF LoopRecord, LoopsTyped
<1> DEFINE ended(rec) == [rec EXCEPT !.pc = "ended"]
<1> DEFINE off(rec)   == [rec EXCEPT !.cancelled = TRUE]
<1>3. \A rec \in LoopRecord :
        /\ ended(rec) \in LoopRecord /\ off(rec) \in LoopRecord
        /\ ended(rec).target = rec.target /\ off(rec).target = rec.target
        /\ ended(rec).pc = "ended" /\ off(rec).pc = rec.pc
        /\ ended(rec).cancelled = rec.cancelled /\ off(rec).cancelled = TRUE
  BY DEF LoopRecord
<1>4. \A j \in DOMAIN loops : loops[j] \in LoopRecord
  BY DEF LoopsTyped
<1>5. PICK m \in Nat : DOMAIN loops = 1..m
  BY DEF LoopsTyped
<1>6. CASE r # NONE /\ loops[r].spec = loops[i].spec
  <2>1. /\ running' = [running EXCEPT ![t] = NONE]
        /\ loops' = [loops EXCEPT ![i].pc = "ended", ![r].cancelled = TRUE]
        /\ r \in DOMAIN loops /\ loops[r].target = t
    BY <1>2, <1>6 DEF LoopPanics, Descheduled, MapNamesOwnLoops
  <2>2. loops' = [j \in 1..m |->
                    IF j = r THEN off(IF j = i THEN ended(loops[j]) ELSE loops[j])
                    ELSE IF j = i THEN ended(loops[j]) ELSE loops[j]]
    BY <1>5, <2>1
  <2> HIDE DEF ended, off
  <2>3. \A j \in 1..m :
          /\ loops'[j] \in LoopRecord
          /\ loops'[j].target = loops[j].target
          /\ loops[j].pc = "ended" => loops'[j].pc = "ended"
          /\ loops[j].cancelled => loops'[j].cancelled
    BY <1>3, <1>4, <1>5, <2>2
  <2>4. loops'[i].pc = "ended" /\ loops'[r].cancelled
    BY <1>3, <1>4, <1>5, <2>1, <2>2
  <2>5. loops' \in Seq(LoopRecord) /\ DOMAIN loops' = 1..m
    BY <2>2, <2>3
  <2>6. LoopsTyped' /\ MapNamesOwnLoops'
    <3>1. running' \in [Targets -> Nat \cup {NONE}]
      BY <2>1 DEF LoopsTyped
    <3>2. \A x \in Targets : running'[x] # NONE => running'[x] = running[x]
      BY <2>1 DEF LoopsTyped
    <3>3. MapNamesOwnLoops'
      BY <1>5, <2>3, <2>5, <3>2 DEF MapNamesOwnLoops
    <3> QED
      BY <1>1, <2>5, <3>1, <3>3 DEF LoopsTyped
  <2>7. OneLoopPerTarget'
    <3> SUFFICES ASSUME NEW j \in 1..m, loops'[j].pc # "ended", ~loops'[j].cancelled
                 PROVE  running'[loops[j].target] = j
      BY <2>3, <2>5 DEF OneLoopPerTarget
    <3>1. loops[j].pc # "ended" /\ ~loops[j].cancelled
      BY <2>3
    <3>2. running[loops[j].target] = j
      BY <1>5, <3>1 DEF OneLoopPerTarget
    <3>3. j # r
      BY <2>4
    <3>4. loops[j].target # t
      BY <3>2, <3>3
    <3> QED
      BY <2>1, <3>2, <3>4 DEF LoopsTyped
  <2> QED
    BY <2>6, <2>7
<1>7. CASE ~(r # NONE /\ loops[r].spec = loops[i].spec)
  <2>1. running' = running /\ loops' = [loops EXCEPT ![i].pc = "ended"]
    BY <1>7 DEF LoopPanics, Descheduled, Step
  <2>2. loops' = [j \in 1..m |-> IF j = i THEN ended(loops[j]) ELSE loops[j]]
    BY <1>5, <2>1
  <2> HIDE DEF ended, off
  <2>3. \A j \in 1..m :
          /\ loops'[j] \in LoopRecord
          /\ loops'[j].target = loops[j].target
          /\ loops[j].pc = "ended" => loops'[j].pc = "ended"
          /\ loops[j].cancelled => loops'[j].cancelled
    BY <1>3, <1>4, <1>5, <2>2
  <2>4. loops' \in Seq(LoopRecord) /\ DOMAIN loops' = 1..m
    BY <2>2, <2>3
  <2> QED
    BY <1>1, <1>5, <2>1, <2>3, <2>4 DEF LoopsTyped, MapNamesOwnLoops, OneLoopPerTarget
<1> QED
  BY <1>6, <1>7

(* A reload cancels what it replaces, and maps each target it starts to the *)
(* one loop it starts for it.                                               *)
LEMMA ReloadStep ==
  ASSUME LoopsTyped, MapNamesOwnLoops, OneLoopPerTarget, Reload
  PROVE  LoopsTyped' /\ MapNamesOwnLoops' /\ OneLoopPerTarget'
<1> DEFINE started == {t \in Targets : engine.specs[t] # NONE /\ (running[t] = NONE \/ Outdated(t))}
<1> DEFINE new == SetToSeq(started)
<1> DEFINE number == [t \in started |-> Len(loops) + CHOOSE i \in DOMAIN new : new[i] = t]
<1> DEFINE old == [i \in DOMAIN loops |->
                     IF \E t \in Replaced : running[t] = i
                     THEN [loops[i] EXCEPT !.cancelled = TRUE] ELSE loops[i]]
<1> DEFINE fresh == [i \in DOMAIN new |-> [target |-> new[i], spec |-> engine.specs[new[i]],
                                           cancelled |-> FALSE, pc |-> "waiting", bucket |-> 0]]
<1>1. /\ engine.pc = "reload" /\ engine' = [pc |-> "run"] /\ UNCHANGED <<want, now>>
      /\ engine.specs \in [Targets -> Specs \cup {NONE}]
      /\ loops' = old \o fresh
      /\ running' = [t \in Targets |-> IF t \in started THEN number[t]
                                       ELSE IF Outdated(t) THEN NONE ELSE running[t]]
  BY DEF Reload, LoopsTyped
<1>2. PICK n \in Nat : /\ new \in [1..n -> started] /\ IsInjective(new)
                       /\ \A t \in started : \E i \in 1..n : new[i] = t
  <2>1. IsFiniteSet(started)
    BY EngineAssumption, FS_Subset
  <2> HIDE DEF started
  <2>2. Cardinality(started) \in Nat
    BY <2>1, FS_CardinalityType
  <2>3. /\ new \in [1..Cardinality(started) -> started] /\ IsInjective(new)
        /\ \A t \in started : \E i \in 1..Cardinality(started) : new[i] = t
    BY <2>1, SetToSeqLists
  <2> HIDE DEF new
  <2> QED
    BY <2>2, <2>3
<1>3. PICK m \in Nat : m = Len(loops) /\ DOMAIN loops = 1..m
  BY DEF LoopsTyped
<1>4. old \in Seq(LoopRecord) /\ Len(old) = m
  <2>1. \A i \in DOMAIN loops : loops[i] \in LoopRecord
    BY DEF LoopsTyped
  <2>2. \A i \in DOMAIN loops : [loops[i] EXCEPT !.cancelled = TRUE] \in LoopRecord
    BY <2>1 DEF LoopRecord
  <2>3. \A i \in 1..m : old[i] \in LoopRecord
    BY <1>3, <2>1, <2>2
  <2> QED
    BY <1>3, <2>3
<1>5. fresh \in Seq(LoopRecord) /\ Len(fresh) = n
  <2>1. \A i \in 1..n : new[i] \in Targets /\ engine.specs[new[i]] \in Specs
    BY <1>1, <1>2
  <2>2. \A i \in 1..n : fresh[i] \in LoopRecord
    BY <1>2, <2>1 DEF LoopRecord
  <2>3. fresh \in [1..n -> LoopRecord]
    BY <1>2, <2>2
  <2> HIDE DEF fresh
  <2> QED
    BY <2>3
<1>6. \A t \in started : \E i \in 1..n : number[t] = m + i /\ new[i] = t
  BY <1>2, <1>3
<1>7. \A i \in 1..n : number[new[i]] = m + i
  <2> TAKE i \in 1..n
  <2>1. new[i] \in started
    BY <1>2
  <2>2. PICK k \in 1..n : number[new[i]] = m + k /\ new[k] = new[i]
    BY <1>6, <2>1
  <2>3. k = i
    BY <1>2, <2>2 DEF IsInjective
  <2> QED
    BY <2>2, <2>3
<1>8. \A i \in 1..m : old[i].target = loops[i].target /\ old[i].pc = loops[i].pc
  <2>1. \A i \in DOMAIN loops : loops[i] \in LoopRecord
    BY DEF LoopsTyped
  <2> QED
    BY <1>3, <2>1 DEF LoopRecord
<1>9. \A i \in 1..n : fresh[i].target = new[i]
  BY <1>2
<1> HIDE DEF number, fresh, new, old, started
<1>10. loops' \in Seq(LoopRecord) /\ DOMAIN loops' = 1..(m + n)
  <2>1. loops' = old \o fresh
    BY <1>1
  <2>2. old \o fresh \in Seq(LoopRecord)
    BY <1>4, <1>5
  <2>3. Len(old \o fresh) = m + n
    BY <1>4, <1>5
  <2>4. DOMAIN (old \o fresh) = 1..Len(old \o fresh)
    BY <2>2
  <2> QED
    BY <2>1, <2>2, <2>3, <2>4
<1>11. \A i \in 1..m : loops'[i] = old[i]
  BY <1>1, <1>4, <1>5
<1>12. \A i \in 1..n : loops'[m + i] = fresh[i]
  BY <1>1, <1>4, <1>5
<1>13. LoopsTyped'
  <2>1. running' \in [Targets -> Nat \cup {NONE}]
    BY <1>1, <1>3, <1>6 DEF LoopsTyped
  <2> QED
    BY <1>1, <1>10, <2>1 DEF LoopsTyped
<1>14. MapNamesOwnLoops'
  <2> SUFFICES ASSUME NEW t \in Targets, running'[t] # NONE
               PROVE  running'[t] \in DOMAIN loops' /\ loops'[running'[t]].target = t
    BY DEF MapNamesOwnLoops
  <2>1. CASE t \in started
    <3>1. PICK i \in 1..n : number[t] = m + i /\ new[i] = t
      BY <1>6, <2>1
    <3>2. running'[t] = m + i
      BY <1>1, <2>1, <3>1
    <3>3. loops'[m + i].target = t
      BY <1>9, <1>12, <3>1
    <3> QED
      BY <1>10, <3>2, <3>3
  <2>2. CASE t \notin started
    <3>1. running'[t] = running[t] /\ running[t] \in 1..m /\ loops[running[t]].target = t
      BY <1>1, <1>3, <2>2 DEF MapNamesOwnLoops
    <3> QED
      BY <1>10, <1>11, <1>8, <3>1
  <2> QED
    BY <2>1, <2>2
<1>15. OneLoopPerTarget'
  <2> SUFFICES ASSUME NEW i \in 1..(m + n), loops'[i].pc # "ended", ~loops'[i].cancelled
               PROVE  running'[loops'[i].target] = i
    BY <1>10 DEF OneLoopPerTarget
  <2>1. CASE i \in 1..m
    <3> DEFINE t == loops[i].target
    <3>1. loops[i] \in LoopRecord
      BY <1>3, <2>1 DEF LoopsTyped
    <3>2. t \in Targets /\ [loops[i] EXCEPT !.cancelled = TRUE].cancelled = TRUE
      BY <3>1 DEF LoopRecord
    <3>3. ~(\E x \in Replaced : running[x] = i) /\ old[i] = loops[i]
      BY <1>3, <1>11, <2>1, <3>2 DEF old
    <3>4. running[t] = i
      BY <1>3, <1>11, <2>1, <3>3 DEF OneLoopPerTarget
    <3>5. ~Outdated(t)
      BY <3>2, <3>3, <3>4 DEF Replaced
    <3>6. running[t] # NONE
      BY <2>1, <3>4, EngineAssumption
    <3>7. t \notin started
      BY <3>5, <3>6 DEF started
    <3> QED
      BY <1>1, <1>11, <2>1, <3>2, <3>3, <3>4, <3>5, <3>7
  <2>2. CASE i \notin 1..m
    <3>1. PICK k \in 1..n : i = m + k
      <4>1. i - m \in 1..n /\ i = m + (i - m)
        BY <2>2
      <4> QED
        BY <4>1
    <3>2. loops'[i].target = new[k] /\ new[k] \in started
      BY <1>2, <1>12, <1>9, <3>1
    <3>3. new[k] \in Targets
      BY <3>2 DEF started
    <3> QED
      BY <1>1, <1>7, <3>1, <3>2, <3>3
  <2> QED
    BY <2>1, <2>2
<1> QED
  BY <1>13, <1>14, <1>15
-----------------------------------------------------------------------------
(* Only a reload, a loop's own step and a panic touch the loops and the map. *)
LEMMA LoopsAreKept ==
  ASSUME LoopsTyped, MapNamesOwnLoops, OneLoopPerTarget, [Next]_vars
  PROVE  LoopsTyped' /\ MapNamesOwnLoops' /\ OneLoopPerTarget'
<1>1. ASSUME NEW i \in DOMAIN loops, Loop(i)
      PROVE  LoopsTyped' /\ MapNamesOwnLoops' /\ OneLoopPerTarget'
  BY <1>1, LoopStep
<1>2. ASSUME NEW i \in DOMAIN loops, LoopPanics(i)
      PROVE  LoopsTyped' /\ MapNamesOwnLoops' /\ OneLoopPerTarget'
  BY <1>2, PanicStep
<1>3. CASE Reload
  BY <1>3, ReloadStep
<1>4. CASE UNCHANGED <<loops, running>> /\ want' \in [Targets -> Specs \cup {NONE}] /\ now' \in Nat
           /\ (engine'.pc = "reload" => engine'.specs \in [Targets -> Specs \cup {NONE}])
  BY <1>4 DEF LoopsTyped, MapNamesOwnLoops, OneLoopPerTarget
<1> DEFINE Still ==
      /\ UNCHANGED <<loops, running>>
      /\ want' \in [Targets -> Specs \cup {NONE}] /\ now' \in Nat
      /\ engine'.pc = "reload" => engine'.specs \in [Targets -> Specs \cup {NONE}]
<1>5. CASE LoadSpecs \/ Teardown \/ CloseSockets \/ Return
  <2>1. Still
    BY <1>5 DEF LoopsTyped, LoadSpecs, Teardown, CloseSockets, Return
  <2> QED
    BY <1>4, <2>1
<1>6. CASE Writer
  <2>1. Still
    BY <1>6 DEF LoopsTyped, Writer, Receive, StopWriter, Write, WriteFails, Observe, WriterDone
  <2> QED
    BY <1>4, <2>1
<1>7. CASE Signal \/ ServerDown \/ Exit \/ Tick \/ UNCHANGED vars
  <2>1. Still
    BY <1>7 DEF LoopsTyped, Signal, ServerDown, Exit, Tick, vars, counts
  <2> QED
    BY <1>4, <2>1
<1>8. ASSUME NEW f \in finalizers, Finalize(f)
      PROVE  LoopsTyped' /\ MapNamesOwnLoops' /\ OneLoopPerTarget'
  <2>1. Still
    BY <1>8 DEF LoopsTyped, Finalize
  <2> QED
    BY <1>4, <2>1
<1>9. ASSUME NEW t \in Targets, NEW spec \in Specs \cup {NONE}, EditTarget(t, spec)
      PROVE  LoopsTyped' /\ MapNamesOwnLoops' /\ OneLoopPerTarget'
  <2>1. Still
    BY <1>9 DEF LoopsTyped, EditTarget
  <2> QED
    BY <1>4, <2>1
<1> QED
  BY <1>1, <1>2, <1>3, <1>5, <1>6, <1>7, <1>8, <1>9 DEF Next, Engine

(* The invariant holds of every behaviour. *)
LEMMA InvHolds == Spec => []IInv
<1>1. Init => IInv
  <2> SUFFICES ASSUME Init PROVE IInv
    OBVIOUS
  <2>1. LoopsTyped
    BY EngineAssumption DEF Init, LoopsTyped
  <2>2. MapNamesOwnLoops /\ OneLoopPerTarget
    BY DEF Init, MapNamesOwnLoops, OneLoopPerTarget
  <2>3. TeardownOrder /\ SocketsKnown /\ EvidenceStored
    BY DEF Init, TeardownOrder, SocketsKnown, EvidenceStored, Flushing, Observing
  <2> QED
    BY <2>1, <2>2, <2>3 DEF IInv
<1>2. IInv /\ [Next]_vars => IInv'
  BY LoopsAreKept, TeardownIsKept, SocketsAreKnown, EvidenceIsKept DEF IInv
<1> QED
  BY <1>1, <1>2, PTL DEF Spec

(* One goroutine measures a target, whatever edits, reloads and panics come *)
(* between (engine.go reload, runTarget's recovery).                        *)
THEOREM OneLoopMeasures == Spec => []OneLoopPerTarget
<1>1. IInv => OneLoopPerTarget
  BY DEF IInv
<1> QED
  BY InvHolds, <1>1, PTL

(* No goroutine uses a socket that has been closed, and none is left open   *)
(* (engine.go Run, connFor).                                                *)
THEOREM SocketsOutlive == Spec => []SocketOutlivesItsUsers
<1>1. IInv => SocketOutlivesItsUsers
  BY DEF IInv, SocketsKnown, TeardownOrder, Flushing, TargetsDone, SocketOutlivesItsUsers
<1> QED
  BY InvHolds, <1>1, PTL

(* When the engine returns nothing it measured is still on its way to the   *)
(* store, and rules have been evaluated on all that is in it and, before,   *)
(* on nothing that is not (engine.go Run and writer).                       *)
THEOREM NothingLeftInThePipeline == Spec => []ShutdownFlushes
<1>1. IInv => (engine.pc = "returned" => finalizers = {} /\ results = <<>> /\ writer.batch = <<>>)
  BY DEF IInv, TeardownOrder, Flushing, TargetsDone
<1>2. IInv => observed \subseteq stored /\ (engine.pc = "returned" => observed = stored)
  BY DEF IInv, EvidenceStored, TeardownOrder, Observing
<1>3. IInv => ShutdownFlushes
  BY <1>1, <1>2 DEF ShutdownFlushes
<1> QED
  BY InvHolds, <1>3, PTL
=============================================================================
