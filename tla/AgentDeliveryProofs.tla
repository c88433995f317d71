------------------------- MODULE AgentDeliveryProofs -------------------------
(***************************************************************************)
(* Proofs about AgentDelivery, for every set of targets, intervals and row *)
(* contents, every capacity and every number of failures.                  *)
(***************************************************************************)
EXTENDS AgentDelivery, WellFoundedInduction, FiniteSetTheorems, TLAPS

-----------------------------------------------------------------------------
(* A bounded, nonempty set of indices has a largest member. *)
LEMMA LargestExists ==
  ASSUME NEW n \in Nat, NEW S \in SUBSET (1..n), S # {}
  PROVE  \E i \in S : \A j \in S : j <= i
<1> DEFINE T == {n - i : i \in S}
           R == OpToRel(<, Nat)
<1>1. T \subseteq Nat
  OBVIOUS
<1>a. T # {}
  <2>1. PICK i \in S : TRUE
    OBVIOUS
  <2>2. n - i \in T
    BY <2>1
  <2> QED
    BY <2>2
<1>2. PICK x \in T : \A y \in T : ~(<<y, x>> \in R)
  <2>1. IsWellFoundedOn(R, Nat)
    BY NatLessThanWellFounded
  <2> HIDE DEF R, T
  <2> QED
    BY <1>1, <1>a, <2>1, WFMin
<1>3. \A y \in T : ~(y < x)
  BY <1>1, <1>2 DEF OpToRel
<1>4. PICK i \in S : x = n - i
  OBVIOUS
<1>5. \A j \in S : j <= i
  BY <1>3, <1>4
<1> QED
  BY <1>5

(* A table in which each place a batch names holds one of the batch's rows  *)
(* for it, and every other place is as it was.                              *)
Applied(new, table, batch) ==
  /\ new \in Table
  /\ \A k \in Keys :
       \/ new[k] = table[k] /\ \A i \in 1..Len(batch) : batch[i][1] # k
       \/ new[k] \in Vals /\ \E i \in 1..Len(batch) : batch[i] = <<k, new[k]>>

(* What committing a batch to the outbox makes of it. *)
LEMMA ReplacedTable ==
  ASSUME NEW table \in Table, NEW batch \in Seq(Keys \X Vals)
  PROVE  Applied(Replaced(table, batch), table, batch)
<1> DEFINE At(k) == {i \in 1..Len(batch) : batch[i][1] = k}
           Last(k) == CHOOSE i \in At(k) : \A j \in At(k) : j <= i
<1>1. ASSUME NEW k \in Keys, At(k) # {}
      PROVE  /\ Last(k) \in 1..Len(batch)
             /\ batch[Last(k)] = <<k, batch[Last(k)][2]>>
             /\ batch[Last(k)][2] \in Vals
  <2>1. \E i \in At(k) : \A j \in At(k) : j <= i
    <3>1. Len(batch) \in Nat /\ At(k) \in SUBSET (1..Len(batch))
      OBVIOUS
    <3> HIDE DEF At
    <3> QED
      BY <1>1, <3>1, LargestExists
  <2>2. Last(k) \in At(k)
    BY <2>1
  <2>3. Last(k) \in 1..Len(batch) /\ batch[Last(k)] \in Keys \X Vals /\ batch[Last(k)][1] = k
    BY <2>2
  <2> HIDE DEF At, Last
  <2> QED
    BY <2>3
<1>2. \A k \in Keys : Replaced(table, batch)[k] =
                        IF At(k) = {} THEN table[k] ELSE batch[Last(k)][2]
  BY DEF Replaced
<1>3. Replaced(table, batch) = [k \in Keys |-> IF At(k) = {} THEN table[k] ELSE batch[Last(k)][2]]
  BY DEF Replaced
<1>4. \A k \in Keys : At(k) = {} => \A i \in 1..Len(batch) : batch[i][1] # k
  OBVIOUS
<1> HIDE DEF At, Last
<1>5. Replaced(table, batch) \in Table
  BY <1>1, <1>3 DEF Table
<1>6. ASSUME NEW k \in Keys
      PROVE  LET new == Replaced(table, batch)
             IN  \/ new[k] = table[k] /\ \A i \in 1..Len(batch) : batch[i][1] # k
                 \/ new[k] \in Vals /\ \E i \in 1..Len(batch) : batch[i] = <<k, new[k]>>
  <2>1. CASE At(k) = {}
    BY <1>2, <1>4, <2>1
  <2>2. CASE At(k) # {}
    <3>1. Replaced(table, batch)[k] = batch[Last(k)][2]
      BY <1>2, <2>2
    <3> QED
      BY <1>1, <2>2, <3>1
  <2> QED
    BY <2>1, <2>2
<1> QED
  BY <1>5, <1>6 DEF Applied

(* A submission's rows are values for keys. *)
LEMMA RowsType ==
  ASSUME NEW rows \in Rows
  PROVE  DOMAIN rows \subseteq Keys /\ \A k \in DOMAIN rows : rows[k] \in Vals
BY DEF Rows

-----------------------------------------------------------------------------
(* Type correctness. *)
LEMMA InitType == Init => TypeOK
<1> SUFFICES ASSUME Init PROVE TypeOK
  OBVIOUS
<1>1. outbox \in Table /\ stored \in Table
  BY DEF Init, Table
<1>2. ahead \in Aheads
  BY DeliveryAssumption DEF Init
<1>3. results \in Seq(Keys \X Vals) /\ req \in Request \cup {NONE}
  BY DEF Init
<1>4. /\ measured = {} /\ written = {} /\ mirror = {} /\ net = {} /\ handlers = {}
      /\ responses = {} /\ assigned = Targets /\ refused = {}
      /\ mode = "running" /\ pc = "idle" /\ gaveUp = FALSE /\ decodes = TRUE
      /\ now = 0 /\ faults = 0
  BY DEF Init
<1> QED
  BY <1>1, <1>2, <1>3, <1>4 DEF TypeOK

(* What a batch leaves, written or not, has its type. *)
LEMMA WriteBatchType ==
  ASSUME TypeOK, WriteBatch
  PROVE  results' \in Seq(Keys \X Vals) /\ written' \subseteq Keys \X Vals /\ outbox' \in Table
<1>1. outbox' \in Table
  BY ReplacedTable DEF WriteBatch, TypeOK, Applied
<1>2. written' \subseteq Keys \X Vals
  BY DEF WriteBatch, TypeOK
<1> QED
  BY <1>1, <1>2 DEF WriteBatch

(* A step of the engine keeps the types, *)
LEMMA EngineType == TypeOK /\ EngineNext => TypeOK'
<1> SUFFICES ASSUME TypeOK, EngineNext PROVE TypeOK'
  OBVIOUS
<1> USE DEF pushVars, masterVars, clockVars
<1>1. CASE Flush
  BY <1>1, WriteBatchType DEF Flush, TypeOK
<1>2. CASE FlushFails
  BY <1>2 DEF FlushFails, Fault, TypeOK
<1>3. ASSUME NEW t \in Targets, NEW ts \in Times, NEW v \in Vals, Finalize(t, ts, v)
      PROVE  TypeOK'
  <2>1. <<<<t, ts>>, v>> \in Keys \X Vals
    BY DEF Keys
  <2> QED
    BY <1>3, <2>1 DEF Finalize, TypeOK
<1> QED
  BY <1>1, <1>2, <1>3 DEF EngineNext

(* What receiving a status does, by what the status says of the batch.      *)
LEMMA Received ==
  ASSUME NEW status \in Nat, Receive(status)
  PROVE  /\ pc = "sent" /\ status \in responses
         /\ UNCHANGED <<engineVars, outbox, mirror, net, masterVars, assigned, clockVars, faults>>
         /\ status \notin {200, 400} => Return(TRUE)
         /\ status \in {200, 400} =>
              /\ pc' \in {"confirmed", "discarding"}
              /\ responses' = {}
              /\ UNCHANGED <<mode, req, gaveUp>>
<1>1. /\ pc = "sent" /\ status \in responses
      /\ UNCHANGED <<engineVars, outbox, mirror, net, masterVars, assigned, clockVars, faults>>
      /\ Verdict(status) = "later" => Return(TRUE)
      /\ Verdict(status) # "later" =>
           pc' = Verdict(status) /\ responses' = {} /\ UNCHANGED <<mode, req, gaveUp>>
  BY DEF Receive
<1>2. CASE status = 200
  <2>1. Verdict(status) = "confirmed"
    BY <1>2 DEF Verdict
  <2> QED
    BY <1>1, <1>2, <2>1
<1>3. CASE status = 400
  <2>1. Verdict(status) = "discarding"
    BY <1>3 DEF Verdict
  <2> QED
    BY <1>1, <1>3, <2>1
<1>4. CASE status \notin {200, 400}
  <2>1. Verdict(status) = "later"
    BY <1>4 DEF Verdict
  <2> QED
    BY <1>1, <1>4, <2>1
<1> QED
  BY <1>2, <1>3, <1>4

(* one of the agent, *)
LEMMA AgentType == TypeOK /\ AgentNext => TypeOK'
<1> SUFFICES ASSUME TypeOK, AgentNext PROVE TypeOK'
  OBVIOUS
<1> USE DEF engineVars, pushVars, masterVars, clockVars
<1>1. CASE Pull
  BY <1>1 DEF Pull, TypeOK
<1>2. CASE StartPush
  BY <1>2 DEF StartPush, TypeOK
<1>3. CASE NothingPending
  BY <1>3 DEF NothingPending, Return, TypeOK
<1>4. CASE Send
  <2>1. PICK n \in Nonces \ InUse, S \in SUBSET Pending :
          req' = [nonce |-> n, at |-> now + ahead, rows |-> [k \in S |-> outbox[k]]]
    BY <1>4 DEF Send
  <2>2. [k \in S |-> outbox[k]] \in Rows
    BY DEF Rows, Pending, TypeOK, Table
  <2>3. now + ahead \in Nat
    BY DeliveryAssumption DEF TypeOK
  <2>4. req' \in Request
    BY <2>1, <2>2, <2>3 DEF Request
  <2> QED
    BY <1>4, <2>4 DEF Send, TypeOK
<1>5. CASE ClientError
  BY <1>5 DEF ClientError, Fault, Return, TypeOK
<1>13. CASE PrepareFails
  BY <1>13 DEF PrepareFails, Fault, Return, TypeOK
<1>6. CASE Timeout
  BY <1>6 DEF Timeout, Return, TypeOK
<1>7. CASE DropSubmitted
  <2>1. outbox' \in Table
    BY <1>7 DEF DropSubmitted, Without, TypeOK, Table
  <2> QED
    BY <1>7, <2>1 DEF DropSubmitted, Again, Return, TypeOK
<1>8. CASE DropFails
  BY <1>8 DEF DropFails, Fault, Return, TypeOK
<1>9. CASE Shutdown
  BY <1>9, WriteBatchType DEF Shutdown, TypeOK
<1>10. CASE Start
  BY <1>10 DEF Start, TypeOK
<1>11. CASE AgentCrash
  BY <1>11 DEF AgentCrash, Fault, TypeOK
<1>12. ASSUME NEW status \in responses, Receive(status)
       PROVE  TypeOK'
  <2>0. status \in Nat
    BY DEF TypeOK, Status
  <2>1. /\ pc = "sent"
        /\ UNCHANGED <<engineVars, outbox, mirror, net, masterVars, assigned, clockVars, faults>>
        /\ \/ Return(TRUE)
           \/ /\ pc' \in {"confirmed", "discarding"}
              /\ responses' = {} /\ UNCHANGED <<mode, req, gaveUp>>
    BY <1>12, <2>0, Received
  <2>2. CASE Return(TRUE)
    BY <2>1, <2>2 DEF Return, TypeOK
  <2>3. CASE ~Return(TRUE)
    BY <2>1, <2>3 DEF TypeOK
  <2> QED
    BY <2>2, <2>3
<1> QED
  BY <1>1, <1>2, <1>3, <1>4, <1>5, <1>6, <1>7, <1>8, <1>9, <1>10, <1>11, <1>12, <1>13
  DEF AgentNext

(* What a handler keeps of a submission is part of it. *)
LEMMA KeptRows ==
  ASSUME NEW rows \in Rows
  PROVE  /\ Kept(rows) \in Rows
         /\ DOMAIN Kept(rows) \subseteq DOMAIN rows
         /\ \A k \in DOMAIN Kept(rows) : Kept(rows)[k] = rows[k]
<1>1. DOMAIN Kept(rows) \subseteq DOMAIN rows /\ \A k \in DOMAIN Kept(rows) : Kept(rows)[k] = rows[k]
  BY DEF Kept
<1>2. Kept(rows) \in [DOMAIN Kept(rows) -> Vals]
  BY <1>1, RowsType DEF Kept
<1>3. DOMAIN Kept(rows) \in SUBSET Keys
  BY <1>1, RowsType
<1> QED
  BY <1>1, <1>2, <1>3 DEF Rows

(* and one of the master. *)
LEMMA MasterType == TypeOK /\ MasterNext => TypeOK'
<1> SUFFICES ASSUME TypeOK, MasterNext PROVE TypeOK'
  OBVIOUS
<1> USE DEF engineVars, clockVars
<1>1. ASSUME NEW m \in net, NEW s \in SUBSET Status, Answer(m, s)
      PROVE  /\ responses' \subseteq Status
             /\ UNCHANGED <<mode, pc, req, gaveUp>>
  BY <1>1 DEF Answer, TypeOK
<1>2. ASSUME NEW h \in handlers, NEW s \in SUBSET Status, Answer(h.req, s)
      PROVE  /\ responses' \subseteq Status
             /\ UNCHANGED <<mode, pc, req, gaveUp>>
  BY <1>2 DEF Answer, TypeOK
<1>3. ASSUME NEW m \in net, Unauthorized(m)
      PROVE  TypeOK'
  BY <1>1, <1>3 DEF Unauthorized, masterVars, Status, TypeOK
<1>4. ASSUME NEW m \in net, TurnedAway(m)
      PROVE  TypeOK'
  <2>1. responses' \subseteq Status /\ UNCHANGED <<mode, pc, req, gaveUp>>
    BY <1>1, <1>4 DEF TurnedAway, Status
  <2> QED
    BY <1>4, <2>1 DEF TurnedAway, Fault, masterVars, TypeOK
<1>5. ASSUME NEW m \in net, Busy(m)
      PROVE  TypeOK'
  BY <1>1, <1>5 DEF Busy, masterVars, Status, TypeOK
<1>6. ASSUME NEW m \in net, Undecodable(m)
      PROVE  TypeOK'
  <2>1. DOMAIN m.rows \subseteq Keys
    BY RowsType DEF TypeOK, Request
  <2> QED
    BY <1>1, <1>6, <2>1 DEF Undecodable, Status, TypeOK
<1>7. ASSUME NEW m \in net, Decode(m)
      PROVE  TypeOK'
  <2>1. NoRows \in Rows
    BY DEF NoRows, Rows
  <2>2. [req |-> m, phase |-> "decoded", kept |-> NoRows] \in Handler
    BY <2>1 DEF Handler, TypeOK
  <2> QED
    BY <1>7, <2>2 DEF Decode, Fault, pushVars, TypeOK
<1>8. ASSUME NEW h \in handlers, CheckRows(h)
      PROVE  TypeOK'
  <2>1. h \in Handler /\ h.req.rows \in Rows
    BY DEF TypeOK, Handler, Request
  <2>2. Kept(h.req.rows) \in Rows
    BY <2>1, KeptRows
  <2>3. [h EXCEPT !.phase = "checked", !.kept = Kept(h.req.rows)] \in Handler
    BY <2>1, <2>2 DEF Handler
  <2> QED
    BY <1>8, <2>3 DEF CheckRows, pushVars, TypeOK
<1>9. ASSUME NEW h \in handlers, Ingest(h)
      PROVE  TypeOK'
  <2>1. /\ DOMAIN h.req.rows \subseteq Keys
        /\ \A k \in DOMAIN h.kept : h.kept[k] \in Vals
    BY RowsType DEF TypeOK, Handler, Request
  <2>2. stored' \in Table
    BY <1>9, <2>1 DEF Ingest, Merged, TypeOK, Table
  <2>3. responses' \subseteq Status /\ UNCHANGED <<mode, pc, req, gaveUp>>
    BY <1>2, <1>9 DEF Ingest, Status
  <2> QED
    BY <1>9, <2>1, <2>2, <2>3 DEF Ingest, TypeOK
<1>10. ASSUME NEW h \in handlers, HandlerFails(h)
       PROVE  TypeOK'
  <2>1. responses' \subseteq Status /\ UNCHANGED <<mode, pc, req, gaveUp>>
    BY <1>2, <1>10 DEF HandlerFails, Status
  <2> QED
    BY <1>10, <2>1 DEF HandlerFails, Fault, TypeOK
<1>11. CASE MasterRestart
  BY <1>11 DEF MasterRestart, Fault, pushVars, TypeOK
<1> QED
  BY <1>3, <1>4, <1>5, <1>6, <1>7, <1>8, <1>9, <1>10, <1>11 DEF MasterNext

(* Every variable keeps its type: tables stay tables of the agent's keys,   *)
(* and every row in flight is a row of one of them.                         *)
THEOREM TypeCorrect == Spec => []TypeOK
<1>1. TypeOK /\ [Next]_vars => TypeOK'
  <2> SUFFICES ASSUME TypeOK, [Next]_vars PROVE TypeOK'
    OBVIOUS
  <2>1. CASE Lose
    BY <2>1 DEF Lose, Fault, TypeOK, engineVars, pushVars, masterVars, clockVars
  <2>2. CASE EditTree
    BY <2>2 DEF EditTree, TypeOK, engineVars, pushVars, masterVars, clockVars
  <2>3. CASE Tick
    BY <2>3, DeliveryAssumption DEF Tick, TypeOK, engineVars, pushVars, masterVars
  <2>4. CASE UNCHANGED vars
    BY <2>4 DEF vars, TypeOK
  <2> QED
    BY <2>1, <2>2, <2>3, <2>4, EngineType, AgentType, MasterType DEF Next
<1> QED
  BY InitType, <1>1, PTL DEF Spec

-----------------------------------------------------------------------------
(* The inductive invariant. *)
LEMMA InitInv == Init => DeliveryInv
<1> SUFFICES ASSUME Init PROVE DeliveryInv
  OBVIOUS
<1>1. NothingVanishes /\ SafeToForget /\ AnswersAreJustified
  BY DEF Init, NothingVanishes, SafeToForget, AnswersAreJustified
<1>2. RowsWereWritten
  BY DEF Init, RowsWereWritten
<1>3. DrainIsAlone /\ CleanShutdownLeavesNothing
  BY DEF Init, DrainIsAlone, CleanShutdownLeavesNothing
<1> QED
  BY <1>1, <1>2, <1>3 DEF DeliveryInv

(* A batch takes from the outbox only what it replaces, and notes all it writes. *)
LEMMA WriteBatchInv ==
  ASSUME TypeOK, DeliveryInv, WriteBatch, UNCHANGED <<stored, refused>>
  PROVE  /\ NothingVanishes'
         /\ \A k \in Keys : outbox'[k] # NONE => <<k, outbox'[k]>> \in written'
         /\ written \subseteq written'
<1> DEFINE batch == results
<1>1. outbox \in Table /\ batch \in Seq(Keys \X Vals) /\ NONE \notin Vals
  BY DeliveryAssumption DEF TypeOK
<1>2. \A k \in Keys : \/ outbox'[k] = outbox[k] /\ \A i \in 1..Len(batch) : batch[i][1] # k
                      \/ outbox'[k] \in Vals /\ \E i \in 1..Len(batch) : batch[i] = <<k, outbox'[k]>>
  <2>a. Applied(Replaced(outbox, batch), outbox, batch)
    BY <1>1, ReplacedTable
  <2>b. outbox' = Replaced(outbox, batch)
    BY DEF WriteBatch
  <2>1. Applied(outbox', outbox, batch)
    BY <2>a, <2>b
  <2> QED
    BY <2>1 DEF Applied
<1>3. written' = written \cup {batch[i] : i \in 1..Len(batch)}
  BY DEF WriteBatch
<1>4. \A i \in 1..Len(batch) : batch[i] \in Keys \X Vals
  BY <1>1
<1>5. written \subseteq Keys \X Vals
  BY DEF TypeOK
<1>6. \A w \in written : outbox[w[1]] # NONE \/ Settled(w[1])
  BY DEF DeliveryInv, NothingVanishes
<1>7. \A k : Settled(k)' <=> Settled(k)
  BY DEF Settled
<1>8. \A k \in Keys : outbox[k] # NONE => <<k, outbox[k]>> \in written
  BY DEF DeliveryInv, RowsWereWritten
<1> HIDE DEF batch
<1>9. ASSUME NEW w \in written' PROVE outbox'[w[1]] # NONE \/ Settled(w[1])'
  <2>1. CASE w \in written
    BY <2>1, <1>1, <1>2, <1>5, <1>6, <1>7
  <2>2. CASE w \notin written
    <3>1. PICK i \in 1..Len(batch) : w = batch[i]
      BY <1>3, <2>2
    <3>2. w[1] \in Keys /\ batch[i][1] = w[1]
      BY <1>4, <3>1
    <3> QED
      BY <3>2, <1>1, <1>2
  <2> QED
    BY <2>1, <2>2
<1>10. ASSUME NEW k \in Keys, outbox'[k] # NONE PROVE <<k, outbox'[k]>> \in written'
  BY <1>10, <1>2, <1>3, <1>8
<1> QED
  BY <1>3, <1>9, <1>10 DEF NothingVanishes

(* A step of the engine keeps the invariant, *)
LEMMA EngineInv == TypeOK /\ DeliveryInv /\ EngineNext => DeliveryInv'
<1> SUFFICES ASSUME TypeOK, DeliveryInv, EngineNext PROVE DeliveryInv'
  OBVIOUS
<1> USE DEF pushVars, masterVars, clockVars, DeliveryInv
<1>1. CASE Flush
  <2>1. /\ WriteBatch
        /\ UNCHANGED <<mode, pc, req, gaveUp, responses, net, handlers, stored, refused>>
        /\ results # <<>>
    BY <1>1 DEF Flush
  <2>2. /\ NothingVanishes'
        /\ \A k \in Keys : outbox'[k] # NONE => <<k, outbox'[k]>> \in written'
        /\ written \subseteq written'
    BY <2>1, WriteBatchInv
  <2>3. \A rows : WrittenRows(rows) => WrittenRows(rows)'
    BY <2>2 DEF WrittenRows
  <2>4. RowsWereWritten'
    BY <2>1, <2>2, <2>3 DEF RowsWereWritten
  <2>5. SafeToForget' /\ AnswersAreJustified'
    BY <2>1 DEF SafeToForget, AnswersAreJustified, Settled
  <2>6. DrainIsAlone' /\ CleanShutdownLeavesNothing'
    BY <2>1 DEF DrainIsAlone, CleanShutdownLeavesNothing, TypeOK
  <2> QED
    BY <2>2, <2>4, <2>5, <2>6
<1>2. CASE FlushFails
  <2>1. /\ UNCHANGED <<written, outbox, mode, pc, req, gaveUp, responses, net, handlers, stored, refused>>
        /\ results' = <<>>
    BY <1>2 DEF FlushFails
  <2> QED
    BY <2>1 DEF NothingVanishes, SafeToForget, AnswersAreJustified, RowsWereWritten, WrittenRows,
                DrainIsAlone, CleanShutdownLeavesNothing, Pending, Settled
<1>3. ASSUME NEW t \in Targets, NEW ts \in Times, NEW v \in Vals, Finalize(t, ts, v)
      PROVE  DeliveryInv'
  <2>1. /\ UNCHANGED <<written, outbox, mode, pc, req, gaveUp, responses, net, handlers, stored, refused>>
        /\ mode = "running"
    BY <1>3 DEF Finalize
  <2> QED
    BY <2>1 DEF NothingVanishes, SafeToForget, AnswersAreJustified, RowsWereWritten, WrittenRows,
                DrainIsAlone, CleanShutdownLeavesNothing, Pending, Settled
<1> QED
  BY <1>1, <1>2, <1>3 DEF EngineNext

(* A step that touches no row, on either side or in flight, keeps the parts *)
(* of the invariant that are about rows.                                    *)
LEMMA RowsUntouched ==
  ASSUME DeliveryInv, UNCHANGED <<written, outbox, stored, refused, net, handlers>>
  PROVE  NothingVanishes' /\ RowsWereWritten'
BY DEF DeliveryInv, NothingVanishes, RowsWereWritten, WrittenRows, Settled

(* The agent's keys are finitely many, so a submission as large as the      *)
(* whole outbox is the whole outbox.                                        *)
LEMMA WholeOutbox ==
  ASSUME NEW S \in SUBSET Pending, Oldest(S), ~(Cardinality(S) >= PushBatch)
  PROVE  S = Pending
<1>1. IsFiniteSet(Keys)
  BY DeliveryAssumption, FS_Product DEF Keys
<1>2. IsFiniteSet(Pending)
  BY <1>1, FS_Subset DEF Pending
<1>3. PushBatch \in Nat
  BY DeliveryAssumption
<1>4. Cardinality(Pending) \in Nat
  BY <1>2, FS_CardinalityType
<1>5. Cardinality(S) = Cardinality(Pending)
  BY <1>2, <1>3, <1>4, FS_Subset, FS_CardinalityType DEF Oldest
<1> QED
  BY <1>2, <1>5, FS_Subset

(* Forgetting the rows of a submission whose keys are settled.              *)
LEMMA DropSubmittedInv ==
  ASSUME TypeOK, DeliveryInv, DropSubmitted
  PROVE  DeliveryInv'
<1> USE DEF engineVars, masterVars, clockVars
<1>1. /\ UNCHANGED <<results, written, stored, refused, net, handlers>>
      /\ pc \in {"confirmed", "discarding"}
      /\ outbox' = [k \in Keys |-> IF k \in DOMAIN req.rows THEN NONE ELSE outbox[k]]
      /\ pc' \in {"loop", "idle"} /\ responses' = {}
  BY DEF DropSubmitted, Without, Again, Return
<1>2. \A k \in DOMAIN req.rows : Settled(k)
  BY <1>1 DEF DeliveryInv, SafeToForget
<1>3. written \subseteq Keys \X Vals
  BY DEF TypeOK
<1>4. NothingVanishes'
  <2> SUFFICES ASSUME NEW w \in written PROVE outbox'[w[1]] # NONE \/ Settled(w[1])
    BY <1>1 DEF NothingVanishes, Settled
  <2>1. outbox[w[1]] # NONE \/ Settled(w[1])
    BY DEF DeliveryInv, NothingVanishes
  <2> QED
    BY <1>1, <1>2, <1>3, <2>1
<1>5. RowsWereWritten'
  <2>1. \A k \in Keys : outbox'[k] # NONE => outbox'[k] = outbox[k]
    BY <1>1
  <2> QED
    BY <1>1, <2>1 DEF DeliveryInv, RowsWereWritten, WrittenRows
<1>6. SafeToForget' /\ AnswersAreJustified'
  BY <1>1 DEF SafeToForget, AnswersAreJustified
<1>7. \/ pc' = "loop" /\ UNCHANGED <<mode, gaveUp>>
      \/ /\ pc' = "idle"
         /\ gaveUp' = (pc = "discarding")
         /\ mode' = IF mode = "draining" THEN "stopped" ELSE mode
         /\ pc = "confirmed" => ~FullBatch(req.rows)
  BY DEF DropSubmitted, Again, Return
<1>8. mode # "stopped"
  BY <1>1 DEF DeliveryInv, DrainIsAlone
<1>9. DrainIsAlone'
  BY <1>1, <1>7, <1>8 DEF DeliveryInv, DrainIsAlone, TypeOK
<1>10. CleanShutdownLeavesNothing'
  <2> SUFFICES ASSUME mode' = "stopped", ~gaveUp' PROVE Pending' = {}
    BY DEF CleanShutdownLeavesNothing
  <2>1. mode = "draining" /\ pc = "confirmed" /\ ~FullBatch(req.rows)
    BY <1>1, <1>7, <1>8
  <2>2. Pending \subseteq DOMAIN req.rows
    BY <2>1 DEF DeliveryInv, DrainIsAlone
  <2> QED
    BY <1>1, <2>2 DEF Pending
<1> QED
  BY <1>4, <1>5, <1>6, <1>9, <1>10 DEF DeliveryInv

(* one of the agent, whose answers are justified, *)
LEMMA AgentInv == TypeOK /\ DeliveryInv /\ AgentNext => DeliveryInv'
<1> SUFFICES ASSUME TypeOK, DeliveryInv, AgentNext PROVE DeliveryInv'
  OBVIOUS
<1> USE DEF engineVars, pushVars, masterVars, clockVars
<1>1. CASE Pull
  <2>1. UNCHANGED <<results, written, outbox, mode, pc, req, gaveUp, responses, net, handlers,
                    stored, refused>>
    BY <1>1 DEF Pull
  <2> QED
    BY <2>1, RowsUntouched DEF DeliveryInv, SafeToForget, AnswersAreJustified, DrainIsAlone,
                               CleanShutdownLeavesNothing, Pending, Settled
<1>2. CASE StartPush
  <2>1. /\ UNCHANGED <<results, written, outbox, mode, req, responses, net, handlers, stored, refused>>
        /\ pc' = "loop" /\ pc = "idle" /\ mode = "running"
    BY <1>2 DEF StartPush
  <2> QED
    BY <2>1, RowsUntouched DEF DeliveryInv, SafeToForget, AnswersAreJustified, DrainIsAlone,
                               CleanShutdownLeavesNothing, Pending, Settled
<1>3. CASE NothingPending
  <2>1. /\ UNCHANGED <<results, written, outbox, net, handlers, stored, refused>>
        /\ Pending = {} /\ Pending' = Pending
        /\ pc' = "idle" /\ responses' = {}
        /\ mode' = IF mode = "draining" THEN "stopped" ELSE mode
    BY <1>3 DEF NothingPending, Return, Pending
  <2> QED
    BY <2>1, RowsUntouched DEF DeliveryInv, SafeToForget, AnswersAreJustified, DrainIsAlone,
                               CleanShutdownLeavesNothing
<1>4. CASE Send
  <2>1. PICK n \in Nonces \ InUse, S \in SUBSET Pending :
          /\ Oldest(S)
          /\ req' = [nonce |-> n, at |-> now + ahead, rows |-> [k \in S |-> outbox[k]]]
    BY <1>4 DEF Send
  <2>2. /\ UNCHANGED <<results, written, outbox, mode, gaveUp, responses, handlers, stored, refused>>
        /\ net' = net \cup {req'}
        /\ pc = "loop" /\ pc' = "sent"
    BY <1>4 DEF Send
  <2>3. req'.rows = [k \in S |-> outbox[k]] /\ S \subseteq Keys /\ DOMAIN req'.rows = S
    BY <2>1 DEF Pending
  <2>4. responses' = {}
    BY <2>2 DEF DeliveryInv, AnswersAreJustified
  <2>5. NothingVanishes' /\ SafeToForget' /\ AnswersAreJustified'
    BY <2>2, <2>4 DEF DeliveryInv, NothingVanishes, SafeToForget, AnswersAreJustified, Settled
  <2>6. RowsWereWritten'
    <3>1. WrittenRows(req'.rows)
      BY <2>3 DEF WrittenRows, DeliveryInv, RowsWereWritten, Pending
    <3> QED
      BY <2>2, <3>1 DEF DeliveryInv, RowsWereWritten, WrittenRows
  <2>7. Pending' = Pending
    BY <2>2 DEF Pending
  <2>8. DrainIsAlone'
    <3>1. ~FullBatch(req'.rows) => Pending' \subseteq DOMAIN req'.rows
      BY <2>1, <2>3, <2>7, WholeOutbox DEF FullBatch
    <3> QED
      BY <2>2, <3>1 DEF DeliveryInv, DrainIsAlone
  <2>9. CleanShutdownLeavesNothing'
    BY <2>2, <2>7 DEF DeliveryInv, CleanShutdownLeavesNothing
  <2> QED
    BY <2>5, <2>6, <2>8, <2>9 DEF DeliveryInv
<1>5. ASSUME Return(TRUE), UNCHANGED <<results, written, outbox, net, handlers, stored, refused>>
      PROVE  DeliveryInv'
  <2>1. /\ pc' = "idle" /\ responses' = {} /\ gaveUp' = TRUE
        /\ mode' = IF mode = "draining" THEN "stopped" ELSE mode
    BY <1>5 DEF Return
  <2> QED
    BY <1>5, <2>1, RowsUntouched DEF DeliveryInv, SafeToForget, AnswersAreJustified, DrainIsAlone,
                                     CleanShutdownLeavesNothing
<1>6. CASE PrepareFails \/ ClientError \/ Timeout \/ DropFails
  BY <1>5, <1>6 DEF PrepareFails, ClientError, Timeout, DropFails
<1>7. CASE DropSubmitted
  BY <1>7, DropSubmittedInv
<1>8. CASE Shutdown
  <2>1. /\ WriteBatch
        /\ UNCHANGED <<net, handlers, stored, refused>>
        /\ mode' = "draining" /\ pc' = "loop" /\ responses' = {} /\ results' = <<>>
    BY <1>8 DEF Shutdown, WriteBatch
  <2>2. /\ NothingVanishes'
        /\ \A k \in Keys : outbox'[k] # NONE => <<k, outbox'[k]>> \in written'
        /\ written \subseteq written'
    BY <2>1, WriteBatchInv
  <2>3. \A rows : WrittenRows(rows) => WrittenRows(rows)'
    BY <2>2 DEF WrittenRows
  <2>4. RowsWereWritten'
    BY <2>1, <2>2, <2>3 DEF DeliveryInv, RowsWereWritten
  <2>5. SafeToForget' /\ AnswersAreJustified' /\ DrainIsAlone' /\ CleanShutdownLeavesNothing'
    BY <2>1 DEF SafeToForget, AnswersAreJustified, DrainIsAlone, CleanShutdownLeavesNothing
  <2> QED
    BY <2>2, <2>4, <2>5 DEF DeliveryInv
<1>9. CASE Start
  <2>1. /\ UNCHANGED <<written, outbox, pc, req, responses, net, handlers, stored, refused>>
        /\ mode' = "running"
    BY <1>9 DEF Start
  <2> QED
    BY <2>1, RowsUntouched DEF DeliveryInv, SafeToForget, AnswersAreJustified, DrainIsAlone,
                               CleanShutdownLeavesNothing, Settled
<1>10. CASE AgentCrash
  <2>1. /\ UNCHANGED <<written, outbox, net, handlers, stored, refused>>
        /\ mode' = "running" /\ pc' = "idle" /\ responses' = {}
    BY <1>10 DEF AgentCrash
  <2> QED
    BY <2>1, RowsUntouched DEF DeliveryInv, SafeToForget, AnswersAreJustified, DrainIsAlone,
                               CleanShutdownLeavesNothing
<1>11. ASSUME NEW status \in responses, Receive(status)
       PROVE  DeliveryInv'
  <2>0. status \in Nat
    BY DEF TypeOK, Status
  <2>1. CASE status \in {200, 400}
    <3>1. /\ pc' \in {"confirmed", "discarding"}
          /\ UNCHANGED <<results, written, outbox, mode, req, gaveUp, net, handlers, stored, refused>>
          /\ responses' = {} /\ pc = "sent"
      <4>1. /\ pc = "sent"
            /\ UNCHANGED <<engineVars, outbox, mirror, net, masterVars, assigned, clockVars, faults>>
            /\ status \in {200, 400} => /\ pc' \in {"confirmed", "discarding"}
                                       /\ responses' = {}
                                       /\ UNCHANGED <<mode, req, gaveUp>>
        BY <1>11, <2>0, Received
      <4> QED
        BY <2>1, <4>1
    <3>2. \A k \in DOMAIN req.rows : Settled(k)
      BY <2>1 DEF DeliveryInv, AnswersAreJustified
    <3>3. SafeToForget' /\ AnswersAreJustified'
      BY <3>1, <3>2 DEF SafeToForget, AnswersAreJustified, Settled
    <3>4. DrainIsAlone' /\ CleanShutdownLeavesNothing'
      BY <3>1 DEF DeliveryInv, DrainIsAlone, CleanShutdownLeavesNothing, Pending
    <3> QED
      BY <3>1, <3>3, <3>4, RowsUntouched DEF DeliveryInv
  <2>2. CASE status \notin {200, 400}
    BY <1>5, <1>11, <2>0, <2>2, Received
  <2> QED
    BY <2>1, <2>2
<1> QED
  BY <1>1, <1>2, <1>3, <1>4, <1>6, <1>7, <1>8, <1>9, <1>10, <1>11 DEF AgentNext

(* An answer is justified by what the master has just done with the rows of *)
(* its request, and it only ever settles more keys.                         *)
LEMMA AnswerInv ==
  ASSUME TypeOK, DeliveryInv, NEW m \in Request, NEW statuses \in SUBSET Status,
         Answer(m, statuses),
         \A k \in Keys : Settled(k) => Settled(k)',
         statuses \cap {200, 400} # {} => \A k \in DOMAIN m.rows : Settled(k)'
  PROVE  SafeToForget' /\ AnswersAreJustified'
<1>1. UNCHANGED <<mode, pc, req, gaveUp>>
  BY DEF Answer
<1>2. PICK status \in statuses :
        responses' = IF pc = "sent" /\ req = m THEN responses \cup {status} ELSE responses
  BY DEF Answer
<1>3. pc \in {"sent", "confirmed", "discarding"} => DOMAIN req.rows \subseteq Keys
  BY RowsType DEF TypeOK, Request
<1>4. SafeToForget'
  BY <1>1, <1>3 DEF DeliveryInv, SafeToForget
<1>5. CASE pc = "sent" /\ req = m
  <2> SUFFICES AnswersAreJustified'
    BY <1>4
  <2>1. responses' = responses \cup {status} /\ pc' = "sent" /\ req' = m
    BY <1>1, <1>2, <1>5
  <2>2. CASE status \in {200, 400}
    BY <2>1, <2>2 DEF AnswersAreJustified
  <2>3. CASE status \notin {200, 400}
    <3>1. responses' \cap {200, 400} = responses \cap {200, 400}
      BY <2>1, <2>3
    <3>2. responses \cap {200, 400} # {} => \A k \in DOMAIN m.rows : Settled(k)'
      BY <1>3, <1>5 DEF DeliveryInv, AnswersAreJustified
    <3> QED
      BY <2>1, <3>1, <3>2 DEF AnswersAreJustified
  <2> QED
    BY <2>2, <2>3
<1>6. CASE ~(pc = "sent" /\ req = m)
  <2> SUFFICES AnswersAreJustified'
    BY <1>4
  <2>1. responses' = responses
    BY <1>2, <1>6
  <2> QED
    BY <1>1, <1>3, <2>1 DEF DeliveryInv, AnswersAreJustified
<1> QED
  BY <1>4, <1>5, <1>6

(* What a step of the master has to show: it never unsettles a key, keeps   *)
(* to rows that were written, and leaves the agent's engine and outbox.     *)
LEMMA MasterStepInv ==
  ASSUME TypeOK, DeliveryInv,
         UNCHANGED <<results, written, outbox, mode, pc, req, gaveUp>>,
         \A k \in Keys : Settled(k) => Settled(k)',
         \A k \in Keys : stored'[k] # NONE => <<k, stored'[k]>> \in written,
         \A m \in net' : WrittenRows(m.rows),
         \A h \in handlers' : WrittenRows(h.req.rows) /\ WrittenRows(h.kept),
         SafeToForget', AnswersAreJustified'
  PROVE  DeliveryInv'
<1>1. NothingVanishes'
  <2>1. \A w \in written : w[1] \in Keys
    BY DEF TypeOK
  <2> QED
    BY <2>1 DEF DeliveryInv, NothingVanishes
<1>2. RowsWereWritten'
  BY DEF DeliveryInv, RowsWereWritten, WrittenRows
<1>3. DrainIsAlone' /\ CleanShutdownLeavesNothing'
  BY DEF DeliveryInv, DrainIsAlone, CleanShutdownLeavesNothing, Pending
<1> QED
  BY <1>1, <1>2, <1>3 DEF DeliveryInv

(* and one of the master, which settles what it answers. *)
LEMMA MasterInv == TypeOK /\ DeliveryInv /\ MasterNext => DeliveryInv'
<1> SUFFICES ASSUME TypeOK, DeliveryInv, MasterNext PROVE DeliveryInv'
  OBVIOUS
<1> USE DEF engineVars
<1>1. /\ \A k \in Keys : stored[k] # NONE => <<k, stored[k]>> \in written
      /\ \A m \in net : WrittenRows(m.rows)
      /\ \A h \in handlers : WrittenRows(h.req.rows) /\ WrittenRows(h.kept)
      /\ SafeToForget /\ AnswersAreJustified
  BY DEF DeliveryInv, RowsWereWritten
<1>2. net \subseteq Request /\ handlers \subseteq Handler /\ \A h \in handlers : h.req \in Request
  BY DEF TypeOK, Handler
<1>3. ASSUME NEW m \in net, net' = net \ {m},
             UNCHANGED <<results, written, outbox, handlers, stored, refused>>,
             NEW statuses \in SUBSET {401, 503}, Answer(m, statuses)
      PROVE  DeliveryInv'
  <2>1. \A k \in Keys : Settled(k)' <=> Settled(k)
    BY <1>3 DEF Settled
  <2>2. statuses \in SUBSET Status /\ statuses \cap {200, 400} = {}
    BY DEF Status
  <2>3. SafeToForget' /\ AnswersAreJustified'
    BY <1>2, <1>3, <2>1, <2>2, AnswerInv
  <2>4. UNCHANGED <<mode, pc, req, gaveUp>>
    BY <1>3 DEF Answer
  <2> QED
    BY <1>1, <1>3, <2>1, <2>3, <2>4, MasterStepInv
<1>4. ASSUME NEW m \in net, Unauthorized(m) \/ Busy(m) \/ TurnedAway(m)
      PROVE  DeliveryInv'
  <2>1. CASE Unauthorized(m)
    BY <1>3, <2>1 DEF Unauthorized, masterVars
  <2>2. CASE Busy(m)
    BY <1>3, <2>2 DEF Busy, masterVars
  <2>3. CASE TurnedAway(m)
    BY <1>3, <2>3 DEF TurnedAway, masterVars
  <2> QED
    BY <1>4, <2>1, <2>2, <2>3
<1>5. ASSUME NEW m \in net, Undecodable(m)
      PROVE  DeliveryInv'
  <2>1. /\ net' = net \ {m} /\ Answer(m, {400})
        /\ refused' = refused \cup DOMAIN m.rows
        /\ UNCHANGED <<results, written, outbox, handlers, stored>>
    BY <1>5 DEF Undecodable
  <2>2. /\ \A k \in Keys : Settled(k) => Settled(k)'
        /\ \A k \in DOMAIN m.rows : Settled(k)'
    BY <2>1 DEF Settled
  <2>3. SafeToForget' /\ AnswersAreJustified'
    BY <1>2, <2>1, <2>2, AnswerInv DEF Status
  <2>4. UNCHANGED <<mode, pc, req, gaveUp>>
    BY <2>1 DEF Answer
  <2> QED
    BY <1>1, <2>1, <2>2, <2>3, <2>4, MasterStepInv
<1>6. ASSUME UNCHANGED <<results, written, outbox, mode, pc, req, gaveUp, responses, stored, refused>>,
             \A m \in net' : WrittenRows(m.rows),
             \A h \in handlers' : WrittenRows(h.req.rows) /\ WrittenRows(h.kept)
      PROVE  DeliveryInv'
  <2>1. \A k \in Keys : Settled(k) => Settled(k)'
    BY <1>6 DEF Settled
  <2>2. SafeToForget' /\ AnswersAreJustified'
    BY <1>1, <1>6 DEF SafeToForget, AnswersAreJustified, Settled
  <2>3. \A k \in Keys : stored'[k] # NONE => <<k, stored'[k]>> \in written
    BY <1>1, <1>6
  <2> QED
    BY <1>6, <2>1, <2>2, <2>3, MasterStepInv
<1>7. ASSUME NEW m \in net, Decode(m)
      PROVE  DeliveryInv'
  <2>1. /\ UNCHANGED <<results, written, outbox, mode, pc, req, gaveUp, responses, stored, refused>>
        /\ net' \subseteq net
        /\ handlers' = handlers \cup {[req |-> m, phase |-> "decoded", kept |-> NoRows]}
    BY <1>7 DEF Decode, pushVars
  <2>2. WrittenRows(m.rows) /\ WrittenRows(NoRows)
    BY <1>1 DEF WrittenRows, NoRows
  <2>3. \A h \in handlers' : WrittenRows(h.req.rows) /\ WrittenRows(h.kept)
    BY <1>1, <2>1, <2>2
  <2> QED
    BY <1>1, <1>6, <2>1, <2>3
<1>8. ASSUME NEW h \in handlers, CheckRows(h)
      PROVE  DeliveryInv'
  <2> DEFINE checked == [h EXCEPT !.phase = "checked", !.kept = Kept(h.req.rows)]
  <2>1. /\ UNCHANGED <<results, written, outbox, mode, pc, req, gaveUp, responses, net, stored, refused>>
        /\ handlers' = (handlers \ {h}) \cup {checked}
    BY <1>8 DEF CheckRows, pushVars
  <2>2. h \in Handler /\ h.req.rows \in Rows
    BY <1>2 DEF Handler, Request
  <2>3. checked.req = h.req /\ checked.kept = Kept(h.req.rows)
    BY <2>2 DEF Handler
  <2> HIDE DEF checked
  <2>4. WrittenRows(checked.req.rows) /\ WrittenRows(checked.kept)
    <3>1. WrittenRows(h.req.rows)
      BY <1>1
    <3>2. WrittenRows(Kept(h.req.rows))
      BY <2>2, <3>1, KeptRows DEF WrittenRows
    <3> QED
      BY <2>3, <3>1, <3>2
  <2> QED
    BY <1>1, <1>6, <2>1, <2>4
<1>9. ASSUME NEW h \in handlers, Ingest(h)
      PROVE  DeliveryInv'
  <2>1. /\ stored' = [k \in Keys |-> IF k \in DOMAIN h.kept /\ stored[k] = NONE
                                     THEN h.kept[k] ELSE stored[k]]
        /\ refused' = refused \cup (DOMAIN h.req.rows \ DOMAIN h.kept)
        /\ handlers' = handlers \ {h}
        /\ Answer(h.req, {200})
        /\ UNCHANGED <<results, written, outbox, net>>
    BY <1>9 DEF Ingest, Merged
  <2>2. h.kept \in Rows /\ h.req.rows \in Rows
    BY <1>2 DEF Handler, Request
  <2>3. \A k \in DOMAIN h.kept : h.kept[k] # NONE
    BY <2>2, RowsType, DeliveryAssumption
  <2>4. \A k \in Keys : Settled(k) => Settled(k)'
    BY <2>1, <2>3 DEF Settled
  <2>5. \A k \in DOMAIN h.req.rows : Settled(k)'
    BY <2>1, <2>2, <2>3, RowsType DEF Settled
  <2>6. SafeToForget' /\ AnswersAreJustified'
    BY <1>2, <2>1, <2>4, <2>5, AnswerInv DEF Status
  <2>7. UNCHANGED <<mode, pc, req, gaveUp>>
    BY <2>1 DEF Answer
  <2>8. \A k \in Keys : stored'[k] # NONE => <<k, stored'[k]>> \in written
    BY <1>1, <2>1 DEF WrittenRows
  <2> QED
    BY <1>1, <2>1, <2>4, <2>6, <2>7, <2>8, MasterStepInv
<1>10. ASSUME NEW h \in handlers, HandlerFails(h)
       PROVE  DeliveryInv'
  <2>1. /\ UNCHANGED <<results, written, outbox, net, stored, refused>>
        /\ handlers' = handlers \ {h}
        /\ Answer(h.req, {500})
    BY <1>10 DEF HandlerFails
  <2>2. \A k \in Keys : Settled(k) => Settled(k)'
    BY <2>1 DEF Settled
  <2>3. SafeToForget' /\ AnswersAreJustified'
    BY <1>2, <2>1, <2>2, AnswerInv DEF Status
  <2>4. UNCHANGED <<mode, pc, req, gaveUp>>
    BY <2>1 DEF Answer
  <2> QED
    BY <1>1, <2>1, <2>2, <2>3, <2>4, MasterStepInv
<1>11. CASE MasterRestart
  <2>1. /\ UNCHANGED <<results, written, outbox, mode, pc, req, gaveUp, responses, net, stored, refused>>
        /\ handlers' = {}
    BY <1>11 DEF MasterRestart, pushVars
  <2> QED
    BY <1>1, <1>6, <2>1
<1> QED
  BY <1>4, <1>5, <1>7, <1>8, <1>9, <1>10, <1>11 DEF MasterNext

(* DeliveryInv is an inductive invariant, relative to the types.            *)
LEMMA DeliveryInvariant == Spec => []DeliveryInv
<1>1. TypeOK /\ DeliveryInv /\ [Next]_vars => DeliveryInv'
  <2> SUFFICES ASSUME TypeOK, DeliveryInv, [Next]_vars PROVE DeliveryInv'
    OBVIOUS
  <2>1. ASSUME UNCHANGED <<results, written, outbox, mode, pc, req, gaveUp, responses, handlers,
                           stored, refused>>,
               net' \subseteq net
        PROVE  DeliveryInv'
    BY <2>1 DEF DeliveryInv, NothingVanishes, SafeToForget, AnswersAreJustified, RowsWereWritten,
                WrittenRows, DrainIsAlone, CleanShutdownLeavesNothing, Pending, Settled
  <2>2. CASE Lose
    BY <2>1, <2>2 DEF Lose, engineVars, pushVars, masterVars
  <2>3. CASE EditTree
    BY <2>1, <2>3 DEF EditTree, engineVars, pushVars, masterVars
  <2>4. CASE Tick
    BY <2>1, <2>4 DEF Tick, engineVars, pushVars, masterVars
  <2>5. CASE UNCHANGED vars
    BY <2>1, <2>5 DEF vars
  <2> QED
    BY <2>2, <2>3, <2>4, <2>5, EngineInv, AgentInv, MasterInv DEF Next
<1> QED
  BY InitInv, TypeCorrect, <1>1, PTL DEF Spec

(* A row committed to the outbox is there until the master has settled its  *)
(* key: whatever is retried, lost, repeated, late or restarted, nothing     *)
(* vanishes (agent.go:292-293, 346).                                        *)
THEOREM NoRowVanishes == Spec => []NothingVanishes
BY DeliveryInvariant, PTL DEF DeliveryInv

(* The agent is never about to delete a row the master has not answered for *)
(* by storing or refusing it (agent.go:321-352).                            *)
THEOREM ForgetsOnlySettled == Spec => []SafeToForget
BY DeliveryInvariant, PTL DEF DeliveryInv

(* A drain that met no error left an empty outbox (agent.go:281-284).       *)
THEOREM CleanShutdown == Spec => []CleanShutdownLeavesNothing
BY DeliveryInvariant, PTL DEF DeliveryInv

-----------------------------------------------------------------------------
(* The horizon: it is taken before the transaction, by a clock that the     *)
(* transaction can only find later.                                         *)
WithinHorizon(k) == k[2] <= now + MaxSkew

HorizonInv ==
  /\ StoredNotFromTheFuture
  /\ \A h \in handlers : \A k \in DOMAIN h.kept : WithinHorizon(k)

(* The clock goes on, and neither table nor handler gained a row.           *)
LEMMA HorizonStays ==
  ASSUME TypeOK, HorizonInv, now' \in Nat, now <= now', stored' = stored,
         handlers' \subseteq handlers
  PROVE  HorizonInv'
<1>1. \A k \in Keys : WithinHorizon(k) => k[2] <= now' + MaxSkew
  <2> TAKE k \in Keys
  <2>1. k[2] \in Nat /\ now \in Nat /\ MaxSkew \in Nat
    BY DeliveryAssumption DEF Keys, TypeOK
  <2> QED
    BY <2>1 DEF WithinHorizon
<1>2. \A h \in handlers' : \A k \in DOMAIN h.kept : k \in Keys /\ WithinHorizon(k)
  BY RowsType DEF HorizonInv, TypeOK, Handler
<1>3. \A h \in handlers' : \A k \in DOMAIN h.kept : WithinHorizon(k)'
  BY <1>1, <1>2 DEF WithinHorizon
<1>4. StoredNotFromTheFuture'
  BY <1>1 DEF HorizonInv, StoredNotFromTheFuture, WithinHorizon
<1> QED
  BY <1>3, <1>4 DEF HorizonInv

(* A handler of the master keeps to the horizon. *)
LEMMA HorizonMaster == TypeOK /\ HorizonInv /\ MasterNext => HorizonInv'
<1> SUFFICES ASSUME TypeOK, HorizonInv, MasterNext PROVE HorizonInv'
  OBVIOUS
<1> USE DEF clockVars
<1>1. now \in Nat /\ now <= now
  BY DEF TypeOK
<1>2. ASSUME NEW m \in net, Unauthorized(m) \/ TurnedAway(m) \/ Busy(m) \/ Undecodable(m)
      PROVE  HorizonInv'
  <2>1. UNCHANGED <<now, stored, handlers>>
    BY <1>2 DEF Unauthorized, TurnedAway, Busy, Undecodable, masterVars
  <2> QED
    BY <1>1, <2>1, HorizonStays
<1>3. ASSUME NEW m \in net, Decode(m)
      PROVE  HorizonInv'
  <2>1. /\ UNCHANGED <<now, stored>>
        /\ handlers' = handlers \cup {[req |-> m, phase |-> "decoded", kept |-> NoRows]}
    BY <1>3 DEF Decode
  <2>2. DOMAIN NoRows = {}
    BY DEF NoRows
  <2> QED
    BY <2>1, <2>2 DEF HorizonInv, StoredNotFromTheFuture, WithinHorizon
<1>4. ASSUME NEW h \in handlers, CheckRows(h)
      PROVE  HorizonInv'
  <2> DEFINE checked == [h EXCEPT !.phase = "checked", !.kept = Kept(h.req.rows)]
  <2>1. UNCHANGED <<now, stored>> /\ handlers' = (handlers \ {h}) \cup {checked}
    BY <1>4 DEF CheckRows
  <2>2. checked.kept = Kept(h.req.rows)
    BY DEF TypeOK, Handler
  <2>3. \A k \in DOMAIN Kept(h.req.rows) : WithinHorizon(k)
    BY DEF Kept, WithinHorizon
  <2> HIDE DEF checked
  <2> QED
    BY <2>1, <2>2, <2>3 DEF HorizonInv, StoredNotFromTheFuture, WithinHorizon
<1>5. ASSUME NEW h \in handlers, Ingest(h)
      PROVE  HorizonInv'
  <2>1. /\ UNCHANGED now /\ handlers' = handlers \ {h}
        /\ stored' = [k \in Keys |-> IF k \in DOMAIN h.kept /\ stored[k] = NONE
                                     THEN h.kept[k] ELSE stored[k]]
    BY <1>5 DEF Ingest, Merged
  <2>2. \A k \in Keys : stored'[k] # NONE => WithinHorizon(k)
    BY <2>1 DEF HorizonInv, StoredNotFromTheFuture, WithinHorizon
  <2> QED
    BY <2>1, <2>2 DEF HorizonInv, StoredNotFromTheFuture, WithinHorizon
<1>6. ASSUME NEW h \in handlers, HandlerFails(h)
      PROVE  HorizonInv'
  <2>1. UNCHANGED <<now, stored>> /\ handlers' = handlers \ {h}
    BY <1>6 DEF HandlerFails
  <2> QED
    BY <1>1, <2>1, HorizonStays
<1>7. CASE MasterRestart
  <2>1. UNCHANGED <<now, stored>> /\ handlers' = {}
    BY <1>7 DEF MasterRestart
  <2> QED
    BY <1>1, <2>1, HorizonStays
<1> QED
  BY <1>2, <1>3, <1>4, <1>5, <1>6, <1>7 DEF MasterNext

(* The master never holds an interval its own clock has not reached, give   *)
(* or take the skew, whatever the agent's clock was when it measured and    *)
(* whatever it is when it pushes (ingest.go:94-100).                        *)
THEOREM NothingFromTheFuture == Spec => []StoredNotFromTheFuture
<1>1. Init => HorizonInv
  BY DEF Init, HorizonInv, StoredNotFromTheFuture
<1>2. TypeOK /\ HorizonInv /\ [Next]_vars => HorizonInv'
  <2> SUFFICES ASSUME TypeOK, HorizonInv, [Next]_vars PROVE HorizonInv'
    OBVIOUS
  <2>1. now \in Nat /\ now <= now
    BY DEF TypeOK
  <2>2. CASE EngineNext
    <3>1. UNCHANGED <<now, stored, handlers>>
      BY <2>2 DEF EngineNext, Flush, FlushFails, Finalize, masterVars, clockVars
    <3> QED
      BY <2>1, <3>1, HorizonStays
  <2>3. CASE AgentNext
    <3>1. UNCHANGED <<now, stored, handlers>>
      BY <2>3 DEF AgentNext, Pull, StartPush, NothingPending, Send, PrepareFails, ClientError,
                  Timeout, DropSubmitted, DropFails, Shutdown, Start, AgentCrash, Receive, masterVars,
                  clockVars
    <3> QED
      BY <2>1, <3>1, HorizonStays
  <2>4. CASE Lose \/ EditTree
    <3>1. UNCHANGED <<now, stored, handlers>>
      BY <2>4 DEF Lose, EditTree, masterVars, clockVars
    <3> QED
      BY <2>1, <3>1, HorizonStays
  <2>5. CASE Tick
    <3>1. now' \in Nat /\ now <= now' /\ UNCHANGED <<stored, handlers>>
      BY <2>1, <2>5 DEF Tick, masterVars
    <3> QED
      BY <3>1, HorizonStays
  <2>6. CASE UNCHANGED vars
    BY <2>1, <2>6, HorizonStays DEF vars
  <2> QED
    BY <2>2, <2>3, <2>4, <2>5, <2>6, HorizonMaster DEF Next
<1>3. HorizonInv => StoredNotFromTheFuture
  BY DEF HorizonInv
<1> QED
  BY <1>1, <1>2, <1>3, TypeCorrect, PTL DEF Spec

-----------------------------------------------------------------------------
(* The refinement: each step is a Write, a Settle or a Forget of Delivery,  *)
(* or changes nothing Delivery speaks of.                                   *)
LEMMA WriteBatchWrites ==
  ASSUME TypeOK, WriteBatch, UNCHANGED <<stored, refused>>
  PROVE  Promise!Write
<1> DEFINE Named(k) == \E i \in 1..Len(results) : results[i][1] = k
           new == [k \in Keys |-> IF Named(k) THEN outbox'[k] ELSE NONE]
<1>1. Applied(outbox', outbox, results)
  BY ReplacedTable DEF WriteBatch, TypeOK
<1>2. outbox' \in Table /\ outbox \in Table /\ NONE \notin Vals
  BY <1>1, DeliveryAssumption DEF Applied, TypeOK
<1>3. new \in [Keys -> Vals \cup {NONE}]
  BY <1>2 DEF Table
<1>4. ASSUME NEW k \in Keys
      PROVE  /\ outbox'[k] = IF new[k] = NONE THEN outbox[k] ELSE new[k]
             /\ new[k] # NONE => <<k, new[k]>> \in written'
  <2>1. CASE Named(k)
    <3>1. new[k] = outbox'[k]
      BY <2>1
    <3>2. outbox'[k] \in Vals /\ \E i \in 1..Len(results) : results[i] = <<k, outbox'[k]>>
      BY <1>1, <2>1 DEF Applied
    <3>3. <<k, outbox'[k]>> \in written'
      BY <3>2 DEF WriteBatch
    <3> QED
      BY <1>2, <3>1, <3>2, <3>3
  <2>2. CASE ~Named(k)
    <3>1. new[k] = NONE
      BY <2>2
    <3>2. ~ \E i \in 1..Len(results) : results[i] = <<k, outbox'[k]>>
      BY <2>2
    <3>3. outbox'[k] = outbox[k]
      BY <1>1, <3>2 DEF Applied
    <3> QED
      BY <3>1, <3>3
  <2> QED
    BY <2>1, <2>2
<1>5. outbox' = [k \in Keys |-> outbox'[k]]
  BY <1>2 DEF Table
<1> HIDE DEF new
<1>6. outbox' = [k \in Keys |-> IF new[k] = NONE THEN outbox[k] ELSE new[k]]
  BY <1>4, <1>5
<1>7. written \subseteq written'
  BY DEF WriteBatch
<1> QED
  BY <1>3, <1>4, <1>6, <1>7 DEF Promise!Write

(* A step of the engine writes, by the promise, or changes nothing of it, *)
LEMMA EngineRefines == TypeOK /\ EngineNext => [Promise!Next]_Promise!vars
<1> SUFFICES ASSUME TypeOK, EngineNext PROVE [Promise!Next]_Promise!vars
  OBVIOUS
<1>1. CASE Flush
  BY <1>1, WriteBatchWrites DEF Flush, masterVars, Promise!Next
<1>2. CASE FlushFails
  BY <1>2 DEF FlushFails, masterVars, Promise!vars
<1>3. ASSUME NEW t \in Targets, NEW ts \in Times, NEW v \in Vals, Finalize(t, ts, v)
      PROVE  UNCHANGED Promise!vars
  BY <1>3 DEF Finalize, masterVars, Promise!vars
<1> QED
  BY <1>1, <1>2, <1>3 DEF EngineNext

(* one of the agent forgets what is settled, *)
LEMMA AgentRefines == TypeOK /\ DeliveryInv /\ AgentNext => [Promise!Next]_Promise!vars
<1> SUFFICES ASSUME TypeOK, DeliveryInv, AgentNext PROVE [Promise!Next]_Promise!vars
  OBVIOUS
<1> USE DEF engineVars, masterVars
<1>1. CASE Pull \/ StartPush \/ NothingPending \/ Send \/ PrepareFails \/ ClientError \/ Timeout
           \/ DropFails
  BY <1>1 DEF Pull, StartPush, NothingPending, Send, PrepareFails, ClientError, Timeout, DropFails,
              Promise!vars
<1>2. CASE Start
  BY <1>2 DEF Start, Promise!vars
<1>3. CASE AgentCrash
  BY <1>3 DEF AgentCrash, Promise!vars
<1>4. ASSUME NEW status \in responses, Receive(status)
      PROVE  UNCHANGED Promise!vars
  BY <1>4 DEF Receive, Promise!vars
<1>5. CASE Shutdown
  BY <1>5, WriteBatchWrites DEF Shutdown, Promise!Next
<1>6. CASE DropSubmitted
  <2> DEFINE S == DOMAIN req.rows
  <2>1. /\ pc \in {"confirmed", "discarding"}
        /\ outbox' = [k \in Keys |-> IF k \in S THEN NONE ELSE outbox[k]]
        /\ UNCHANGED <<stored, refused, written>>
    BY <1>6 DEF DropSubmitted, Without
  <2>2. S \subseteq Keys
    BY <2>1, RowsType DEF TypeOK, Request
  <2>3. \A k \in S : Promise!Settled(k)
    BY <2>1 DEF DeliveryInv, SafeToForget, Settled, Promise!Settled
  <2>4. S \in SUBSET {k \in Keys : Promise!Settled(k)}
    BY <2>2, <2>3
  <2> HIDE DEF S
  <2> QED
    BY <2>1, <2>4 DEF Promise!Forget, Promise!Next
<1> QED
  BY <1>1, <1>2, <1>3, <1>4, <1>5, <1>6 DEF AgentNext

(* and one of the master settles. *)
LEMMA MasterRefines == TypeOK /\ DeliveryInv /\ MasterNext => [Promise!Next]_Promise!vars
<1> SUFFICES ASSUME TypeOK, DeliveryInv, MasterNext PROVE [Promise!Next]_Promise!vars
  OBVIOUS
<1> USE DEF engineVars
<1>1. ASSUME NEW m \in net, Unauthorized(m) \/ TurnedAway(m) \/ Busy(m) \/ Decode(m)
      PROVE  UNCHANGED Promise!vars
  BY <1>1 DEF Unauthorized, TurnedAway, Busy, Decode, masterVars, Promise!vars
<1>2. ASSUME NEW h \in handlers, CheckRows(h) \/ HandlerFails(h)
      PROVE  UNCHANGED Promise!vars
  BY <1>2 DEF CheckRows, HandlerFails, Promise!vars
<1>3. CASE MasterRestart
  BY <1>3 DEF MasterRestart, Promise!vars
<1>4. stored \in [Keys -> Vals \cup {NONE}] /\ refused \subseteq Keys
  BY DEF TypeOK, Table
<1>5. ASSUME NEW m \in net, Undecodable(m)
      PROVE  Promise!Settle
  <2>1. DOMAIN m.rows \subseteq Keys
    BY RowsType DEF TypeOK, Request
  <2>2. UNCHANGED <<outbox, written, stored>> /\ refused' = refused \cup DOMAIN m.rows
    BY <1>5 DEF Undecodable
  <2> QED
    BY <1>4, <2>1, <2>2 DEF Promise!Settle
<1>6. ASSUME NEW h \in handlers, Ingest(h)
      PROVE  Promise!Settle
  <2>1. h.req.rows \in Rows /\ h.kept \in Rows
    BY DEF TypeOK, Handler, Request
  <2>2. /\ stored' = [k \in Keys |-> IF k \in DOMAIN h.kept /\ stored[k] = NONE
                                     THEN h.kept[k] ELSE stored[k]]
        /\ refused' = refused \cup (DOMAIN h.req.rows \ DOMAIN h.kept)
        /\ UNCHANGED <<outbox, written>>
    BY <1>6 DEF Ingest, Merged
  <2>3. WrittenRows(h.kept)
    BY DEF DeliveryInv, RowsWereWritten
  <2>4. stored' \in [Keys -> Vals \cup {NONE}]
    BY <1>4, <2>1, <2>2, RowsType
  <2>5. \A k \in Keys : stored'[k] = stored[k] \/ (stored[k] = NONE /\ <<k, stored'[k]>> \in written)
    BY <2>2, <2>3 DEF WrittenRows
  <2> QED
    BY <1>4, <2>1, <2>2, <2>4, <2>5, RowsType DEF Promise!Settle
<1> QED
  BY <1>1, <1>2, <1>3, <1>5, <1>6 DEF MasterNext, Promise!Next

(* The mechanism implements the promise: retries, duplicates, timeouts,     *)
(* crashes and late handlers add no behaviour to Delivery.                  *)
THEOREM Implements == Spec => PromiseKept
<1>1. Init => Promise!Init
  BY DEF Init, Promise!Init
<1>2. TypeOK /\ DeliveryInv /\ [Next]_vars => [Promise!Next]_Promise!vars
  <2> SUFFICES ASSUME TypeOK, DeliveryInv, [Next]_vars PROVE [Promise!Next]_Promise!vars
    OBVIOUS
  <2>1. CASE Lose \/ EditTree \/ Tick
    BY <2>1 DEF Lose, EditTree, Tick, engineVars, masterVars, Promise!vars
  <2>2. CASE UNCHANGED vars
    BY <2>2 DEF vars, Promise!vars
  <2> QED
    BY <2>1, <2>2, EngineRefines, AgentRefines, MasterRefines DEF Next
<1> QED
  BY <1>1, <1>2, TypeCorrect, DeliveryInvariant, PTL DEF Spec, PromiseKept, Promise!Spec

(* Nothing the master has stored for a key is changed by a later step:      *)
(* Delivery settles only empty places (sqlite.go:455-465).                  *)
THEOREM HistoryStands == Spec => HistoryIsNotRewritten
<1> DEFINE Stands == \A k \in Keys : stored[k] # NONE => stored'[k] = stored[k]
<1>1. [Promise!Next]_Promise!vars => Stands
  BY DEF Promise!Next, Promise!Write, Promise!Settle, Promise!Forget, Promise!vars
<1> QED
  BY <1>1, Implements, PTL DEF PromiseKept, Promise!Spec, HistoryIsNotRewritten
=============================================================================
