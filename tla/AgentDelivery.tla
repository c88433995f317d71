--------------------------- MODULE AgentDelivery ---------------------------
(***************************************************************************)
(* The path of one remote agent's measurements: the probing engine's       *)
(* results channel and its writer, the agent's SQLite outbox, the push     *)
(* loop, HTTP requests that are delayed, lost or handled twice, the        *)
(* master's ingest handlers, and the master's measurements table.          *)
(*                                                                         *)
(* A request is identified by its nonce.  A response travels on the        *)
(* connection of its request, so the agent sees only answers to the one    *)
(* request it waits on, while a request it has given up on may still reach *)
(* the master, be handled and be committed.                                *)
(*                                                                         *)
(* Clocks: `now` is the master's, the agent's runs `ahead` of it.          *)
(***************************************************************************)
EXTENDS Naturals, Sequences, FiniteSets

CONSTANTS
  Targets,          \* the targets of the master's tree
  Times,            \* interval starts a measurement can carry
  Vals,             \* row contents the agent may measure for one key
  NONE,             \* no row, no request
  PushBatch,        \* rows per submission            (agent.go pushBatch)
  Bulky,            \* the intervals with many samples to a row
  MaxBulky,         \* how many such rows fit in a body (ingest.go maxIngestBody)
  ResultsCap,       \* capacity of the results channel (engine.go results)
  DecodeSlots,      \* concurrent decodes              (ingest.go maxConcurrentDecodes)
  MaxSkew,          \* accepted clock difference       (sign.go MaxSkew)
  Aheads,           \* how far the agent's clock may run ahead
  MaxNow,           \* bound: the master's clock stops here
  MaxWritten,       \* bound: rows the agent measures, over the whole run
  Nonces,           \* request nonces; one no longer in use anywhere may be drawn again
  MaxFaults         \* bound: failures of the network, the master or the agent

ASSUME DeliveryAssumption ==
  /\ NONE \notin Vals
  /\ Times \subseteq Nat /\ Aheads \subseteq Nat /\ 0 \in Aheads
  /\ {PushBatch, ResultsCap, DecodeSlots} \subseteq Nat \ {0}
  /\ {MaxBulky, MaxSkew, MaxNow, MaxWritten, MaxFaults} \subseteq Nat
  /\ IsFiniteSet(Targets) /\ IsFiniteSet(Times)

VARIABLES
  results,    \* engine: finalized rows the writer has not committed
  measured,   \* ghost: every <<key, value>> the engine finalized
  written,    \* ghost: every <<key, value>> committed to the outbox
  outbox,     \* agent database: rows with submitted = 0
  mirror,     \* agent database: targets it was assigned at its last pull
  mode,       \* agent process: "running", "draining", "stopped"
  pc,         \* push loop: "idle", "loop", "sent", "confirmed", "discarding"
  req,        \* the request the push loop is waiting on, or acting on
  gaveUp,     \* ghost: the last pushMeasurements returned on an error
  responses,  \* statuses on their way back, on the connection of req
  net,        \* requests on their way to the master
  handlers,   \* ingest handlers holding a decode slot
  assigned,   \* master's tree: targets assigned to this agent
  stored,     \* master's measurements of this agent
  refused,    \* ghost: keys of rows the master answered for without storing
  decodes,    \* master's build can decode this agent's batches
  now, ahead, \* the master's clock, and the agent's lead over it
  faults      \* failures so far

vars == <<results, measured, written, outbox, mirror, mode, pc, req, gaveUp, responses,
          net, handlers, assigned, stored, refused, decodes, now, ahead, faults>>

engineVars == <<results, measured, written>>
pushVars   == <<mode, pc, req, gaveUp, responses>>
masterVars == <<handlers, stored, refused, decodes>>
clockVars  == <<now, ahead>>

Keys  == Targets \X Times
Table == [Keys -> Vals \cup {NONE}]

(* Rows of one submission: a partial function from keys to values. *)
Rows == UNION {[S -> Vals] : S \in SUBSET Keys}

NoRows == [k \in {} |-> NONE]

Request == [nonce : Nonces, at : Nat, rows : Rows]
Handler == [req : Request, phase : {"decoded", "checked"}, kept : Rows]
Status  == {200, 400, 401, 500, 503}

Settled(k) == stored[k] # NONE \/ k \in refused

(* Every failure is one of the budget; see MaxFaults. *)
Fault == faults < MaxFaults /\ faults' = faults + 1

TypeOK ==
  /\ results \in Seq(Keys \X Vals)
  /\ measured \subseteq Keys \X Vals
  /\ written \subseteq Keys \X Vals
  /\ outbox \in Table
  /\ mirror \subseteq Targets
  /\ mode \in {"running", "draining", "stopped"}
  /\ pc \in {"idle", "loop", "sent", "confirmed", "discarding"}
  /\ req \in Request \cup {NONE}
  /\ pc \in {"sent", "confirmed", "discarding"} => req \in Request
  /\ gaveUp \in BOOLEAN
  /\ responses \subseteq Status
  /\ net \subseteq Request
  /\ handlers \subseteq Handler
  /\ assigned \subseteq Targets
  /\ stored \in Table
  /\ refused \subseteq Keys
  /\ decodes \in BOOLEAN
  /\ now \in Nat /\ ahead \in Aheads
  /\ faults \in Nat

Init ==
  /\ results = <<>> /\ measured = {} /\ written = {}
  /\ outbox = [k \in Keys |-> NONE]
  /\ mirror = {}
  /\ mode = "running" /\ pc = "idle" /\ req = NONE /\ gaveUp = FALSE
  /\ net = {} /\ handlers = {} /\ responses = {}
  /\ assigned = Targets
  /\ stored = [k \in Keys |-> NONE]
  /\ refused = {}
  /\ decodes = TRUE
  /\ now = 0 /\ ahead = 0
  /\ faults = 0

-----------------------------------------------------------------------------
(* The engine and its writer.                                              *)

(* A bucket is finalized for a target of the mirrored tree.  The send to   *)
(* the results channel does not block: with the channel full the row is    *)
(* dropped.  The same bucket can be finalized twice, with other contents:  *)
(* a settings change cuts the first short, and the new loop may start in   *)
(* the same interval.                                                      *)
Finalize(t, ts, v) ==
  /\ mode = "running"
  /\ t \in mirror
  /\ ts <= now + ahead
  /\ <<<<t, ts>>, v>> \notin measured
  /\ Cardinality(measured) < MaxWritten
  /\ measured' = measured \cup {<<<<t, ts>>, v>>}
  /\ results' = IF Len(results) < ResultsCap
                THEN Append(results, <<<<t, ts>>, v>>) ELSE results
  /\ UNCHANGED <<written, outbox, mirror, pushVars, net, masterVars, assigned, clockVars, faults>>

(* A batch applied in order: the last row for a key is the one that stays. *)
Replaced(table, batch) ==
  [k \in Keys |->
     LET at == {i \in 1..Len(batch) : batch[i][1] = k}
     IN  IF at = {} THEN table[k]
         ELSE batch[CHOOSE i \in at : \A j \in at : j <= i][2]]

(* The writer drains the channel and commits it in one transaction. *)
WriteBatch ==
  /\ outbox' = Replaced(outbox, results)
  /\ written' = written \cup {results[i] : i \in 1..Len(results)}
  /\ results' = <<>>

Flush ==
  /\ results # <<>>
  /\ WriteBatch
  /\ UNCHANGED <<measured, mirror, pushVars, net, masterVars, assigned, clockVars, faults>>

(* A transaction that fails drops its rows; the engine counts them. *)
FlushFails ==
  /\ results # <<>>
  /\ Fault
  /\ results' = <<>>
  /\ UNCHANGED <<measured, written, outbox, mirror, pushVars, net, masterVars, assigned, clockVars>>

-----------------------------------------------------------------------------
(* The agent's loop: one goroutine, so a pull never overlaps a push.       *)

Pull ==
  /\ mode = "running" /\ pc = "idle"
  /\ mirror # assigned
  /\ mirror' = assigned
  /\ UNCHANGED <<engineVars, outbox, pushVars, net, masterVars, assigned, clockVars, faults>>

Pending == {k \in Keys : outbox[k] # NONE}

(* The push ticker fires. *)
StartPush ==
  /\ mode = "running" /\ pc = "idle"
  /\ Pending # {}
  /\ pc' = "loop" /\ gaveUp' = FALSE
  /\ UNCHANGED <<engineVars, outbox, mirror, mode, req, responses, net, masterVars, assigned,
                 clockVars, faults>>

(* ORDER BY ts LIMIT PushBatch, ties in any order. *)
Oldest(S) ==
  /\ Cardinality(S) = IF Cardinality(Pending) < PushBatch
                      THEN Cardinality(Pending) ELSE PushBatch
  /\ \A k \in S, l \in Pending \ S : k[2] <= l[2]

InUse == {m.nonce : m \in net} \cup {h.req.nonce : h \in handlers}

(* The loop is entered again, or left: idle until the next tick, and, when  *)
(* this was the drain, for good.  Either way the connection is done with.   *)
Again == pc' = "loop" /\ req' = NONE /\ responses' = {} /\ UNCHANGED <<mode, gaveUp>>

Return(failed) ==
  /\ pc' = "idle" /\ req' = NONE /\ responses' = {}
  /\ gaveUp' = failed
  /\ mode' = IF mode = "draining" THEN "stopped" ELSE mode

NothingPending ==
  /\ pc = "loop"
  /\ Pending = {}
  /\ Return(FALSE)
  /\ UNCHANGED <<engineVars, outbox, mirror, net, masterVars, assigned, clockVars, faults>>

Send ==
  /\ pc = "loop"
  /\ Pending # {}
  /\ \E n \in Nonces \ InUse, S \in SUBSET Pending :
       /\ Oldest(S)
       /\ req' = [nonce |-> n, at |-> now + ahead, rows |-> [k \in S |-> outbox[k]]]
  /\ net' = net \cup {req'}
  /\ pc' = "sent"
  /\ UNCHANGED <<engineVars, outbox, mirror, mode, gaveUp, responses, masterVars, assigned,
                 clockVars, faults>>

(* The buffer cannot be read, or the batch not encoded or signed. *)
PrepareFails ==
  /\ pc = "loop"
  /\ Fault
  /\ Return(TRUE)
  /\ UNCHANGED <<engineVars, outbox, mirror, net, masterVars, assigned, clockVars>>

(* Variants with a fault: a batch turned away is dropped; a refused batch   *)
(* is kept.                                                                 *)
VerdictDropsUnanswered(status) == IF status = 200 THEN "confirmed" ELSE "discarding"

VerdictKeepsRefused(status) == IF status = 200 THEN "confirmed" ELSE "later"

(* What a status tells the push loop to do with the batch: 400 means it can *)
(* never be accepted, anything else but 200 that it was not taken yet.      *)
Verdict(status) ==
  IF status = 200 THEN "confirmed" ELSE IF status = 400 THEN "discarding" ELSE "later"

Receive(status) ==
  /\ pc = "sent"
  /\ status \in responses
  /\ IF Verdict(status) = "later"
     THEN Return(TRUE)
     ELSE pc' = Verdict(status) /\ responses' = {} /\ UNCHANGED <<mode, req, gaveUp>>
  /\ UNCHANGED <<engineVars, outbox, mirror, net, masterVars, assigned, clockVars, faults>>

(* The client gives up although an answer could still come: the connection  *)
(* is refused or reset, or a slow answer meets the 30 s timeout.            *)
ClientError ==
  /\ pc = "sent"
  /\ Fault
  /\ Return(TRUE)
  /\ UNCHANGED <<engineVars, outbox, mirror, net, masterVars, assigned, clockVars>>

(* No answer can come any more, and the timeout fires. *)
Timeout ==
  /\ pc = "sent"
  /\ responses = {} /\ req.nonce \notin InUse
  /\ Return(TRUE)
  /\ UNCHANGED <<engineVars, outbox, mirror, net, masterVars, assigned, clockVars, faults>>

(* Variants with a fault: everything pending is forgotten; a full batch is  *)
(* not seen to be one.                                                      *)
WithoutAll(table, S) == [k \in Keys |-> NONE]

Without(table, S) == [k \in Keys |-> IF k \in S THEN NONE ELSE table[k]]

LongerThanBatch(rows) == Cardinality(DOMAIN rows) > PushBatch

FullBatch(rows) == Cardinality(DOMAIN rows) >= PushBatch

(* The rows are deleted by key, in one transaction.  After a full batch the *)
(* loop goes round; after a refused one it returns.                         *)
DropSubmitted ==
  /\ pc \in {"confirmed", "discarding"}
  /\ outbox' = Without(outbox, DOMAIN req.rows)
  /\ IF pc = "confirmed" /\ FullBatch(req.rows)
     THEN Again
     ELSE Return(pc = "discarding")
  /\ UNCHANGED <<engineVars, mirror, net, masterVars, assigned, clockVars, faults>>

DropFails ==
  /\ pc \in {"confirmed", "discarding"}
  /\ Fault
  /\ Return(TRUE)
  /\ UNCHANGED <<engineVars, outbox, mirror, net, masterVars, assigned, clockVars>>

(* SIGTERM: the loop returns, cancelling a request in flight; the engine    *)
(* flushes what its loops produced; only then the drain starts.             *)
Shutdown ==
  /\ mode = "running"
  /\ WriteBatch
  /\ mode' = "draining" /\ pc' = "loop" /\ req' = NONE /\ responses' = {} /\ gaveUp' = FALSE
  /\ UNCHANGED <<measured, mirror, net, masterVars, assigned, clockVars, faults>>

Start ==
  /\ mode = "stopped"
  /\ mode' = "running"
  /\ UNCHANGED <<engineVars, outbox, mirror, pc, req, gaveUp, responses, net, masterVars,
                 assigned, clockVars, faults>>

(* The process dies and is restarted: what was in memory is gone. *)
AgentCrash ==
  /\ mode # "stopped"
  /\ Fault
  /\ results' = <<>>
  /\ mode' = "running" /\ pc' = "idle" /\ req' = NONE /\ responses' = {} /\ gaveUp' = TRUE
  /\ UNCHANGED <<measured, written, outbox, mirror, net, masterVars, assigned, clockVars>>

-----------------------------------------------------------------------------
(* The network and the master.                                             *)

Lose ==
  /\ Fault
  /\ \E m \in net : net' = net \ {m}
  /\ UNCHANGED <<engineVars, outbox, mirror, pushVars, masterVars, assigned, clockVars>>

(* A response reaches only a client still waiting on that request; in the   *)
(* variant with a fault, whichever request the client is waiting on.        *)
AnswerAnyRequest(m, statuses) ==
  /\ UNCHANGED <<mode, pc, req, gaveUp>>
  /\ \E status \in statuses :
       responses' = IF pc = "sent" THEN responses \cup {status} ELSE responses

Answer(m, statuses) ==
  /\ UNCHANGED <<mode, pc, req, gaveUp>>
  /\ \E status \in statuses :
       responses' = IF pc = "sent" /\ req = m THEN responses \cup {status} ELSE responses

(* The signature is good for MaxSkew either side of the master's clock. *)
InSkew(m) == m.at <= now + MaxSkew /\ now <= m.at + MaxSkew

(* A body past the limit is not read to its end, nor its signature checked. *)
TooLarge(rows) == Cardinality({k \in DOMAIN rows : k[2] \in Bulky}) > MaxBulky

Admitted(m) == ~TooLarge(m.rows) /\ InSkew(m)

Unauthorized(m) ==
  /\ m \in net /\ ~Admitted(m)
  /\ net' = net \ {m}
  /\ Answer(m, {401})
  /\ UNCHANGED <<engineVars, outbox, mirror, masterVars, assigned, clockVars, faults>>

(* The agent is disabled or over its rate, or other agents hold the slots. *)
TurnedAway(m) ==
  /\ m \in net /\ Admitted(m)
  /\ Fault
  /\ net' = net \ {m}
  /\ Answer(m, {401, 503})
  /\ UNCHANGED <<engineVars, outbox, mirror, masterVars, assigned, clockVars>>

Busy(m) ==
  /\ m \in net /\ Admitted(m)
  /\ Cardinality(handlers) >= DecodeSlots
  /\ net' = net \ {m}
  /\ Answer(m, {503})
  /\ UNCHANGED <<engineVars, outbox, mirror, masterVars, assigned, clockVars, faults>>

Undecodable(m) ==
  /\ m \in net /\ Admitted(m)
  /\ Cardinality(handlers) < DecodeSlots
  /\ ~decodes
  /\ net' = net \ {m}
  /\ Answer(m, {400})
  /\ refused' = refused \cup DOMAIN m.rows
  /\ UNCHANGED <<engineVars, outbox, mirror, handlers, stored, decodes, assigned, clockVars,
                 faults>>

(* A slot is taken and the batch decoded.  A copy may stay on the network:  *)
(* the nonce cache is not what makes a second handling harmless.            *)
Decode(m) ==
  /\ m \in net /\ Admitted(m)
  /\ Cardinality(handlers) < DecodeSlots
  /\ decodes
  /\ handlers' = handlers \cup {[req |-> m, phase |-> "decoded", kept |-> NoRows]}
  /\ \/ net' = net \ {m} /\ UNCHANGED faults
     \/ Fault /\ UNCHANGED net
  /\ UNCHANGED <<engineVars, outbox, mirror, pushVars, stored, refused, decodes, assigned,
                 clockVars>>

(* The rows of targets assigned to this agent, up to the horizon; the       *)
(* variant with a fault has no horizon.                                     *)
KeptWithoutHorizon(rows) == [k \in {l \in DOMAIN rows : l[1] \in assigned} |-> rows[k]]

Kept(rows) ==
  [k \in {l \in DOMAIN rows : l[1] \in assigned /\ l[2] <= now + MaxSkew} |-> rows[k]]

(* The tree is read once, and the horizon taken after it. *)
CheckRows(h) ==
  /\ h \in handlers /\ h.phase = "decoded"
  /\ handlers' = (handlers \ {h}) \cup
       {[h EXCEPT !.phase = "checked", !.kept = Kept(h.req.rows)]}
  /\ UNCHANGED <<engineVars, outbox, mirror, pushVars, net, stored, refused, decodes, assigned,
                 clockVars, faults>>

(* Rows merged into a table: the first write wins. *)
Merged(table, rows) ==
  [k \in Keys |-> IF k \in DOMAIN rows /\ table[k] = NONE THEN rows[k] ELSE table[k]]

(* One transaction; then the slot is freed and 200 sent. *)
Ingest(h) ==
  /\ h \in handlers /\ h.phase = "checked"
  /\ stored' = Merged(stored, h.kept)
  /\ refused' = refused \cup (DOMAIN h.req.rows \ DOMAIN h.kept)
  /\ handlers' = handlers \ {h}
  /\ Answer(h.req, {200})
  /\ UNCHANGED <<engineVars, outbox, mirror, net, decodes, assigned, clockVars, faults>>

(* Reading the tree or the transaction fails: nothing was written. *)
HandlerFails(h) ==
  /\ h \in handlers
  /\ Fault
  /\ handlers' = handlers \ {h}
  /\ Answer(h.req, {500})
  /\ UNCHANGED <<engineVars, outbox, mirror, net, stored, refused, decodes, assigned, clockVars>>

(* The master restarts, perhaps with another build; its handlers are gone. *)
MasterRestart ==
  /\ Fault
  /\ handlers' = {}
  /\ decodes' \in BOOLEAN
  /\ UNCHANGED <<engineVars, outbox, mirror, pushVars, net, stored, refused, assigned, clockVars>>

(* An operator assigns a target to the agent, or takes one away. *)
EditTree ==
  /\ \E t \in Targets :
       assigned' = IF t \in assigned THEN assigned \ {t} ELSE assigned \cup {t}
  /\ UNCHANGED <<engineVars, outbox, mirror, pushVars, net, masterVars, clockVars, faults>>

Tick ==
  /\ \/ now < MaxNow /\ now' = now + 1 /\ UNCHANGED ahead
     \/ ahead' \in Aheads \ {ahead} /\ UNCHANGED now
  /\ UNCHANGED <<engineVars, outbox, mirror, pushVars, net, masterVars, assigned, faults>>

-----------------------------------------------------------------------------
EngineNext == Flush \/ FlushFails \/ \E t \in Targets, ts \in Times, v \in Vals : Finalize(t, ts, v)

AgentNext ==
  \/ Pull \/ StartPush \/ NothingPending \/ Send \/ PrepareFails \/ ClientError \/ Timeout
  \/ DropSubmitted \/ DropFails \/ Shutdown \/ Start \/ AgentCrash
  \/ \E status \in responses : Receive(status)

MasterNext ==
  \/ \E m \in net : Unauthorized(m) \/ TurnedAway(m) \/ Busy(m) \/ Undecodable(m) \/ Decode(m)
  \/ \E h \in handlers : CheckRows(h) \/ Ingest(h) \/ HandlerFails(h)
  \/ MasterRestart

Next == EngineNext \/ AgentNext \/ MasterNext \/ Lose \/ EditTree \/ Tick

Spec == Init /\ [][Next]_vars

(* The push ticker and the client's timeout are timers of a running process, *)
(* and the master's handlers are goroutines the runtime schedules.  Nothing  *)
(* obliges an operator to edit or restart, or the network to fail.           *)
RequestArrives == \E m \in net : Unauthorized(m) \/ Busy(m) \/ Undecodable(m) \/ Decode(m)

Fairness ==
  /\ WF_vars(StartPush) /\ WF_vars(Send) /\ WF_vars(NothingPending)
  /\ WF_vars(\E status \in Status : Receive(status))
  /\ WF_vars(Timeout) /\ WF_vars(DropSubmitted) /\ WF_vars(Start)
  /\ WF_vars(RequestArrives)
  /\ WF_vars(\E h \in handlers : CheckRows(h))
  /\ WF_vars(\E h \in handlers : Ingest(h))

FairSpec == Spec /\ Fairness

-----------------------------------------------------------------------------
(* Properties.                                                             *)

(* Every row the agent committed to its outbox is still there, or its key   *)
(* was settled by the master: no interleaving of retries, timeouts, crashes *)
(* and late handlers makes a row vanish (agent.go:292-293, "deletes only    *)
(* what the master confirmed").                                             *)
NothingVanishes ==
  \A w \in written : outbox[w[1]] # NONE \/ Settled(w[1])

(* The push loop never acts on a reply for rows the master has not settled: *)
(* what it is about to delete is safe to delete ("Only now is it safe to    *)
(* forget them", agent.go:348).                                             *)
SafeToForget ==
  pc \in {"confirmed", "discarding"} => \A k \in DOMAIN req.rows : Settled(k)

(* An interval the master holds is never rewritten, whatever is submitted  *)
(* again (sqlite.go:455-465, "First write wins").                           *)
HistoryIsNotRewritten ==
  [][\A k \in Keys : stored[k] # NONE => stored'[k] = stored[k]]_vars

(* A drain that met no error ends with an empty outbox ("so a clean         *)
(* shutdown leaves nothing behind", agent.go:282-283).                      *)
CleanShutdownLeavesNothing ==
  mode = "stopped" /\ ~gaveUp => Pending = {}

(* The master never holds an interval its own clock has not reached, give  *)
(* or take the skew, even from an agent whose clock was ahead when it       *)
(* measured and right again when it pushed (ingest.go:94-100).              *)
StoredNotFromTheFuture ==
  \A k \in Keys : stored[k] # NONE => k[2] <= now + MaxSkew

(* The strengthening NothingVanishes, SafeToForget and the clean shutdown   *)
(* need to be inductive.                                                    *)
WrittenRows(rows) == \A k \in DOMAIN rows : <<k, rows[k]>> \in written

RowsWereWritten ==
  /\ \A k \in Keys : outbox[k] # NONE => <<k, outbox[k]>> \in written
  /\ \A k \in Keys : stored[k] # NONE => <<k, stored[k]>> \in written
  /\ \A m \in net : WrittenRows(m.rows)
  /\ \A h \in handlers : WrittenRows(h.req.rows) /\ WrittenRows(h.kept)

AnswersAreJustified ==
  /\ responses # {} => pc = "sent"
  /\ responses \cap {200, 400} # {} => \A k \in DOMAIN req.rows : Settled(k)

DrainIsAlone ==
  /\ mode # "running" => results = <<>>
  /\ mode = "stopped" => pc = "idle"
  /\ mode = "draining" /\ pc \in {"sent", "confirmed"} /\ ~FullBatch(req.rows)
       => Pending \subseteq DOMAIN req.rows

DeliveryInv ==
  /\ NothingVanishes
  /\ SafeToForget
  /\ AnswersAreJustified
  /\ RowsWereWritten
  /\ DrainIsAlone
  /\ CleanShutdownLeavesNothing

RestartsStop == <>[][mode' = mode]_mode

ClocksAgree == <>[](ahead <= MaxSkew)

(* The oldest rows do not fit in one body. *)
Wedged == \E S \in SUBSET Pending : Oldest(S) /\ TooLarge([k \in S |-> outbox[k]])

(* Nothing else blocks the outbox: once failures and restarts stop and the   *)
(* clocks agree, every buffered row leaves it, whether stored, no longer     *)
(* assigned, from the future or undecodable (ingest.go:84-93; agent.go:322-  *)
(* 327 names the wedge).  Restarts have to stop because each drops the       *)
(* request in flight; the clocks have to agree because a request outside the *)
(* skew is refused with its rows still wanted.  A batch too large does block *)
(* it: its 401, which nothing will change, is taken for a passing one        *)
(* (agent.go:341), and the same rows are sent for ever.                      *)
OutboxDrains ==
  RestartsStop /\ ClocksAgree => \A k \in Keys : outbox[k] # NONE ~> outbox[k] = NONE \/ Wedged

(* The mechanism implements what delivery promises. *)
Promise == INSTANCE Delivery WITH buffered <- outbox
PromiseKept == Promise!Spec
=============================================================================
