--------------------------- MODULE DeliveryQueue ---------------------------
(***************************************************************************)
(* The queue between the alert manager and the webhook (alert/notify.go):  *)
(* bounded, filled by goroutines that must not wait, emptied by one that   *)
(* may, and closed with a grace period when the process ends.              *)
(***************************************************************************)
EXTENDS Naturals, Sequences, FiniteSets, SequencesExt

CONSTANTS
  Producers,  \* goroutines that deliver: the measurement writer and the repeat
  QueueSize,       \* batches the channel holds
  MaxPosts    \* bound: batches of each producer

ASSUME QueueAssumption == QueueSize \in Nat \ {0} /\ MaxPosts \in Nat

VARIABLES
  ch,        \* the channel
  producer,  \* what each producer is doing in NotifyQueue
  posted,    \* batches each has handed to NotifyQueue so far
  worker,    \* the delivering goroutine
  closing,   \* how far CloseQueue has come
  outcome,   \* what became of the batches that left the channel
  (* ghosts *)
  entered,   \* every batch put into the channel, in order
  taken,     \* every batch the worker took, in order
  before     \* the batches handed over before CloseQueue was called

queueVars == <<ch, producer, posted, worker, closing, outcome, entered, taken, before>>

Batches == Producers \X (1..MaxPosts)

Handing(p) == <<p, posted[p]>>

Working == [pc |-> "select"]

QueueTypeOK ==
  /\ ch \in Seq(Batches) /\ Len(ch) <= QueueSize
  /\ producer \in [Producers -> {"idle", "put", "evict"}]
  /\ posted \in [Producers -> 0..MaxPosts]
  /\ \/ worker.pc \in {"select", "drain", "done"}
     \/ worker.pc = "send" /\ worker.batch \in Batches /\ {worker.draining, worker.live} \subseteq BOOLEAN
  /\ closing \in {"open", "grace", "over", "closed"}
  /\ outcome \in [Batches -> {"none", "ok", "failed", "dropped"}]
  /\ before \subseteq Batches

QueueInit ==
  /\ ch = <<>> /\ entered = <<>> /\ taken = <<>> /\ before = {}
  /\ producer = [p \in Producers |-> "idle"]
  /\ posted = [p \in Producers |-> 0]
  /\ worker = Working
  /\ closing = "open"
  /\ outcome = [b \in Batches |-> "none"]

-----------------------------------------------------------------------------
(* Notify: put the batch in, or take the oldest out and try again.  The two *)
(* selects are two steps; others run between them.                          *)

NotifyQueue(p) ==
  /\ producer[p] = "idle" /\ posted[p] < MaxPosts
  /\ posted' = [posted EXCEPT ![p] = @ + 1]
  /\ producer' = [producer EXCEPT ![p] = "put"]
  /\ UNCHANGED <<ch, worker, closing, outcome, entered, taken, before>>

HasRoom == Len(ch) < QueueSize

PutBatch(p) ==
  /\ producer[p] = "put"
  /\ IF HasRoom
     THEN /\ ch' = Append(ch, Handing(p))
          /\ entered' = Append(entered, Handing(p))
          /\ producer' = [producer EXCEPT ![p] = "idle"]
     ELSE /\ producer' = [producer EXCEPT ![p] = "evict"]
          /\ UNCHANGED <<ch, entered>>
  /\ UNCHANGED <<posted, worker, closing, outcome, taken, before>>

(* What Notify gives up when the channel is full; in the variants with a    *)
(* fault the newest, or the oldest without counting it.                     *)
EvictNewest(p) ==
  /\ outcome' = [outcome EXCEPT ![Handing(p)] = "dropped"]
  /\ producer' = [producer EXCEPT ![p] = "idle"]
  /\ UNCHANGED ch

EvictUncounted(p) ==
  /\ ch' = Tail(ch)
  /\ producer' = [producer EXCEPT ![p] = "put"]
  /\ UNCHANGED outcome

EvictOldest(p) ==
  /\ outcome' = [outcome EXCEPT ![Head(ch)] = "dropped"]
  /\ ch' = Tail(ch)
  /\ producer' = [producer EXCEPT ![p] = "put"]

EvictFor(p) ==
  /\ producer[p] = "evict"
  /\ \/ ch # <<>> /\ EvictOldest(p)
     \/ /\ ch = <<>>
        /\ producer' = [producer EXCEPT ![p] = "put"]
        /\ UNCHANGED <<ch, outcome>>
  /\ UNCHANGED <<posted, worker, closing, entered, taken, before>>

-----------------------------------------------------------------------------
(* The worker: deliver until stopped, then what is left.                    *)

SendingFrom(draining) ==
  [pc |-> "send", batch |-> Head(ch), draining |-> draining, live |-> closing # "over"]

TakeBatch ==
  /\ worker.pc \in {"select", "drain"} /\ ch # <<>>
  /\ worker' = SendingFrom(worker.pc = "drain")
  /\ ch' = Tail(ch)
  /\ taken' = Append(taken, Head(ch))
  /\ UNCHANGED <<producer, posted, closing, outcome, entered, before>>

StopWorker ==
  /\ worker.pc = "select" /\ closing # "open"
  /\ worker' = [pc |-> "drain"]
  /\ UNCHANGED <<ch, producer, posted, closing, outcome, entered, taken, before>>

(* A delivery begun when the grace was over fails at once, and none is tried *)
(* again.                                                                    *)
SendBatch(result) ==
  /\ worker.pc = "send"
  /\ result = "ok" => worker.live
  /\ outcome' = [outcome EXCEPT ![worker.batch] = result]
  /\ worker' = [pc |-> IF worker.draining THEN "drain" ELSE "select"]
  /\ UNCHANGED <<ch, producer, posted, closing, entered, taken, before>>

(* When the worker returns; in the variant with a fault it waits for         *)
(* deliveries that succeed.                                                  *)
ReturnsIfDelivered ==
  worker.pc = "drain" /\ ch = <<>> /\ \A b \in Batches : outcome[b] # "failed"

WorkerReturns == worker.pc = "drain" /\ ch = <<>>

WorkerDone ==
  /\ WorkerReturns
  /\ worker' = [pc |-> "done"]
  /\ UNCHANGED <<ch, producer, posted, closing, outcome, entered, taken, before>>

-----------------------------------------------------------------------------
CloseQueue ==
  /\ closing = "open"
  /\ closing' = "grace"
  /\ before' = {b \in Batches : b \in ToSet(entered)}
  /\ UNCHANGED <<ch, producer, posted, worker, outcome, entered, taken>>

GraceOver ==
  /\ closing = "grace" /\ worker.pc # "done"
  /\ closing' = "over"
  /\ UNCHANGED <<ch, producer, posted, worker, outcome, entered, taken, before>>

QueueClosed ==
  /\ closing \in {"grace", "over"} /\ worker.pc = "done"
  /\ closing' = "closed"
  /\ UNCHANGED <<ch, producer, posted, worker, outcome, entered, taken, before>>

WorkerStep == TakeBatch \/ StopWorker \/ WorkerDone \/ \E result \in {"ok", "failed"} : SendBatch(result)

QueueNext ==
  \/ \E p \in Producers : NotifyQueue(p) \/ PutBatch(p) \/ EvictFor(p)
  \/ WorkerStep
  \/ CloseQueue \/ GraceOver \/ QueueClosed

(* The runtime runs the worker and a producer inside Notify; a delivery ends *)
(* within its timeout.  Nothing says another batch comes, or that the        *)
(* process is stopped.                                                       *)
QueueFairness ==
  /\ WF_queueVars(WorkerStep) /\ WF_queueVars(QueueClosed)
  /\ \A p \in Producers : WF_queueVars(PutBatch(p) \/ EvictFor(p))

QueueSpec == QueueInit /\ [][QueueNext]_queueVars /\ QueueFairness

-----------------------------------------------------------------------------
PlaceOf(b) == CHOOSE i \in DOMAIN entered : entered[i] = b

(* All that a full queue or a stop takes away is the oldest, and it is       *)
(* counted.  Every batch handed over is in one place: the channel, the       *)
(* worker's hands or one of the counters an operator watches; deliveries     *)
(* begin in the order of hand-over, so no receiver hears of a resolve before *)
(* the firing it ends; the last batch to come is never the one dropped       *)
(* ("what is current matters more"); and when Close returns, nothing handed  *)
(* over before it is still queued (notify.go DeliveryStats, Notify, Close).  *)
OnlyTheOldestGoes ==
  /\ \A b \in ToSet(entered) :
       Cardinality({i \in DOMAIN ch : ch[i] = b})
       + (IF worker.pc = "send" /\ worker.batch = b THEN 1 ELSE 0)
       + (IF outcome[b] # "none" THEN 1 ELSE 0) = 1
  /\ \A i, j \in DOMAIN taken : i < j => PlaceOf(taken[i]) < PlaceOf(taken[j])
  /\ (\A p \in Producers : producer[p] = "idle") =>
       \A b \in Batches : outcome[b] = "dropped" =>
         \E i \in DOMAIN entered : entered[i] = b /\ i < Len(entered)
  /\ closing = "closed" => \A b \in before : outcome[b] # "none"

(* Close returns, whatever the receiver does.                               *)
CloseReturns == closing = "grace" ~> closing = "closed"
=============================================================================
