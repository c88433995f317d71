----------------------------- MODULE Hysteresis -----------------------------
(***************************************************************************)
(* One rule over one series, measurement after measurement: when it fires, *)
(* when it clears, and which firing episode an acknowledgement belongs to. *)
(* The code keeps a streak and a flag; the promise is about the whole      *)
(* history of the series, which the model keeps beside them.               *)
(***************************************************************************)
EXTENDS AlertState, Sequences

CONSTANTS
  For, ClearFor,  \* the rule's for_intervals and clear_intervals
  Times,          \* timestamps a measurement may carry; a clock may be set back
  MaxLen          \* bound: measurements in a run

ASSUME RuleAssumption ==
  /\ For \in Nat \ {0} /\ ClearFor \in Nat \ {0}
  /\ Times \subseteq Nat \ {0}

VARIABLES
  st,       \* the rule's state for the series
  enabled,  \* the rule is evaluated
  history,  \* ghost: every measurement the enabled rule was given
  episode,  \* ghost: how many times it has fired
  ackOf     \* ghost: the episode an operator's acknowledgement stands for, or 0

vars == <<st, enabled, history, episode, ackOf>>

Rule == [enabled |-> enabled, for |-> For, clearFor |-> ClearFor]

TypeOK ==
  /\ st \in States
  /\ enabled \in BOOLEAN
  /\ history \in Seq([ts : Times, reading : Readings])
  /\ episode \in Nat
  /\ ackOf \in Nat

Init ==
  /\ st = NewState
  /\ enabled = TRUE
  /\ history = <<>>
  /\ episode = 0
  /\ ackOf = 0

Measure(ts, reading) ==
  LET e == EvaluateValue(Rule, st, reading, ts) IN
  /\ Len(history) < MaxLen
  /\ st' = e.state
  /\ history' = IF enabled THEN Append(history, [ts |-> ts, reading |-> reading]) ELSE history
  /\ episode' = IF e.transition = "fired" THEN episode + 1 ELSE episode
  /\ UNCHANGED <<enabled, ackOf>>

(* Acknowledge; nothing happens when nothing is firing. *)
Acknowledge(ack) ==
  /\ st.firing
  /\ st' = WithAck(st, ack)
  /\ ackOf' = IF ack THEN episode ELSE 0
  /\ UNCHANGED <<enabled, history, episode>>

(* The operator disables the rule, or enables it again. *)
Toggle ==
  /\ enabled' = ~enabled
  /\ UNCHANGED <<st, history, episode, ackOf>>

Next ==
  \/ \E ts \in Times, reading \in Readings : Measure(ts, reading)
  \/ \E ack \in BOOLEAN : Acknowledge(ack)
  \/ Toggle

Spec == Init /\ [][Next]_vars

-----------------------------------------------------------------------------
(* Reference: the history alone.                                           *)

(* Measurement i continues the series: it can be judged, and it does not    *)
(* come after a gap.                                                        *)
Counts(i) ==
  /\ history[i].reading # "unusable"
  /\ i > 1 => history[i].ts - history[i - 1].ts <= 2 * IntervalS

(* The n measurements ending with number i all count and all read the same. *)
Run(i, n, reading) ==
  /\ n <= i
  /\ \A j \in (i - n + 1)..i : Counts(j) /\ history[j].reading = reading

FiredAt(i) == Run(i, For, "match") /\ \A k \in (i + 1)..Len(history) : ~Run(k, ClearFor, "miss")

(* A rule fires exactly when the condition has held for For consecutive     *)
(* trusted intervals, and has not since failed for ClearFor consecutive     *)
(* trusted intervals: no gap is bridged, and a flapping link makes one      *)
(* episode (docs/alerting.md:3-7, "Hysteresis, and why gaps reset it").     *)
FiresByTheHistory == st.firing <=> \E i \in 1..Len(history) : FiredAt(i)

(* An acknowledgement mutes the episode it was given for and no later one,  *)
(* even one that begins at the same timestamp (alert.go AckedSince).        *)
AckMutesOneEpisode == Acked(st) <=> st.firing /\ ackOf = episode

(* What the two rest on: the streak is the longest run towards the other  *)
(* state, and the measurement remembered is the last.                       *)
Opposite == IF st.firing THEN "miss" ELSE "match"

StreakIsTheRun ==
  /\ st.streak < Needed(Rule, st)
  /\ \A n \in 0..Len(history) : Run(Len(history), n, Opposite) <=> n <= st.streak
  /\ st.streak <= Len(history)

LastIsTheLast ==
  st.lastTS = IF history = <<>> THEN 0 ELSE history[Len(history)].ts

(* An acknowledgement that is there belongs to the episode under way.       *)
AckInv ==
  /\ ackOf <= episode
  /\ st.firing => st.since # 0 /\ episode # 0
  /\ st.firing => (st.ackedSince = IF ackOf = episode THEN st.since ELSE 0)
  /\ ~st.firing => st.ackedSince = 0
=============================================================================
