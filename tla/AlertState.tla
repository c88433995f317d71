----------------------------- MODULE AlertState -----------------------------
(***************************************************************************)
(* A rule's standing for one series, and what one measurement does to it   *)
(* (internal/alert/alert.go).  A reading says how a measurement stands to  *)
(* the rule: it matches the condition, misses it, or cannot be judged,     *)
(* because the interval has no such value or the value is not trusted.     *)
(***************************************************************************)
EXTENDS Integers

CONSTANT IntervalS   \* the target's interval, in the unit of the timestamps

ASSUME IntervalAssumption == IntervalS \in Nat \ {0}

Readings == {"match", "miss", "unusable"}

(* Timestamps are unix seconds; 0 stands for none. *)
States == [firing : BOOLEAN, since : Nat, streak : Nat, lastTS : Nat, ackedSince : Nat]

NewState == [firing |-> FALSE, since |-> 0, streak |-> 0, lastTS |-> 0, ackedSince |-> 0]

Acked(st) == st.firing /\ st.ackedSince # 0 /\ st.ackedSince = st.since

(* More than two intervals since the last measurement; in the variant with  *)
(* a fault a gap is bridged.                                                *)
NoGap(st, ts) == FALSE

Gap(st, ts) == st.lastTS # 0 /\ ts - st.lastTS > 2 * IntervalS

(* The state an episode begins and ends with.  Ending it drops the          *)
(* acknowledgement; in the variant with a fault it is left behind.          *)
Begun(st, ts) == [st EXCEPT !.firing = TRUE, !.since = ts, !.streak = 0]

EndedKeepingAck(st) == [st EXCEPT !.firing = FALSE, !.since = 0, !.streak = 0]

Ended(st) == [st EXCEPT !.firing = FALSE, !.since = 0, !.streak = 0, !.ackedSince = 0]

(* How many intervals in a row it takes to leave the present state. *)
Needed(rule, st) == IF st.firing THEN rule.clearFor ELSE rule.for

(* Advance a rule's state by one measurement: the new state and what it was. *)
EvaluateValue(rule, st, reading, ts) ==
  LET seen  == [st EXCEPT !.lastTS = ts]
      stays == reading = IF st.firing THEN "match" ELSE "miss"
  IN  IF ~rule.enabled
      THEN [state |-> st, transition |-> "none"]
      ELSE IF Gap(st, ts) \/ reading = "unusable" \/ stays
      THEN [state |-> [seen EXCEPT !.streak = 0], transition |-> "none"]
      ELSE IF st.streak + 1 < Needed(rule, st)
      THEN [state |-> [seen EXCEPT !.streak = st.streak + 1], transition |-> "none"]
      ELSE IF st.firing
      THEN [state |-> Ended(seen), transition |-> "resolved"]
      ELSE [state |-> Begun(seen, ts), transition |-> "fired"]

(* What acknowledging a firing alert, or withdrawing that, does to it. *)
WithAck(st, ack) == [st EXCEPT !.ackedSince = IF ack THEN st.since ELSE 0]
=============================================================================
