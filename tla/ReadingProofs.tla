--------------------------- MODULE ReadingProofs ---------------------------
(***************************************************************************)
(* What is made of what is read: a rule's readings one after another, the  *)
(* rows of a submission off the wire and into two columns, and the lines of *)
(* a SmokePing installation.  Each is read in one pass that keeps little;   *)
(* the theorems say that the little is enough, for inputs of any length.    *)
(***************************************************************************)
EXTENDS Hysteresis, WireBatch, SmokePing, FiniteSetTheorems, SequenceTheorems, WellFoundedInduction, TLAPS

(* A set of numbers that has any has a least.                               *)
LEMMA SetsHaveALeast ==
  ASSUME NEW S, S \subseteq Nat, S # {}
  PROVE  \E m \in S : \A e \in S : m <= e
<1>1. IsWellFoundedOn(OpToRel(<, Nat), Nat)
  BY NatLessThanWellFounded, Zenon
<1>2. PICK d \in S : \A e \in S : ~(<<e, d>> \in OpToRel(<, Nat))
  BY <1>1, WFMin, Zenon
<1>3. \A e \in S : ~(e < d)
  BY <1>2, Zenon DEF OpToRel
<1> QED
  BY <1>3

(* What holds of zero, and of a number's successor with the number, is said *)
(* of every number: here as a set.                                          *)
LEMMA AllNumbers ==
  ASSUME NEW S, 0 \in S, \A n \in Nat : n \in S => n + 1 \in S
  PROVE  Nat \subseteq S
<1> DEFINE T == Nat \ S
<1>1. CASE T # {}
  <2>1. PICK d \in T : \A e \in T : d <= e
    BY <1>1, SetsHaveALeast
  <2>2. d # 0 /\ d - 1 \in Nat /\ ~(d <= d - 1) /\ (d - 1) + 1 = d
    OBVIOUS
  <2>3. d - 1 \in S
    BY <2>1, <2>2
  <2> QED
    BY <2>2, <2>3
<1> QED
  BY <1>1

(* A function on the first so many numbers is a sequence. *)
LEMMA FunctionsAreSequences ==
  ASSUME NEW T, NEW n \in Nat, NEW f \in [1..n -> T]
  PROVE  f \in Seq(T) /\ Len(f) = n
OBVIOUS

-----------------------------------------------------------------------------
(* Hysteresis: the streak and the flag say what the whole history says, for *)
(* every rule, interval and sequence of measurements of any length.         *)

Item == [ts : Times, reading : Readings]

(* The state of a rule seen for the first time is one. *)
LEMMA NewStateType == NewState \in States
  BY DEF NewState, States

(* What one measurement makes of a state is a state again. *)
LEMMA EvaluateType ==
  ASSUME NEW s \in States, NEW ts \in Times, NEW reading \in Readings,
         enabled \in BOOLEAN
  PROVE  EvaluateValue(Rule, s, reading, ts).state \in States
<1>1. ts \in Nat /\ ts # 0
  BY RuleAssumption
<1> DEFINE seen == [s EXCEPT !.lastTS = ts]
<1>2. seen \in States
  BY <1>1 DEF States
<1> HIDE DEF seen
<1>3. [seen EXCEPT !.streak = 0] \in States /\ [seen EXCEPT !.streak = s.streak + 1] \in States
  <2>1. s.streak + 1 \in Nat
    BY DEF States
  <2> QED BY <1>2, <2>1 DEF States
<1>4. Ended(seen) \in States /\ Begun(seen, ts) \in States
  BY <1>1, <1>2 DEF States, Begun, Ended
<1>5. EvaluateValue(Rule, s, reading, ts).state
        \in {s, [seen EXCEPT !.streak = 0], [seen EXCEPT !.streak = s.streak + 1],
            Ended(seen), Begun(seen, ts)}
  BY DEF EvaluateValue, seen
<1> QED BY <1>3, <1>4, <1>5

(* The types hold at first, *)
LEMMA TypeInit == Init => TypeOK
  BY NewStateType DEF Init, TypeOK

(* and after every step. *)
LEMMA TypeNext == TypeOK /\ [Next]_vars => TypeOK'
<1> SUFFICES ASSUME TypeOK, [Next]_vars PROVE TypeOK'
  OBVIOUS
<1>1. ASSUME NEW ts \in Times, NEW reading \in Readings, Measure(ts, reading)
      PROVE  TypeOK'
  <2>1. st' \in States
    BY <1>1, EvaluateType DEF TypeOK, Measure
  <2>2. history' \in Seq(Item)
    <3>1. history \in Seq(Item) /\ [ts |-> ts, reading |-> reading] \in Item
      BY DEF TypeOK, Item
    <3> QED BY <1>1, <3>1 DEF Measure
  <2> QED BY <1>1, <2>1, <2>2 DEF TypeOK, Measure, Item
<1>2. ASSUME NEW ack \in BOOLEAN, Acknowledge(ack)
      PROVE  TypeOK'
  BY <1>2 DEF TypeOK, Acknowledge, WithAck, States
<1>3. CASE Toggle
  BY <1>3 DEF TypeOK, Toggle
<1>4. CASE UNCHANGED vars
  BY <1>4 DEF TypeOK, vars
<1> QED BY <1>1, <1>2, <1>3, <1>4 DEF Next

(* Every variable keeps its type. *)
THEOREM TypeCorrect == Spec => []TypeOK
<1> QED BY TypeInit, TypeNext, PTL DEF Spec

-----------------------------------------------------------------------------
(* Acknowledgements. *)

(* A measurement that ends an episode ends its acknowledgement. *)
LEMMA AckMeasure ==
  ASSUME TypeOK, AckInv, NEW ts \in Times, NEW reading \in Readings, Measure(ts, reading)
  PROVE  AckInv'
<1>1. ts \in Nat /\ ts # 0
  BY RuleAssumption
<1> QED BY <1>1 DEF TypeOK, AckInv, Measure, EvaluateValue, Begun, Ended, States

(* An acknowledgement mutes the episode it was given for, and no other, for *)
(* however long the series goes on (alert.go State.AckedSince).             *)
THEOREM AckIsOfOneEpisode == Spec => []AckMutesOneEpisode
<1>1. Init => AckInv
  BY DEF Init, AckInv, NewState
<1>2. TypeOK /\ AckInv /\ [Next]_vars => AckInv'
  <2> SUFFICES ASSUME TypeOK, AckInv, [Next]_vars PROVE AckInv'
    OBVIOUS
  <2>1. ASSUME NEW ack \in BOOLEAN, Acknowledge(ack) PROVE AckInv'
    BY <2>1 DEF TypeOK, AckInv, Acknowledge, WithAck, States
  <2>2. CASE Toggle
    BY <2>2 DEF AckInv, Toggle
  <2>3. CASE UNCHANGED vars
    BY <2>3 DEF AckInv, vars
  <2> QED BY <2>1, <2>2, <2>3, AckMeasure DEF Next
<1>3. TypeOK /\ AckInv => AckMutesOneEpisode
  BY DEF TypeOK, AckInv, AckMutesOneEpisode, Acked, States
<1> QED BY <1>1, <1>2, <1>3, TypeCorrect, PTL DEF Spec

-----------------------------------------------------------------------------
(* Firing by the history. *)

HistoryInv == StreakIsTheRun /\ LastIsTheLast /\ FiresByTheHistory

(* A run that ends before the last measurement does not change with it. *)
LEMMA RunStands ==
  ASSUME TypeOK, NEW x \in Item, history' = Append(history, x),
         NEW i \in 1..Len(history), NEW n \in Nat, NEW r \in Readings
  PROVE  Run(i, n, r)' <=> Run(i, n, r)
<1>1. history \in Seq(Item)
  BY DEF TypeOK, Item
<1>2. \A j \in 1..Len(history) : history'[j] = history[j]
  BY <1>1
<1>3. ASSUME NEW j \in 1..Len(history) PROVE Counts(j)' <=> Counts(j)
  BY <1>2, <1>3 DEF Counts
<1>4. n <= i => (i - n + 1)..i \subseteq 1..Len(history)
  BY <1>1
<1> QED BY <1>2, <1>3, <1>4 DEF Run

(* The runs that end at a new measurement: those that ended before it, one  *)
(* longer, if it counts and reads the same.                                 *)
LEMMA RunGrows ==
  ASSUME TypeOK, NEW x \in Item, history' = Append(history, x),
         NEW L \in Nat, L = Len(history), NEW n \in Nat, NEW r \in Readings
  PROVE  Run(L + 1, n + 1, r)' <=> Counts(L + 1)' /\ x.reading = r /\ Run(L, n, r)
<1>1. history \in Seq(Item)
  BY DEF TypeOK, Item
<1>2. history'[L + 1] = x /\ \A j \in 1..L : history'[j] = history[j]
  BY <1>1
<1>3. ASSUME NEW j \in 1..L PROVE Counts(j)' <=> Counts(j)
  BY <1>2, <1>3 DEF Counts
<1>4. Run(L + 1, n + 1, r)' <=> /\ n + 1 <= L + 1
                                /\ \A j \in (L + 1 - n)..(L + 1) :
                                     Counts(j)' /\ history'[j].reading = r
  <2>1. (L + 1) - (n + 1) + 1 = L + 1 - n
    OBVIOUS
  <2> QED BY <2>1 DEF Run
<1>5. ASSUME n <= L
      PROVE  (L + 1 - n)..(L + 1) = ((L - n + 1)..L) \cup {L + 1} /\ (L - n + 1)..L \subseteq 1..L
  BY <1>5
<1> QED BY <1>2, <1>3, <1>4, <1>5 DEF Run

(* No measurement counts after a gap: the code looks at the last timestamp, *)
(* the history at the last measurement.                                     *)
LEMMA GapIsOfTheHistory ==
  ASSUME TypeOK, LastIsTheLast, NEW ts \in Times, NEW reading \in Readings,
         history' = Append(history, [ts |-> ts, reading |-> reading]),
         NEW L \in Nat, L = Len(history)
  PROVE  Counts(L + 1)' <=> reading # "unusable" /\ ~Gap(st, ts)
<1>1. history \in Seq(Item)
  BY DEF TypeOK, Item
<1>2. history'[L + 1] = [ts |-> ts, reading |-> reading]
  BY <1>1
<1>3. CASE L = 0
  <2>1. history = <<>> /\ ~(L + 1 > 1)
    <3>1. \A seq \in Seq(Item) : seq # <<>> => Len(seq) \in Nat \ {0}
      BY EmptySeq
    <3>2. Len(history) \notin Nat \ {0}
      BY <1>3
    <3>3. history = <<>>
      BY <1>1, <3>1, <3>2
    <3> QED BY <1>3, <3>3
  <2>2. ~Gap(st, ts)
    BY <2>1 DEF LastIsTheLast, Gap
  <2> QED BY <1>2, <2>1, <2>2 DEF Counts
<1>4. CASE L # 0
  <2>1. L \in 1..L /\ history # <<>>
    BY <1>1, <1>4
  <2>2. history'[L] = history[L] /\ history[L] \in Item
    BY <1>1, <2>1
  <2>3. st.lastTS = history[L].ts /\ st.lastTS \in Nat \ {0} /\ ts \in Nat
    BY <2>1, <2>2, RuleAssumption DEF LastIsTheLast, Item
  <2>4. (L + 1) - 1 = L /\ L + 1 > 1
    BY <2>1
  <2>5. 2 * IntervalS \in Nat
    BY IntervalAssumption
  <2> QED BY <1>2, <2>2, <2>3, <2>4, <2>5 DEF Counts, Gap
<1> QED BY <1>3, <1>4

(* What the code does with a measurement, in terms of the streak: it either *)
(* counts towards the other state or begins the count again.                *)
Towards(ts, reading) == reading = Opposite /\ ~Gap(st, ts)

(* What a measurement does to the streak and the flag: three cases. *)
LEMMA MeasureCases ==
  ASSUME TypeOK, enabled, NEW ts \in Times, NEW reading \in Readings, Measure(ts, reading)
  PROVE  /\ st'.lastTS = ts
         /\ ~Towards(ts, reading) => st'.firing = st.firing /\ st'.streak = 0
         /\ Towards(ts, reading) /\ st.streak + 1 < Needed(Rule, st)
              => st'.firing = st.firing /\ st'.streak = st.streak + 1
         /\ Towards(ts, reading) /\ ~(st.streak + 1 < Needed(Rule, st))
              => st'.firing = ~st.firing /\ st'.streak = 0
<1>1. st' = EvaluateValue(Rule, st, reading, ts).state /\ Rule.enabled = TRUE /\ st \in States
  BY DEF Measure, Rule, TypeOK
<1>2. reading \in {"match", "miss", "unusable"} /\ st.firing \in BOOLEAN
  BY <1>1 DEF Readings, States
<1> DEFINE seen == [st EXCEPT !.lastTS = ts]
<1>3. /\ seen \in [firing : BOOLEAN, since : Nat, streak : Nat, lastTS : Times, ackedSince : Nat]
      /\ seen.lastTS = ts /\ seen.firing = st.firing
  BY <1>1 DEF States
<1>4. st' = IF ~Towards(ts, reading) THEN [seen EXCEPT !.streak = 0]
            ELSE IF st.streak + 1 < Needed(Rule, st) THEN [seen EXCEPT !.streak = st.streak + 1]
            ELSE IF st.firing THEN Ended(seen) ELSE Begun(seen, ts)
  BY <1>1, <1>2 DEF EvaluateValue, Towards, Opposite
<1> HIDE DEF seen
<1>5. /\ [seen EXCEPT !.streak = 0].lastTS = ts
      /\ [seen EXCEPT !.streak = 0].firing = st.firing
      /\ [seen EXCEPT !.streak = 0].streak = 0
  BY <1>3
<1>6. /\ [seen EXCEPT !.streak = st.streak + 1].lastTS = ts
      /\ [seen EXCEPT !.streak = st.streak + 1].firing = st.firing
      /\ [seen EXCEPT !.streak = st.streak + 1].streak = st.streak + 1
  BY <1>3
<1>7. Ended(seen).lastTS = ts /\ Ended(seen).firing = FALSE /\ Ended(seen).streak = 0
  BY <1>3 DEF Ended
<1>8. Begun(seen, ts).lastTS = ts /\ Begun(seen, ts).firing = TRUE /\ Begun(seen, ts).streak = 0
  BY <1>3 DEF Begun
<1> QED BY <1>2, <1>4, <1>5, <1>6, <1>7, <1>8

(* Which measurements a rule may be said to fire at, after one more. *)
LEMMA FiredAtGrows ==
  ASSUME TypeOK, NEW x \in Item, history' = Append(history, x), NEW L \in Nat, L = Len(history)
  PROVE  /\ \A i \in 1..L : FiredAt(i)' <=> FiredAt(i) /\ ~Run(L + 1, ClearFor, "miss")'
         /\ FiredAt(L + 1)' <=> Run(L + 1, For, "match")'
         /\ Len(history)' = L + 1
<1>1. history \in Seq(Item) /\ For \in Nat /\ ClearFor \in Nat
  BY RuleAssumption DEF TypeOK, Item
<1>2. Len(history)' = L + 1
  BY <1>1
<1>3. \A i \in 1..L : Run(i, For, "match")' <=> Run(i, For, "match")
  BY <1>1, RunStands DEF Readings
<1>4. \A i \in 1..L : Run(i, ClearFor, "miss")' <=> Run(i, ClearFor, "miss")
  BY <1>1, RunStands DEF Readings
<1>5. ASSUME NEW i \in 1..L
      PROVE  FiredAt(i)' <=> FiredAt(i) /\ ~Run(L + 1, ClearFor, "miss")'
  <2>1. (i + 1)..(L + 1) = ((i + 1)..L) \cup {L + 1} /\ (i + 1)..L \subseteq 1..L
    OBVIOUS
  <2> QED BY <1>2, <1>3, <1>4, <2>1 DEF FiredAt
<1>6. FiredAt(L + 1)' <=> Run(L + 1, For, "match")'
  <2>1. (L + 1 + 1)..(L + 1) = {}
    OBVIOUS
  <2> QED BY <1>2, <2>1 DEF FiredAt
<1> QED BY <1>2, <1>5, <1>6

(* The streak after one more measurement is the longest run again, whichever *)
(* state the rule is then counting towards.                                  *)
LEMMA StreakStep ==
  ASSUME TypeOK, HistoryInv, enabled, NEW ts \in Times, NEW reading \in Readings,
         Measure(ts, reading)
  PROVE  StreakIsTheRun' /\ LastIsTheLast' /\ FiresByTheHistory'
<1> DEFINE x == [ts |-> ts, reading |-> reading]
<1> PICK L \in Nat : L = Len(history)
  BY DEF TypeOK
<1>1. x \in Item /\ history' = Append(history, x) /\ history \in Seq(Item)
  BY DEF Measure, Item, TypeOK
<1>2. Len(history)' = L + 1 /\ history'[L + 1] = x
  BY <1>1
<1>3. For \in Nat \ {0} /\ ClearFor \in Nat \ {0} /\ st.streak \in Nat /\ st.firing \in BOOLEAN
  BY RuleAssumption DEF TypeOK, States
<1>4. \A n \in Nat, r \in Readings :
        Run(L + 1, n + 1, r)' <=> Counts(L + 1)' /\ reading = r /\ Run(L, n, r)
  BY <1>1, RunGrows
<1>5. \A r \in Readings : Run(L + 1, 0, r)'
  BY DEF Run
<1>6. Counts(L + 1)' <=> reading # "unusable" /\ ~Gap(st, ts)
  BY <1>1, GapIsOfTheHistory DEF HistoryInv
<1>7. \A n \in Nat : Run(L, n, Opposite) <=> n <= st.streak
  <2>1. st.streak <= L /\ \A n \in 0..L : Run(L, n, Opposite) <=> n <= st.streak
    BY DEF HistoryInv, StreakIsTheRun
  <2>2. \A n \in Nat : Run(L, n, Opposite) => n <= L
    BY DEF Run
  <2> QED BY <1>3, <2>1, <2>2
<1>8. Opposite \in Readings /\ Opposite # "unusable" /\ "match" \in Readings /\ "miss" \in Readings
  BY DEF Opposite, Readings
<1> PICK o \in Readings : o = Opposite
  BY <1>8
<1>9. \A k \in Nat \ {0} : Run(L + 1, k, o)' <=> Towards(ts, reading) /\ k - 1 <= st.streak
  <2> SUFFICES ASSUME NEW k \in Nat \ {0}
               PROVE  Run(L + 1, k, o)' <=> Towards(ts, reading) /\ k - 1 <= st.streak
    OBVIOUS
  <2> PICK n \in Nat : k = n + 1
    <3>1. k - 1 \in Nat /\ k = (k - 1) + 1
      OBVIOUS
    <3> QED BY <3>1
  <2>1. k - 1 = n
    OBVIOUS
  <2>2. Run(L + 1, k, o)' <=> Counts(L + 1)' /\ reading = o /\ Run(L, n, o)
    BY <1>4
  <2> QED BY <1>6, <1>7, <1>8, <2>1, <2>2 DEF Towards
<1>10. \A k \in Nat \ {0}, r \in Readings : Run(L + 1, k, r)' => reading = r
  <2> SUFFICES ASSUME NEW k \in Nat \ {0}, NEW r \in Readings, Run(L + 1, k, r)'
               PROVE  reading = r
    OBVIOUS
  <2> PICK n \in Nat : k = n + 1
    <3>1. k - 1 \in Nat /\ k = (k - 1) + 1
      OBVIOUS
    <3> QED BY <3>1
  <2> QED BY <1>4
<1>11. LastIsTheLast'
  <2>1. history' # <<>>
    BY <1>1
  <2> QED BY <1>2, <2>1, MeasureCases DEF LastIsTheLast
<1>12. /\ \A i \in 1..L : FiredAt(i)' <=> FiredAt(i) /\ ~Run(L + 1, ClearFor, "miss")'
       /\ FiredAt(L + 1)' <=> Run(L + 1, For, "match")'
  BY <1>1, FiredAtGrows
<1>13. FiresByTheHistory' <=> (st'.firing <=> \E i \in 1..(L + 1) : FiredAt(i)')
  BY <1>2 DEF FiresByTheHistory
<1>14. st.firing <=> \E i \in 1..L : FiredAt(i)
  BY DEF HistoryInv, FiresByTheHistory
<1>15. 1..(L + 1) = 1..L \cup {L + 1}
  OBVIOUS
<1>16. StreakIsTheRun'
  <2>1. /\ Needed(Rule, st)' = IF st'.firing THEN ClearFor ELSE For
        /\ Needed(Rule, st) = IF st.firing THEN ClearFor ELSE For
        /\ Opposite' = IF st'.firing THEN "miss" ELSE "match"
        /\ Opposite = IF st.firing THEN "miss" ELSE "match"
    BY DEF Needed, Rule, Opposite
  <2> PICK p \in Readings : p = Opposite'
    BY <1>8, <2>1
  <2>2. SUFFICES /\ st'.streak < Needed(Rule, st)' /\ st'.streak <= L + 1
                 /\ \A k \in 1..(L + 1) : Run(L + 1, k, p)' <=> k <= st'.streak
                 /\ st'.streak \in Nat
    BY <1>2, <1>5, <1>8 DEF StreakIsTheRun
  <2>3. st.streak <= L /\ st.streak < Needed(Rule, st)
    BY DEF HistoryInv, StreakIsTheRun
  <2>4. CASE ~Towards(ts, reading)
    <3>1. st'.firing = st.firing /\ st'.streak = 0 /\ p = o
      BY <2>1, <2>4, MeasureCases
    <3> QED BY <1>3, <1>9, <2>1, <2>4, <3>1
  <2>5. CASE Towards(ts, reading) /\ st.streak + 1 < Needed(Rule, st)
    <3>1. st'.firing = st.firing /\ st'.streak = st.streak + 1 /\ p = o
      BY <2>1, <2>5, MeasureCases
    <3> QED BY <1>3, <1>9, <2>1, <2>3, <2>5, <3>1
  <2>6. CASE Towards(ts, reading) /\ ~(st.streak + 1 < Needed(Rule, st))
    <3>1. st'.firing = ~st.firing /\ st'.streak = 0
      BY <2>6, MeasureCases
    <3>2. reading = o /\ p # o
      BY <1>3, <2>1, <2>6, <3>1 DEF Towards
    <3> QED BY <1>3, <1>10, <2>1, <3>1, <3>2
  <2> QED BY <2>4, <2>5, <2>6
<1>17. CASE ~st.firing
  <2>1. o = "match" /\ Needed(Rule, st) = For
    BY <1>17 DEF Opposite, Needed, Rule
  <2>2. Run(L + 1, For, "match")' <=> Towards(ts, reading) /\ ~(st.streak + 1 < For)
    BY <1>3, <1>9, <2>1
  <2>3. st'.firing <=> Run(L + 1, For, "match")'
    BY <1>3, <1>17, <2>1, <2>2, MeasureCases
  <2>4. FiresByTheHistory'
    BY <1>12, <1>13, <1>14, <1>15, <1>17, <2>3
  <2> QED BY <1>11, <1>16, <2>4
<1>18. CASE st.firing
  <2>1. o = "miss" /\ Needed(Rule, st) = ClearFor
    BY <1>18 DEF Opposite, Needed, Rule
  <2>2. Run(L + 1, ClearFor, "miss")' <=> Towards(ts, reading) /\ ~(st.streak + 1 < ClearFor)
    BY <1>3, <1>9, <2>1
  <2>3. st'.firing <=> ~Run(L + 1, ClearFor, "miss")'
    BY <1>3, <1>18, <2>1, <2>2, MeasureCases
  <2>4. Run(L + 1, ClearFor, "miss")' => ~FiredAt(L + 1)'
    BY <1>3, <1>8, <1>10, <1>12
  <2>5. FiresByTheHistory'
    BY <1>12, <1>13, <1>14, <1>15, <1>18, <2>3, <2>4
  <2> QED BY <1>11, <1>16, <2>5
<1> QED BY <1>3, <1>17, <1>18

(* A rule fires exactly by the history, for any for_intervals, any          *)
(* clear_intervals, any interval and any series of measurements             *)
(* (docs/alerting.md, "Hysteresis, and why gaps reset it").                 *)
THEOREM FiringIsOfTheHistory == Spec => []FiresByTheHistory
<1>1. Init => HistoryInv
  <2> SUFFICES ASSUME Init PROVE HistoryInv
    OBVIOUS
  <2>1. st = NewState /\ history = <<>> /\ Len(history) = 0
    BY DEF Init
  <2>2. 1..Len(history) = {} /\ 0..Len(history) = {0}
    BY <2>1
  <2>3. ~st.firing /\ st.streak = 0 /\ st.lastTS = 0
    BY <2>1 DEF NewState
  <2>4. Run(Len(history), 0, Opposite)
    BY <2>1 DEF Run
  <2>5. 0 < Needed(Rule, st)
    BY <2>3, RuleAssumption DEF Needed, Rule
  <2> QED BY <2>1, <2>2, <2>3, <2>4, <2>5
          DEF HistoryInv, StreakIsTheRun, LastIsTheLast, FiresByTheHistory
<1>2. TypeOK /\ HistoryInv /\ [Next]_vars => HistoryInv'
  <2> SUFFICES ASSUME TypeOK, HistoryInv, [Next]_vars PROVE HistoryInv'
    OBVIOUS
  <2>1. ASSUME UNCHANGED history, st'.firing = st.firing, st'.streak = st.streak,
               st'.lastTS = st.lastTS
        PROVE  HistoryInv'
    BY <2>1 DEF HistoryInv, StreakIsTheRun, LastIsTheLast, FiresByTheHistory, FiredAt, Run,
                Counts, Opposite, Needed, Rule
  <2>2. ASSUME NEW ts \in Times, NEW reading \in Readings, Measure(ts, reading)
        PROVE  HistoryInv'
    <3>1. CASE enabled
      BY <2>2, <3>1, StreakStep DEF HistoryInv
    <3>2. CASE ~enabled
      <4>1. st' = st /\ UNCHANGED history
        BY <2>2, <3>2 DEF Measure, EvaluateValue, Rule
      <4> QED BY <2>1, <4>1
    <3> QED BY <3>1, <3>2 DEF TypeOK
  <2>3. ASSUME NEW ack \in BOOLEAN, Acknowledge(ack)
        PROVE  HistoryInv'
    <3>1. /\ UNCHANGED history
          /\ st'.firing = st.firing /\ st'.streak = st.streak /\ st'.lastTS = st.lastTS
      BY <2>3 DEF TypeOK, Acknowledge, WithAck, States
    <3> QED BY <2>1, <3>1
  <2>4. CASE Toggle \/ UNCHANGED vars
    BY <2>1, <2>4 DEF Toggle, vars
  <2> QED BY <2>2, <2>3, <2>4 DEF Next
<1>3. HistoryInv => FiresByTheHistory
  BY DEF HistoryInv
<1> QED BY <1>1, <1>2, <1>3, TypeCorrect, PTL DEF Spec

-----------------------------------------------------------------------------
(* WireBatch. *)

(* The sums of a blob are what its definition says: there is such a function. *)
LEMMA SumsAre ==
  ASSUME NEW b \in Seq(Int), NEW low
  PROVE  SumsOf(b, low) = [i \in DOMAIN b |-> IF i = 1 THEN b[1]
                                              ELSE InWord(SumsOf(b, low)[i - 1] + b[i], low)]
<1> DEFINE Is(f, n) == f = [i \in 1..n |-> IF i = 1 THEN b[1] ELSE InWord(f[i - 1] + b[i], low)]
           S == {n \in Nat : \E f : Is(f, n)}
<1>1. 0 \in S
  <2>1. Is([i \in 1..0 |-> 0], 0)
    OBVIOUS
  <2> QED
    BY <2>1, Zenon
<1>2. ASSUME NEW n \in Nat, n \in S
      PROVE  n + 1 \in S
  <2>1. PICK f : Is(f, n)
    BY <1>2
  <2> DEFINE g == [i \in 1..(n + 1) |-> IF i \in 1..n THEN f[i] ELSE IF i = 1 THEN b[1]
                                       ELSE InWord(f[n] + b[n + 1], low)]
  <2>2. \A i \in 1..(n + 1) : g[i] = IF i = 1 THEN b[1] ELSE InWord(g[i - 1] + b[i], low)
    <3> SUFFICES ASSUME NEW i \in 1..(n + 1)
                 PROVE  g[i] = IF i = 1 THEN b[1] ELSE InWord(g[i - 1] + b[i], low)
      OBVIOUS
    <3>1. CASE i \in 1..n
      <4>1. g[i] = f[i] /\ f[i] = IF i = 1 THEN b[1] ELSE InWord(f[i - 1] + b[i], low)
        BY <2>1, <3>1
      <4>2. i # 1 => i - 1 \in 1..n /\ g[i - 1] = f[i - 1]
        BY <3>1
      <4> QED
        BY <4>1, <4>2
    <3>2. CASE i = n + 1
      <4>1. i # 1 => n \in 1..n /\ i - 1 = n /\ g[i - 1] = f[n]
        BY <3>2
      <4>2. i \notin 1..n /\ g[i] = IF i = 1 THEN b[1] ELSE InWord(f[n] + b[n + 1], low)
        BY <3>2
      <4> QED
        BY <3>2, <4>1, <4>2
    <3> QED
      BY <3>1, <3>2
  <2>3. Is(g, n + 1)
    BY <2>2, Zenon
  <2>4. n + 1 \in Nat
    OBVIOUS
  <2> HIDE DEF Is, g
  <2> QED
    BY <2>3, <2>4, Zenon
<1>3. Nat \subseteq S
  <2> HIDE DEF S
  <2> QED
    BY <1>1, <1>2, AllNumbers
<1>4. Len(b) \in Nat /\ DOMAIN b = 1..Len(b)
  OBVIOUS
<1>5. \E f : f = [i \in DOMAIN b |-> IF i = 1 THEN b[1] ELSE InWord(f[i - 1] + b[i], low)]
  BY <1>3, <1>4, Zenon
<1> QED
  BY <1>5, Zenon DEF SumsOf

(* A sequence ascends when each of its numbers is no less than the one before. *)
LEMMA NeighboursAscend ==
  ASSUME NEW s \in Seq(Int), \A i \in DOMAIN s : i # 1 => s[i - 1] <= s[i]
  PROVE  Ascending(s)
<1> DEFINE S == {n \in Nat : \A i, j \in DOMAIN s : i <= j /\ j <= n => s[i] <= s[j]}
<1>1. Len(s) \in Nat /\ DOMAIN s = 1..Len(s) /\ \A i \in DOMAIN s : s[i] \in Int
  OBVIOUS
<1>2. 0 \in S
  BY <1>1
<1>3. ASSUME NEW n \in Nat, n \in S
      PROVE  n + 1 \in S
  <2> SUFFICES ASSUME NEW i \in DOMAIN s, NEW j \in DOMAIN s, i <= j, j <= n + 1
               PROVE  s[i] <= s[j]
    OBVIOUS
  <2>1. CASE i = j \/ j <= n
    BY <1>1, <1>3, <2>1
  <2>2. CASE i < j /\ j = n + 1
    <3>1. j - 1 \in DOMAIN s /\ i <= j - 1 /\ j - 1 <= n /\ j # 1
      BY <1>1, <2>2
    <3>2. s[i] <= s[j - 1] /\ s[j - 1] <= s[j]
      BY <1>3, <3>1
    <3> QED
      BY <1>1, <3>1, <3>2
  <2> QED
    BY <1>1, <2>1, <2>2
<1>4. Nat \subseteq S
  <2> HIDE DEF S
  <2> QED
    BY <1>2, <1>3, AllNumbers
<1> QED
  BY <1>1, <1>4 DEF Ascending

(* The least a number of a blob may be, and the least its words can hold.   *)
Least(signed) == IF signed THEN -MostMicros ELSE 0

LowOf(signed) == IF signed THEN -(Wrap \div 2) ELSE 0

(* A sum that is within the limits has not wrapped. *)
LEMMA WithinTheWord ==
  ASSUME NEW signed \in BOOLEAN
  PROVE  /\ LowOf(signed) \in Int /\ Least(signed) \in Int /\ MostMicros \in Nat
         /\ Least(signed) <= MostMicros
         /\ \A x \in Int : x <= MostMicros => InWord(x, LowOf(signed)) = x
<1>1. Wrap \in Nat /\ MostMicros \in Nat /\ 2 * MostMicros < Wrap
  BY WireAssumption
<1>2. Wrap \div 2 \in Int /\ 2 * (Wrap \div 2) <= Wrap
  BY <1>1
<1>3. LowOf(signed) \in Int /\ MostMicros < LowOf(signed) + Wrap
  BY <1>1, <1>2 DEF LowOf
<1> QED
  BY <1>1, <1>3 DEF InWord, Least

(* What decoding gives, when it gives anything, is within the limits and     *)
(* ascends, whatever the numbers of the blob are: the check of a number      *)
(* comes before its sum.                                                     *)
LEMMA DecodedIsADistribution ==
  ASSUME NEW b \in Seq(Int), \A i \in DOMAIN b : i # 1 => 0 <= b[i],
         NEW signed \in BOOLEAN, DecodeBlob(b, signed) # Absent
  PROVE  /\ DecodeBlob(b, signed) \in Seq(Least(signed)..MostMicros)
         /\ Len(DecodeBlob(b, signed)) = Len(b)
         /\ Ascending(DecodeBlob(b, signed))
<1> DEFINE s == SumsOf(b, LowOf(signed))
<1>1. /\ DecodeBlob(b, signed) = s
      /\ b # <<>> => Least(signed) <= b[1] /\ b[1] <= MostMicros
      /\ \A i \in DOMAIN b : i # 1 => ~(b[i] > MostMicros - s[i - 1])
  <2>1. DecodeBlob(b, signed) =
          IF /\ b = <<>> \/ (Least(signed) <= b[1] /\ b[1] <= MostMicros)
             /\ \A i \in DOMAIN b \ {1} : ~TooMuch(s[i - 1], b[i])
          THEN s ELSE Absent
    BY Zenon DEF DecodeBlob, Least, LowOf
  <2> QED
    BY <2>1, Zenon DEF TooMuch
<1>2. \A i \in DOMAIN b : s[i] = IF i = 1 THEN b[1] ELSE InWord(s[i - 1] + b[i], LowOf(signed))
  BY SumsAre
<1>3. DOMAIN s = DOMAIN b /\ s = [i \in DOMAIN b |-> s[i]]
  BY SumsAre
<1>4. Len(b) \in Nat /\ DOMAIN b = 1..Len(b) /\ \A i \in DOMAIN b : b[i] \in Int
  OBVIOUS
<1> DEFINE In(x) == x \in Int /\ Least(signed) <= x /\ x <= MostMicros
           S == {n \in Nat : \A i \in DOMAIN b : i <= n => In(s[i]) /\ (i # 1 => s[i - 1] <= s[i])}
<1> HIDE DEF s
<1>5. 0 \in S
  BY <1>4
<1>6. ASSUME NEW n \in Nat, n \in S
      PROVE  n + 1 \in S
  <2> SUFFICES ASSUME NEW i \in DOMAIN b, i = n + 1
               PROVE  In(s[i]) /\ (i # 1 => s[i - 1] <= s[i])
    BY <1>4, <1>6
  <2>1. CASE i = 1
    <3>1. b # <<>> /\ s[i] = b[1] /\ b[1] \in Int
      BY <1>2, <1>4, <2>1
    <3> QED
      BY <1>1, <2>1, <3>1
  <2>2. CASE i # 1
    <3>1. i - 1 \in DOMAIN b /\ i - 1 <= n
      BY <1>4, <2>2
    <3>2. In(s[i - 1])
      BY <1>6, <3>1
    <3>3. MostMicros \in Int /\ Least(signed) \in Int
      BY WithinTheWord
    <3>4. b[i] \in Int /\ 0 <= b[i] /\ b[i] <= MostMicros - s[i - 1]
      BY <1>1, <1>4, <2>2, <3>2, <3>3
    <3>5. s[i - 1] + b[i] \in Int /\ s[i - 1] + b[i] <= MostMicros
      BY <3>2, <3>3, <3>4
    <3>6. s[i] = s[i - 1] + b[i]
      BY <1>2, <2>2, <3>5, WithinTheWord
    <3> QED
      BY <3>2, <3>3, <3>4, <3>5, <3>6
  <2> QED
    BY <2>1, <2>2
<1>7. Nat \subseteq S
  <2> HIDE DEF S
  <2> QED
    BY <1>5, <1>6, AllNumbers
<1>8. \A i \in DOMAIN b : s[i] \in Least(signed)..MostMicros /\ (i # 1 => s[i - 1] <= s[i])
  BY <1>4, <1>7, WithinTheWord
<1>9. s \in Seq(Least(signed)..MostMicros) /\ Len(s) = Len(b)
  <2>1. s \in [1..Len(b) -> Least(signed)..MostMicros]
    BY <1>3, <1>4, <1>8
  <2> QED
    BY <1>4, <2>1, FunctionsAreSequences
<1>10. s \in Seq(Int)
  <2>1. \A x \in Least(signed)..MostMicros : x \in Int
    OBVIOUS
  <2>2. s \in [1..Len(b) -> Int]
    BY <1>3, <1>4, <1>8, <2>1
  <2> QED
    BY <1>4, <2>2
<1> QED
  BY <1>1, <1>3, <1>8, <1>9, <1>10, NeighboursAscend

(* A list that ascends, within the limits, encodes to a blob that is none but *)
(* its own.                                                                   *)
LEMMA EncodedIsReadBack ==
  ASSUME NEW signed \in BOOLEAN, NEW s \in Seq(Least(signed)..MostMicros), Ascending(s)
  PROVE  /\ EncodeBlob(s) \in Seq(Int) /\ EncodeBlob(s) # Absent
         /\ Len(EncodeBlob(s)) = Len(s)
         /\ \A i \in DOMAIN s : i # 1 => 0 <= EncodeBlob(s)[i]
         /\ DecodeBlob(EncodeBlob(s), signed) = s
<1> DEFINE b == [i \in DOMAIN s |-> IF i = 1 THEN s[1] ELSE s[i] - s[i - 1]]
           sums == SumsOf(b, LowOf(signed))
<1>1. EncodeBlob(s) = b
  BY DEF EncodeBlob
<1>2. /\ Least(signed) \in Int /\ MostMicros \in Int
      /\ \A x \in Int : x <= MostMicros => InWord(x, LowOf(signed)) = x
  BY WithinTheWord
<1>3. /\ Len(s) \in Nat /\ DOMAIN s = 1..Len(s)
      /\ \A i \in DOMAIN s : s[i] \in Int /\ Least(signed) <= s[i] /\ s[i] <= MostMicros
  BY <1>2
<1>4. \A i \in DOMAIN s : i # 1 => i - 1 \in DOMAIN s /\ s[i - 1] <= s[i]
  BY <1>3 DEF Ascending
<1>5. b \in Seq(Int) /\ Len(b) = Len(s) /\ DOMAIN b = DOMAIN s
  BY <1>3, <1>4
<1>6. \A i \in DOMAIN s : b[i] = IF i = 1 THEN s[1] ELSE s[i] - s[i - 1]
  OBVIOUS
<1> HIDE DEF b
<1>7. /\ sums = [i \in DOMAIN b |-> IF i = 1 THEN b[1] ELSE InWord(sums[i - 1] + b[i], LowOf(signed))]
      /\ DOMAIN sums = DOMAIN s
  BY <1>5, SumsAre
<1>8. \A i \in DOMAIN s : sums[i] = IF i = 1 THEN b[1] ELSE InWord(sums[i - 1] + b[i], LowOf(signed))
  BY <1>5, <1>7
<1> HIDE DEF sums
<1> DEFINE S == {n \in Nat : \A i \in DOMAIN s : i <= n => sums[i] = s[i]}
<1>9. 0 \in S
  BY <1>3
<1>10. ASSUME NEW n \in Nat, n \in S
       PROVE  n + 1 \in S
  <2> SUFFICES ASSUME NEW i \in DOMAIN s, i = n + 1
               PROVE  sums[i] = s[i]
    BY <1>3, <1>10
  <2>1. CASE i = 1
    BY <1>6, <1>8, <2>1
  <2>2. CASE i # 1
    <3>1. i - 1 \in DOMAIN s /\ sums[i - 1] = s[i - 1]
      BY <1>3, <1>4, <1>10, <2>2
    <3>2. sums[i - 1] + b[i] = s[i]
      BY <1>3, <1>6, <2>2, <3>1
    <3> QED
      BY <1>2, <1>3, <1>8, <2>2, <3>2
  <2> QED
    BY <2>1, <2>2
<1>11. Nat \subseteq S
  <2> HIDE DEF S
  <2> QED
    BY <1>9, <1>10, AllNumbers
<1>12. sums = s
  BY <1>3, <1>5, <1>7, <1>11
<1>13. \A i \in DOMAIN b \ {1} : ~TooMuch(sums[i - 1], b[i])
  BY <1>2, <1>3, <1>4, <1>5, <1>6, <1>12 DEF TooMuch
<1>14. b = <<>> \/ (Least(signed) <= b[1] /\ b[1] <= MostMicros)
  BY <1>3, <1>5, <1>6
<1>15. DecodeBlob(b, signed) = s
  BY <1>12, <1>13, <1>14 DEF DecodeBlob, sums, Least, LowOf
<1>16. \A i \in DOMAIN s : i # 1 => 0 <= b[i]
  BY <1>3, <1>4, <1>6
<1>17. b # Absent
  BY <1>5, WireAssumption
<1> QED
  BY <1>1, <1>5, <1>15, <1>16, <1>17

-----------------------------------------------------------------------------
(* A list can be put in order: what comes next goes before the first that is *)
(* above it.                                                                  *)
LEMMA OneMoreIsInserted ==
  ASSUME NEW s \in Seq(Int), NEW n \in Nat, n < Len(s),
         NEW p \in Orders(1..n), \A i, j \in 1..n : i <= j => s[p[i]] <= s[p[j]]
  PROVE  \E q \in Orders(1..(n + 1)) : \A i, j \in 1..(n + 1) : i <= j => s[q[i]] <= s[q[j]]
<1>1. Len(s) \in Nat /\ \A i \in 1..Len(s) : s[i] \in Int
  OBVIOUS
<1>2. /\ \A i \in 1..n : p[i] \in 1..n /\ s[p[i]] \in Int
      /\ \A i \in 1..n : \E k \in 1..n : p[k] = i
  <2>1. p \in [1..n -> 1..n] /\ \A i \in 1..n : \E k \in 1..n : p[k] = i
    BY DEF Orders
  <2>2. \A i \in 1..n : p[i] \in 1..n
    BY <2>1
  <2>3. \A i \in 1..n : i \in 1..Len(s)
    BY <1>1
  <2> QED
    BY <1>1, <2>1, <2>2, <2>3
<1> DEFINE x == s[n + 1]
           Above == {i \in 1..(n + 1) : i = n + 1 \/ s[p[i]] > x}
<1>3. PICK m \in 1..(n + 1) : /\ \A i \in 1..n : i < m => s[p[i]] <= x
                              /\ \A i \in 1..n : m <= i => x <= s[p[i]]
  <2>1. Above \subseteq Nat /\ n + 1 \in Above
    OBVIOUS
  <2>2. PICK m \in Above : \A e \in Above : m <= e
    BY <2>1, SetsHaveALeast
  <2>3. x \in Int
    BY <1>1
  <2>4. \A i \in 1..n : i < m => s[p[i]] <= x
    <3> SUFFICES ASSUME NEW i \in 1..n, i < m PROVE s[p[i]] <= x
      OBVIOUS
    <3>1. i \notin Above /\ s[p[i]] \in Int
      BY <1>2, <2>2
    <3> QED
      BY <2>3, <3>1
  <2>5. \A i \in 1..n : m <= i => x <= s[p[i]]
    <3> SUFFICES ASSUME NEW i \in 1..n, m <= i PROVE x <= s[p[i]]
      OBVIOUS
    <3>1. m # n + 1 /\ m \in 1..n
      BY <2>2
    <3>2. s[p[m]] > x /\ s[p[m]] <= s[p[i]] /\ s[p[m]] \in Int /\ s[p[i]] \in Int
      BY <1>2, <2>2, <3>1
    <3> QED
      BY <2>3, <3>2
  <2> QED
    BY <2>2, <2>4, <2>5
<1> DEFINE q == [i \in 1..(n + 1) |-> IF i < m THEN p[i] ELSE IF i = m THEN n + 1 ELSE p[i - 1]]
<1>4. \A i \in 1..(n + 1) : /\ i < m => i \in 1..n
                            /\ i > m => i - 1 \in 1..n
  OBVIOUS
<1>5. q \in [1..(n + 1) -> 1..(n + 1)]
  <2>1. \A i \in 1..n : p[i] \in 1..(n + 1)
    BY <1>2
  <2>2. n + 1 \in 1..(n + 1)
    OBVIOUS
  <2>3. \A i \in 1..(n + 1) : q[i] \in 1..(n + 1)
    BY <1>4, <2>1, <2>2
  <2> QED
    BY <2>3
<1>6. ASSUME NEW i \in 1..(n + 1)
      PROVE  \E k \in 1..(n + 1) : q[k] = i
  <2>1. CASE i = n + 1
    <3>1. q[m] = i
      BY <2>1
    <3> QED
      BY <3>1
  <2>2. CASE i # n + 1
    <3>1. PICK k \in 1..n : p[k] = i
      <4>1. i \in 1..n
        BY <2>2
      <4> QED
        BY <1>2, <4>1
    <3>2. CASE k < m
      <4>1. k \in 1..(n + 1) /\ q[k] = i
        BY <3>1, <3>2
      <4> QED
        BY <4>1
    <3>3. CASE ~(k < m)
      <4>1. k + 1 \in 1..(n + 1) /\ ~(k + 1 < m) /\ k + 1 # m /\ (k + 1) - 1 = k
        BY <3>3
      <4>2. q[k + 1] = i
        BY <3>1, <4>1
      <4> QED
        BY <4>1, <4>2
    <3> QED
      BY <3>2, <3>3
  <2> QED
    BY <2>1, <2>2
<1>7. q \in Orders(1..(n + 1))
  BY <1>5, <1>6 DEF Orders
<1>8. ASSUME NEW i \in 1..(n + 1), NEW j \in 1..(n + 1), i <= j
      PROVE  s[q[i]] <= s[q[j]]
  <2>1. x \in Int
    BY <1>1
  <2>2. CASE j < m
    <3>1. i \in 1..n /\ j \in 1..n /\ q[i] = p[i] /\ q[j] = p[j]
      BY <1>8, <2>2
    <3> QED
      BY <1>8, <3>1
  <2>3. CASE j = m
    <3>1. q[j] = n + 1
      BY <2>3
    <3>2. CASE i = m
      BY <2>1, <2>3, <3>1, <3>2
    <3>3. CASE i < m
      <4>1. i \in 1..n /\ q[i] = p[i]
        BY <1>4, <3>3
      <4> QED
        BY <1>3, <3>1, <3>3, <4>1
    <3> QED
      BY <1>8, <2>3, <3>2, <3>3
  <2>4. CASE j > m
    <3>1. j - 1 \in 1..n /\ q[j] = p[j - 1] /\ m <= j - 1
      BY <1>4, <2>4
    <3>2. CASE i < m
      <4>1. i \in 1..n /\ q[i] = p[i] /\ i <= j - 1
        BY <1>4, <2>4, <3>2
      <4> QED
        BY <3>1, <4>1
    <3>3. CASE i = m
      <4>1. q[i] = n + 1
        BY <3>3
      <4> QED
        BY <1>3, <3>1, <4>1
    <3>4. CASE i > m
      <4>1. i - 1 \in 1..n /\ q[i] = p[i - 1] /\ i - 1 <= j - 1
        BY <1>4, <1>8, <3>4
      <4> QED
        BY <3>1, <4>1
    <3> QED
      BY <3>2, <3>3, <3>4
  <2> QED
    BY <2>2, <2>3, <2>4
<1> HIDE DEF q
<1> QED
  BY <1>7, <1>8

(* Any list can be put in order, so that what sorting chooses is in order.  *)
LEMMA SortedIsInOrder ==
  ASSUME NEW s \in Seq(Int)
  PROVE  Sorted(s) \in Rearranged(s) /\ Ascending(Sorted(s))
<1>1. Len(s) \in Nat /\ DOMAIN s = 1..Len(s)
  OBVIOUS
<1> DEFINE Sorts(p, n) == \A i, j \in 1..n : i <= j => s[p[i]] <= s[p[j]]
           S == {n \in Nat : n <= Len(s) => \E p \in Orders(1..n) : Sorts(p, n)}
<1>2. 0 \in S
  <2>1. [i \in 1..0 |-> i] \in Orders(1..0)
    BY DEF Orders
  <2>2. Sorts([i \in 1..0 |-> i], 0)
    OBVIOUS
  <2> QED
    BY <2>1, <2>2
<1>3. ASSUME NEW n \in Nat, n \in S
      PROVE  n + 1 \in S
  <2> SUFFICES ASSUME n + 1 <= Len(s)
               PROVE  \E p \in Orders(1..(n + 1)) : Sorts(p, n + 1)
    OBVIOUS
  <2>1. n < Len(s)
    BY <1>1
  <2>2. PICK p \in Orders(1..n) : Sorts(p, n)
    BY <1>1, <1>3, <2>1
  <2> QED
    BY <2>1, <2>2, OneMoreIsInserted
<1>4. Nat \subseteq S
  <2> HIDE DEF S
  <2> QED
    BY <1>2, <1>3, AllNumbers
<1>5. PICK p \in Orders(1..Len(s)) : Sorts(p, Len(s))
  BY <1>1, <1>4
<1> DEFINE t == [i \in DOMAIN s |-> s[p[i]]]
<1>6. t \in Rearranged(s)
  BY <1>1 DEF Rearranged
<1>7. Ascending(t)
  BY <1>1, <1>5 DEF Ascending
<1> HIDE DEF t
<1> QED
  BY <1>6, <1>7 DEF Sorted

(* What sorting makes of a list has its numbers and its length. *)
LEMMA RearrangedIsAList ==
  ASSUME NEW T, NEW s \in Seq(T), NEW t \in Rearranged(s)
  PROVE  t \in Seq(T) /\ Len(t) = Len(s)
<1>1. PICK p \in Orders(DOMAIN s) : t = [i \in DOMAIN s |-> s[p[i]]]
  BY DEF Rearranged
<1>2. Len(s) \in Nat /\ DOMAIN s = 1..Len(s) /\ \A i \in DOMAIN s : s[i] \in T
  OBVIOUS
<1>3. \A i \in DOMAIN s : p[i] \in DOMAIN s
  BY DEF Orders
<1>4. t \in [1..Len(s) -> T]
  BY <1>1, <1>2, <1>3
<1> QED
  BY <1>2, <1>4, FunctionsAreSequences

-----------------------------------------------------------------------------
(* The invariant: what the rows before the cursor have become.             *)
NextPlace == <<cursor[1], cursor[2] - 1>>

Passed == {p \in Places : Before(p, NextPlace)}

Opened == {p \in Places : p[1] < cursor[1] \/ (p[1] = cursor[1] /\ cursor[2] > 1)}

(* The place that was last taken is one of the submission's. *)
CursorIsSound ==
  /\ cursor \in Nat \X Nat /\ cursor[1] >= 2 /\ cursor[2] >= 1
  /\ cursor[2] > 1 => NextPlace \in Places

(* What was reserved is what was opened, and within both limits. *)
RowsAreCounted ==
  /\ decoded = Cardinality(Opened) /\ reserved = decoded
  /\ decoded <= MaxRows /\ decoded <= Budget

(* What the store is handed: samples and, if there are any, a signed series. *)
Measurements == [samples : Seq(0..MostMicros), series : Seq((-MostMicros)..MostMicros) \cup {Absent}]

AllAscend(ms) ==
  \A i \in DOMAIN ms : /\ Ascending(ms[i].samples)
                       /\ ms[i].series # Absent => Ascending(ms[i].series)

(* Each row that is kept is taken at its rank, and nothing else is.         *)
KeptAreTaken ==
  /\ Len(taken) = Cardinality(Kept \cap Passed)
  /\ \A p \in Kept \cap Passed : RankOf(p) \in DOMAIN taken /\ taken[RankOf(p)] = Measured(Row(p))

(* No row behind the cursor is one that refuses the batch. *)
NoneRefuses == \A p \in Passed : ~RefusesBatch(Row(p))

PassedAreTaken == taken \in Seq(Measurements) /\ AllAscend(taken) /\ KeptAreTaken /\ NoneRefuses

(* The two columns of a row. *)
Blobs == [samples : Seq(Int), series : Seq(Int) \cup {Absent}]

(* A column is the encoding of what was taken, but where it was damaged.    *)
BlobsAreOfTheTaken ==
  /\ blobs \in Seq(Blobs) /\ Len(blobs) = Len(taken)
  /\ \A i \in DOMAIN blobs :
       /\ \A k \in DOMAIN blobs[i].samples : k # 1 => 0 <= blobs[i].samples[k]
       /\ ~damaged => blobs[i].samples = EncodeBlob(taken[i].samples)
       /\ blobs[i].series = IF taken[i].series = Absent THEN Absent ELSE EncodeBlob(taken[i].series)

(* The invariant by stage. *)
WireInv ==
  /\ wire \in Bodies
  /\ \/ stage = "screen" /\ taken = <<>> /\ decoded = 0 /\ reserved = 0
     \/ stage \in {"decode", "stored"} /\ Framed /\ CursorIsSound /\ RowsAreCounted /\ PassedAreTaken
     \/ stage = "refused" /\ DoubtfulAsAWhole
  /\ IF stage = "stored" THEN cursor[1] > Len(wire) /\ BlobsAreOfTheTaken
     ELSE blobs = <<>> /\ damaged = FALSE

(* The places of a submission are as many as its rows, a finite number.     *)
LEMMA PlacesAreThose ==
  ASSUME wire \in Bodies
  PROVE  /\ Len(wire) \in Nat /\ DOMAIN wire = 1..Len(wire)
         /\ \A i \in DOMAIN wire : IsMessage(wire[i]) /\ IsList(RowsOf(wire[i]))
         /\ \A p : p \in Places <=> \E i \in DOMAIN wire : \E k \in DOMAIN RowsOf(wire[i]) : p = <<i, k>>
         /\ \A p \in Places : /\ p \in Nat \X Nat /\ p[1] \in DOMAIN wire /\ p[2] \in DOMAIN RowsOf(wire[p[1]])
                              /\ p = <<p[1], p[2]>> /\ IsRow(Row(p)) /\ wire[p[1]].kind = "records"
         /\ IsFiniteSet(Places)
<1>1. IsList(wire) /\ \A i \in DOMAIN wire : IsMessage(wire[i])
  BY WireAssumption
<1>2. Len(wire) \in Nat /\ DOMAIN wire = 1..Len(wire)
  BY <1>1 DEF IsList
<1>3. \A i \in DOMAIN wire : IsList(RowsOf(wire[i]))
  <2>1. IsList(<<>>)
    BY DEF IsList
  <2> QED
    BY <1>1, <2>1 DEF IsMessage, RowsOf
<1>4. \A p : p \in Places <=> \E i \in DOMAIN wire : \E k \in DOMAIN RowsOf(wire[i]) : p = <<i, k>>
  BY DEF Places
<1>5. ASSUME NEW p \in Places
      PROVE  /\ p \in Nat \X Nat /\ p[1] \in DOMAIN wire /\ p[2] \in DOMAIN RowsOf(wire[p[1]])
             /\ p = <<p[1], p[2]>> /\ IsRow(Row(p)) /\ wire[p[1]].kind = "records"
  <2>1. PICK i \in DOMAIN wire : \E k \in DOMAIN RowsOf(wire[i]) : p = <<i, k>>
    BY <1>4
  <2>2. PICK k \in DOMAIN RowsOf(wire[i]) : p = <<i, k>>
    BY <2>1
  <2>3. DOMAIN RowsOf(wire[i]) = 1..Len(RowsOf(wire[i])) /\ Len(RowsOf(wire[i])) \in Nat
    BY <1>3 DEF IsList
  <2>4. wire[i].kind # "schema"
    BY <2>2, <2>3 DEF RowsOf
  <2>5. RowsOf(wire[i]) = wire[i].rows /\ IsRow(wire[i].rows[k]) /\ wire[i].kind = "records"
    BY <1>1, <2>2, <2>4 DEF RowsOf, IsMessage
  <2> QED
    BY <1>2, <2>2, <2>3, <2>5 DEF Row
<1>6. IsFiniteSet(Places)
  <2> DEFINE Of(i) == {i} \X DOMAIN RowsOf(wire[i])
             Upto(n) == UNION {Of(i) : i \in {j \in DOMAIN wire : j <= n}}
             S == {n \in Nat : IsFiniteSet(Upto(n))}
  <2>1. 0 \in S
    <3>1. Upto(0) = {}
      BY <1>2
    <3> QED
      BY <3>1, FS_EmptySet
  <2>2. ASSUME NEW n \in Nat, n \in S
        PROVE  n + 1 \in S
    <3>3. IsFiniteSet(Upto(n))
      BY <2>2
    <3> SUFFICES IsFiniteSet(Upto(n + 1))
      OBVIOUS
    <3>1. CASE n + 1 \in DOMAIN wire
      <4>1. Upto(n + 1) = Upto(n) \cup Of(n + 1)
        BY <1>2, <3>1
      <4>2. IsFiniteSet(Of(n + 1))
        <5>1. /\ DOMAIN RowsOf(wire[n + 1]) = 1..Len(RowsOf(wire[n + 1]))
              /\ 1 \in Int /\ Len(RowsOf(wire[n + 1])) \in Int
          BY <1>3, <3>1 DEF IsList
        <5>2. IsFiniteSet(DOMAIN RowsOf(wire[n + 1]))
          BY <5>1, FS_Interval
        <5>3. IsFiniteSet({n + 1})
          BY FS_Singleton
        <5> QED
          BY <5>2, <5>3, FS_Product
      <4> HIDE DEF Upto, Of
      <4> QED
        BY <3>3, <4>1, <4>2, FS_Union
    <3>2. CASE n + 1 \notin DOMAIN wire
      <4>1. Upto(n + 1) = Upto(n)
        BY <1>2, <3>2
      <4> QED
        BY <3>3, <4>1, Zenon
    <3> QED
      BY <3>1, <3>2
  <2>3. Nat \subseteq S
    <3> HIDE DEF S
    <3> QED
      BY <2>1, <2>2, AllNumbers
  <2>4. Places = Upto(Len(wire))
    BY <1>2 DEF Places
  <2> QED
    BY <1>2, <2>3, <2>4
<1> QED
  BY <1>1, <1>2, <1>3, <1>4, <1>5, <1>6

(* What is said of the places of rows is said of the wire, which stays.     *)
LEMMA PlacesStay ==
  ASSUME UNCHANGED <<wire, whole>>
  PROVE  /\ Places' = Places /\ Kept' = Kept /\ Framed' = Framed
         /\ \A p : Row(p)' = Row(p) /\ RankOf(p)' = RankOf(p)
         /\ DoubtfulAsAWhole' = DoubtfulAsAWhole
<1>1. Places' = Places /\ Framed' = Framed
  BY DEF Places, Framed
<1>2. \A p : Row(p)' = Row(p)
  BY DEF Row
<1>3. Kept' = Kept
  BY <1>1, <1>2 DEF Kept
<1>4. \A p : RankOf(p)' = RankOf(p)
  BY <1>3 DEF RankOf
<1>5. DoubtfulAsAWhole' = DoubtfulAsAWhole
  BY <1>1, <1>2 DEF DoubtfulAsAWhole
<1> QED
  BY <1>1, <1>2, <1>3, <1>4, <1>5

(* The first look refuses what is doubtful as a whole, or finds it framed.  *)
LEMMA ScreenKeepsIt == WireInv /\ Screen => WireInv'
<1> SUFFICES ASSUME WireInv, Screen PROVE WireInv'
  OBVIOUS
<1>1. /\ wire \in Bodies /\ taken = <<>> /\ decoded = 0 /\ reserved = 0 /\ blobs = <<>> /\ damaged = FALSE
      /\ UNCHANGED <<wire, whole, decoded, reserved, taken, blobs, damaged>> /\ cursor' = <<2, 1>>
      /\ stage' = IF Framed THEN "decode" ELSE "refused"
  BY DEF WireInv, Screen
<1>2. CASE ~Framed
  <2>1. DoubtfulAsAWhole'
    BY <1>1, <1>2, PlacesStay DEF DoubtfulAsAWhole
  <2> QED
    BY <1>1, <1>2, <2>1 DEF WireInv
<1>3. CASE Framed
  <2>1. Opened' = {} /\ Passed' = {}
    <3> SUFFICES ASSUME NEW p \in Places PROVE p[1] \in Nat /\ p[1] >= 2 /\ p[2] \in Nat /\ p[2] >= 1
      BY <1>1, PlacesStay DEF Opened, Passed, Before, NextPlace
    <3>1. /\ p[1] \in DOMAIN wire /\ p[1] \in Nat /\ p[1] >= 1 /\ p[2] \in Nat /\ p[2] >= 1
          /\ wire[p[1]].kind # "schema"
      BY <1>1, PlacesAreThose DEF IsList
    <3> QED
      BY <1>3, <3>1 DEF Framed
  <2>2. CursorIsSound'
    BY <1>1 DEF CursorIsSound
  <2>3. RowsAreCounted'
    BY <1>1, <2>1, FS_EmptySet, WireAssumption DEF RowsAreCounted
  <2>4. PassedAreTaken'
    <3>1. Kept' \cap Passed' = {} /\ taken' = <<>>
      BY <1>1, <2>1
    <3> QED
      BY <2>1, <3>1, FS_EmptySet DEF PassedAreTaken, AllAscend, KeptAreTaken, NoneRefuses
  <2>5. Framed'
    BY <1>1, <1>3, PlacesStay
  <2> QED
    BY <1>1, <1>3, <2>2, <2>3, <2>4, <2>5 DEF WireInv
<1> QED
  BY <1>2, <1>3

(* Opening a record batch counts its rows and takes none of them. *)
LEMMA OpenKeepsIt == WireInv /\ OpenRecords => WireInv'
<1> SUFFICES ASSUME WireInv, OpenRecords PROVE WireInv'
  OBVIOUS
<1> DEFINE m == cursor[1]
           batch == wire[m].rows
<1>1. /\ wire \in Bodies /\ stage = "decode" /\ m <= Len(wire) /\ cursor[2] = 1
      /\ Framed /\ CursorIsSound /\ RowsAreCounted /\ PassedAreTaken /\ blobs = <<>> /\ damaged = FALSE
      /\ UNCHANGED <<wire, whole, taken, blobs, damaged>>
      /\ decoded' = decoded + Len(batch)
      /\ reserved' = IF Len(batch) > Budget - reserved THEN reserved ELSE reserved + Len(batch)
      /\ stage' = IF Len(batch) > Budget - reserved \/ decoded' > MaxRows THEN "refused" ELSE "decode"
      /\ cursor' = IF batch = <<>> THEN <<m + 1, 1>> ELSE <<m, 2>>
  BY DEF WireInv, OpenRecords, CountedRows
<1>2. /\ m \in DOMAIN wire /\ m \in Nat /\ RowsOf(wire[m]) = batch
      /\ Len(batch) \in Nat /\ DOMAIN batch = 1..Len(batch)
  BY <1>1, PlacesAreThose DEF CursorIsSound, Framed, RowsOf, IsList
<1> DEFINE Here == {m} \X (1..Len(batch))
<1>3. /\ Here \subseteq Places /\ Opened \subseteq Places /\ Opened \cap Here = {}
      /\ Opened' = Opened \cup Here
  <2>1. Here \subseteq Places
    BY <1>1, <1>2, PlacesAreThose
  <2>2. \A p \in Places : p[1] = m <=> p \in Here
    BY <1>1, <1>2, PlacesAreThose
  <2>3. \A p \in Places : p[1] \in Nat /\ p[2] \in Nat
    BY <1>1, PlacesAreThose
  <2>4. Opened = {p \in Places : p[1] < m}
    BY <1>1 DEF Opened
  <2>5. Opened' = {p \in Places : p[1] < m + 1}
    <3>1. CASE batch = <<>>
      BY <1>1, <3>1, <2>3, PlacesStay DEF Opened
    <3>2. CASE batch # <<>>
      BY <1>1, <1>2, <3>2, <2>3, PlacesStay DEF Opened
    <3> QED
      BY <3>1, <3>2
  <2> QED
    BY <1>2, <2>1, <2>2, <2>3, <2>4, <2>5
<1>4. Cardinality(Opened') = decoded + Len(batch) /\ Cardinality(Opened') <= Cardinality(Places)
      /\ IsFiniteSet(Places) /\ Cardinality(Places) \in Nat
  <2>1. IsFiniteSet(Places) /\ IsFiniteSet(Opened)
    BY <1>1, <1>3, PlacesAreThose, FS_Subset
  <2>2. IsFiniteSet(Here) /\ Cardinality(Here) = Len(batch)
    <3>1. IsFiniteSet({m}) /\ Cardinality({m}) = 1
      BY FS_Singleton
    <3>2. IsFiniteSet(1..Len(batch)) /\ Cardinality(1..Len(batch)) = Len(batch)
      <4>1. 1 \in Int /\ Len(batch) \in Int
        BY <1>2
      <4>2. /\ IsFiniteSet(1..Len(batch))
            /\ Cardinality(1..Len(batch)) = IF 1 > Len(batch) THEN 0 ELSE Len(batch) - 1 + 1
        BY <4>1, FS_Interval
      <4> QED
        BY <1>2, <4>2
    <3>3. IsFiniteSet(Here) /\ Cardinality(Here) = 1 * Len(batch)
      BY <3>1, <3>2, FS_Product
    <3> QED
      BY <1>2, <3>3
  <2>3. Cardinality(Opened') = Cardinality(Opened) + Len(batch)
    <3>1. Cardinality(Opened \cup Here) = Cardinality(Opened) + Cardinality(Here) - Cardinality(Opened \cap Here)
      BY <2>1, <2>2, FS_Union
    <3>2. Cardinality(Opened \cap Here) = 0 /\ Cardinality(Opened) \in Nat
      BY <1>3, <2>1, FS_EmptySet, FS_CardinalityType
    <3> QED
      BY <1>2, <1>3, <2>2, <3>1, <3>2
  <2>4. Opened' \subseteq Places
    BY <1>3
  <2> QED
    BY <1>1, <2>1, <2>3, <2>4, FS_Subset, FS_CardinalityType DEF RowsAreCounted
<1>5. decoded \in Nat /\ reserved = decoded /\ Budget \in Nat /\ MaxRows \in Nat
  <2>1. IsFiniteSet(Opened)
    BY <1>3, <1>4, FS_Subset
  <2> QED
    BY <1>1, <2>1, FS_CardinalityType, WireAssumption DEF RowsAreCounted
<1>6. CASE stage' = "refused"
  <2>1. Len(batch) > Budget - reserved \/ decoded' > MaxRows
    BY <1>1, <1>6
  <2>2. Cardinality(Places) > MaxRows \/ Cardinality(Places) > Budget
    BY <1>1, <1>2, <1>4, <1>5, <2>1
  <2>3. DoubtfulAsAWhole'
    BY <1>1, <2>2, PlacesStay DEF DoubtfulAsAWhole
  <2> QED
    BY <1>1, <1>6, <2>3 DEF WireInv
<1>7. CASE stage' = "decode"
  <2>1. ~(Len(batch) > Budget - reserved) /\ ~(decoded' > MaxRows)
    BY <1>1, <1>7
  <2>2. RowsAreCounted'
    BY <1>1, <1>2, <1>4, <1>5, <2>1 DEF RowsAreCounted
  <2>3. CursorIsSound'
    <3>1. CASE batch = <<>>
      BY <1>1, <1>2, <3>1 DEF CursorIsSound
    <3>2. CASE batch # <<>>
      <4>1. Len(batch) >= 1
        BY <1>2, <3>2
      <4>2. <<m, 1>> \in Places
        BY <1>2, <1>3, <4>1
      <4>3. NextPlace' = <<m, 1>>
        BY <1>1, <3>2 DEF NextPlace
      <4> QED
        BY <1>1, <1>2, <3>2, <4>2, <4>3, PlacesStay DEF CursorIsSound
    <3> QED
      BY <3>1, <3>2
  <2>4. Passed' = Passed
    <3>1. \A p \in Places : p[1] \in Nat /\ p[2] \in Nat /\ p[2] >= 1
      BY <1>1, PlacesAreThose DEF IsList
    <3>2. \A p \in Places : p[1] = m => batch # <<>>
      BY <1>1, <1>2, PlacesAreThose
    <3>3. CASE batch = <<>>
      BY <1>1, <1>2, <3>1, <3>2, <3>3, PlacesStay DEF Passed, Before, NextPlace
    <3>4. CASE batch # <<>>
      BY <1>1, <1>2, <3>1, <3>4, PlacesStay DEF Passed, Before, NextPlace
    <3> QED
      BY <3>3, <3>4
  <2>5. PassedAreTaken'
    BY <1>1, <2>4, PlacesStay DEF PassedAreTaken, AllAscend, KeptAreTaken, NoneRefuses, Measured
  <2> QED
    BY <1>1, <1>7, <2>2, <2>3, <2>5, PlacesStay DEF WireInv
<1> QED
  BY <1>1, <1>6, <1>7

(* A list of numbers within limits is a list of numbers. *)
LEMMA NumbersWithin ==
  ASSUME NEW lo \in Int, NEW hi \in Int, NEW s \in Seq(lo..hi)
  PROVE  s \in Seq(Int)
<1>1. \A i \in 1..Len(s) : s[i] \in Int
  OBVIOUS
<1> QED
  BY <1>1, SeqMonotonic

(* What is made of a row that is one has its samples and series in order.   *)
LEMMA MeasuredIsAsSent ==
  ASSUME NEW r, IsRow(r)
  PROVE  /\ Measured(r) \in Measurements
         /\ Ascending(Measured(r).samples)
         /\ Measured(r).series # Absent => Ascending(Measured(r).series)
         /\ ~Miscounted(r) => IsAsSent(Measured(r), r)
<1>1. /\ r.samples \in Seq(0..MostMicros) /\ r.samples \in Seq(Int)
      /\ r.series = Absent \/ (r.series \in Seq((-MostMicros)..MostMicros) /\ r.series \in Seq(Int))
  <2>1. MostMicros \in Int /\ -MostMicros \in Int /\ 0 \in Int
    BY WireAssumption
  <2>2. r.samples \in Seq(0..MostMicros) /\ (r.series = Absent \/ r.series \in Seq((-MostMicros)..MostMicros))
    BY DEF IsRow
  <2> QED
    BY <2>1, <2>2, NumbersWithin
<1>2. r.samples # Absent
  BY <1>1, WireAssumption
<1>3. /\ Sorted(r.samples) \in Rearranged(r.samples) /\ Ascending(Sorted(r.samples))
      /\ Sorted(r.samples) \in Seq(0..MostMicros) /\ Len(Sorted(r.samples)) = Len(r.samples)
  BY <1>1, SortedIsInOrder, RearrangedIsAList
<1>4. ASSUME r.series # Absent
      PROVE  /\ Sorted(r.series) \in Rearranged(r.series) /\ Ascending(Sorted(r.series))
             /\ Sorted(r.series) \in Seq((-MostMicros)..MostMicros)
  BY <1>1, <1>4, SortedIsInOrder, RearrangedIsAList
<1>5. Measured(r) = [samples |-> Sorted(r.samples),
                     series |-> IF r.series = Absent THEN Absent ELSE Sorted(r.series)]
  BY <1>2 DEF Measured, InOrder
<1> QED
  BY <1>3, <1>4, <1>5 DEF IsAsSent, Miscounted, Measurements

(* The next row is the first after those passed: its rank is one more than  *)
(* what was kept of them.                                                   *)
LEMMA TakeKeepsIt == WireInv /\ TakeRow => WireInv'
<1> SUFFICES ASSUME WireInv, TakeRow PROVE WireInv'
  OBVIOUS
<1> DEFINE m == cursor[1]
           batch == wire[m].rows
           q == NextPlace
           r == batch[cursor[2] - 1]
<1>1. /\ wire \in Bodies /\ stage = "decode" /\ m <= Len(wire) /\ cursor[2] > 1
      /\ Framed /\ CursorIsSound /\ RowsAreCounted /\ PassedAreTaken /\ blobs = <<>> /\ damaged = FALSE
      /\ UNCHANGED <<wire, whole, decoded, reserved, blobs, damaged>>
      /\ stage' = IF RefusesBatch(r) THEN "refused" ELSE "decode"
      /\ taken' = IF RefusesBatch(r) \/ Impossible(r) THEN taken ELSE Append(taken, Measured(r))
      /\ cursor' = IF cursor[2] > Len(batch) THEN <<m + 1, 1>> ELSE <<m, cursor[2] + 1>>
  BY DEF WireInv, TakeRow
<1>2. /\ q \in Places /\ q = <<m, cursor[2] - 1>> /\ r = Row(q) /\ IsRow(r)
      /\ m \in Nat /\ m >= 2 /\ cursor[2] \in Nat /\ cursor = <<m, cursor[2]>>
      /\ RowsOf(wire[m]) = batch
  BY <1>1, PlacesAreThose DEF CursorIsSound, NextPlace, Row, RowsOf
<1>3. /\ Len(batch) \in Nat /\ DOMAIN batch = 1..Len(batch) /\ cursor[2] - 1 \in DOMAIN batch
      /\ \A p \in Places : p[1] = m => p[2] \in DOMAIN batch
      /\ \A p \in Places : p[1] \in Nat /\ p[2] \in Nat /\ p[2] >= 1 /\ p = <<p[1], p[2]>>
  BY <1>1, <1>2, PlacesAreThose DEF IsList
<1>4. CASE RefusesBatch(r)
  <2>1. DoubtfulAsAWhole
    BY <1>2, <1>4 DEF DoubtfulAsAWhole, RefusesBatch
  <2> QED
    BY <1>1, <1>4, <2>1, PlacesStay DEF WireInv
<1>5. CASE ~RefusesBatch(r)
  <2>1. Passed' = Passed \cup {q} /\ q \notin Passed
    <3> DEFINE c == cursor[2]
    <3>1. /\ \A p \in Places : p \in Passed <=> p[1] < m \/ (p[1] = m /\ p[2] < c - 1)
          /\ \A p \in Places : p = q <=> p[1] = m /\ p[2] = c - 1
      BY <1>2, <1>3 DEF Passed, Before
    <3>2. \A p \in Places : p \in Passed' <=> p[1] < m \/ (p[1] = m /\ p[2] < c)
      <4>1. \A p \in Places : p \in Passed' <=> Before(p, NextPlace')
        BY <1>1, PlacesStay DEF Passed, Before
      <4>2. CASE c > Len(batch)
        <5>1. NextPlace' = <<m + 1, 0>>
          BY <1>1, <1>2, <4>2 DEF NextPlace
        <5>2. \A p \in Places : p[1] = m => p[2] < c
          BY <1>2, <1>3, <4>2
        <5> QED
          BY <1>2, <1>3, <4>1, <5>1, <5>2 DEF Before
      <4>3. CASE ~(c > Len(batch))
        <5>1. NextPlace' = <<m, c>>
          BY <1>1, <1>2, <4>3 DEF NextPlace
        <5> QED
          BY <1>2, <1>3, <4>1, <5>1 DEF Before
      <4> QED
        BY <4>2, <4>3
    <3>3. Passed \subseteq Places /\ Passed' \subseteq Places
      BY <1>1, PlacesStay DEF Passed
    <3> QED
      BY <1>2, <1>3, <3>1, <3>2, <3>3
  <2>2. CursorIsSound'
    <3>1. CASE cursor[2] > Len(batch)
      BY <1>1, <1>2, <3>1 DEF CursorIsSound
    <3>2. CASE ~(cursor[2] > Len(batch))
      <4>1. cursor[2] \in DOMAIN batch /\ <<m, cursor[2]>> \in Places
        BY <1>1, <1>2, <1>3, <3>2, PlacesAreThose
      <4>2. cursor' = <<m, cursor[2] + 1>> /\ NextPlace' = <<m, cursor[2]>>
        BY <1>1, <1>2, <3>2 DEF NextPlace
      <4> QED
        BY <1>1, <1>2, <4>1, <4>2, PlacesStay DEF CursorIsSound
    <3> QED
      BY <3>1, <3>2
  <2>3. RowsAreCounted'
    <3>1. Opened' = Opened
      <4>1. CASE cursor[2] > Len(batch)
        BY <1>1, <1>2, <1>3, <4>1, PlacesStay DEF Opened
      <4>2. CASE ~(cursor[2] > Len(batch))
        BY <1>1, <1>2, <1>3, <4>2, PlacesStay DEF Opened
      <4> QED
        BY <4>1, <4>2
    <3> QED
      BY <1>1, <3>1 DEF RowsAreCounted
  <2>4. PassedAreTaken'
    <3>1. /\ taken \in Seq(Measurements) /\ Len(taken) \in Nat /\ DOMAIN taken = 1..Len(taken)
          /\ \A i \in DOMAIN taken : /\ Ascending(taken[i].samples)
                                     /\ taken[i].series # Absent => Ascending(taken[i].series)
          /\ Len(taken) = Cardinality(Kept \cap Passed)
          /\ \A p \in Kept \cap Passed : RankOf(p) \in DOMAIN taken /\ taken[RankOf(p)] = Measured(Row(p))
          /\ \A p \in Passed : ~RefusesBatch(Row(p))
      <4>1. taken \in Seq(Measurements)
        BY <1>1 DEF PassedAreTaken, AllAscend, KeptAreTaken, NoneRefuses
      <4>2. Len(taken) \in Nat /\ DOMAIN taken = 1..Len(taken)
        BY <4>1, LenProperties
      <4> QED
        BY <1>1, <4>1, <4>2 DEF PassedAreTaken, AllAscend, KeptAreTaken, NoneRefuses
    <3>2. \A p \in Passed' : ~RefusesBatch(Row(p)')
      BY <1>1, <1>2, <1>5, <2>1, <3>1, PlacesStay
    <3>3. CASE Impossible(r)
      <4>1. taken' = taken /\ Kept' \cap Passed' = Kept \cap Passed
        BY <1>1, <1>2, <2>1, <3>3, PlacesStay DEF Kept
      <4> QED
        BY <1>1, <3>1, <3>2, <4>1, PlacesStay DEF PassedAreTaken, AllAscend, KeptAreTaken, NoneRefuses, Measured
    <3>4. CASE ~Impossible(r)
      <4>1. taken' = Append(taken, Measured(r))
        BY <1>1, <1>5, <3>4
      <4>2. /\ Measured(r) \in Measurements /\ Ascending(Measured(r).samples)
            /\ Measured(r).series # Absent => Ascending(Measured(r).series)
        BY <1>2, MeasuredIsAsSent
      <4>3. /\ taken' \in Seq(Measurements) /\ Len(taken') = Len(taken) + 1 /\ DOMAIN taken' = 1..(Len(taken) + 1)
            /\ taken'[Len(taken) + 1] = Measured(r) /\ \A i \in DOMAIN taken : taken'[i] = taken[i]
        <5>1. /\ taken' \in Seq(Measurements) /\ Len(taken') = Len(taken) + 1
              /\ taken'[Len(taken) + 1] = Measured(r) /\ \A i \in 1..Len(taken) : taken'[i] = taken[i]
          <6>1. taken \in Seq(Measurements) /\ Measured(r) \in Measurements
            BY <3>1, <4>2
          <6>2. /\ Append(taken, Measured(r)) \in Seq(Measurements)
                /\ Len(Append(taken, Measured(r))) = Len(taken) + 1
                /\ \A i \in 1..Len(taken) : Append(taken, Measured(r))[i] = taken[i]
                /\ Append(taken, Measured(r))[Len(taken) + 1] = Measured(r)
            BY <6>1, AppendProperties, Zenon
          <6> QED
            BY <4>1, <6>2, Zenon
        <5>2. DOMAIN taken' = 1..Len(taken')
          BY <5>1, LenProperties
        <5> QED
          BY <3>1, <5>1, <5>2
      <4>4. Kept' \cap Passed' = (Kept \cap Passed) \cup {q} /\ q \notin Kept \cap Passed
        BY <1>1, <1>2, <2>1, <3>4, PlacesStay DEF Kept
      <4>5. IsFiniteSet(Kept \cap Passed)
        BY <1>1, PlacesAreThose, FS_Subset DEF Passed
      <4>6. Cardinality(Kept' \cap Passed') = Len(taken) + 1
        <5>1. Cardinality((Kept \cap Passed) \cup {q}) = Cardinality(Kept \cap Passed) + 1
          BY <4>4, <4>5, FS_AddElement
        <5> QED
          BY <3>1, <4>4, <5>1
      <4>7. RankOf(q) = Len(taken) + 1
        <5>1. {p \in Kept : Before(p, q)} = Kept \cap Passed
          BY DEF Kept, Passed
        <5> QED
          BY <3>1, <5>1 DEF RankOf
      <4>8. \A p \in Kept' \cap Passed' :
              RankOf(p)' \in DOMAIN taken' /\ taken'[RankOf(p)'] = Measured(Row(p)')
        <5> SUFFICES ASSUME NEW p \in (Kept \cap Passed) \cup {q}
                     PROVE  RankOf(p) \in DOMAIN taken' /\ taken'[RankOf(p)] = Measured(Row(p))
          BY <1>1, <4>4, PlacesStay
        <5>1. CASE p = q
          BY <1>2, <3>1, <4>3, <4>7, <5>1
        <5>2. CASE p \in Kept \cap Passed
          <6>1. RankOf(p) \in DOMAIN taken /\ taken[RankOf(p)] = Measured(Row(p))
            BY <3>1, <5>2
          <6>2. \A i \in DOMAIN taken : i \in DOMAIN taken' /\ taken'[i] = taken[i]
            <7>1. Len(taken) \in Nat /\ DOMAIN taken = 1..Len(taken) /\ DOMAIN taken' = 1..(Len(taken) + 1)
              BY <3>1, <4>3
            <7>2. DOMAIN taken \subseteq DOMAIN taken'
              BY <7>1
            <7> QED
              BY <4>3, <7>2
          <6> QED
            BY <6>1, <6>2
        <5> QED
          BY <5>1, <5>2
      <4>9. \A i \in DOMAIN taken' : /\ Ascending(taken'[i].samples)
                                     /\ taken'[i].series # Absent => Ascending(taken'[i].series)
        <5> SUFFICES ASSUME NEW i \in DOMAIN taken'
                     PROVE  /\ Ascending(taken'[i].samples)
                            /\ taken'[i].series # Absent => Ascending(taken'[i].series)
          OBVIOUS
        <5>1. CASE i = Len(taken) + 1
          BY <4>2, <4>3, <5>1
        <5>2. CASE i # Len(taken) + 1
          <6>1. i \in DOMAIN taken
            BY <3>1, <4>3, <5>2
          <6> QED
            BY <3>1, <4>3, <6>1
        <5> QED
          BY <5>1, <5>2
      <4> QED
        <5>1. /\ taken' \in Seq(Measurements) /\ Len(taken') = Cardinality(Kept' \cap Passed')
          BY <4>3, <4>6
        <5> QED
          <6>1. KeptAreTaken'
            BY <4>8, <5>1 DEF KeptAreTaken, Measured
          <6>2. NoneRefuses'
            BY <3>2 DEF NoneRefuses, RefusesBatch
          <6>3. AllAscend(taken')
            BY <4>9, Zenon DEF AllAscend
          <6>4. Measurements' = Measurements
            BY DEF Measurements
          <6> QED
            BY <5>1, <6>1, <6>2, <6>3, <6>4 DEF PassedAreTaken
    <3> QED
      BY <3>3, <3>4
  <2>5. stage' = "decode" /\ Framed'
    BY <1>1, <1>5, PlacesStay
  <2> QED
    BY <1>1, <2>2, <2>3, <2>4, <2>5 DEF WireInv
<1> QED
  BY <1>4, <1>5

(* Each measurement that was taken is of distributions in order. *)
LEMMA TakenAreInOrder ==
  ASSUME PassedAreTaken, NEW i \in DOMAIN taken
  PROVE  /\ taken[i].samples \in Seq(Least(FALSE)..MostMicros) /\ Ascending(taken[i].samples)
         /\ taken[i].series # Absent => /\ taken[i].series \in Seq(Least(TRUE)..MostMicros)
                                        /\ Ascending(taken[i].series)
<1>1. taken \in Seq(Measurements)
  BY DEF PassedAreTaken, AllAscend, KeptAreTaken, NoneRefuses
<1>2. taken[i] \in Measurements
  <2>1. i \in 1..Len(taken)
    BY <1>1, LenProperties
  <2> QED
    BY <1>1, <2>1, ElementOfSeq
<1>3. taken[i].samples \in Seq(0..MostMicros) /\ taken[i].series \in Seq((-MostMicros)..MostMicros) \cup {Absent}
  BY <1>2 DEF Measurements
<1>4. Least(FALSE) = 0 /\ Least(TRUE) = -MostMicros
  BY DEF Least
<1> QED
  BY <1>3, <1>4 DEF PassedAreTaken, AllAscend, KeptAreTaken, NoneRefuses

(* Whatever was taken encodes: the write never fails. *)
LEMMA WriteKeepsIt == WireInv /\ WriteBatch => WireInv'
<1> SUFFICES ASSUME WireInv, WriteBatch PROVE WireInv'
  OBVIOUS
<1> DEFINE encoded == [i \in DOMAIN taken |->
             [samples |-> EncodeBlob(taken[i].samples),
              series  |-> IF taken[i].series = Absent THEN Absent ELSE EncodeBlob(taken[i].series)]]
           ok == \A i \in DOMAIN taken :
             /\ encoded[i].samples # Absent
             /\ taken[i].series # Absent => encoded[i].series # Absent
<1>1. /\ wire \in Bodies /\ stage = "decode" /\ cursor[1] > Len(wire)
      /\ Framed /\ CursorIsSound /\ RowsAreCounted /\ PassedAreTaken /\ blobs = <<>> /\ damaged = FALSE
      /\ UNCHANGED <<wire, whole, cursor, decoded, reserved, taken, damaged>>
      /\ stage' = IF ok THEN "stored" ELSE "failed"
      /\ blobs' = IF ok THEN encoded ELSE <<>>
  BY Zenon DEF WireInv, WriteBatch
<1>2. Len(taken) \in Nat /\ DOMAIN taken = 1..Len(taken)
  BY <1>1 DEF PassedAreTaken, AllAscend, KeptAreTaken, NoneRefuses
<1>3. ASSUME NEW i \in DOMAIN taken
      PROVE  /\ EncodeBlob(taken[i].samples) \in Seq(Int) /\ EncodeBlob(taken[i].samples) # Absent
             /\ \A k \in DOMAIN EncodeBlob(taken[i].samples) : k # 1 => 0 <= EncodeBlob(taken[i].samples)[k]
             /\ taken[i].series # Absent => /\ EncodeBlob(taken[i].series) \in Seq(Int)
                                            /\ EncodeBlob(taken[i].series) # Absent
  <2>1. /\ taken[i].samples \in Seq(Least(FALSE)..MostMicros) /\ Ascending(taken[i].samples)
        /\ taken[i].series # Absent => /\ taken[i].series \in Seq(Least(TRUE)..MostMicros)
                                       /\ Ascending(taken[i].series)
    BY <1>1, TakenAreInOrder
  <2>2. /\ EncodeBlob(taken[i].samples) \in Seq(Int) /\ EncodeBlob(taken[i].samples) # Absent
        /\ Len(EncodeBlob(taken[i].samples)) = Len(taken[i].samples)
        /\ \A k \in DOMAIN taken[i].samples : k # 1 => 0 <= EncodeBlob(taken[i].samples)[k]
    BY <2>1, EncodedIsReadBack
  <2>3. DOMAIN EncodeBlob(taken[i].samples) = DOMAIN taken[i].samples
    BY <2>1, <2>2
  <2>4. taken[i].series # Absent => /\ EncodeBlob(taken[i].series) \in Seq(Int)
                                    /\ EncodeBlob(taken[i].series) # Absent
    BY <2>1, EncodedIsReadBack
  <2> QED
    BY <2>2, <2>3, <2>4
<1>4. ok
  BY <1>3
<1>5. BlobsAreOfTheTaken'
  <2>1. blobs' = encoded
    BY <1>1, <1>4
  <2>2. encoded \in [1..Len(taken) -> Blobs]
    BY <1>2, <1>3 DEF Blobs
  <2>3. blobs' \in Seq(Blobs) /\ Len(blobs') = Len(taken)
    BY <1>2, <2>1, <2>2, FunctionsAreSequences
  <2>4. DOMAIN blobs' = DOMAIN taken
    BY <2>1
  <2> QED
    <3> SUFFICES ASSUME NEW i \in DOMAIN taken
                 PROVE  /\ \A k \in DOMAIN encoded[i].samples : k # 1 => 0 <= encoded[i].samples[k]
                        /\ encoded[i].samples = EncodeBlob(taken[i].samples)
                        /\ encoded[i].series = IF taken[i].series = Absent THEN Absent
                                               ELSE EncodeBlob(taken[i].series)
      <4>1. UNCHANGED <<taken, damaged>> /\ EncodeBlob(<<>>)' = EncodeBlob(<<>>)
        BY <1>1 DEF EncodeBlob
      <4> HIDE DEF encoded
      <4> QED
        BY <2>1, <2>3, <2>4, <4>1 DEF BlobsAreOfTheTaken, EncodeBlob
    <3>1. encoded[i].samples = EncodeBlob(taken[i].samples)
      OBVIOUS
    <3>2. encoded[i].series = IF taken[i].series = Absent THEN Absent ELSE EncodeBlob(taken[i].series)
      OBVIOUS
    <3> QED
      BY <1>3, <3>1, <3>2
<1>6. CursorIsSound' /\ RowsAreCounted' /\ PassedAreTaken' /\ Framed'
  <2>1. NextPlace' = NextPlace
    BY <1>1 DEF NextPlace
  <2>2. Passed' = Passed /\ Opened' = Opened
    BY <1>1, <2>1, PlacesStay DEF Passed, Opened
  <2> QED
    BY <1>1, <2>1, <2>2, PlacesStay DEF CursorIsSound, RowsAreCounted, PassedAreTaken, AllAscend, KeptAreTaken, NoneRefuses, Measured
<1> QED
  BY <1>1, <1>4, <1>5, <1>6 DEF WireInv

(* A damaged column is nobody else's. *)
LEMMA DamageKeepsIt ==
  ASSUME WireInv, NEW i \in DOMAIN blobs, NEW k \in DOMAIN blobs[i].samples, NEW v \in 0..(Wrap - 1),
         Damage(i, k, v)
  PROVE  WireInv'
<1>1. /\ wire \in Bodies /\ stage = "stored" /\ cursor[1] > Len(wire)
      /\ Framed /\ CursorIsSound /\ RowsAreCounted /\ PassedAreTaken /\ BlobsAreOfTheTaken
      /\ blobs' = [blobs EXCEPT ![i].samples[k] = v] /\ damaged' = TRUE
      /\ UNCHANGED <<wire, whole, stage, cursor, decoded, reserved, taken>>
  BY DEF WireInv, Damage
<1>2. blobs \in Seq(Blobs) /\ blobs[i] \in Blobs /\ Len(blobs) \in Nat /\ DOMAIN blobs = 1..Len(blobs)
  BY <1>1 DEF BlobsAreOfTheTaken
<1>3. v \in Int /\ 0 <= v
  BY WireAssumption
<1> DEFINE s == [blobs[i].samples EXCEPT ![k] = v]
           b == [blobs[i] EXCEPT !.samples = s]
<1>4. /\ s \in Seq(Int) /\ DOMAIN s = DOMAIN blobs[i].samples
      /\ \A j \in DOMAIN s : s[j] = IF j = k THEN v ELSE blobs[i].samples[j]
  BY <1>2, <1>3 DEF Blobs
<1>5. b \in Blobs /\ b.samples = s /\ b.series = blobs[i].series
  BY <1>2, <1>4 DEF Blobs
<1>6. blobs' = [blobs EXCEPT ![i] = b]
  BY <1>1
<1>7. /\ blobs' \in Seq(Blobs) /\ Len(blobs') = Len(blobs) /\ DOMAIN blobs' = DOMAIN blobs
      /\ \A j \in DOMAIN blobs : blobs'[j] = IF j = i THEN b ELSE blobs[j]
  BY <1>2, <1>5, <1>6
<1>8. BlobsAreOfTheTaken'
  <2> SUFFICES ASSUME NEW j \in DOMAIN blobs
               PROVE  /\ \A n \in DOMAIN blobs'[j].samples : n # 1 => 0 <= blobs'[j].samples[n]
                      /\ blobs'[j].series = IF taken[j].series = Absent THEN Absent ELSE EncodeBlob(taken[j].series)
    BY <1>1, <1>7 DEF BlobsAreOfTheTaken
  <2>1. /\ \A n \in DOMAIN blobs[j].samples : n # 1 => 0 <= blobs[j].samples[n]
        /\ blobs[j].series = IF taken[j].series = Absent THEN Absent ELSE EncodeBlob(taken[j].series)
    BY <1>1 DEF BlobsAreOfTheTaken
  <2>2. CASE j = i
    <3>1. blobs'[j] = b
      BY <1>7, <2>2
    <3>2. \A n \in DOMAIN s : n # 1 => 0 <= s[n]
      BY <1>3, <1>4, <2>1, <2>2
    <3> HIDE DEF s, b
    <3> QED
      BY <1>5, <2>1, <2>2, <3>1, <3>2
  <2>3. CASE j # i
    BY <1>7, <2>1, <2>3
  <2> QED
    BY <2>2, <2>3
<1>9. CursorIsSound' /\ RowsAreCounted' /\ PassedAreTaken' /\ Framed'
  <2>1. NextPlace' = NextPlace
    BY <1>1 DEF NextPlace
  <2>2. Passed' = Passed /\ Opened' = Opened
    BY <1>1, <2>1, PlacesStay DEF Passed, Opened
  <2> QED
    BY <1>1, <2>1, <2>2, PlacesStay DEF CursorIsSound, RowsAreCounted, PassedAreTaken, AllAscend, KeptAreTaken, NoneRefuses, Measured
<1> QED
  BY <1>1, <1>8, <1>9 DEF WireInv

(* The invariant holds at first, *)
LEMMA WireInitInv == WireInit => WireInv
BY DEF WireInit, WireInv

(* and every step keeps it. *)
LEMMA WireNextInv == WireInv /\ [WireNext]_wireVars => WireInv'
<1> SUFFICES ASSUME WireInv, [WireNext]_wireVars PROVE WireInv'
  OBVIOUS
<1>1. CASE UNCHANGED wireVars
  <2>1. UNCHANGED <<wire, whole>>
    BY <1>1 DEF wireVars
  <2>2. CursorIsSound' = CursorIsSound /\ RowsAreCounted' = RowsAreCounted
    BY <1>1, <2>1, PlacesStay DEF wireVars, CursorIsSound, RowsAreCounted, NextPlace, Opened
  <2>3. PassedAreTaken' = PassedAreTaken
    BY <1>1, <2>1, PlacesStay DEF wireVars, PassedAreTaken, AllAscend, KeptAreTaken, NoneRefuses, NextPlace, Passed, Measured
  <2>4. BlobsAreOfTheTaken' = BlobsAreOfTheTaken
    BY <1>1 DEF wireVars, BlobsAreOfTheTaken
  <2> QED
    BY <1>1, <2>1, <2>2, <2>3, <2>4, PlacesStay DEF wireVars, WireInv
<1> QED
  BY <1>1, ScreenKeepsIt, OpenKeepsIt, TakeKeepsIt, WriteKeepsIt, DamageKeepsIt DEF WireNext

(* What is stored is what was sent, and reads back so. *)
LEMMA StoredIsAsSent ==
  ASSUME WireInv
  PROVE  ARowCostsItself
<1>1. wire \in Bodies /\ stage # "failed" /\ (stage = "refused" => DoubtfulAsAWhole)
  BY DEF WireInv
<1>2. ASSUME stage = "stored"
      PROVE  TakenAsSent
  <2>1. RowsAreCounted /\ PassedAreTaken /\ cursor[1] > Len(wire) /\ CursorIsSound
    BY <1>2 DEF WireInv
  <2>2. \A p \in Places : p[1] \in Nat /\ p[1] <= Len(wire)
    BY <1>1, PlacesAreThose
  <2>3. Opened = Places /\ Passed = Places
    BY <1>1, <2>1, <2>2, PlacesAreThose DEF Opened, Passed, Before, NextPlace, CursorIsSound
  <2>4. Kept \cap Passed = Kept
    BY <2>3 DEF Kept
  <2>5. ASSUME NEW p \in Kept
        PROVE  RankOf(p) \in DOMAIN taken /\ IsAsSent(taken[RankOf(p)], Row(p))
    <3>1. p \in Places /\ IsRow(Row(p))
      BY <1>1, PlacesAreThose DEF Kept
    <3>2. ~Miscounted(Row(p))
      BY <2>1, <2>3, <3>1 DEF PassedAreTaken, AllAscend, KeptAreTaken, NoneRefuses, RefusesBatch
    <3> QED
      BY <2>1, <2>4, <3>1, <3>2, MeasuredIsAsSent DEF PassedAreTaken, AllAscend, KeptAreTaken, NoneRefuses
  <2> QED
    BY <2>1, <2>3, <2>4, <2>5 DEF TakenAsSent, RowsAreCounted, PassedAreTaken, AllAscend, KeptAreTaken, NoneRefuses
<1>3. ReadAsTaken
  <2> SUFFICES ASSUME NEW i \in DOMAIN blobs
               PROVE  /\ ~damaged => DecodeBlob(blobs[i].samples, FALSE) = taken[i].samples
                      /\ DecodeBlob(blobs[i].samples, FALSE) # Absent =>
                           /\ Ascending(DecodeBlob(blobs[i].samples, FALSE))
                           /\ \A k \in DOMAIN DecodeBlob(blobs[i].samples, FALSE) :
                                DecodeBlob(blobs[i].samples, FALSE)[k] \in 0..MostMicros
                      /\ blobs[i].series # Absent => DecodeBlob(blobs[i].series, TRUE) = taken[i].series
    BY DEF ReadAsTaken
  <2>1. stage = "stored"
    BY DEF WireInv
  <2>2. BlobsAreOfTheTaken /\ PassedAreTaken
    BY <2>1 DEF WireInv
  <2>3. /\ i \in DOMAIN taken /\ blobs[i].samples \in Seq(Int)
        /\ \A k \in DOMAIN blobs[i].samples : k # 1 => 0 <= blobs[i].samples[k]
        /\ ~damaged => blobs[i].samples = EncodeBlob(taken[i].samples)
        /\ blobs[i].series = IF taken[i].series = Absent THEN Absent ELSE EncodeBlob(taken[i].series)
    <3>1. blobs \in Seq(Blobs) /\ taken \in Seq(Measurements)
      BY <2>2 DEF BlobsAreOfTheTaken, PassedAreTaken, AllAscend, KeptAreTaken, NoneRefuses
    <3>2. i \in 1..Len(blobs) /\ DOMAIN taken = 1..Len(taken) /\ Len(blobs) = Len(taken)
      BY <2>2, <3>1, LenProperties DEF BlobsAreOfTheTaken
    <3>3. blobs[i] \in Blobs
      BY <3>1, <3>2, ElementOfSeq
    <3>4. blobs[i].samples \in Seq(Int)
      BY <3>3 DEF Blobs
    <3> QED
      BY <2>2, <3>2, <3>4 DEF BlobsAreOfTheTaken
  <2>4. /\ taken[i].samples \in Seq(Least(FALSE)..MostMicros) /\ Ascending(taken[i].samples)
        /\ taken[i].series # Absent => /\ taken[i].series \in Seq(Least(TRUE)..MostMicros)
                                       /\ Ascending(taken[i].series)
    BY <2>2, <2>3, TakenAreInOrder
  <2>5. ~damaged => DecodeBlob(blobs[i].samples, FALSE) = taken[i].samples
    BY <2>3, <2>4, EncodedIsReadBack
  <2>6. blobs[i].series # Absent => DecodeBlob(blobs[i].series, TRUE) = taken[i].series
    BY <2>3, <2>4, EncodedIsReadBack
  <2>7. ASSUME DecodeBlob(blobs[i].samples, FALSE) # Absent
        PROVE  /\ Ascending(DecodeBlob(blobs[i].samples, FALSE))
               /\ \A k \in DOMAIN DecodeBlob(blobs[i].samples, FALSE) :
                    DecodeBlob(blobs[i].samples, FALSE)[k] \in 0..MostMicros
    <3>1. /\ DecodeBlob(blobs[i].samples, FALSE) \in Seq(Least(FALSE)..MostMicros)
          /\ Ascending(DecodeBlob(blobs[i].samples, FALSE))
      BY <2>3, <2>7, DecodedIsADistribution
    <3>2. Least(FALSE) = 0
      BY DEF Least
    <3>3. MostMicros \in Int /\ DecodeBlob(blobs[i].samples, FALSE) \in Seq(0..MostMicros)
      <4> HIDE DEF DecodeBlob
      <4>1. MostMicros \in Int
        BY WireAssumption
      <4> QED
        BY <3>1, <3>2, <4>1
    <3>4. \A k \in DOMAIN DecodeBlob(blobs[i].samples, FALSE) :
            DecodeBlob(blobs[i].samples, FALSE)[k] \in 0..MostMicros
      <4> HIDE DEF DecodeBlob
      <4> QED
        BY <3>3, ElementOfSeq, LenProperties
    <3> QED
      BY <3>1, <3>4
  <2> QED
    BY <2>5, <2>6, <2>7
<1> QED
  BY <1>1, <1>2, <1>3 DEF ARowCostsItself

(* A row costs nobody but itself, for any limits, any word and any messages. *)
THEOREM RowsCostThemselves == WireSpec => []ARowCostsItself
<1>1. WireInv => ARowCostsItself
  BY StoredIsAsSent
<1> QED
  BY <1>1, WireInitInv, WireNextInv, PTL DEF WireSpec

-----------------------------------------------------------------------------
(* SmokePing. *)

(* Lists of anything: what is said of sequences asks for a set they are of. *)
AList(s) == s \in Seq({s[i] : i \in DOMAIN s})

(* The lines of an installation. *)
LinesOf(install) == UNION {{install[f][i] : i \in DOMAIN install[f]} : f \in DOMAIN install}

(* A node has a path below the root. *)
IsNode(n) ==
  /\ n = [path |-> n.path, keys |-> n.keys]
  /\ n.path \in Seq(NodeNames) /\ n.path # <<>>

(* No other node of a list has the path of the k-th. *)
IsAlone(ns, k) == \A j \in DOMAIN ns : ns[j].path = ns[k].path => j = k

(* The invariant: reading. *)
ReadsLines ==
  /\ files \in Installs
  /\ openFiles \in Seq([file : DOMAIN files, next : Nat \ {0}])
  /\ lines \in Seq(LinesOf(files))
  /\ place \in Nat \ {0}

(* The invariant: the branch is one, and a parent comes before its nodes.   *)
BranchIsOne ==
  /\ AList(branch)
  /\ \A j \in DOMAIN branch : IsNode(branch[j]) /\ Len(branch[j].path) = j
  /\ \A j \in DOMAIN branch : \A i \in 1..j : branch[i].path = SubSeq(branch[j].path, 1, i)

(* All of the branch but its last has been put down. *)
AboveAreNodes ==
  \A j \in DOMAIN branch : j < Len(branch) => \E k \in DOMAIN spNodes : spNodes[k].path = branch[j].path

(* Whoever is put down follows a node with the path above its own. *)
ParentsComeFirst ==
  /\ AList(spNodes)
  /\ \A k \in DOMAIN spNodes : IsNode(spNodes[k])
  /\ \A k \in DOMAIN spNodes :
       Len(spNodes[k].path) > 1 => \E j \in DOMAIN spNodes : j < k /\ spNodes[j].path = Front(spNodes[k].path)

(* The invariant: what nodes have is what was told of them. *)
KeysAreTold ==
  \A k \in DOMAIN Completed : IsAlone(Completed, k) =>
    \A key \in DOMAIN Completed[k].keys : Completed[k].keys[key].value \in Says(Completed[k].path, key)

(* What was told of a path is a key of a node there. *)
ToldAreKeys ==
  \A t \in told : t.path # <<>> =>
    \E k \in DOMAIN Completed : Completed[k].path = t.path /\ t.key \in DOMAIN Completed[k].keys

(* The same of the keys before the first node. *)
TopIsTold ==
  /\ \A key \in DOMAIN topKeys : topKeys[key].value \in Says(<<>>, key)
  /\ \A t \in told : t.path = <<>> => t.key \in DOMAIN topKeys

(* The invariant: a node that was converted arrived, or is warned about.    *)
Arrived(n) ==
  LET host == KeyOf(n.keys, "host")
      probe == ProbeAt[n.path]
  IN  /\ n.path \in DOMAIN imported /\ imported[n.path] = EntryOf(n, FamilyOf(host, probe))
      /\ Twice(host, probe) => V6(n.path) \in DOMAIN imported /\ imported[V6(n.path)] = EntryOf(n, "v6")

(* An earlier node came to nothing, out loud, or has arrived.               *)
IsHandled(k) ==
  LET n == spNodes[k] IN
  IF KeyOf(n.keys, "host") \in Unsupported THEN n.path \in warned
  ELSE IsAlone(spNodes, k) /\ ~ClashesByFamily(n.path) => Arrived(n)

(* The nodes before the one to convert next are handled. *)
NodesAreHandled ==
  step \in {"convert", "done"} =>
    /\ branch = <<>>
    /\ \A k \in DOMAIN spNodes : k < place => IsHandled(k)
    /\ step = "done" => place > Len(spNodes)

(* The invariant of the import. *)
ImportInv ==
  /\ ReadsLines /\ BranchIsOne /\ AboveAreNodes /\ ParentsComeFirst
  /\ KeysAreTold /\ ToldAreKeys /\ TopIsTold /\ NodesAreHandled
-----------------------------------------------------------------------------
(* Lists. *)

(* A sequence of a set is one of its own elements. *)
LEMMA SequencesAreLists ==
  ASSUME NEW S, NEW s \in Seq(S)
  PROVE  AList(s)
<1>1. \A i \in 1..Len(s) : s[i] \in {s[j] : j \in DOMAIN s}
  OBVIOUS
<1> QED
  BY <1>1, SeqMonotonic DEF AList

(* A list's domain and its last place. *)
LEMMA ListFacts ==
  ASSUME NEW s, AList(s)
  PROVE  /\ Len(s) \in Nat /\ DOMAIN s = 1..Len(s)
         /\ s # <<>> <=> Len(s) \in DOMAIN s
         /\ s = <<>> <=> Len(s) = 0
<1> DEFINE S == {s[i] : i \in DOMAIN s}
<1>1. s \in Seq(S)
  BY DEF AList
<1> HIDE DEF S
<1>2. Len(s) \in Nat /\ DOMAIN s = 1..Len(s)
  BY <1>1, LenProperties
<1>3. s = <<>> <=> Len(s) = 0
  BY <1>1, EmptySeq
<1> QED
  BY <1>2, <1>3

(* A list with one more. *)
LEMMA AppendToAList ==
  ASSUME NEW s, AList(s), NEW e
  PROVE  /\ AList(Append(s, e)) /\ Len(Append(s, e)) = Len(s) + 1
         /\ DOMAIN Append(s, e) = 1..(Len(s) + 1) /\ Append(s, e) # <<>>
         /\ Append(s, e)[Len(s) + 1] = e
         /\ \A i \in DOMAIN s : i \in DOMAIN Append(s, e) /\ Append(s, e)[i] = s[i]
<1> DEFINE S == {s[i] : i \in DOMAIN s} \cup {e}
<1>1. s \in Seq({s[i] : i \in DOMAIN s}) /\ Len(s) \in Nat /\ DOMAIN s = 1..Len(s)
  BY ListFacts DEF AList
<1>2. s \in Seq(S) /\ e \in S
  <2>1. \A i \in 1..Len(s) : s[i] \in S
    BY <1>1
  <2> QED
    BY <1>1, <2>1, SeqMonotonic
<1> HIDE DEF S
<1> DEFINE t == Append(s, e)
<1>3. /\ t \in Seq(S) /\ t # <<>> /\ Len(t) = Len(s) + 1 /\ t[Len(s) + 1] = e
      /\ \A i \in 1..Len(s) : t[i] = s[i]
  BY <1>2, AppendProperties
<1>4. DOMAIN t = 1..Len(t) /\ AList(t)
  BY <1>3, LenProperties, SequencesAreLists
<1> HIDE DEF t
<1>5. \A i \in DOMAIN s : i \in DOMAIN t /\ t[i] = s[i]
  BY <1>1, <1>3, <1>4
<1> QED
  BY <1>3, <1>4, <1>5 DEF t

(* The first so many of a list. *)
LEMMA StartOfAList ==
  ASSUME NEW s, AList(s), NEW n \in 0..Len(s)
  PROVE  /\ AList(SubSeq(s, 1, n)) /\ Len(SubSeq(s, 1, n)) = n
         /\ \A i \in 1..n : SubSeq(s, 1, n)[i] = s[i]
<1> DEFINE S == {s[i] : i \in DOMAIN s}
<1>1. Len(s) \in Nat /\ DOMAIN s = 1..Len(s)
  BY ListFacts
<1>2. 1 \in Int /\ n \in Int /\ \A i \in 1..n : s[i] \in S
  BY <1>1
<1> HIDE DEF S
<1> DEFINE t == SubSeq(s, 1, n)
<1>3. /\ t \in Seq(S) /\ Len(t) = IF 1 <= n THEN n - 1 + 1 ELSE 0
      /\ \A i \in 1..(n - 1 + 1) : t[i] = s[1 + i - 1]
  BY <1>2, SubSeqProperties
<1>4. AList(t)
  BY <1>3, SequencesAreLists
<1> HIDE DEF t
<1>5. Len(t) = n /\ \A i \in 1..n : t[i] = s[i]
  BY <1>1, <1>3
<1> QED
  BY <1>4, <1>5 DEF t

(* A list with one changed. *)
LEMMA ChangeOfAList ==
  ASSUME NEW s, AList(s), NEW i \in DOMAIN s, NEW e
  PROVE  /\ AList([s EXCEPT ![i] = e]) /\ Len([s EXCEPT ![i] = e]) = Len(s)
         /\ DOMAIN [s EXCEPT ![i] = e] = DOMAIN s
         /\ \A j \in DOMAIN s : [s EXCEPT ![i] = e][j] = IF j = i THEN e ELSE s[j]
<1> DEFINE S == {s[j] : j \in DOMAIN s} \cup {e}
           t == [s EXCEPT ![i] = e]
<1>1. s \in Seq({s[j] : j \in DOMAIN s}) /\ Len(s) \in Nat /\ DOMAIN s = 1..Len(s)
  BY ListFacts DEF AList
<1>2. \A j \in 1..Len(s) : s[j] \in S
  BY <1>1
<1>3. s \in Seq(S) /\ e \in S /\ i \in 1..Len(s)
  BY <1>1, <1>2, SeqMonotonic
<1> HIDE DEF S
<1>4. t \in Seq(S) /\ Len(t) = Len(s)
  BY <1>3, ExceptSeq
<1>5. AList(t)
  BY <1>4, SequencesAreLists
<1>6. DOMAIN t = DOMAIN s /\ \A j \in DOMAIN s : t[j] = IF j = i THEN e ELSE s[j]
  OBVIOUS
<1> QED
  BY <1>4, <1>5, <1>6

(* The empty list is one. *)
LEMMA NothingIsAList == AList(<<>>)
BY EmptySeq, SequencesAreLists

-----------------------------------------------------------------------------
(* Paths. *)

(* What is above a path, and its last name. *)
LEMMA PathFacts ==
  ASSUME NEW S, NEW p \in Seq(S), p # <<>>
  PROVE  /\ Len(p) \in Nat \ {0} /\ Last(p) \in S
         /\ Front(p) \in Seq(S) /\ Len(Front(p)) = Len(p) - 1
         /\ \A i \in 1..(Len(p) - 1) : Front(p)[i] = p[i]
         /\ SubSeq(p, 1, Len(p)) = p /\ SubSeq(p, 1, Len(p) - 1) = Front(p)
<1>1. Len(p) \in Nat /\ Len(p) # 0 /\ DOMAIN p = 1..Len(p) /\ \A i \in 1..Len(p) : p[i] \in S
  BY EmptySeq, LenProperties, ElementOfSeq
<1>2. 1 \in Int /\ Len(p) - 1 \in Int /\ \A i \in 1..(Len(p) - 1) : p[i] \in S
  BY <1>1
<1>3. /\ Front(p) \in Seq(S) /\ Len(Front(p)) = IF 1 <= Len(p) - 1 THEN Len(p) - 1 - 1 + 1 ELSE 0
      /\ \A i \in 1..(Len(p) - 1 - 1 + 1) : Front(p)[i] = p[1 + i - 1]
  BY <1>2, SubSeqProperties DEF Front
<1>4. Len(Front(p)) = Len(p) - 1 /\ \A i \in 1..(Len(p) - 1) : Front(p)[i] = p[i]
  <2>1. Len(p) \in Nat /\ Len(p) # 0
    BY <1>1
  <2>2. Len(Front(p)) = IF 1 <= Len(p) - 1 THEN Len(p) - 1 - 1 + 1 ELSE 0
    BY <1>3
  <2>3. \A n, m : n \in Nat /\ n # 0 /\ m = (IF 1 <= n - 1 THEN n - 1 - 1 + 1 ELSE 0) => m = n - 1
    OBVIOUS
  <2>4. Len(Front(p)) = Len(p) - 1
    BY <2>1, <2>2, <2>3
  <2>5. \A i \in 1..(Len(p) - 1) : i \in 1..(Len(p) - 1 - 1 + 1) /\ 1 + i - 1 = i
    BY <2>1
  <2> QED
    BY <1>3, <2>4, <2>5
<1>5. Last(p) \in S
  BY <1>1 DEF Last
<1>6. SubSeq(p, 1, Len(p)) = p
  BY SubSeqFull
<1> QED
  BY <1>1, <1>3, <1>4, <1>5, <1>6 DEF Front

(* The start of a path is that of one that goes on from it. *)
LEMMA StartsAgree ==
  ASSUME NEW S, NEW T, NEW p \in Seq(S), NEW q \in Seq(T), NEW n \in Nat, n <= Len(p), n <= Len(q),
         \A i \in 1..n : p[i] = q[i]
  PROVE  SubSeq(p, 1, n) = SubSeq(q, 1, n)
<1>1. /\ \A i \in 1..n : p[i] \in S /\ p[i] \in S \cup T
      /\ \A i \in 1..n : q[i] \in S \cup T
      /\ 1 \in Int /\ n \in Int
  <2>1. \A i \in 1..n : i \in 1..Len(p) /\ i \in 1..Len(q)
    BY LenProperties
  <2> QED
    BY <2>1, ElementOfSeq
<1> DEFINE U == S \cup T
           a == SubSeq(p, 1, n)
           b == SubSeq(q, 1, n)
<1>2. /\ a \in Seq(U) /\ Len(a) = IF 1 <= n THEN n - 1 + 1 ELSE 0
      /\ \A i \in 1..(n - 1 + 1) : a[i] = p[1 + i - 1]
  <2>1. \A i \in 1..n : p[i] \in U
    BY <1>1
  <2> HIDE DEF U
  <2> QED
    BY <1>1, <2>1, SubSeqProperties
<1>3. /\ b \in Seq(U) /\ Len(b) = IF 1 <= n THEN n - 1 + 1 ELSE 0
      /\ \A i \in 1..(n - 1 + 1) : b[i] = q[1 + i - 1]
  <2>1. \A i \in 1..n : q[i] \in U
    BY <1>1
  <2> HIDE DEF U
  <2> QED
    BY <1>1, <2>1, SubSeqProperties
<1> HIDE DEF U, a, b
<1>4. Len(a) = n /\ Len(b) = n /\ \A i \in 1..n : a[i] = p[i] /\ b[i] = q[i]
  BY <1>2, <1>3
<1>5. \A i \in 1..Len(a) : a[i] = b[i]
  BY <1>4
<1>6. a = b
  BY <1>2, <1>3, <1>4, <1>5, SeqEqual
<1> QED
  BY <1>6 DEF a, b

(* The second target of a node is of no other node. *)
LEMMA SecondsDiffer ==
  ASSUME NEW p \in Seq(NodeNames), p # <<>>, NEW q \in Seq(NodeNames), q # <<>>, V6(p) = V6(q)
  PROVE  p = q
<1>1. /\ AList(Front(p)) /\ Len(Front(p)) = Len(p) - 1 /\ Len(p) \in Nat \ {0} /\ Last(p) \in NodeNames
      /\ \A i \in 1..(Len(p) - 1) : Front(p)[i] = p[i]
  BY PathFacts, SequencesAreLists
<1>2. /\ AList(Front(q)) /\ Len(Front(q)) = Len(q) - 1 /\ Len(q) \in Nat \ {0} /\ Last(q) \in NodeNames
      /\ \A i \in 1..(Len(q) - 1) : Front(q)[i] = q[i]
  BY PathFacts, SequencesAreLists
<1>3. /\ Len(V6(p)) = Len(Front(p)) + 1 /\ V6(p)[Len(Front(p)) + 1] = Second(Last(p))
      /\ \A i \in DOMAIN Front(p) : V6(p)[i] = Front(p)[i]
  BY <1>1, AppendToAList DEF V6
<1>4. /\ Len(V6(q)) = Len(Front(q)) + 1 /\ V6(q)[Len(Front(q)) + 1] = Second(Last(q))
      /\ \A i \in DOMAIN Front(q) : V6(q)[i] = Front(q)[i]
  BY <1>2, AppendToAList DEF V6
<1>5. Len(p) = Len(q)
  BY <1>1, <1>2, <1>3, <1>4
<1>6. Last(p) = Last(q)
  BY <1>1, <1>2, <1>3, <1>4, <1>5, ImportAssumption
<1>7. DOMAIN Front(p) = 1..(Len(p) - 1) /\ DOMAIN Front(q) = 1..(Len(p) - 1)
  BY <1>1, <1>2, <1>5, ListFacts
<1>8. \A i \in 1..Len(p) : p[i] = q[i]
  <2>1. \A i \in 1..(Len(p) - 1) : p[i] = q[i]
    BY <1>1, <1>2, <1>3, <1>4, <1>5, <1>7
  <2>2. p[Len(p)] = q[Len(p)]
    BY <1>5, <1>6 DEF Last
  <2> QED
    BY <1>1, <2>1, <2>2
<1> QED
  BY <1>5, <1>8, SeqEqual
-----------------------------------------------------------------------------
(* The probes of the nodes. *)

LEMMA ProbesUpToAre ==
  ASSUME Len(spNodes) \in Nat
  PROVE  ProbesUpTo = [i \in 0..Len(spNodes) |->
                         IF i = 0 THEN [root \in {<<>>} |-> KeyOf(topKeys, "probe")]
                         ELSE WithProbeOf(spNodes[i], ProbesUpTo[i - 1])]
<1> DEFINE Start == [root \in {<<>>} |-> KeyOf(topKeys, "probe")]
           Is(f, n) == f = [i \in 0..n |-> IF i = 0 THEN Start ELSE WithProbeOf(spNodes[i], f[i - 1])]
           S == {n \in Nat : \E f : Is(f, n)}
<1> HIDE DEF Start
<1>1. 0 \in S
  <2> DEFINE f0 == [i \in 0..0 |-> Start]
  <2>1. \A i \in 0..0 : i = 0
    OBVIOUS
  <2>2. Is(f0, 0)
    BY <2>1
  <2> QED
    BY <2>2, Zenon
<1>2. ASSUME NEW n \in Nat, n \in S
      PROVE  n + 1 \in S
  <2>1. PICK f : Is(f, n)
    BY <1>2
  <2> DEFINE g == [i \in 0..(n + 1) |-> IF i \in 0..n THEN f[i] ELSE WithProbeOf(spNodes[i], f[n])]
  <2>2. \A i \in 0..(n + 1) : g[i] = IF i = 0 THEN Start ELSE WithProbeOf(spNodes[i], g[i - 1])
    <3> SUFFICES ASSUME NEW i \in 0..(n + 1)
                 PROVE  g[i] = IF i = 0 THEN Start ELSE WithProbeOf(spNodes[i], g[i - 1])
      OBVIOUS
    <3>1. CASE i \in 0..n
      <4>1. g[i] = f[i] /\ f[i] = IF i = 0 THEN Start ELSE WithProbeOf(spNodes[i], f[i - 1])
        BY <2>1, <3>1
      <4>2. i # 0 => i - 1 \in 0..n /\ g[i - 1] = f[i - 1]
        BY <3>1
      <4> QED
        BY <4>1, <4>2
    <3>2. CASE i = n + 1
      <4>1. i # 0 /\ i - 1 = n /\ n \in 0..n /\ g[n] = f[n] /\ i \notin 0..n
        BY <3>2
      <4>2. g[i] = WithProbeOf(spNodes[i], f[n])
        BY <4>1
      <4> QED
        BY <4>1, <4>2
    <3> QED
      BY <3>1, <3>2
  <2>3. Is(g, n + 1)
    BY <2>2, Zenon
  <2>4. n + 1 \in Nat
    OBVIOUS
  <2> HIDE DEF Is, g
  <2> QED
    BY <2>3, <2>4, Zenon
<1>3. Nat \subseteq S
  <2> HIDE DEF S
  <2> QED
    BY <1>1, <1>2, AllNumbers
<1>4. \E f : f = [i \in 0..Len(spNodes) |-> IF i = 0 THEN Start ELSE WithProbeOf(spNodes[i], f[i - 1])]
  BY <1>3, Zenon
<1> QED
  BY <1>4, Zenon DEF ProbesUpTo, Start

(* What a node adds is for its path, and what is there for others stays.    *)
LEMMA OneMoreProbe ==
  ASSUME Len(spNodes) \in Nat, NEW i \in 1..Len(spNodes)
  PROVE  LET n == spNodes[i]
             above == ProbesUpTo[i - 1]
         IN  /\ DOMAIN ProbesUpTo[i] = DOMAIN above \cup {n.path}
             /\ ProbesUpTo[i][n.path] =
                  IF "probe" \in DOMAIN n.keys THEN n.keys["probe"].value
                  ELSE IF Front(n.path) \in DOMAIN above THEN above[Front(n.path)] ELSE None
             /\ \A p \in DOMAIN above : p # n.path => ProbesUpTo[i][p] = above[p]
<1>1. i \in 0..Len(spNodes) /\ i # 0
  OBVIOUS
<1>2. ProbesUpTo[i] = WithProbeOf(spNodes[i], ProbesUpTo[i - 1])
  BY <1>1, ProbesUpToAre
<1> QED
  BY <1>2 DEF WithProbeOf, Amend

(* The probe of a path is that of the last node to have it.                 *)
LEMMA ProbesStay ==
  ASSUME Len(spNodes) \in Nat, NEW k \in 0..Len(spNodes), NEW p \in DOMAIN ProbesUpTo[k],
         \A j \in (k + 1)..Len(spNodes) : spNodes[j].path # p
  PROVE  \A m \in k..Len(spNodes) : p \in DOMAIN ProbesUpTo[m] /\ ProbesUpTo[m][p] = ProbesUpTo[k][p]
<1> DEFINE S == {n \in Nat : k + n <= Len(spNodes) =>
                   p \in DOMAIN ProbesUpTo[k + n] /\ ProbesUpTo[k + n][p] = ProbesUpTo[k][p]}
<1>1. 0 \in S
  <2>1. k + 0 = k
    OBVIOUS
  <2> QED
    BY <2>1
<1>2. ASSUME NEW n \in Nat, n \in S
      PROVE  n + 1 \in S
  <2> SUFFICES ASSUME k + (n + 1) <= Len(spNodes)
               PROVE  /\ p \in DOMAIN ProbesUpTo[k + (n + 1)]
                      /\ ProbesUpTo[k + (n + 1)][p] = ProbesUpTo[k][p]
    OBVIOUS
  <2> DEFINE i == k + (n + 1)
  <2>1. i \in 1..Len(spNodes) /\ i \in (k + 1)..Len(spNodes) /\ i - 1 = k + n /\ k + n <= Len(spNodes)
    OBVIOUS
  <2>2. p \in DOMAIN ProbesUpTo[i - 1] /\ ProbesUpTo[i - 1][p] = ProbesUpTo[k][p]
    BY <1>2, <2>1
  <2>3. spNodes[i].path # p
    BY <2>1
  <2> HIDE DEF i
  <2>4. p \in DOMAIN ProbesUpTo[i] /\ ProbesUpTo[i][p] = ProbesUpTo[i - 1][p]
    BY <2>1, <2>2, <2>3, OneMoreProbe
  <2> QED
    BY <2>2, <2>4 DEF i
<1>3. Nat \subseteq S
  <2> HIDE DEF S
  <2> QED
    BY <1>1, <1>2, AllNumbers
<1> SUFFICES ASSUME NEW m \in k..Len(spNodes)
             PROVE  p \in DOMAIN ProbesUpTo[m] /\ ProbesUpTo[m][p] = ProbesUpTo[k][p]
  OBVIOUS
<1>4. m - k \in Nat /\ k + (m - k) = m /\ m <= Len(spNodes)
  OBVIOUS
<1>5. m - k \in S
  BY <1>3, <1>4
<1> QED
  BY <1>4, <1>5

(* The root has the probe of before the first node, of whichever prefix.    *)
LEMMA ProbeOfTheRoot ==
  ASSUME ParentsComeFirst
  PROVE  \A m \in 0..Len(spNodes) :
           <<>> \in DOMAIN ProbesUpTo[m] /\ ProbesUpTo[m][<<>>] = KeyOf(topKeys, "probe")
<1>1. Len(spNodes) \in Nat /\ DOMAIN spNodes = 1..Len(spNodes)
  BY ListFacts DEF ParentsComeFirst
<1>2. 0 \in 0..Len(spNodes)
  BY <1>1
<1>3. ProbesUpTo[0] = [root \in {<<>>} |-> KeyOf(topKeys, "probe")]
  BY <1>1, <1>2, ProbesUpToAre
<1>4. <<>> \in DOMAIN ProbesUpTo[0] /\ ProbesUpTo[0][<<>>] = KeyOf(topKeys, "probe")
  BY <1>3
<1>5. \A j \in (0 + 1)..Len(spNodes) : spNodes[j].path # <<>>
  BY <1>1 DEF ParentsComeFirst, IsNode
<1> QED
  BY <1>1, <1>2, <1>4, <1>5, ProbesStay

(* A node has its own probe, or that of the one above it. *)
LEMMA ProbeComesDown ==
  ASSUME ParentsComeFirst, NEW k \in DOMAIN spNodes, IsAlone(spNodes, k),
         \A j \in DOMAIN spNodes : spNodes[j].path = Front(spNodes[k].path) => IsAlone(spNodes, j)
  PROVE  LET n == spNodes[k] IN
         ProbeAt[n.path] = IF "probe" \in DOMAIN n.keys THEN n.keys["probe"].value
                           ELSE ProbeAt[Front(n.path)]
<1> DEFINE n == spNodes[k]
           up == Front(n.path)
<1>1. Len(spNodes) \in Nat /\ DOMAIN spNodes = 1..Len(spNodes) /\ n.path \in Seq(NodeNames) /\ n.path # <<>>
  BY ListFacts DEF ParentsComeFirst, IsNode
<1>2. k \in 1..Len(spNodes) /\ k \in 0..Len(spNodes) /\ Len(spNodes) \in k..Len(spNodes)
      /\ k - 1 \in 0..Len(spNodes) /\ Len(spNodes) \in (k - 1)..Len(spNodes)
  BY <1>1
<1>3. ProbeAt[n.path] = ProbesUpTo[k][n.path]
  <2>1. \A j \in (k + 1)..Len(spNodes) : spNodes[j].path # n.path
    BY <1>1, <1>2 DEF IsAlone
  <2>2. n.path \in DOMAIN ProbesUpTo[k]
    BY <1>1, <1>2, OneMoreProbe
  <2> QED
    BY <1>1, <1>2, <2>1, <2>2, ProbesStay DEF ProbeAt
<1>4. up \in DOMAIN ProbesUpTo[k - 1] /\ ProbesUpTo[k - 1][up] = ProbeAt[up]
  <2>1. CASE up = <<>>
    <3>1. Len(spNodes) \in 0..Len(spNodes)
      BY <1>1
    <3> QED
      BY <1>2, <2>1, <3>1, ProbeOfTheRoot DEF ProbeAt
  <2>2. CASE up # <<>>
    <3>1. Len(n.path) > 1
      <4>1. Len(n.path) \in Nat \ {0} /\ up \in Seq(NodeNames) /\ Len(up) = Len(n.path) - 1
        BY <1>1, PathFacts
      <4>2. Len(up) # 0
        BY <2>2, <4>1, EmptySeq
      <4>3. Len(n.path) \in Nat \ {0} /\ Len(n.path) - 1 # 0
        BY <4>1, <4>2
      <4>4. \A m : m \in Nat \ {0} /\ m - 1 # 0 => m > 1
        OBVIOUS
      <4> QED
        BY <4>3, <4>4, Zenon
    <3>2. PICK j \in DOMAIN spNodes : j < k /\ spNodes[j].path = up
      BY <3>1 DEF ParentsComeFirst
    <3>3. IsAlone(spNodes, j)
      BY <3>2
    <3>4. \A i \in (j + 1)..Len(spNodes) : spNodes[i].path # up
      BY <1>1, <3>2, <3>3 DEF IsAlone
    <3>5. j \in 1..Len(spNodes) /\ j \in 0..Len(spNodes) /\ k - 1 \in j..Len(spNodes)
          /\ Len(spNodes) \in j..Len(spNodes)
      BY <1>1, <1>2, <3>2
    <3>6. up \in DOMAIN ProbesUpTo[j]
      BY <1>1, <3>2, <3>5, OneMoreProbe
    <3>7. \A m \in j..Len(spNodes) : up \in DOMAIN ProbesUpTo[m] /\ ProbesUpTo[m][up] = ProbesUpTo[j][up]
      BY <1>1, <3>4, <3>5, <3>6, ProbesStay
    <3> QED
      BY <3>5, <3>7 DEF ProbeAt
  <2> QED
    BY <2>1, <2>2
<1>5. ProbesUpTo[k][n.path] = IF "probe" \in DOMAIN n.keys THEN n.keys["probe"].value
                              ELSE IF up \in DOMAIN ProbesUpTo[k - 1] THEN ProbesUpTo[k - 1][up] ELSE None
  BY <1>1, <1>2, OneMoreProbe
<1> QED
  BY <1>3, <1>4, <1>5
-----------------------------------------------------------------------------
(* The probe that is said. *)

(* What is above a path that is not repeated is not either. *)
LEMMA AboveIsNotRepeated ==
  ASSUME NEW p \in Seq(NodeNames), p # <<>>, ~IsRepeated(p)
  PROVE  ~IsRepeated(Front(p))
<1> DEFINE up == Front(p)
<1>1. Len(p) \in Nat \ {0} /\ up \in Seq(NodeNames) /\ Len(up) = Len(p) - 1 /\ \A i \in 1..Len(up) : up[i] = p[i]
  BY PathFacts
<1>2. ASSUME NEW i \in 0..Len(up)
      PROVE  i \in 0..Len(p) /\ SubSeq(up, 1, i) = SubSeq(p, 1, i)
  <2>1. i \in Nat /\ i <= Len(up) /\ i <= Len(p) /\ i \in 0..Len(p) /\ \A j \in 1..i : up[j] = p[j]
    BY <1>1
  <2> HIDE DEF up
  <2> QED
    BY <1>1, <2>1, StartsAgree
<1> HIDE DEF up
<1>3. ~IsRepeated(up)
  BY <1>2 DEF IsRepeated
<1> QED
  BY <1>3 DEF up

(* The nearest that is said is said at the path itself, or above it. *)
LEMMA SaidComesDown ==
  ASSUME NEW p \in Seq(NodeNames), p # <<>>
  PROVE  ProbeSaid(p) = IF Says(p, "probe") # {} THEN CHOOSE v \in Says(p, "probe") : TRUE
                        ELSE ProbeSaid(Front(p))
<1> DEFINE up == Front(p)
           Of(q) == {i \in 0..Len(q) : Says(SubSeq(q, 1, i), "probe") # {}}
           Nearest(q) == CHOOSE i \in Of(q) : \A j \in Of(q) : j <= i
<1>1. /\ Len(p) \in Nat \ {0} /\ up \in Seq(NodeNames) /\ Len(up) = Len(p) - 1
      /\ \A i \in 1..Len(up) : up[i] = p[i]
  BY PathFacts
<1>2. SubSeq(p, 1, Len(p)) = p
  BY PathFacts
<1>3. ProbeSaid(p) = IF Of(p) = {} THEN None ELSE CHOOSE v \in Says(SubSeq(p, 1, Nearest(p)), "probe") : TRUE
  BY DEF ProbeSaid
<1>4. ProbeSaid(up) = IF Of(up) = {} THEN None ELSE CHOOSE v \in Says(SubSeq(up, 1, Nearest(up)), "probe") : TRUE
  BY DEF ProbeSaid
<1>5. CASE Says(p, "probe") # {}
  <2>1. Len(p) \in Of(p) /\ \A j \in Of(p) : j <= Len(p)
    <3>1. Len(p) \in 0..Len(p) /\ \A j \in 0..Len(p) : j <= Len(p)
      BY <1>1
    <3>2. Says(SubSeq(p, 1, Len(p)), "probe") # {}
      BY <1>2, <1>5
    <3> QED
      BY <3>1, <3>2
  <2>2. \A i \in Of(p) : (\A j \in Of(p) : j <= i) => i = Len(p)
    BY <1>1, <2>1
  <2> HIDE DEF Of
  <2>3. Nearest(p) = Len(p)
    BY <2>1, <2>2
  <2> HIDE DEF Nearest
  <2> QED
    BY <1>2, <1>3, <1>5, <2>1, <2>3
<1>6. CASE Says(p, "probe") = {}
  <2>1. \A i \in 0..Len(up) : i \in 0..Len(p) /\ i # Len(p) /\ SubSeq(up, 1, i) = SubSeq(p, 1, i)
    <3> SUFFICES ASSUME NEW i \in 0..Len(up)
                 PROVE  i \in 0..Len(p) /\ i # Len(p) /\ SubSeq(up, 1, i) = SubSeq(p, 1, i)
      OBVIOUS
    <3>1. /\ i \in Nat /\ i <= Len(up) /\ i <= Len(p) /\ i # Len(p) /\ i \in 0..Len(p)
          /\ \A j \in 1..i : up[j] = p[j]
      BY <1>1
    <3> HIDE DEF up
    <3> QED
      BY <1>1, <3>1, StartsAgree
  <2>2. \A i \in 0..Len(p) : i # Len(p) => i \in 0..Len(up)
    BY <1>1
  <2>3. Of(p) = Of(up)
    BY <1>2, <1>6, <2>1, <2>2
  <2>4. Of(p) # {} => Nearest(p) \in Of(up)
    <3> SUFFICES ASSUME Of(p) # {}
                 PROVE  Nearest(p) \in Of(up)
      OBVIOUS
    <3>1. \E m \in Of(p) : \A j \in Of(p) : j <= m
      <4> DEFINE T == {Len(p) - i : i \in Of(p)}
      <4>1. T \subseteq Nat /\ T # {}
        BY <1>1
      <4>2. PICK d \in T : \A e \in T : d <= e
        BY <4>1, SetsHaveALeast
      <4>3. PICK m \in Of(p) : d = Len(p) - m
        BY <4>2
      <4>4. ASSUME NEW j \in Of(p)
            PROVE  j <= m
        <5>1. Len(p) - m <= Len(p) - j
          BY <4>2, <4>3
        <5> QED
          BY <1>1, <5>1
      <4> QED
        BY <4>4
    <3> HIDE DEF Of
    <3> QED
      BY <2>3, <3>1
  <2>5. Nearest(p) = Nearest(up)
    BY <2>3
  <2>6. Of(up) # {} => SubSeq(up, 1, Nearest(up)) = SubSeq(p, 1, Nearest(p))
    <3>1. Of(up) \subseteq 0..Len(up)
      OBVIOUS
    <3> HIDE DEF Of, Nearest
    <3> QED
      BY <2>1, <2>3, <2>4, <2>5, <3>1
  <2> HIDE DEF Of, Nearest, up
  <2>7. ProbeSaid(p) = ProbeSaid(up)
    <3>1. CASE Of(up) = {}
      BY <1>3, <1>4, <2>3, <3>1, Zenon
    <3>2. CASE Of(up) # {}
      <4>1. ProbeSaid(p) = CHOOSE v \in Says(SubSeq(p, 1, Nearest(p)), "probe") : TRUE
        BY <1>3, <2>3, <3>2, Zenon
      <4>2. ProbeSaid(up) = CHOOSE v \in Says(SubSeq(up, 1, Nearest(up)), "probe") : TRUE
        BY <1>4, <3>2, Zenon
      <4> QED
        BY <2>6, <3>2, <4>1, <4>2, Zenon
    <3> QED
      BY <3>1, <3>2
  <2> QED
    BY <1>6, <2>7 DEF up
<1> QED
  BY <1>5, <1>6

LEMMA SaidOfTheRoot ==
  ProbeSaid(<<>>) = IF Says(<<>>, "probe") # {} THEN CHOOSE v \in Says(<<>>, "probe") : TRUE ELSE None
<1> DEFINE Of == {i \in 0..Len(<<>>) : Says(SubSeq(<<>>, 1, i), "probe") # {}}
           Nearest == CHOOSE i \in Of : \A j \in Of : j <= i
<1>1. Len(<<>>) = 0 /\ SubSeq(<<>>, 1, 0) = <<>>
  BY SubSeqEmpty
<1>2. \A i \in 0..Len(<<>>) : i = 0
  BY <1>1
<1>3. ProbeSaid(<<>>) = IF Of = {} THEN None ELSE CHOOSE v \in Says(SubSeq(<<>>, 1, Nearest), "probe") : TRUE
  BY DEF ProbeSaid
<1>4. CASE Says(<<>>, "probe") # {}
  <2>1. 0 \in Of /\ \A i \in Of : i = 0
    <3>1. 0 \in 0..Len(<<>>) /\ Says(SubSeq(<<>>, 1, 0), "probe") # {}
      <4>1. 0 \in 0..Len(<<>>)
        BY <1>1
      <4>2. Says(SubSeq(<<>>, 1, 0), "probe") = Says(<<>>, "probe")
        BY <1>1, Zenon
      <4> QED
        BY <1>4, <4>1, <4>2
    <3> QED
      BY <1>2, <3>1
  <2> HIDE DEF Of
  <2>2. \A j \in Of : j <= 0
    BY <2>1
  <2>3. Nearest = 0
    BY <2>1, <2>2
  <2> HIDE DEF Nearest
  <2> QED
    BY <1>1, <1>3, <1>4, <2>1, <2>3
<1>5. CASE Says(<<>>, "probe") = {}
  <2>1. Of = {}
    BY <1>1, <1>2, <1>5
  <2> HIDE DEF Of, Nearest
  <2> QED
    BY <1>3, <1>5, <2>1
<1> QED
  BY <1>4, <1>5

(* What is said, once: the one value. *)
LEMMA OneIsChosen ==
  ASSUME NEW p, NEW v \in Says(p, "probe"), \A a, b \in Says(p, "probe") : a = b
  PROVE  (CHOOSE w \in Says(p, "probe") : TRUE) = v
<1>1. (CHOOSE w \in Says(p, "probe") : TRUE) \in Says(p, "probe")
  BY Zenon
<1> QED
  BY <1>1, Zenon

(* A path that is not repeated is of one node, told one thing.              *)
LEMMA NotRepeated ==
  ASSUME NEW p \in Seq(NodeNames), ~IsRepeated(p)
  PROVE  /\ \A k \in DOMAIN spNodes : spNodes[k].path = p => IsAlone(spNodes, k)
         /\ \A key \in {"host", "probe"} : \A v, w \in Says(p, key) : v = w
<1>1. Len(p) \in 0..Len(p) /\ SubSeq(p, 1, Len(p)) = p
  BY SubSeqFull, LenProperties
<1>2. ~(\E k, j \in DOMAIN spNodes : k # j /\ spNodes[k].path = p /\ spNodes[j].path = p)
  BY <1>1, Zenon DEF IsRepeated
<1>3. ~(\E key \in {"host", "probe"} : \E v, w \in Says(p, key) : v # w)
  BY <1>1, Zenon DEF IsRepeated
<1> QED
  BY <1>2, <1>3 DEF IsAlone

(* The probe a node is given is the one that is said of it. *)
LEMMA ProbeIsTheOneSaid ==
  ASSUME ParentsComeFirst, KeysAreTold, ToldAreKeys, TopIsTold, branch = <<>>,
         NEW k \in DOMAIN spNodes, ~IsRepeated(spNodes[k].path)
  PROVE  ProbeAt[spNodes[k].path] = ProbeSaid(spNodes[k].path)
<1> DEFINE P(i) == spNodes[i].path
           S == {n \in Nat : \A i \in DOMAIN spNodes :
                   Len(P(i)) <= n /\ ~IsRepeated(P(i)) => ProbeAt[P(i)] = ProbeSaid(P(i))}
<1>1. /\ Len(spNodes) \in Nat /\ DOMAIN spNodes = 1..Len(spNodes) /\ Completed = spNodes
      /\ \A i \in DOMAIN spNodes : P(i) \in Seq(NodeNames) /\ P(i) # <<>> /\ Len(P(i)) \in Nat \ {0}
  <2>1. \A i \in DOMAIN spNodes : P(i) \in Seq(NodeNames) /\ P(i) # <<>>
    BY DEF ParentsComeFirst, IsNode
  <2>2. \A i \in DOMAIN spNodes : Len(P(i)) \in Nat \ {0}
    <3> HIDE DEF P
    <3> QED
      BY <2>1, PathFacts
  <2> QED
    BY <2>1, <2>2, ListFacts DEF ParentsComeFirst, Completed
<1>2. \A v : v \in Says(<<>>, "probe") => "probe" \in DOMAIN topKeys
  BY DEF TopIsTold, Says
<1>3. ASSUME \A a, b \in Says(<<>>, "probe") : a = b
      PROVE  ProbeAt[<<>>] = ProbeSaid(<<>>)
  <2>1. ProbeAt[<<>>] = KeyOf(topKeys, "probe")
    <3>1. Len(spNodes) \in 0..Len(spNodes)
      BY <1>1
    <3> QED
      BY <3>1, ProbeOfTheRoot DEF ProbeAt
  <2>2. CASE "probe" \in DOMAIN topKeys
    <3>1. topKeys["probe"].value \in Says(<<>>, "probe")
      BY <2>2 DEF TopIsTold
    <3>2. ProbeSaid(<<>>) = topKeys["probe"].value
      BY <1>3, <3>1, SaidOfTheRoot, OneIsChosen
    <3> QED
      BY <2>1, <2>2, <3>2 DEF KeyOf
  <2>3. CASE "probe" \notin DOMAIN topKeys
    <3>1. Says(<<>>, "probe") = {}
      BY <1>2, <2>3
    <3> QED
      BY <2>1, <2>3, <3>1, SaidOfTheRoot DEF KeyOf
  <2> QED
    BY <2>2, <2>3
<1>4. 0 \in S
  BY <1>1
<1>5. ASSUME NEW n \in Nat, n \in S
      PROVE  n + 1 \in S
  <2> SUFFICES ASSUME NEW i \in DOMAIN spNodes, Len(P(i)) <= n + 1, ~IsRepeated(P(i))
               PROVE  ProbeAt[P(i)] = ProbeSaid(P(i))
    OBVIOUS
  <2> DEFINE p == P(i)
             up == Front(p)
  <2>1. /\ p \in Seq(NodeNames) /\ p # <<>> /\ Len(p) \in Nat \ {0}
        /\ up \in Seq(NodeNames) /\ Len(up) = Len(p) - 1 /\ ~IsRepeated(up)
    <3>1. p \in Seq(NodeNames) /\ p # <<>>
      BY <1>1
    <3> HIDE DEF P
    <3> QED
      BY <3>1, PathFacts, AboveIsNotRepeated
  <2>2. /\ \A j \in DOMAIN spNodes : P(j) = p \/ P(j) = up => IsAlone(spNodes, j)
        /\ \A a, b \in Says(p, "probe") : a = b
        /\ \A a, b \in Says(up, "probe") : a = b
    BY <2>1, NotRepeated
  <2>3. ProbeAt[p] = IF "probe" \in DOMAIN spNodes[i].keys THEN spNodes[i].keys["probe"].value
                     ELSE ProbeAt[up]
    BY <2>2, ProbeComesDown
  <2>4. ProbeAt[up] = ProbeSaid(up)
    <3>1. CASE up = <<>>
      BY <1>3, <2>2, <3>1
    <3>2. CASE up # <<>>
      <4>1. Len(p) > 1
        <5>1. Len(p) \in Nat \ {0} /\ Len(p) - 1 # 0
          BY <2>1, <3>2, EmptySeq
        <5>2. \A m : m \in Nat \ {0} /\ m - 1 # 0 => m > 1
          OBVIOUS
        <5> QED
          BY <5>1, <5>2, Zenon
      <4>2. PICK j \in DOMAIN spNodes : P(j) = up
        BY <4>1 DEF ParentsComeFirst
      <4>3. Len(P(j)) <= n
        <5>1. \A m \in Nat : m <= n + 1 => m - 1 <= n
          OBVIOUS
        <5> QED
          BY <2>1, <4>2, <5>1
      <4> QED
        BY <1>5, <2>1, <4>2, <4>3
    <3> QED
      BY <3>1, <3>2
  <2>5. ProbeSaid(p) = IF Says(p, "probe") # {} THEN CHOOSE v \in Says(p, "probe") : TRUE ELSE ProbeSaid(up)
    BY <2>1, SaidComesDown
  <2>6. CASE "probe" \in DOMAIN spNodes[i].keys
    <3>1. spNodes[i].keys["probe"].value \in Says(p, "probe")
      BY <1>1, <2>2, <2>6 DEF KeysAreTold
    <3>2. ProbeSaid(p) = spNodes[i].keys["probe"].value
      BY <2>2, <2>5, <3>1, OneIsChosen
    <3> QED
      BY <2>3, <2>6, <3>2
  <2>7. CASE "probe" \notin DOMAIN spNodes[i].keys
    <3>1. Says(p, "probe") = {}
      <4> SUFFICES ASSUME NEW t \in told, t.path = p, t.key = "probe"
                   PROVE  FALSE
        BY DEF Says
      <4>1. PICK j \in DOMAIN spNodes : P(j) = p /\ "probe" \in DOMAIN spNodes[j].keys
        BY <1>1, <2>1 DEF ToldAreKeys
      <4>2. j = i
        BY <2>2, <4>1 DEF IsAlone
      <4> QED
        BY <2>7, <4>1, <4>2
    <3> QED
      BY <2>3, <2>4, <2>5, <2>7, <3>1
  <2> QED
    BY <2>6, <2>7
<1>6. Nat \subseteq S
  <2> HIDE DEF S
  <2> QED
    BY <1>4, <1>5, AllNumbers
<1>7. Len(P(k)) \in S
  BY <1>1, <1>6
<1> QED
  BY <1>1, <1>7

(* What was converted arrived as it was told. *)
LEMMA TheHandledAreAccountedFor ==
  ASSUME ImportInv
  PROVE  HostsAreAccountedFor
<1> SUFFICES ASSUME step = "done", NEW t \in HostLines, ~IsRepeated(t.path), ~ClashesByFamily(t.path)
             PROVE  IsAccountedFor(t.path, t.value)
  BY DEF HostsAreAccountedFor
<1> DEFINE p == t.path
           host == t.value
<1>1. /\ t \in told /\ p # <<>> /\ t.key = "host" /\ host # None
      /\ branch = <<>> /\ place > Len(spNodes) /\ place \in Nat
      /\ ParentsComeFirst /\ KeysAreTold /\ ToldAreKeys /\ TopIsTold
      /\ \A k \in DOMAIN spNodes : k < place => IsHandled(k)
  BY DEF ImportInv, HostLines, NodesAreHandled, ReadsLines
<1>2. Completed = spNodes /\ Len(spNodes) \in Nat /\ DOMAIN spNodes = 1..Len(spNodes)
  BY <1>1, ListFacts DEF Completed, ParentsComeFirst
<1>3. PICK k \in DOMAIN spNodes : spNodes[k].path = p /\ "host" \in DOMAIN spNodes[k].keys
  BY <1>1, <1>2 DEF ToldAreKeys
<1> DEFINE n == spNodes[k]
<1>4. p \in Seq(NodeNames)
  BY <1>1, <1>3 DEF ParentsComeFirst, IsNode
<1>5. IsAlone(spNodes, k) /\ \A v, w \in Says(p, "host") : v = w
  BY <1>3, <1>4, NotRepeated
<1>6. KeyOf(n.keys, "host") = host
  <2>1. n.keys["host"].value \in Says(p, "host")
    BY <1>1, <1>2, <1>3, <1>5 DEF KeysAreTold
  <2>2. host \in Says(p, "host")
    BY <1>1 DEF Says
  <2>3. KeyOf(n.keys, "host") = n.keys["host"].value
    BY <1>3 DEF KeyOf
  <2> QED
    BY <1>5, <2>1, <2>2, <2>3
<1>7. IsHandled(k)
  BY <1>1, <1>2
<1>8. ProbeAt[p] = ProbeSaid(p)
  BY <1>1, <1>3, ProbeIsTheOneSaid
<1>9. CASE host \in Unsupported
  BY <1>3, <1>6, <1>7, <1>9 DEF IsHandled, IsAccountedFor
<1>10. CASE host \notin Unsupported
  <2>1. Arrived(n)
    BY <1>3, <1>5, <1>6, <1>7, <1>10 DEF IsHandled
  <2>2. \A f : EntryOf(n, f).host = host /\ EntryOf(n, f).family = f
               /\ EntryOf(n, f).type = ImportedType(ProbeSaid(p))
    BY <1>1, <1>3, <1>6, <1>8 DEF EntryOf
  <2>3. Arrives(p, host, FamilyOf(host, ProbeSaid(p)), ProbeSaid(p))
    BY <1>3, <1>6, <1>8, <2>1, <2>2 DEF Arrived, Arrives
  <2>4. Twice(host, ProbeSaid(p)) => Arrives(V6(p), host, "v6", ProbeSaid(p))
    BY <1>3, <1>6, <1>8, <2>1, <2>2 DEF Arrived, Arrives
  <2> QED
    BY <1>10, <2>3, <2>4 DEF IsAccountedFor
<1> QED
  BY <1>9, <1>10

-----------------------------------------------------------------------------
(* The steps. *)

(* The part of the invariant that the parser keeps. *)
Parsed == BranchIsOne /\ AboveAreNodes /\ ParentsComeFirst /\ KeysAreTold /\ ToldAreKeys /\ TopIsTold

(* The nodes with the one under way. *)
LEMMA CompletedNodes ==
  ASSUME Parsed
  PROVE  /\ AList(Completed) /\ Len(Completed) \in Nat /\ DOMAIN Completed = 1..Len(Completed)
         /\ Len(spNodes) \in Nat /\ DOMAIN spNodes = 1..Len(spNodes)
         /\ Len(branch) \in Nat /\ DOMAIN branch = 1..Len(branch)
         /\ \A k \in DOMAIN spNodes : k \in DOMAIN Completed /\ Completed[k] = spNodes[k]
         /\ IF branch = <<>> THEN Completed = spNodes
            ELSE /\ Len(branch) \in DOMAIN branch /\ Len(Completed) = Len(spNodes) + 1
                 /\ Completed[Len(Completed)] = branch[Len(branch)]
         /\ \A k \in DOMAIN Completed : IsNode(Completed[k])
<1>1. AList(spNodes) /\ AList(branch)
  BY DEF Parsed, ParentsComeFirst, BranchIsOne
<1>2. /\ Len(spNodes) \in Nat /\ DOMAIN spNodes = 1..Len(spNodes)
      /\ Len(branch) \in Nat /\ DOMAIN branch = 1..Len(branch)
      /\ branch # <<>> => Len(branch) \in DOMAIN branch
  BY <1>1, ListFacts
<1>3. CASE branch = <<>>
  BY <1>1, <1>2, <1>3 DEF Completed, Parsed, ParentsComeFirst
<1>4. CASE branch # <<>>
  <2> DEFINE c == Append(spNodes, Last(branch))
  <2>1. Completed = c /\ Last(branch) = branch[Len(branch)]
    BY <1>4 DEF Completed, Last
  <2>2. /\ AList(c) /\ Len(c) = Len(spNodes) + 1 /\ DOMAIN c = 1..(Len(spNodes) + 1)
        /\ c[Len(spNodes) + 1] = Last(branch)
        /\ \A i \in DOMAIN spNodes : i \in DOMAIN c /\ c[i] = spNodes[i]
    BY <1>1, AppendToAList
  <2> HIDE DEF c
  <2>3. \A k \in DOMAIN spNodes : IsNode(spNodes[k])
    BY DEF Parsed, ParentsComeFirst
  <2>4. IsNode(branch[Len(branch)])
    BY <1>2, <1>4 DEF Parsed, BranchIsOne
  <2>5. \A k \in DOMAIN c : IsNode(c[k])
    <3> SUFFICES ASSUME NEW k \in DOMAIN c
                 PROVE  IsNode(c[k])
      OBVIOUS
    <3>1. CASE k = Len(spNodes) + 1
      BY <2>1, <2>2, <2>4, <3>1
    <3>2. CASE k # Len(spNodes) + 1
      <4>1. k \in DOMAIN spNodes
        BY <1>2, <2>2, <3>2
      <4> QED
        BY <2>2, <2>3, <4>1
    <3> QED
      BY <3>1, <3>2
  <2>6. Len(c) \in Nat /\ DOMAIN c = 1..Len(c)
    BY <1>2, <2>2
  <2> QED
    BY <1>2, <1>4, <2>1, <2>2, <2>5, <2>6
<1> QED
  BY <1>3, <1>4

(* It is about the nodes and what was told, nothing else. *)
LEMMA ParsedStays ==
  ASSUME Parsed, UNCHANGED <<branch, spNodes, topKeys, told>>
  PROVE  Parsed' /\ Completed' = Completed
<1>1. Completed' = Completed /\ \A p, k : Says(p, k)' = Says(p, k)
  BY DEF Completed, Says
<1>2. BranchIsOne' /\ AboveAreNodes' /\ ParentsComeFirst'
  BY DEF Parsed, BranchIsOne, AboveAreNodes, ParentsComeFirst
<1>3. KeysAreTold' /\ ToldAreKeys' /\ TopIsTold'
  BY <1>1 DEF Parsed, KeysAreTold, ToldAreKeys, TopIsTold
<1> QED
  BY <1>1, <1>2, <1>3 DEF Parsed

(* The nodes of the branch are among those that are complete. *)
LEMMA BranchIsCompleted ==
  ASSUME Parsed, NEW j \in DOMAIN branch
  PROVE  \E k \in DOMAIN Completed : Completed[k].path = branch[j].path
<1>1. CASE j < Len(branch)
  BY <1>1, CompletedNodes DEF Parsed, AboveAreNodes
<1>2. CASE j = Len(branch)
  <2>0. branch # <<>>
    BY <1>2, ListFacts DEF Parsed, BranchIsOne
  <2>1. branch # <<>> /\ Completed[Len(Completed)] = branch[j]
    BY <1>2, <2>0, CompletedNodes
  <2>2. Len(Completed) \in DOMAIN Completed
    BY <2>1, CompletedNodes
  <2> QED
    BY <2>1, <2>2
<1>3. Len(branch) \in Nat /\ j \in 1..Len(branch)
  BY CompletedNodes
<1> QED
  BY <1>1, <1>2, <1>3

(* The node under way comes after its parent, like the others. *)
LEMMA CompletedInOrder ==
  ASSUME Parsed
  PROVE  \A k \in DOMAIN Completed :
           Len(Completed[k].path) > 1 =>
             \E j \in DOMAIN Completed : j < k /\ Completed[j].path = Front(Completed[k].path)
<1> SUFFICES ASSUME NEW k \in DOMAIN Completed, Len(Completed[k].path) > 1
             PROVE  \E j \in DOMAIN Completed : j < k /\ Completed[j].path = Front(Completed[k].path)
  OBVIOUS
<1>1. CASE k \in DOMAIN spNodes
  <2>1. PICK j \in DOMAIN spNodes : j < k /\ spNodes[j].path = Front(spNodes[k].path)
    BY <1>1, CompletedNodes DEF Parsed, ParentsComeFirst
  <2> QED
    BY <1>1, <2>1, CompletedNodes
<1>2. CASE k \notin DOMAIN spNodes
  <2>1. branch # <<>>
    BY <1>2, CompletedNodes
  <2> DEFINE m == Len(branch)
             p == branch[m].path
  <2>2. /\ m \in DOMAIN branch /\ k = Len(spNodes) + 1 /\ Completed[k] = branch[m]
        /\ DOMAIN spNodes = 1..Len(spNodes) /\ Len(spNodes) \in Nat
        /\ DOMAIN branch = 1..m /\ m \in Nat
    BY <1>2, <2>1, CompletedNodes
  <2>3. Len(p) = m /\ p \in Seq(NodeNames) /\ p # <<>>
    BY <2>2 DEF Parsed, BranchIsOne, IsNode
  <2>4. m - 1 \in DOMAIN branch /\ m - 1 \in 1..m /\ m - 1 < m
    BY <2>2, <2>3
  <2>5. branch[m - 1].path = SubSeq(p, 1, m - 1)
    BY <2>2, <2>4 DEF Parsed, BranchIsOne
  <2>6. SubSeq(p, 1, m - 1) = Front(p)
    BY <2>3 DEF Front
  <2>7. PICK j \in DOMAIN spNodes : spNodes[j].path = branch[m - 1].path
    BY <2>4 DEF Parsed, AboveAreNodes
  <2>8. j < k
    BY <2>2, <2>7
  <2>9. j \in DOMAIN Completed /\ Completed[j] = spNodes[j]
    BY <2>7, CompletedNodes
  <2> QED
    BY <2>2, <2>5, <2>6, <2>7, <2>8, <2>9
<1> QED
  BY <1>1, <1>2

(* Between sections, and at the end, the node under way is put down.        *)
LEMMA SectionBegins ==
  ASSUME Parsed, spNodes' = Completed, branch' = <<>>, UNCHANGED <<topKeys, told>>
  PROVE  Parsed' /\ Completed' = Completed
<1>1. Completed' = Completed
  BY DEF Completed
<1>2. BranchIsOne' /\ AboveAreNodes'
  BY NothingIsAList DEF BranchIsOne, AboveAreNodes
<1>3. ParentsComeFirst'
  BY CompletedNodes, CompletedInOrder DEF ParentsComeFirst
<1>4. \A p, k : Says(p, k)' = Says(p, k)
  BY DEF Says
<1>5. KeysAreTold' /\ ToldAreKeys' /\ TopIsTold'
  BY <1>1, <1>4 DEF Parsed, KeysAreTold, ToldAreKeys, TopIsTold
<1> QED
  BY <1>1, <1>2, <1>3, <1>5 DEF Parsed

(* What is said of a node in a set of what is said. *)
SaidIn(all, p, k) == {t.value : t \in {u \in all : u.path = p /\ u.key = k}}

(* What a key is told of keeps what the others were told. *)
LEMMA TellingKeeps ==
  ASSUME NEW k, NEW v, NEW R, \A t \in R : t.path = HereIs /\ t.key = k,
         told' = (told \ R) \cup {Said(k, v.value)}
  PROVE  /\ v.value \in SaidIn(told', HereIs, k)
         /\ \A p, key : p # HereIs \/ key # k => Says(p, key) \subseteq SaidIn(told', p, key)
         /\ \A t \in told' : t \in told \/ (t.path = HereIs /\ t.key = k)
<1>1. Said(k, v.value).path = HereIs /\ Said(k, v.value).key = k /\ Said(k, v.value).value = v.value
  BY DEF Said
<1>2. v.value \in {t.value : t \in {u \in told' : u.path = HereIs /\ u.key = k}}
  <2>1. Said(k, v.value) \in {u \in told' : u.path = HereIs /\ u.key = k}
    BY <1>1
  <2> QED
    BY <1>1, <2>1
<1>3. ASSUME NEW p, NEW key, p # HereIs \/ key # k, NEW w \in Says(p, key)
      PROVE  w \in SaidIn(told', p, key)
  <2>1. PICK t \in told : t.path = p /\ t.key = key /\ t.value = w
    BY DEF Says
  <2>2. t \in told'
    BY <1>3, <2>1
  <2> QED
    BY <2>1, <2>2 DEF SaidIn
<1>4. \A t \in told' : t \in told \/ (t.path = HereIs /\ t.key = k)
  BY <1>1
<1> QED
  BY <1>2, <1>3, <1>4 DEF SaidIn

(* A key that is given or continued changes one node. *)
LEMMA KeysChange ==
  ASSUME Parsed, NEW k, NEW v, PutKey(k, v), NEW R, \A t \in R : t.path = HereIs /\ t.key = k,
         told' = (told \ R) \cup {Said(k, v.value)}, UNCHANGED spNodes
  PROVE  Parsed'
<1> DEFINE here == HereIs
<1>1. /\ v.value \in SaidIn(told', here, k)
      /\ \A p, key : p # here \/ key # k => Says(p, key) \subseteq SaidIn(told', p, key)
      /\ \A t \in told' : t \in told \/ (t.path = here /\ t.key = k)
  BY TellingKeeps
<1>2. CASE branch = <<>>
  <2>1. here = <<>> /\ topKeys' = Amend(topKeys, k, v) /\ branch' = <<>> /\ Completed' = Completed
        /\ Completed = spNodes
    BY <1>2 DEF HereIs, PutKey, Completed
  <2> HIDE DEF here
  <2>2. BranchIsOne' /\ AboveAreNodes' /\ ParentsComeFirst'
    BY <1>2, <2>1 DEF Parsed, BranchIsOne, AboveAreNodes, ParentsComeFirst
  <2>3. KeysAreTold'
    <3> SUFFICES ASSUME NEW j \in DOMAIN Completed, IsAlone(Completed, j), NEW key \in DOMAIN Completed[j].keys
                 PROVE  Completed[j].keys[key].value \in SaidIn(told', Completed[j].path, key)
      BY <2>1 DEF KeysAreTold, IsAlone, Says, SaidIn
    <3>1. Completed[j].path # here
      BY <2>1, CompletedNodes DEF IsNode
    <3>2. Completed[j].keys[key].value \in Says(Completed[j].path, key)
      BY DEF Parsed, KeysAreTold
    <3> QED
      BY <1>1, <3>1, <3>2
  <2>4. ToldAreKeys'
    <3> SUFFICES ASSUME NEW t \in told', t.path # <<>>
                 PROVE  \E j \in DOMAIN Completed : Completed[j].path = t.path
                                                    /\ t.key \in DOMAIN Completed[j].keys
      BY <2>1 DEF ToldAreKeys
    <3> QED
      BY <1>1, <2>1 DEF Parsed, ToldAreKeys
  <2>5. TopIsTold'
    <3>1. ASSUME NEW key \in DOMAIN topKeys'
          PROVE  topKeys'[key].value \in SaidIn(told', <<>>, key)
      <4>1. CASE key = k
        BY <1>1, <2>1, <4>1 DEF Amend
      <4>2. CASE key # k
        <5>1. key \in DOMAIN topKeys /\ topKeys'[key] = topKeys[key]
          BY <2>1, <4>2 DEF Amend
        <5>2. topKeys[key].value \in Says(<<>>, key)
          BY <5>1 DEF Parsed, TopIsTold
        <5> QED
          BY <1>1, <4>2, <5>1, <5>2
      <4> QED
        BY <4>1, <4>2
    <3>2. ASSUME NEW t \in told', t.path = <<>>
          PROVE  t.key \in DOMAIN topKeys'
      <4>1. DOMAIN topKeys' = DOMAIN topKeys \cup {k}
        BY <2>1 DEF Amend
      <4> QED
        BY <1>1, <3>2, <4>1 DEF Parsed, TopIsTold
    <3> QED
      BY <3>1, <3>2 DEF TopIsTold, Says, SaidIn
  <2> QED
    BY <2>2, <2>3, <2>4, <2>5 DEF Parsed
<1>3. CASE branch # <<>>
  <2> DEFINE m == Len(branch)
             n == branch[m]
             e == [path |-> n.path, keys |-> Amend(n.keys, k, v)]
             z == Len(spNodes) + 1
  <2>1. /\ m \in DOMAIN branch /\ DOMAIN branch = 1..m /\ m \in Nat /\ AList(branch) /\ IsNode(n)
        /\ Len(spNodes) \in Nat /\ DOMAIN spNodes = 1..Len(spNodes) /\ AList(spNodes)
        /\ Completed = Append(spNodes, n) /\ here = n.path /\ Len(n.path) = m
    BY <1>3, CompletedNodes DEF Parsed, BranchIsOne, ParentsComeFirst, Completed, HereIs, Last
  <2> HIDE DEF here, m, n
  <2>2. branch' = [branch EXCEPT ![m] = e] /\ topKeys' = topKeys
    <3>1. n = [path |-> n.path, keys |-> n.keys]
      BY <2>1 DEF IsNode
    <3>2. [n EXCEPT !.keys = Amend(n.keys, k, v)] = e
      BY <3>1
    <3>3. branch' = [branch EXCEPT ![m] = [n EXCEPT !.keys = Amend(n.keys, k, v)]] /\ topKeys' = topKeys
      BY <1>3 DEF PutKey, m, n
    <3> QED
      BY <3>2, <3>3
  <2>3. /\ AList(branch') /\ Len(branch') = m /\ DOMAIN branch' = DOMAIN branch
        /\ \A j \in DOMAIN branch : branch'[j] = IF j = m THEN e ELSE branch[j]
    <3>1. \A f : branch' = [branch EXCEPT ![m] = f] =>
            /\ AList(branch') /\ Len(branch') = m /\ DOMAIN branch' = DOMAIN branch
            /\ \A j \in DOMAIN branch : branch'[j] = IF j = m THEN f ELSE branch[j]
      <4> SUFFICES ASSUME NEW f, branch' = [branch EXCEPT ![m] = f]
                   PROVE  /\ AList(branch') /\ Len(branch') = m /\ DOMAIN branch' = DOMAIN branch
                          /\ \A j \in DOMAIN branch : branch'[j] = IF j = m THEN f ELSE branch[j]
        OBVIOUS
      <4>1. AList(branch) /\ m \in DOMAIN branch /\ Len(branch) = m
        BY <2>1 DEF m
      <4>2. /\ AList([branch EXCEPT ![m] = f]) /\ Len([branch EXCEPT ![m] = f]) = Len(branch)
            /\ DOMAIN [branch EXCEPT ![m] = f] = DOMAIN branch
            /\ \A j \in DOMAIN branch : [branch EXCEPT ![m] = f][j] = IF j = m THEN f ELSE branch[j]
        BY <4>1, ChangeOfAList
      <4> QED
        BY <4>1, <4>2
    <3> QED
      BY <2>2, <3>1, Zenon
  <2>4. \A j \in DOMAIN branch : branch'[j].path = branch[j].path /\ (IsNode(branch[j]) => IsNode(branch'[j]))
    BY <2>1, <2>3 DEF IsNode, n
  <2>5. Completed' = Append(spNodes, e)
    <3>1. branch' # <<>> /\ Last(branch') = e
      BY <2>1, <2>3, ListFacts DEF Last
    <3> QED
      BY <3>1 DEF Completed
  <2>6. /\ DOMAIN Completed = 1..z /\ Completed[z] = n
        /\ DOMAIN Completed' = 1..z /\ Completed'[z] = e
        /\ \A j \in DOMAIN spNodes : Completed[j] = spNodes[j] /\ Completed'[j] = spNodes[j]
    BY <2>1, <2>5, AppendToAList
  <2>7. z \in 1..z /\ \A j \in 1..z : j = z \/ j \in DOMAIN spNodes
    BY <2>1
  <2>8. BranchIsOne'
    <3>1. \A j \in DOMAIN branch : IsNode(branch'[j]) /\ Len(branch'[j].path) = j
      BY <2>4 DEF Parsed, BranchIsOne
    <3>2. \A j \in DOMAIN branch : \A i \in 1..j : i \in DOMAIN branch
      BY <2>1
    <3>3. \A j \in DOMAIN branch : \A i \in 1..j : branch'[i].path = SubSeq(branch'[j].path, 1, i)
      BY <2>4, <3>2 DEF Parsed, BranchIsOne
    <3> QED
      BY <2>3, <3>1, <3>3 DEF BranchIsOne
  <2>9. AboveAreNodes' /\ ParentsComeFirst'
    BY <2>3, <2>4 DEF Parsed, AboveAreNodes, ParentsComeFirst
  <2> HIDE DEF z
  <2>10. e.path = n.path /\ e.keys = Amend(n.keys, k, v)
    OBVIOUS
  <2> HIDE DEF e
  <2>11. \A j \in 1..z : Completed'[j].path = Completed[j].path
                         /\ DOMAIN Completed[j].keys \subseteq DOMAIN Completed'[j].keys
    <3>1. DOMAIN n.keys \subseteq DOMAIN e.keys
      BY <2>10 DEF Amend
    <3> QED
      BY <2>6, <2>7, <2>10, <3>1
  <2>12. \A j \in 1..z : IsAlone(Completed', j) => IsAlone(Completed, j)
    BY <2>6, <2>11 DEF IsAlone
  <2>13. KeysAreTold'
    <3> SUFFICES ASSUME NEW j \in 1..z, IsAlone(Completed', j), NEW key \in DOMAIN Completed'[j].keys
                 PROVE  Completed'[j].keys[key].value \in SaidIn(told', Completed'[j].path, key)
      BY <2>6 DEF KeysAreTold, Says, SaidIn
    <3>1. IsAlone(Completed, j)
      BY <2>12
    <3>2. \A q \in DOMAIN Completed[j].keys : Completed[j].keys[q].value \in Says(Completed[j].path, q)
      BY <2>6, <3>1 DEF Parsed, KeysAreTold
    <3>3. CASE j = z
      <4>1. CASE key = k
        <5>1. Completed'[j].keys[key] = v /\ Completed'[j].path = here
          BY <2>1, <2>6, <2>10, <3>3, <4>1 DEF Amend
        <5> QED
          BY <1>1, <4>1, <5>1
      <4>2. CASE key # k
        <5>1. key \in DOMAIN n.keys /\ Completed'[j].keys[key] = n.keys[key]
          BY <2>6, <2>10, <3>3, <4>2 DEF Amend
        <5>2. n.keys[key].value \in Says(Completed[j].path, key)
          BY <2>6, <3>2, <3>3, <5>1
        <5> QED
          BY <1>1, <2>11, <4>2, <5>1, <5>2
      <4> QED
        BY <4>1, <4>2
    <3>4. CASE j # z
      <4>1. Completed[j].path # here
        BY <2>1, <2>6, <2>7, <3>1, <3>4 DEF IsAlone
      <4>2. Completed'[j] = Completed[j]
        BY <2>6, <2>7, <3>4
      <4> QED
        BY <1>1, <3>2, <4>1, <4>2
    <3> QED
      BY <3>3, <3>4
  <2>14. ToldAreKeys'
    <3> SUFFICES ASSUME NEW t \in told', t.path # <<>>
                 PROVE  \E j \in 1..z : Completed'[j].path = t.path /\ t.key \in DOMAIN Completed'[j].keys
      BY <2>6 DEF ToldAreKeys
    <3>1. CASE t \in told
      <4>1. PICK j \in 1..z : Completed[j].path = t.path /\ t.key \in DOMAIN Completed[j].keys
        BY <2>6, <3>1 DEF Parsed, ToldAreKeys
      <4> QED
        BY <2>11, <4>1
    <3>2. CASE t.path = here /\ t.key = k
      <4>1. k \in DOMAIN e.keys
        BY <2>10 DEF Amend
      <4> QED
        BY <2>1, <2>6, <2>7, <2>10, <3>2, <4>1
    <3> QED
      BY <1>1, <3>1, <3>2
  <2>15. TopIsTold'
    <3>1. here # <<>>
      BY <2>1 DEF IsNode
    <3>2. \A key \in DOMAIN topKeys : topKeys[key].value \in SaidIn(told', <<>>, key)
      BY <1>1, <3>1 DEF Parsed, TopIsTold
    <3>3. \A t \in told' : t.path = <<>> => t.key \in DOMAIN topKeys
      BY <1>1, <3>1 DEF Parsed, TopIsTold
    <3> QED
      BY <2>2, <3>2, <3>3 DEF TopIsTold, Says, SaidIn
  <2> QED
    BY <2>8, <2>9, <2>13, <2>14, <2>15 DEF Parsed
<1> QED
  BY <1>2, <1>3

(* A node begins below those the branch keeps. *)
LEMMA NodeBegins ==
  ASSUME Parsed, NEW d \in Nat \ {0}, NEW name \in NodeNames, d <= Len(branch) + 1,
         NEW above, above = SubSeq(branch, 1, d - 1),
         NEW path, path = (IF above = <<>> THEN <<>> ELSE Last(above).path) \o <<name>>,
         spNodes' = Completed, branch' = Append(above, [path |-> path, keys |-> NoKeys]),
         UNCHANGED <<topKeys, told>>
  PROVE  Parsed'
<1> DEFINE q == IF above = <<>> THEN <<>> ELSE Last(above).path
           e == [path |-> path, keys |-> NoKeys]
<1>1. /\ Len(branch) \in Nat /\ DOMAIN branch = 1..Len(branch) /\ AList(branch)
      /\ d - 1 \in 0..Len(branch)
  BY CompletedNodes DEF Parsed, BranchIsOne
<1>2. AList(above) /\ Len(above) = d - 1 /\ \A i \in 1..(d - 1) : above[i] = branch[i]
  BY <1>1, StartOfAList
<1>3. /\ q \in Seq(NodeNames) /\ Len(q) = d - 1
      /\ d > 1 => q = branch[d - 1].path
  <2>1. CASE above = <<>>
    <3>1. q = <<>> /\ d - 1 = 0
      BY <1>2, <2>1, ListFacts
    <3> QED
      BY <3>1, EmptySeq
  <2>2. CASE above # <<>>
    <3>1. d - 1 \in 1..(d - 1) /\ d - 1 \in DOMAIN branch
      BY <1>1, <1>2, <2>2, ListFacts
    <3>2. q = branch[d - 1].path
      BY <1>2, <2>2, <3>1 DEF Last
    <3> QED
      BY <3>1, <3>2 DEF Parsed, BranchIsOne, IsNode
  <2> QED
    BY <2>1, <2>2
<1>4. path = q \o <<name>>
  OBVIOUS
<1> HIDE DEF q
<1>5. /\ path \in Seq(NodeNames) /\ Len(path) = d /\ path # <<>>
      /\ \A i \in 1..(d - 1) : path[i] = q[i]
  <2>1. path = Append(q, name)
    BY <1>3, <1>4, AppendIsConcat
  <2>2. /\ path \in Seq(NodeNames) /\ Len(path) = Len(q) + 1 /\ path # <<>>
        /\ \A i \in 1..Len(q) : path[i] = q[i]
    <3>1. /\ Append(q, name) \in Seq(NodeNames) /\ Append(q, name) # <<>>
          /\ Len(Append(q, name)) = Len(q) + 1 /\ \A i \in 1..Len(q) : Append(q, name)[i] = q[i]
      BY <1>3, AppendProperties
    <3> QED
      BY <2>1, <3>1
  <2>3. Len(q) = d - 1 /\ Len(q) + 1 = d
    BY <1>3
  <2> QED
    BY <2>2, <2>3
<1>6. /\ AList(branch') /\ Len(branch') = d /\ DOMAIN branch' = 1..d /\ branch' # <<>> /\ branch'[d] = e
      /\ \A i \in 1..(d - 1) : branch'[i] = branch[i]
  <2>1. DOMAIN above = 1..(d - 1) /\ Len(above) + 1 = d
    BY <1>2, ListFacts
  <2> QED
    BY <1>2, <2>1, AppendToAList
<1>7. IsNode(e) /\ e.path = path /\ DOMAIN e.keys = {}
  BY <1>5 DEF IsNode, NoKeys
<1> HIDE DEF e
<1>8. \A j \in 1..d : j = d \/ (j \in 1..(d - 1) /\ j \in DOMAIN branch)
  BY <1>1
<1>9. BranchIsOne'
  <2>1. \A j \in 1..d : IsNode(branch'[j]) /\ Len(branch'[j].path) = j
    BY <1>5, <1>6, <1>7, <1>8 DEF Parsed, BranchIsOne
  <2>2. ASSUME NEW j \in 1..d, NEW i \in 1..j
        PROVE  branch'[i].path = SubSeq(branch'[j].path, 1, i)
    <3>1. CASE j # d
      <4>1. j \in 1..(d - 1) /\ i \in 1..(d - 1) /\ j \in DOMAIN branch
        BY <1>8, <3>1
      <4> QED
        BY <1>6, <4>1 DEF Parsed, BranchIsOne
    <3>2. CASE j = d /\ i = d
      <4>1. SubSeq(path, 1, d) = path
        BY <1>5, PathFacts
      <4> QED
        BY <1>6, <1>7, <3>2, <4>1
    <3>3. CASE j = d /\ i # d
      <4>1. i \in 1..(d - 1) /\ d - 1 \in DOMAIN branch /\ d > 1 /\ i \in Nat /\ i \in 1..Len(q)
            /\ i <= Len(q) /\ i <= Len(path)
        <5>1. Len(q) = d - 1 /\ Len(path) = d
          BY <1>3, <1>5
        <5>2. i \in 1..(d - 1) /\ i <= d - 1 /\ d > 1 /\ i \in Nat /\ i <= d
          BY <3>3
        <5>3. d - 1 \in DOMAIN branch
          BY <1>1, <5>2
        <5> QED
          BY <5>1, <5>2, <5>3, Zenon
      <4>2. branch[i].path = SubSeq(q, 1, i)
        <5>1. i \in 1..(d - 1) /\ d - 1 \in DOMAIN branch /\ q = branch[d - 1].path
          BY <1>3, <4>1
        <5> QED
          BY <5>1 DEF Parsed, BranchIsOne
      <4>3. \A h \in 1..i : path[h] = q[h]
        <5>1. \A h \in 1..i : h \in 1..(d - 1)
          BY <4>1
        <5> QED
          BY <1>5, <5>1
      <4>4. SubSeq(path, 1, i) = SubSeq(q, 1, i)
        <5>1. path \in Seq(NodeNames) /\ q \in Seq(NodeNames) /\ i \in Nat /\ i <= Len(path) /\ i <= Len(q)
          BY <1>3, <1>5, <4>1
        <5> QED
          <6>1. \A a, b \in Seq(NodeNames) : \A n \in Nat :
                  n <= Len(a) /\ n <= Len(b) /\ (\A h \in 1..n : a[h] = b[h]) => SubSeq(a, 1, n) = SubSeq(b, 1, n)
            BY StartsAgree
          <6> QED
            BY <4>3, <5>1, <6>1, Zenon
      <4> QED
        BY <1>6, <1>7, <3>3, <4>1, <4>2, <4>4
    <3> QED
      BY <3>1, <3>2, <3>3
  <2> QED
    BY <1>6, <2>1, <2>2 DEF BranchIsOne
<1>10. AboveAreNodes'
  <2>1. ASSUME NEW j \in 1..d, j < d
        PROVE  \E k \in DOMAIN Completed : Completed[k].path = branch'[j].path
    <3>1. j \in 1..(d - 1) /\ j \in DOMAIN branch
      BY <1>8, <2>1
    <3>2. branch'[j] = branch[j]
      BY <1>6, <3>1
    <3> QED
      BY <3>1, <3>2, BranchIsCompleted
  <2> QED
    BY <1>6, <2>1 DEF AboveAreNodes
<1>11. ParentsComeFirst'
  BY CompletedNodes, CompletedInOrder DEF ParentsComeFirst
<1>12. Completed' = Append(Completed, e)
  BY <1>6 DEF Completed, Last
<1> DEFINE z == Len(Completed) + 1
<1>13. /\ DOMAIN Completed' = 1..z /\ Completed'[z] = e
       /\ \A j \in DOMAIN Completed : j \in DOMAIN Completed' /\ Completed'[j] = Completed[j]
       /\ \A j \in 1..z : j = z \/ j \in DOMAIN Completed
  <2>1. Len(Completed) \in Nat /\ DOMAIN Completed = 1..Len(Completed) /\ AList(Completed)
    BY CompletedNodes
  <2>2. \A j \in 1..z : j = z \/ j \in DOMAIN Completed
    BY <2>1
  <2> QED
    BY <1>12, <2>1, <2>2, AppendToAList
<1>14. \A p, key : Says(p, key)' = Says(p, key)
  BY DEF Says
<1> HIDE DEF z
<1>15. KeysAreTold'
  <2> SUFFICES ASSUME NEW j \in 1..z, IsAlone(Completed', j), NEW key \in DOMAIN Completed'[j].keys
               PROVE  Completed'[j].keys[key].value \in Says(Completed'[j].path, key)
    BY <1>13, <1>14 DEF KeysAreTold
  <2>1. j # z
    BY <1>7, <1>13
  <2>2. j \in DOMAIN Completed /\ Completed'[j] = Completed[j] /\ IsAlone(Completed, j)
    BY <1>13, <2>1 DEF IsAlone
  <2> QED
    BY <2>2 DEF Parsed, KeysAreTold
<1>16. ToldAreKeys'
  BY <1>13 DEF Parsed, ToldAreKeys
<1>17. TopIsTold'
  BY <1>14 DEF Parsed, TopIsTold
<1> QED
  BY <1>9, <1>10, <1>11, <1>15, <1>16, <1>17 DEF Parsed

(* A line that is read is one of the installation's. *)
LEMMA LinesAreLines ==
  ASSUME ReadsLines, NEW i \in 1..Len(lines)
  PROVE  IsLine(lines[i])
<1>1. lines[i] \in LinesOf(files)
  BY ElementOfSeq DEF ReadsLines
<1> QED
  BY <1>1, ImportAssumption DEF LinesOf, ReadsLines

(* Reading adds lines of the installation's files. *)
LEMMA ReadLineKeeps ==
  ASSUME ImportInv, ReadLine
  PROVE  ImportInv'
<1> DEFINE Open == [file : DOMAIN files, next : Nat \ {0}]
           f    == Head(openFiles).file
           i    == Head(openFiles).next
           text == files[f]
           rest == <<[file |-> f, next |-> i + 1]>> \o Tail(openFiles)
<1>1. openFiles \in Seq(Open) /\ openFiles # <<>> /\ files \in Installs /\ files' = files /\ place' = place
  BY DEF ImportInv, ReadsLines, ReadLine
<1>2. Head(openFiles) \in Open /\ Tail(openFiles) \in Seq(Open)
  BY <1>1, HeadTailProperties
<1>3. f \in DOMAIN files /\ i \in Nat \ {0}
  BY <1>2
<1>4. rest \in Seq(Open)
  <2>1. <<[file |-> f, next |-> i + 1]>> \in Seq(Open)
    BY <1>3
  <2> QED
    BY <1>2, <2>1, ConcatProperties
<1>5. \A t \in DOMAIN files : <<[file |-> t, next |-> 1]>> \o rest \in Seq(Open)
  <2>1. \A t \in DOMAIN files : <<[file |-> t, next |-> 1]>> \in Seq(Open)
    OBVIOUS
  <2> HIDE DEF Open, rest
  <2> QED
    BY <1>4, <2>1, ConcatProperties
<1>6. i <= Len(text) => text[i] \in LinesOf(files)
  <2>1. Len(text) \in Nat /\ DOMAIN text = 1..Len(text)
    BY <1>1, <1>3, ImportAssumption
  <2> QED
    BY <1>3, <2>1 DEF LinesOf
<1>7. i <= Len(text) => Append(lines, text[i]) \in Seq(LinesOf(files))
  <2> HIDE DEF text, i
  <2> QED
    BY <1>6, AppendProperties DEF ImportInv, ReadsLines
<1>8. /\ openFiles' \in Seq(Open) /\ lines' \in Seq(LinesOf(files)) /\ step' \in {"read", "parse", "failed"}
      /\ UNCHANGED <<parserVars, told>>
  <2>1. /\ step = "read" /\ lines \in Seq(LinesOf(files))
        /\ \/ /\ i > Len(text)
              /\ openFiles' = Tail(openFiles)
              /\ step' \in {"read", "parse"} /\ UNCHANGED lines
           \/ /\ i <= Len(text) /\ lines' = Append(lines, text[i]) /\ openFiles' = rest /\ UNCHANGED step
           \/ openFiles' = rest /\ UNCHANGED <<step, lines>>
           \/ step' = "failed" /\ UNCHANGED <<openFiles, lines>>
           \/ /\ text[i].file \in DOMAIN files /\ UNCHANGED <<step, lines>>
              /\ openFiles' = <<[file |-> text[i].file, next |-> 1]>> \o rest
        /\ UNCHANGED <<parserVars, told>>
    BY DEF ReadLine, ImportInv, ReadsLines
  <2> HIDE DEF Open, rest, text, i
  <2> QED
    BY <1>1, <1>2, <1>4, <1>5, <1>7, <2>1
<1>9. ReadsLines'
  BY <1>1, <1>8 DEF ReadsLines, ImportInv
<1>10. Parsed'
  BY <1>8, ParsedStays DEF ImportInv, Parsed, parserVars
<1>11. NodesAreHandled'
  BY <1>8 DEF NodesAreHandled
<1> QED
  BY <1>9, <1>10, <1>11 DEF ImportInv, Parsed

(* Each kind of line keeps the nodes and what was told of them together.   *)
LEMMA ParseLineKeeps ==
  ASSUME ImportInv, ParseLine
  PROVE  ImportInv'
<1> DEFINE l == lines[place]
<1>1. /\ step = "parse" /\ place \in 1..Len(lines) /\ place \in Nat /\ Parsed /\ ReadsLines
      /\ UNCHANGED <<files, readerVars>> /\ place' = place + 1
      /\ Continue(l) \/ EnterSection(l) \/ DefineProbe(l) \/ BeginNode(l) \/ GiveKey(l) \/ Skip(l)
  <2>1. step = "parse" /\ place <= Len(lines) /\ place \in Nat \ {0} /\ Parsed /\ ReadsLines
    BY DEF ParseLine, ImportInv, ReadsLines, Parsed
  <2>2. Len(lines) \in Nat
    BY <2>1, LenProperties DEF ReadsLines
  <2> QED
    BY <2>1, <2>2 DEF ParseLine
<1>2. IsLine(l)
  BY <1>1, LinesAreLines
<1> HIDE DEF l
<1>3. Parsed' /\ step' # "convert" /\ step' # "done"
  <2>1. CASE Continue(l)
    <3> DEFINE v == KeysHere[lastKey].value
               w == [value |-> Joined(v, l), more |-> l.kind = "key" /\ l.more]
               R == {Said(lastKey, v)}
    <3>1. /\ PutKey(lastKey, w) /\ told' = (told \ R) \cup {Said(lastKey, w.value)}
          /\ \A t \in R : t.path = HereIs /\ t.key = lastKey
          /\ UNCHANGED <<spNodes, step>>
      BY <2>1 DEF Continue, Said
    <3> HIDE DEF w, R
    <3> QED
      BY <1>1, <3>1, KeysChange
  <2>2. CASE EnterSection(l)
    BY <1>1, <2>2, SectionBegins DEF EnterSection, AtSection
  <2>3. CASE DefineProbe(l)
    BY <1>1, <2>3, ParsedStays DEF DefineProbe
  <2>4. CASE BeginNode(l)
    <3>1. CASE l.depth > Len(branch) + 1
      BY <1>1, <2>4, <3>1, ParsedStays DEF BeginNode
    <3>2. CASE ~(l.depth > Len(branch) + 1)
      <4> DEFINE above == SubSeq(branch, 1, l.depth - 1)
                 path  == (IF above = <<>> THEN <<>> ELSE Last(above).path) \o <<l.name>>
      <4>1. /\ spNodes' = Completed /\ branch' = Append(above, [path |-> path, keys |-> NoKeys])
            /\ UNCHANGED <<topKeys, told, step>> /\ l.kind = "node"
        BY <2>4, <3>2 DEF BeginNode
      <4>2. l.depth \in Nat \ {0} /\ l.name \in NodeNames /\ Len(branch) \in Nat
        BY <1>1, <1>2, <4>1, CompletedNodes DEF IsLine
      <4>3. l.depth <= Len(branch) + 1
        BY <3>2, <4>2
      <4> HIDE DEF path, above
      <4>4. above = SubSeq(branch, 1, l.depth - 1)
            /\ path = (IF above = <<>> THEN <<>> ELSE Last(above).path) \o <<l.name>>
        BY DEF path, above
      <4>5. Parsed'
        BY <1>1, <4>1, <4>2, <4>3, <4>4, NodeBegins
      <4> QED
        BY <1>1, <4>1, <4>5
    <3> QED
      BY <3>1, <3>2
  <2>5. CASE GiveKey(l)
    <3> DEFINE w == [value |-> l.value, more |-> l.more]
               R == {}
    <3>1. /\ PutKey(l.key, w) /\ told' = (told \ R) \cup {Said(l.key, w.value)}
          /\ UNCHANGED <<spNodes, step>>
      BY <2>5 DEF GiveKey
    <3>2. \A t \in R : t.path = HereIs /\ t.key = l.key
      OBVIOUS
    <3> HIDE DEF w, R
    <3> QED
      BY <1>1, <3>1, <3>2, KeysChange
  <2>6. CASE Skip(l)
    BY <1>1, <2>6, ParsedStays DEF Skip, parserVars
  <2> QED
    BY <1>1, <2>1, <2>2, <2>3, <2>4, <2>5, <2>6
<1>4. ReadsLines'
  BY <1>1 DEF ReadsLines, readerVars
<1>5. NodesAreHandled'
  BY <1>3 DEF NodesAreHandled
<1> QED
  BY <1>3, <1>4, <1>5 DEF ImportInv, Parsed

(* At the end all nodes are put down and none is converted. *)
LEMMA EndOfLinesKeeps ==
  ASSUME ImportInv, EndOfLines
  PROVE  ImportInv'
<1>1. /\ spNodes' = Completed /\ branch' = <<>> /\ place' = 1 /\ step' = "convert"
      /\ UNCHANGED <<files, openFiles, lines, topKeys, told>>
  BY DEF EndOfLines, readerVars
<1>2. Parsed' /\ Completed' = Completed
  BY <1>1, SectionBegins DEF ImportInv, Parsed
<1>3. ReadsLines'
  BY <1>1 DEF ImportInv, ReadsLines
<1>4. NodesAreHandled'
  <2>1. DOMAIN spNodes' = 1..Len(Completed)
    BY <1>1, CompletedNodes DEF ImportInv, Parsed
  <2>2. \A k \in DOMAIN spNodes' : ~(k < 1)
    BY <2>1
  <2> QED
    BY <1>1, <2>2 DEF NodesAreHandled
<1> QED
  BY <1>2, <1>3, <1>4 DEF ImportInv, Parsed

(* The conversion of a node does not touch what another's came to.          *)
LEMMA ConvertKeeps ==
  ASSUME ImportInv, Convert
  PROVE  ImportInv'
<1> DEFINE n     == spNodes[place]
           host  == KeyOf(n.keys, "host")
           probe == ProbeAt[n.path]
           first == IF Twice(host, probe) THEN Amend(imported, V6(n.path), EntryOf(n, "v6")) ELSE imported
<1>1. /\ step = "convert" /\ place <= Len(spNodes) /\ place' = place + 1 /\ place \in Nat \ {0}
      /\ UNCHANGED <<files, alsoIPv6, step, openFiles, lines, section, branch, topKeys, spNodes, modules, told>>
      /\ imported' = (IF host \in Unsupported THEN imported
                      ELSE Amend(first, n.path, EntryOf(n, FamilyOf(host, probe))))
      /\ warned' = IF HasWarning(n) THEN warned \cup {n.path} ELSE warned
      /\ branch = <<>> /\ \A k \in DOMAIN spNodes : k < place => IsHandled(k)
  BY DEF Convert, ImportInv, ReadsLines, NodesAreHandled, readerVars, parserVars
<1>2. Parsed'
  BY <1>1, ParsedStays DEF ImportInv, Parsed
<1>3. ReadsLines'
  BY <1>1 DEF ImportInv, ReadsLines
<1>4. /\ Len(spNodes) \in Nat /\ DOMAIN spNodes = 1..Len(spNodes) /\ place \in DOMAIN spNodes
      /\ \A k \in DOMAIN spNodes : spNodes[k].path \in Seq(NodeNames) /\ spNodes[k].path # <<>>
  <2>1. Len(spNodes) \in Nat /\ DOMAIN spNodes = 1..Len(spNodes)
    BY ListFacts DEF ImportInv, ParentsComeFirst
  <2> QED
    BY <1>1, <2>1 DEF ImportInv, ParentsComeFirst, IsNode
<1>5. /\ ProbeAt' = ProbeAt
      /\ \A p : ClashesByFamily(p)' <=> ClashesByFamily(p)
      /\ \A m, family : EntryOf(m, family)' = EntryOf(m, family)
      /\ \A h, p : Twice(h, p)' <=> Twice(h, p)
  <2>1. ProbeAt' = ProbeAt
    BY <1>1 DEF ProbeAt, ProbesUpTo
  <2>2. \A m, family : EntryOf(m, family)' = EntryOf(m, family)
    BY <1>1, <2>1 DEF EntryOf, ImportedType, ModuleAt
  <2>3. \A h, p : Twice(h, p)' <=> Twice(h, p)
    BY <1>1 DEF Twice
  <2>4. \A p : ClashesByFamily(p)' <=> ClashesByFamily(p)
    BY <1>1 DEF ClashesByFamily
  <2> QED
    BY <2>1, <2>2, <2>3, <2>4
<1>6. ASSUME NEW k \in DOMAIN spNodes, k < place' 
      PROVE  IsHandled(k)'
  <2> DEFINE m == spNodes[k]
             hk == KeyOf(m.keys, "host")
             pk == ProbeAt[m.path]
  <2>1. CASE hk \in Unsupported
    <3>1. m.path \in warned'
      <4>1. CASE k = place
        BY <1>1, <2>1, <4>1 DEF HasWarning
      <4>2. CASE k # place
        <5>1. k < place
          BY <1>1, <1>4, <1>6, <4>2
        <5>2. m.path \in warned
          BY <1>1, <2>1, <5>1 DEF IsHandled
        <5> QED
          BY <1>1, <5>2
      <4> QED
        BY <4>1, <4>2
    <3> QED
      BY <1>1, <2>1, <3>1 DEF IsHandled
  <2>2. CASE hk \notin Unsupported
    <3>1. ASSUME IsAlone(spNodes, k), ~ClashesByFamily(m.path)
          PROVE  /\ m.path \in DOMAIN imported'
                 /\ imported'[m.path] = EntryOf(m, FamilyOf(hk, pk))
                 /\ Twice(hk, pk) => V6(m.path) \in DOMAIN imported' /\ imported'[V6(m.path)] = EntryOf(m, "v6")
      <4>1. \A j \in DOMAIN spNodes : V6(spNodes[j].path) # m.path /\ spNodes[j].path # V6(m.path)
        BY <3>1 DEF ClashesByFamily
      <4>2. CASE k = place
        <5>1. imported' = Amend(first, m.path, EntryOf(m, FamilyOf(hk, pk)))
          BY <1>1, <2>2, <4>2
        <5>2. Twice(hk, pk) => first = Amend(imported, V6(m.path), EntryOf(m, "v6"))
          BY <4>2
        <5>3. m.path # V6(m.path)
          BY <4>1
        <5> HIDE DEF m, hk, pk, first
        <5> QED
          BY <5>1, <5>2, <5>3 DEF Amend
      <4>3. CASE k # place
        <5>1. k < place
          BY <1>1, <1>4, <1>6, <4>3
        <5>2. Arrived(m)
          BY <1>1, <2>2, <3>1, <5>1 DEF IsHandled
        <5>3. n.path # m.path /\ V6(n.path) # m.path /\ n.path # V6(m.path)
          BY <1>4, <3>1, <4>1, <4>3 DEF IsAlone
        <5>4. V6(n.path) # V6(m.path)
          BY <1>4, <5>3, SecondsDiffer
        <5>5. \A p : p # n.path /\ p # V6(n.path) /\ p \in DOMAIN imported =>
                     p \in DOMAIN imported' /\ imported'[p] = imported[p]
          <6> HIDE DEF n, host, probe
          <6> QED
            BY <1>1 DEF Amend
        <5> QED
          BY <5>2, <5>3, <5>4, <5>5 DEF Arrived
      <4> QED
        BY <4>2, <4>3
    <3>2. IsAlone(spNodes, k)' <=> IsAlone(spNodes, k)
      BY <1>1 DEF IsAlone
    <3>3. IsAlone(spNodes, k) /\ ~ClashesByFamily(m.path) => Arrived(m)'
      BY <1>1, <1>5, <3>1 DEF Arrived, FamilyOf
    <3>4. ClashesByFamily(spNodes[k].path)' <=> ClashesByFamily(m.path)
      BY <1>1 DEF ClashesByFamily
    <3> QED
      BY <1>1, <2>2, <3>2, <3>3, <3>4 DEF IsHandled
  <2> QED
    BY <2>1, <2>2
<1>7. NodesAreHandled'
  <2>1. step' # "done"
    BY <1>1
  <2>2. \A k \in DOMAIN spNodes' : k < place' => IsHandled(k)'
    BY <1>1, <1>6
  <2> QED
    BY <1>1, <2>1, <2>2 DEF NodesAreHandled
<1> QED
  BY <1>2, <1>3, <1>7 DEF ImportInv, Parsed

(* The end of the import changes none of what it came to. *)
LEMMA FinishKeeps ==
  ASSUME ImportInv, Finish
  PROVE  ImportInv'
<1>1. /\ step = "convert" /\ place > Len(spNodes) /\ step' \in {"failed", "done"}
      /\ UNCHANGED <<files, alsoIPv6, place, readerVars, parserVars, warned, imported, told>>
  BY DEF Finish
<1>2. Parsed'
  BY <1>1, ParsedStays DEF ImportInv, Parsed, parserVars
<1>3. ReadsLines'
  BY <1>1 DEF ImportInv, ReadsLines, readerVars
<1>4. NodesAreHandled'
  <2>1. branch' = <<>> /\ place' > Len(spNodes')
    BY <1>1 DEF ImportInv, NodesAreHandled, parserVars
  <2>2. \A k \in DOMAIN spNodes : k < place => IsHandled(k)
    BY <1>1 DEF ImportInv, NodesAreHandled
  <2>3. \A k : IsHandled(k)' <=> IsHandled(k)
    <3>1. ProbeAt' = ProbeAt
      BY <1>1 DEF ProbeAt, ProbesUpTo, parserVars
    <3> QED
      BY <1>1, <3>1 DEF parserVars, IsHandled, IsAlone, ClashesByFamily, Arrived, EntryOf, ImportedType, ModuleAt, Twice
  <2> QED
    BY <1>1, <2>1, <2>2, <2>3 DEF NodesAreHandled, parserVars
<1> QED
  BY <1>2, <1>3, <1>4 DEF ImportInv, Parsed

(* Nor does a step of others. *)
LEMMA ImportStutters ==
  ASSUME ImportInv, UNCHANGED importVars
  PROVE  ImportInv'
<1>1. Parsed'
  BY ParsedStays DEF ImportInv, Parsed, importVars, parserVars
<1>2. ReadsLines'
  BY DEF ImportInv, ReadsLines, importVars, readerVars
<1>3. NodesAreHandled'
  <2>1. ProbeAt' = ProbeAt
    BY DEF ProbeAt, ProbesUpTo, importVars, parserVars
  <2>2. \A k : IsHandled(k)' <=> IsHandled(k)
    BY <2>1 DEF importVars, parserVars, IsHandled, IsAlone, ClashesByFamily, Arrived, EntryOf, ImportedType, ModuleAt, Twice
  <2> QED
    BY <2>2 DEF ImportInv, NodesAreHandled, importVars, parserVars
<1> QED
  BY <1>1, <1>2, <1>3 DEF ImportInv, Parsed

(* At first nothing is read. *)
LEMMA ImportBegins ==
  ASSUME ImportInit
  PROVE  ImportInv
<1>1. ReadsLines
  <2>1. <<>> \in Seq(LinesOf(files))
    BY EmptySeq
  <2>2. TopFile \in DOMAIN files
    BY ImportAssumption DEF ImportInit
  <2> QED
    BY <2>1, <2>2 DEF ImportInit, ReadsLines
<1>2. Parsed
  <2>1. /\ branch = <<>> /\ spNodes = <<>> /\ told = {} /\ topKeys = NoKeys /\ Completed = <<>>
    BY DEF ImportInit, Completed
  <2>2. DOMAIN <<>> = {} /\ DOMAIN NoKeys = {}
    BY DEF NoKeys
  <2> QED
    BY <2>1, <2>2, NothingIsAList
    DEF Parsed, BranchIsOne, AboveAreNodes, ParentsComeFirst, KeysAreTold, ToldAreKeys, TopIsTold
<1>3. NodesAreHandled
  BY DEF ImportInit, NodesAreHandled
<1> QED
  BY <1>1, <1>2, <1>3 DEF ImportInv, Parsed

(* The import's inductive invariant, and what it is for: each host of an    *)
(* installation arrives with the probe that holds where it is, or is warned *)
(* about, unless it is repeated or clashes with another's second family.    *)
THEOREM HostsArrive == ImportSpec => []HostsAreAccountedFor
<1>1. ImportInit => ImportInv
  BY ImportBegins
<1>2. ImportInv /\ [ImportNext]_importVars => ImportInv'
  BY ReadLineKeeps, ParseLineKeeps, EndOfLinesKeeps, ConvertKeeps, FinishKeeps, ImportStutters DEF ImportNext
<1>3. ImportInv => HostsAreAccountedFor
  BY TheHandledAreAccountedFor
<1> QED
  BY <1>1, <1>2, <1>3, PTL DEF ImportSpec
=============================================================================
