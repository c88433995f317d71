------------------------- MODULE AlertManagerProofs -------------------------
(***************************************************************************)
(* What holds of the alert manager for any number of rules, silences,      *)
(* measurements, edits and crashes.                                        *)
(***************************************************************************)
EXTENDS AlertManager, TLAPS

(* What is not logged is what the writer has in hand to log, or was dropped. *)
InHand == observer.pc \in {"save", "record"}

LogInv ==
  /\ ~InHand => unlogged \subseteq dropped
  /\ InHand => unlogged \subseteq dropped \cup observer.alerts

(* At first nothing has happened that is not in the log. *)
LEMMA LogInit == Init => LogInv
  BY DEF Init, LogInv, InHand, Idle

(* The writer's own steps hand the transitions on until they are logged. *)
LEMMA LogObserver ==
  ASSUME LogInv, Observer
  PROVE  LogInv'
<1>1. CASE \E readings \in [Rules -> Readings] : Observe(readings)
  <2> PICK readings \in [Rules -> Readings] : Observe(readings)
    BY <1>1
  <2> DEFINE evaluated == {r \in Rules : Reaches(rules[r])}
             e == [r \in evaluated |-> EvaluateValue(RuleRecord(r), Current(r), readings[r], ts + 1)]
             changed == {r \in evaluated : e[r].transition # "none"}
             events == {[rule |-> r, firing |-> e[r].transition = "fired", ts |-> ts + 1] : r \in changed}
             dirty == [r \in evaluated |-> e[r].state]
  <2>1. /\ observer = Idle
        /\ unlogged' = unlogged \cup events /\ dropped' = dropped
        /\ observer' = IF evaluated = {} THEN Idle
                       ELSE [pc |-> "save", dirty |-> dirty, alerts |-> events]
    BY DEF Observe
  <2>2. evaluated = {} => events = {}
    OBVIOUS
  <2> HIDE DEF evaluated, e, changed, events, dirty
  <2>3. unlogged \subseteq dropped
    BY <2>1 DEF LogInv, InHand, Idle
  <2>4. CASE evaluated = {}
    BY <2>1, <2>2, <2>3, <2>4 DEF LogInv, InHand, Idle
  <2>5. CASE evaluated # {}
    BY <2>1, <2>3, <2>5 DEF LogInv, InHand
  <2> QED BY <2>4, <2>5
<1>2. CASE SaveStates
  BY <1>2 DEF SaveStates, LogInv, InHand, Idle, ghosts
<1>3. CASE ObserverDelivers
  <2>1. CASE Record(observer, observer')
    <3>1. /\ observer.pc = "record"
          /\ \/ unlogged' = unlogged \ observer.alerts /\ dropped' = dropped \ observer.alerts
             \/ unlogged' = unlogged /\ dropped' = dropped \cup (unlogged \cap observer.alerts)
      BY <2>1 DEF Record, Recorded
    <3>2. observer'.pc = "filter"
      BY <2>1 DEF Record
    <3>3. unlogged \subseteq dropped \cup observer.alerts
      BY <3>1 DEF LogInv, InHand
    <3> QED BY <3>1, <3>2, <3>3 DEF LogInv, InHand
  <2>2. CASE Filter(observer, observer')
    BY <2>2 DEF Filter, LogInv, InHand, Idle, ghosts
  <2>3. CASE Post(observer, observer')
    BY <2>3 DEF Post, LogInv, InHand, Idle, ghosts
  <2> QED BY <1>3, <2>1, <2>2, <2>3 DEF ObserverDelivers, Deliver
<1> QED BY <1>1, <1>2, <1>3 DEF Observer

(* Nobody else takes anything out of the writer's hands, except a crash,    *)
(* and the repeat only ever logs more.                                      *)
LEMMA LogOthers ==
  ASSUME LogInv, [Next]_vars, ~Observer
  PROVE  LogInv'
<1>1. CASE RepeaterDelivers
  <2>1. CASE Record(repeater, repeater')
    <3>1. /\ observer' = observer
          /\ \/ unlogged' = unlogged \ repeater.alerts /\ dropped' = dropped \ repeater.alerts
             \/ unlogged' = unlogged /\ dropped' = dropped \cup (unlogged \cap repeater.alerts)
      BY <1>1, <2>1 DEF RepeaterDelivers, Record, Recorded
    <3> QED BY <3>1 DEF LogInv, InHand
  <2>2. CASE Filter(repeater, repeater')
    BY <1>1, <2>2 DEF RepeaterDelivers, Filter, ghosts, LogInv, InHand
  <2>3. CASE Post(repeater, repeater')
    BY <1>1, <2>3 DEF RepeaterDelivers, Post, ghosts, LogInv, InHand
  <2> QED BY <1>1, <2>1, <2>2, <2>3 DEF RepeaterDelivers, Deliver
<1>2. CASE Crash
  BY <1>2 DEF Crash, LogInv, InHand, Idle
<1>3. CASE UNCHANGED <<observer, unlogged, dropped>>
  BY <1>3 DEF LogInv, InHand
<1>4. CASE Repeat \/ Reloader
  BY <1>3, <1>4 DEF Repeat, Reloader, ReadRules, ReadStates, ReadSilences, Install, ReloadFails, ghosts
<1>5. CASE Operator
  BY <1>3, <1>5 DEF Operator, Acknowledge, SaveAck, CreateSilence, DeleteSilence, ApplySilence,
                    EditRule, DeleteRule, ghosts
<1>6. CASE \E s \in Silences : PassWindow(s)
  BY <1>3, <1>6 DEF PassWindow, ghosts
<1>7. CASE UNCHANGED vars
  BY <1>3, <1>7 DEF vars, ghosts
<1> QED BY <1>1, <1>2, <1>4, <1>5, <1>6, <1>7 DEF Next, Repeater

(* By the time the writer is done with a batch, every transition in it is   *)
(* in the log or its insert failed, whatever is silenced, repeated or       *)
(* reloaded meanwhile, whatever else fails and wherever the process died    *)
(* before (manager.go deliver, "Record before delivering, and record        *)
(* everything").                                                            *)
THEOREM TransitionsAreLogged == Spec => []OnlyFailedInsertsAreMissing
<1>1. Init => LogInv
  BY LogInit
<1>2. LogInv /\ [Next]_vars => LogInv'
  BY LogObserver, LogOthers
<1>3. LogInv => OnlyFailedInsertsAreMissing
  BY DEF LogInv, InHand, OnlyFailedInsertsAreMissing, Idle
<1> QED BY <1>1, <1>2, <1>3, PTL DEF Spec

-----------------------------------------------------------------------------
(* A measurement moves the state in memory as it moves the ghost. *)
LEMMA LiveObserve ==
  ASSUME ReloadLosesNoProgress, NEW readings \in [Rules -> Readings], Observe(readings)
  PROVE  ReloadLosesNoProgress'
BY DEF ReloadLosesNoProgress, Observe, Current

(* What an installation keeps is what is in memory. *)
LEMMA LiveInstall ==
  ASSUME ReloadLosesNoProgress, Install
  PROVE  ReloadLosesNoProgress'
BY DEF ReloadLosesNoProgress, Install, Installed

(* A rule's evaluation state is moved by its measurements and its           *)
(* acknowledgements alone, in every interleaving with reloads that read the *)
(* database before them and install after them (manager.go Reload).         *)
THEOREM ReloadKeepsProgress == Spec => []ReloadLosesNoProgress
<1>1. Init => ReloadLosesNoProgress
  BY DEF Init, ReloadLosesNoProgress
<1>2. ReloadLosesNoProgress /\ [Next]_vars => ReloadLosesNoProgress'
  <2> SUFFICES ASSUME ReloadLosesNoProgress, [Next]_vars
               PROVE  ReloadLosesNoProgress'
    OBVIOUS
  <2>1. CASE UNCHANGED <<states, live>>
    BY <2>1 DEF ReloadLosesNoProgress
  <2>2. CASE Observer
    <3>1. CASE SaveStates
      BY <2>1, <3>1 DEF SaveStates, memory, ghosts
    <3>2. CASE ObserverDelivers
      BY <2>1, <3>2 DEF ObserverDelivers, Deliver, Record, Filter, Post, memory, ghosts
    <3> QED BY <2>2, <3>1, <3>2, LiveObserve DEF Observer
  <2>3. CASE Repeater
    BY <2>1, <2>3 DEF Repeater, Repeat, RepeaterDelivers, Deliver, Record, Filter, Post, memory, ghosts
  <2>4. CASE Reloader
    <3>1. CASE ReadRules \/ ReadStates \/ ReadSilences \/ ReloadFails
      BY <2>1, <3>1 DEF ReadRules, ReadStates, ReadSilences, ReloadFails, memory, ghosts
    <3> QED BY <2>4, <3>1, LiveInstall DEF Reloader
  <2>5. CASE Operator
    <3>1. CASE \E r \in Rules, ack \in BOOLEAN : Acknowledge(r, ack)
      BY <3>1 DEF Acknowledge, ReloadLosesNoProgress
    <3>2. CASE SaveAck \/ ApplySilence
      BY <2>1, <3>2 DEF SaveAck, ApplySilence, memory, ghosts
    <3>3. CASE \E s \in Silences : CreateSilence(s) \/ DeleteSilence(s)
      BY <2>1, <3>3 DEF CreateSilence, DeleteSilence, memory, ghosts
    <3>4. CASE \/ \E r \in Rules, standing \in Standing : EditRule(r, standing)
               \/ \E r \in Rules : DeleteRule(r)
      BY <2>1, <3>4 DEF EditRule, DeleteRule, memory, ghosts
    <3> QED BY <2>5, <3>1, <3>2, <3>3, <3>4 DEF Operator
  <2>6. CASE \E s \in Silences : PassWindow(s)
    BY <2>1, <2>6 DEF PassWindow, memory, ghosts
  <2>7. CASE Crash
    BY <2>7 DEF Crash, ReloadLosesNoProgress
  <2>8. CASE UNCHANGED vars
    BY <2>1, <2>8 DEF vars, memory, ghosts
  <2> QED BY <2>2, <2>3, <2>4, <2>5, <2>6, <2>7, <2>8 DEF Next
<1> QED BY <1>1, <1>2, PTL DEF Spec
-----------------------------------------------------------------------------
(* Restarts: what is stored is what is in memory, unless the writer is      *)
(* about to store it.                                                       *)

(* The rules that were not deleted, as long as nobody acknowledges anything. *)
Undisturbed == {r \in Rules : acks = 0 /\ ruleRows[r] # "absent"}

Stood == [Rules -> States \cup {NONE}]

Typed ==
  /\ ts \in Nat /\ acks \in Nat
  /\ states \in Stood /\ stateRows \in Stood
  /\ DOMAIN ruleRows = Rules

(* The writer has in hand what it made of the rules it evaluated. *)
InHandIsInMemory ==
  observer.pc = "save" =>
    /\ DOMAIN observer.dirty \subseteq Rules
    /\ \A r \in DOMAIN observer.dirty : observer.dirty[r] \in States
    /\ \A r \in DOMAIN observer.dirty : r \in Undisturbed => states[r] = observer.dirty[r]

StoredIsInMemory ==
  \A r \in Rules :
    /\ r \in Undisturbed /\ states[r] # NONE /\ r \notin unsaved
    /\ ~(observer.pc = "save" /\ r \in DOMAIN observer.dirty)
    => stateRows[r] = states[r]

(* What a reload has read of a rule that memory does not know is what is    *)
(* stored.                                                                  *)
ReadIsStored ==
  /\ reloader.pc # "idle" =>
       \A r \in Rules : r \in Undisturbed => reloader.rules[r] # "absent"
  /\ reloader.pc \in {"silences", "install"} =>
       /\ reloader.states \in Stood
       /\ \A r \in Rules :
            r \in Undisturbed /\ states[r] = NONE => reloader.states[r] = stateRows[r]

AckerInHand ==
  /\ acker.pc # "save" => acker = Idle
  /\ acker.pc = "save" => /\ acks > 0 /\ DOMAIN acker.dirty \subseteq Rules
                          /\ \A r \in DOMAIN acker.dirty : acker.dirty[r] \in States

RestartInv == Typed /\ InHandIsInMemory /\ StoredIsInMemory /\ ReadIsStored /\ AckerInHand

(* The state of a rule seen for the first time is one. *)
LEMMA NewStateType == NewState \in States
  BY DEF NewState, States

(* A measurement makes a state of a state. *)
LEMMA EvaluateType ==
  ASSUME NEW rule, NEW s \in States, NEW t \in Nat, NEW reading \in Readings
  PROVE  EvaluateValue(rule, s, reading, t).state \in States
<1> DEFINE seen == [s EXCEPT !.lastTS = t]
<1>1. seen \in States /\ seen.streak = s.streak /\ s.streak \in Nat
  BY DEF States
<1> HIDE DEF seen
<1>2. [seen EXCEPT !.streak = 0] \in States /\ [seen EXCEPT !.streak = s.streak + 1] \in States
  BY <1>1 DEF States
<1>3. Ended(seen) \in States /\ Begun(seen, t) \in States
  BY <1>1 DEF States, Ended, Begun
<1>4. EvaluateValue(rule, s, reading, t).state \in
        {s, [seen EXCEPT !.streak = 0], [seen EXCEPT !.streak = s.streak + 1], Ended(seen),
         Begun(seen, t)}
  BY DEF EvaluateValue, seen
<1> QED
  BY <1>2, <1>3, <1>4

(* At first no state is stored, in memory or in hand. *)
LEMMA RestartInit == Init => RestartInv
<1> SUFFICES ASSUME Init PROVE RestartInv
  OBVIOUS
<1>1. Typed
  BY DEF Init, Typed, Stood
<1> QED
  BY <1>1 DEF Init, RestartInv, InHandIsInMemory, StoredIsInMemory, ReadIsStored, AckerInHand, Idle

(* What an evaluation changes is in the observer's hands, *)
LEMMA RestartObserve ==
  ASSUME RestartInv, NEW readings \in [Rules -> Readings], Observe(readings)
  PROVE  RestartInv'
<1> DEFINE evaluated == {r \in Rules : Reaches(rules[r])}
           result(r) == EvaluateValue(RuleRecord(r), Current(r), readings[r], ts + 1).state
           dirty == [r \in evaluated |-> result(r)]
<1>1. /\ ts' = ts + 1 /\ ts \in Nat
      /\ stateRows' = stateRows /\ reloader' = reloader /\ acker' = acker /\ acks' = acks
      /\ ruleRows' = ruleRows /\ unsaved' = unsaved
      /\ observer = Idle
  BY DEF Observe, database, counts, RestartInv, Typed
<1>2. \A r \in evaluated : result(r) \in States
  <2> TAKE r \in evaluated
  <2>1. Current(r) \in States
    BY NewStateType DEF Current, RestartInv, Typed, Stood
  <2> QED
    BY <1>1, <2>1, EvaluateType
<1>3. states' = [r \in Rules |-> IF r \in evaluated THEN dirty[r] ELSE states[r]]
  BY DEF Observe
<1>4. \/ evaluated = {} /\ observer' = Idle
      \/ observer'.pc = "save" /\ observer'.dirty = dirty
  BY DEF Observe
<1>5. DOMAIN dirty = evaluated /\ evaluated \subseteq Rules
      /\ \A r \in evaluated : dirty[r] \in States
  BY <1>2
<1>6. Undisturbed' = Undisturbed
  BY <1>1 DEF Undisturbed
<1> HIDE DEF dirty, evaluated, result
<1>7. states' \in Stood /\ \A r \in Rules : states'[r] = IF r \in evaluated THEN dirty[r] ELSE states[r]
  BY <1>3, <1>5 DEF RestartInv, Typed, Stood
<1>8. Typed'
  BY <1>1, <1>7 DEF RestartInv, Typed
<1>9. InHandIsInMemory'
  BY <1>4, <1>5, <1>7 DEF InHandIsInMemory, Idle
<1>10. StoredIsInMemory'
  <2> SUFFICES ASSUME NEW r \in Rules, r \in Undisturbed, states'[r] # NONE, r \notin unsaved,
                      ~(observer'.pc = "save" /\ r \in DOMAIN observer'.dirty)
               PROVE  stateRows[r] = states'[r]
    BY <1>1, <1>6 DEF StoredIsInMemory
  <2>1. r \notin evaluated
    BY <1>4, <1>5
  <2>2. states'[r] = states[r] /\ observer.pc # "save"
    BY <1>1, <1>7, <2>1 DEF Idle
  <2> QED
    BY <2>2 DEF RestartInv, StoredIsInMemory
<1>11. ReadIsStored'
  <2>1. \A r \in Rules : states'[r] = NONE => states[r] = NONE
    BY <1>5, <1>7, ManagerAssumption
  <2> QED
    BY <1>1, <1>6, <2>1 DEF RestartInv, ReadIsStored
<1>12. AckerInHand'
  BY <1>1 DEF RestartInv, AckerInHand
<1> QED
  BY <1>8, <1>9, <1>10, <1>11, <1>12 DEF RestartInv

(* and then stored, or the save fails and they are unsaved. *)
LEMMA RestartSave == RestartInv /\ SaveStates => RestartInv'
<1> SUFFICES ASSUME RestartInv, SaveStates PROVE RestartInv'
  OBVIOUS
<1> DEFINE dirty == observer.dirty
<1>1. /\ observer.pc = "save" /\ observer'.pc # "save"
      /\ states' = states /\ ts' = ts /\ acks' = acks /\ ruleRows' = ruleRows
      /\ reloader' = reloader /\ acker' = acker
      /\ \/ stateRows' = Saved(stateRows, dirty) /\ unsaved' = unsaved \ DOMAIN dirty
         \/ stateRows' = stateRows /\ unsaved' = unsaved \cup DOMAIN dirty
  BY DEF SaveStates, Save, Idle, memory, world
<1>2. DOMAIN dirty \subseteq Rules /\ \A r \in DOMAIN dirty : dirty[r] \in States
  BY <1>1 DEF RestartInv, InHandIsInMemory
<1>3. Undisturbed' = Undisturbed
  BY <1>1 DEF Undisturbed
<1>4. \A r \in DOMAIN dirty : r \in Undisturbed => states[r] = dirty[r]
  BY <1>1 DEF RestartInv, InHandIsInMemory
<1>5. stateRows' \in Stood
  BY <1>1, <1>2 DEF Saved, RestartInv, Typed, Stood
<1>6. \A r \in Rules :
        \/ stateRows'[r] = stateRows[r]
        \/ r \in DOMAIN dirty /\ stateRows'[r] = dirty[r]
  BY <1>1 DEF Saved
<1>7. \A r \in DOMAIN dirty : r \in unsaved' \/ stateRows'[r] = dirty[r]
  BY <1>1, <1>2 DEF Saved
<1>8. \A r \in Rules : r \in DOMAIN dirty \/ (r \in unsaved <=> r \in unsaved')
  BY <1>1
<1> HIDE DEF dirty
<1>9. Typed' /\ InHandIsInMemory' /\ AckerInHand'
  BY <1>1, <1>5 DEF RestartInv, Typed, InHandIsInMemory, AckerInHand
<1>10. StoredIsInMemory'
  <2> SUFFICES ASSUME NEW r \in Rules, r \in Undisturbed, states[r] # NONE, r \notin unsaved'
               PROVE  stateRows'[r] = states[r]
    BY <1>1, <1>3 DEF StoredIsInMemory
  <2>1. CASE r \in DOMAIN dirty
    BY <1>4, <1>7, <2>1
  <2>2. CASE r \notin DOMAIN dirty
    <3>1. stateRows[r] = states[r]
      BY <1>8, <2>2 DEF RestartInv, StoredIsInMemory, dirty
    <3> QED
      BY <1>6, <2>2, <3>1
  <2> QED
    BY <2>1, <2>2
<1>11. ReadIsStored'
  <2>1. \A r \in Rules : r \in Undisturbed /\ states[r] = NONE => stateRows'[r] = stateRows[r]
    BY <1>2, <1>4, <1>6, ManagerAssumption
  <2> QED
    BY <1>1, <1>3, <2>1 DEF RestartInv, ReadIsStored
<1> QED
  BY <1>9, <1>10, <1>11 DEF RestartInv

(* A reload gives memory what it has not, and that is what is stored.       *)
LEMMA RestartReload == RestartInv /\ Reloader => RestartInv'
<1> SUFFICES ASSUME RestartInv, Reloader PROVE RestartInv'
  OBVIOUS
<1>1. /\ ts' = ts /\ acks' = acks /\ ruleRows' = ruleRows /\ stateRows' = stateRows
      /\ observer' = observer /\ acker' = acker /\ unsaved' = unsaved
  BY DEF Reloader, ReadRules, ReadStates, ReadSilences, Install, ReloadFails, database, world, counts,
         ghosts
<1>2. Undisturbed' = Undisturbed
  BY <1>1 DEF Undisturbed
<1>3. AckerInHand'
  BY <1>1 DEF RestartInv, AckerInHand
<1>4. CASE ReadRules \/ ReadStates \/ ReadSilences \/ ReloadFails
  <2>1. states' = states
    BY <1>4 DEF ReadRules, ReadStates, ReadSilences, ReloadFails, memory
  <2>2. Typed' /\ InHandIsInMemory' /\ StoredIsInMemory'
    BY <1>1, <1>2, <2>1 DEF RestartInv, Typed, InHandIsInMemory, StoredIsInMemory
  <2>3. ReadIsStored'
    <3>1. CASE ReadRules
      <4>1. reloader' = [pc |-> "states", rules |-> ruleRows]
        BY <3>1 DEF ReadRules
      <4> QED
        BY <1>1, <1>2, <4>1 DEF ReadIsStored, Undisturbed
    <3>2. CASE ReadStates
      <4>1. /\ reloader.pc = "states"
            /\ reloader' = [pc |-> "silences", rules |-> reloader.rules, states |-> stateRows]
        BY <3>2 DEF ReadStates
      <4> QED
        BY <1>1, <1>2, <2>1, <4>1 DEF RestartInv, ReadIsStored, Typed
    <3>3. CASE ReadSilences
      <4>1. /\ reloader.pc = "silences" /\ reloader'.pc = "install"
            /\ reloader'.rules = reloader.rules /\ reloader'.states = reloader.states
        BY <3>3 DEF ReadSilences
      <4> QED
        BY <1>1, <1>2, <2>1, <4>1 DEF RestartInv, ReadIsStored
    <3>4. CASE ReloadFails
      BY <3>4 DEF ReloadFails, ReadIsStored, Idle
    <3> QED
      BY <1>4, <3>1, <3>2, <3>3, <3>4
  <2> QED
    BY <1>3, <2>2, <2>3 DEF RestartInv
<1>5. CASE Install
  <2>1. /\ reloader.pc = "install" /\ reloader' = Idle
        /\ states' = [r \in Rules |->
             IF reloader.rules[r] # "absent" THEN Installed(states[r], reloader.states[r]) ELSE NONE]
    BY <1>5 DEF Install
  <2>2. reloader.states \in Stood /\ states \in Stood
    BY <2>1 DEF RestartInv, ReadIsStored, Typed
  <2>3. states' \in Stood
    BY <2>1, <2>2 DEF Stood, Installed
  <2>4. \A r \in Rules : r \in Undisturbed =>
          states'[r] = IF states[r] # NONE THEN states[r] ELSE stateRows[r]
    <3> SUFFICES ASSUME NEW r \in Rules, r \in Undisturbed
                 PROVE  states'[r] = IF states[r] # NONE THEN states[r] ELSE stateRows[r]
      OBVIOUS
    <3>1. reloader.rules[r] # "absent" /\ (states[r] = NONE => reloader.states[r] = stateRows[r])
      BY <2>1 DEF RestartInv, ReadIsStored
    <3> QED
      BY <2>1, <3>1 DEF Installed
  <2>5. Typed'
    BY <1>1, <2>3 DEF RestartInv, Typed
  <2>6. InHandIsInMemory'
    <3> SUFFICES ASSUME observer.pc = "save"
                 PROVE  /\ DOMAIN observer.dirty \subseteq Rules
                        /\ \A r \in DOMAIN observer.dirty : observer.dirty[r] \in States
                        /\ \A r \in DOMAIN observer.dirty :
                             r \in Undisturbed => states'[r] = observer.dirty[r]
      BY <1>1, <1>2 DEF InHandIsInMemory
    <3>1. /\ DOMAIN observer.dirty \subseteq Rules
          /\ \A r \in DOMAIN observer.dirty : observer.dirty[r] \in States
          /\ \A r \in DOMAIN observer.dirty : r \in Undisturbed => states[r] = observer.dirty[r]
      BY DEF RestartInv, InHandIsInMemory
    <3>2. ASSUME NEW r \in DOMAIN observer.dirty, r \in Undisturbed
          PROVE  states'[r] = observer.dirty[r]
      <4>1. r \in Rules /\ states[r] = observer.dirty[r] /\ states[r] # NONE
        BY <3>1, <3>2, ManagerAssumption
      <4> QED
        BY <2>4, <3>2, <4>1
    <3> QED
      BY <3>1, <3>2
  <2>7. StoredIsInMemory'
    <3> SUFFICES ASSUME NEW r \in Rules, r \in Undisturbed, states'[r] # NONE, r \notin unsaved,
                        ~(observer.pc = "save" /\ r \in DOMAIN observer.dirty)
                 PROVE  stateRows[r] = states'[r]
      BY <1>1, <1>2 DEF StoredIsInMemory
    <3> QED
      BY <2>4 DEF RestartInv, StoredIsInMemory
  <2>8. ReadIsStored'
    BY <2>1 DEF ReadIsStored, Idle
  <2> QED
    BY <1>3, <2>5, <2>6, <2>7, <2>8 DEF RestartInv
<1> QED
  BY <1>4, <1>5 DEF Reloader

(* Once something is acknowledged the promise is void.                      *)
LEMMA RestartDisturbed ==
  ASSUME RestartInv, Undisturbed' = {}, Typed', AckerInHand', reloader' = reloader,
         observer' = observer
  PROVE  RestartInv'
<1>1. InHandIsInMemory'
  BY DEF RestartInv, InHandIsInMemory
<1>2. StoredIsInMemory'
  BY DEF StoredIsInMemory
<1>3. ReadIsStored'
  BY DEF RestartInv, ReadIsStored
<1> QED
  BY <1>1, <1>2, <1>3 DEF RestartInv

(* A step that leaves states, the rows of rules that are not deleted, and   *)
(* their readers alone.                                                     *)
LEMMA RestartElsewhere ==
  ASSUME RestartInv, UNCHANGED <<acks, states, unsaved, reloader, acker>>, Typed',
         \A r \in Undisturbed' : r \in Undisturbed /\ stateRows'[r] = stateRows[r],
         \/ observer' = observer
         \/ observer.pc # "save" /\ observer'.pc # "save"
  PROVE  RestartInv'
<1>1. AckerInHand'
  BY DEF RestartInv, AckerInHand
<1>2. InHandIsInMemory'
  BY DEF RestartInv, InHandIsInMemory
<1>3. StoredIsInMemory'
  BY DEF RestartInv, StoredIsInMemory
<1>4. ReadIsStored'
  BY DEF RestartInv, ReadIsStored
<1> QED
  BY <1>1, <1>2, <1>3, <1>4 DEF RestartInv

(* A step that leaves the rows alone.                                       *)
LEMMA RestartRowsAlone ==
  ASSUME RestartInv, UNCHANGED <<ts, acks, states, unsaved, stateRows, ruleRows, reloader, acker>>,
         \/ observer' = observer
         \/ observer.pc # "save" /\ observer'.pc # "save"
  PROVE  RestartInv'
<1>1. Typed'
  BY DEF RestartInv, Typed
<1>2. \A r \in Undisturbed' : r \in Undisturbed /\ stateRows'[r] = stateRows[r]
  BY DEF Undisturbed
<1> QED
  BY <1>1, <1>2, RestartElsewhere

(* An operator's acknowledgement is in hand, an edit of a rule is stored at once. *)
LEMMA RestartOperator == RestartInv /\ Operator => RestartInv'
<1> SUFFICES ASSUME RestartInv, Operator PROVE RestartInv'
  OBVIOUS
<1>1. ASSUME NEW r \in Rules, NEW ack \in BOOLEAN, Acknowledge(r, ack)
      PROVE  RestartInv'
  <2>1. /\ acks' = acks + 1 /\ acks \in Nat /\ states[r] \in States
        /\ states' = [states EXCEPT ![r] = WithAck(states[r], ack)]
        /\ acker' = [pc |-> "save", dirty |-> [x \in {r} |-> states'[r]]]
        /\ UNCHANGED <<ts, stateRows, reloader, observer, ruleRows>>
    BY <1>1 DEF Acknowledge, database, world, RestartInv, Typed, Stood
  <2>2. WithAck(states[r], ack) \in States
    BY <2>1 DEF WithAck, States
  <2>3. states' \in Stood /\ states'[r] \in States
    BY <2>1, <2>2 DEF RestartInv, Typed, Stood
  <2>4. Undisturbed' = {} /\ acks' > 0
    BY <2>1 DEF Undisturbed
  <2>5. Typed' /\ AckerInHand'
    BY <2>1, <2>3, <2>4 DEF RestartInv, Typed, AckerInHand
  <2> QED
    BY <2>1, <2>4, <2>5, RestartDisturbed
<1>2. CASE SaveAck
  <2> DEFINE dirty == acker.dirty
  <2>1. /\ acker.pc = "save" /\ acker' = Idle
        /\ stateRows' = Saved(stateRows, dirty) \/ stateRows' = stateRows
        /\ UNCHANGED <<ts, acks, states, reloader, observer, ruleRows>>
    BY <1>2 DEF SaveAck, Save, memory, world
  <2>2. acks > 0 /\ DOMAIN dirty \subseteq Rules /\ \A r \in DOMAIN dirty : dirty[r] \in States
    BY <2>1 DEF RestartInv, AckerInHand
  <2>3. stateRows' \in Stood
    BY <2>1, <2>2 DEF RestartInv, Typed, Stood, Saved
  <2> HIDE DEF dirty
  <2>4. Undisturbed' = {}
    BY <2>1, <2>2 DEF Undisturbed, RestartInv, Typed
  <2>5. Typed' /\ AckerInHand'
    BY <2>1, <2>3 DEF RestartInv, Typed, AckerInHand, Idle
  <2> QED
    BY <2>1, <2>4, <2>5, RestartDisturbed
<1>3. ASSUME NEW s \in Silences, CreateSilence(s) \/ DeleteSilence(s)
      PROVE  RestartInv'
  BY <1>3, RestartRowsAlone DEF CreateSilence, DeleteSilence, memory, world, ghosts
<1>4. CASE ApplySilence
  BY <1>4, RestartRowsAlone DEF ApplySilence, database, world, counts, ghosts
<1>5. ASSUME NEW r \in Rules, NEW standing \in Standing, EditRule(r, standing)
      PROVE  RestartInv'
  <2>1. /\ UNCHANGED <<ts, acks, states, stateRows, unsaved, reloader, acker, observer>>
        /\ ruleRows' = [ruleRows EXCEPT ![r] = standing] /\ ruleRows[r] # "absent"
    BY <1>5 DEF EditRule, memory, world, ghosts
  <2>2. Typed'
    BY <2>1 DEF RestartInv, Typed
  <2>3. ASSUME NEW x \in Undisturbed' PROVE x \in Undisturbed
    <3>1. x \in Rules /\ acks = 0 /\ ruleRows'[x] # "absent"
      BY <2>1, <2>3 DEF Undisturbed
    <3>2. CASE x = r
      BY <2>1, <3>1, <3>2 DEF Undisturbed
    <3>3. CASE x # r
      BY <2>1, <3>1, <3>3 DEF Undisturbed
    <3> QED
      BY <3>2, <3>3
  <2> QED
    BY <2>1, <2>2, <2>3, RestartElsewhere
<1>6. ASSUME NEW r \in Rules, DeleteRule(r)
      PROVE  RestartInv'
  <2>1. /\ UNCHANGED <<ts, acks, states, unsaved, reloader, acker, observer>>
        /\ stateRows' = [stateRows EXCEPT ![r] = NONE]
        /\ ruleRows' = [ruleRows EXCEPT ![r] = "absent"]
    BY <1>6 DEF DeleteRule, memory, world, ghosts
  <2>2. Typed'
    BY <2>1 DEF RestartInv, Typed, Stood
  <2>3. ASSUME NEW x \in Undisturbed'
        PROVE  x \in Undisturbed /\ stateRows'[x] = stateRows[x]
    <3>1. x \in Rules /\ acks = 0 /\ ruleRows'[x] # "absent"
      BY <2>1, <2>3 DEF Undisturbed
    <3>2. DOMAIN ruleRows = Rules /\ DOMAIN stateRows = Rules
      BY DEF RestartInv, Typed, Stood
    <3>3. x # r
      BY <2>1, <3>1, <3>2
    <3> QED
      BY <2>1, <3>1, <3>2, <3>3 DEF Undisturbed
  <2> QED
    BY <2>1, <2>2, <2>3, RestartElsewhere
<1> QED
  BY <1>1, <1>2, <1>3, <1>4, <1>5, <1>6 DEF Operator

(* Every step of the manager keeps the invariant. *)
LEMMA RestartNext ==
  ASSUME RestartInv, [Next]_vars
  PROVE  RestartInv'
<1>1. CASE \E readings \in [Rules -> Readings] : Observe(readings)
  BY <1>1, RestartObserve
<1>2. CASE SaveStates
  BY <1>2, RestartSave
<1>3. CASE ObserverDelivers
  BY <1>3, RestartRowsAlone
     DEF ObserverDelivers, Deliver, Record, Filter, Post, Idle, database, memory, world, counts,
         ghosts
<1>4. CASE Repeater
  BY <1>4, RestartRowsAlone
     DEF Repeater, Repeat, RepeaterDelivers, Deliver, Record, Filter, Post, database, memory,
         world, counts, ghosts
<1>5. CASE Reloader
  BY <1>5, RestartReload
<1>6. CASE Operator
  BY <1>6, RestartOperator
<1>7. CASE \E s \in Silences : PassWindow(s)
  BY <1>7, RestartRowsAlone DEF PassWindow, database, memory, counts, ghosts
<1>8. CASE Crash
  <2>1. /\ states' = [r \in Rules |-> NONE] /\ observer' = Idle /\ reloader' = Idle /\ acker' = Idle
        /\ UNCHANGED <<ts, acks, stateRows, ruleRows>>
    BY <1>8 DEF Crash, database, world
  <2>2. Typed' /\ AckerInHand'
    BY <2>1 DEF RestartInv, Typed, Stood, AckerInHand, Idle
  <2> QED
    BY <2>1, <2>2 DEF RestartInv, InHandIsInMemory, StoredIsInMemory, ReadIsStored, Idle
<1>9. CASE UNCHANGED vars
  BY <1>9, RestartRowsAlone DEF vars, database, memory, world, counts, ghosts
<1> QED
  BY <1>1, <1>2, <1>3, <1>4, <1>5, <1>6, <1>7, <1>8, <1>9 DEF Next, Observer

(* Between batches a restart would find every rule as it stands, part-way   *)
(* streaks included, whatever was reloaded, edited, deleted or restarted,   *)
(* and whichever saves failed, except for the rules whose last save failed, *)
(* as long as nothing is acknowledged (store/alerts.go, "Hysteresis is only *)
(* meaningful if it outlives a restart").                                   *)
THEOREM RestartsResume == Spec => []RestartLosesNothing
<1>1. Init => RestartInv
  BY RestartInit
<1>2. RestartInv /\ [Next]_vars => RestartInv'
  BY RestartNext
<1>3. RestartInv => RestartLosesNothing
  BY DEF RestartInv, StoredIsInMemory, RestartLosesNothing, Undisturbed, Idle
<1> QED
  BY <1>1, <1>2, <1>3, PTL DEF Spec
=============================================================================
