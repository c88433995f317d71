---------------------------- MODULE AlertManager ----------------------------
(***************************************************************************)
(* The alert manager over one series: the goroutine that writes            *)
(* measurements and evaluates the rules on them, the periodic reload of    *)
(* the rule set, the periodic repeat of what is firing, the operator's     *)
(* calls, the database under all of them, and the process dying.           *)
(*                                                                         *)
(* Every goroutine takes the manager's mutex for one step and gives it up  *)
(* before it touches the database, so a step below is what one of them     *)
(* does without another being able to come between.                        *)
(***************************************************************************)
EXTENDS AlertState

CONSTANTS
  Rules,         \* rules that reach the series' target, or did
  For, ClearFor, \* the rules' for_intervals and clear_intervals
  Silences,      \* ids a silence may get; each silence covers every rule
  NONE,          \* no state, no row
  MaxObserved,   \* bound: measurements
  MaxAcks, MaxEdits,    \* bounds: operator's calls
  MaxFaults,     \* bound: failed calls of the database or the receiver, and the process dying
  MaxTogether    \* bound: all of these together

ASSUME ManagerAssumption ==
  /\ For \in Nat \ {0} /\ ClearFor \in Nat \ {0}
  /\ {MaxObserved, MaxAcks, MaxEdits, MaxFaults, MaxTogether} \subseteq Nat
  /\ NONE \notin States

VARIABLES
  (* the database *)
  ruleRows,      \* how each rule stands to the target, by the rows and the tree
  stateRows,     \* alert_state
  silenceRows,   \* silences
  log,           \* alert_events: what is recorded there, once or several times
  (* the manager's memory *)
  rules,         \* the rule set as of the last reload
  states,        \* evaluation state
  silences,      \* silences in force once their window is open
  (* the goroutines *)
  observer,      \* the measurement writer, in Observe
  repeater,      \* in Repeat
  reloader,      \* in Reload
  acker,         \* an operator's acknowledgement
  silencer,      \* an operator's call on a silence
  (* the world *)
  ts,            \* the last measurement's timestamp
  open,          \* silences whose window covers the present
  told,          \* what the receiver last heard of each rule
  acks, edits, faults,   \* counted against the bounds
  (* ghosts *)
  unlogged,      \* transitions of this process that are not in the log
  dropped,       \* those of them whose insert failed
  unsaved,       \* rules whose last save failed
  live           \* each rule's state, advanced by its measurements alone

database == <<ruleRows, stateRows, silenceRows, log>>
memory   == <<rules, states, silences>>
world    == <<ts, open, told>>
counts   == <<acks, edits, faults>>
ghosts   == <<unlogged, dropped, unsaved, live>>
vars == <<database, memory, observer, repeater, reloader, acker, silencer, world, counts, ghosts>>

(* A rule that reaches the target is "on" or "off" (enabled or not).  It is *)
(* "overridden" when a nearer node has rules of its own, and an id that is  *)
(* "absent" after having been in use never comes back.                      *)
Standing == {"on", "off", "overridden", "absent"}

Reaches(standing) == standing \in {"on", "off"}

Event == [rule : Rules, firing : BOOLEAN, ts : Nat]

Idle == [pc |-> "idle"]

RuleRecord(r) == [enabled |-> rules[r] = "on", for |-> For, clearFor |-> ClearFor]

TypeOK ==
  /\ ruleRows \in [Rules -> Standing] /\ rules \in [Rules -> Standing]
  /\ stateRows \in [Rules -> States \cup {NONE}]
  /\ states \in [Rules -> States \cup {NONE}] /\ live \in [Rules -> States \cup {NONE}]
  /\ silenceRows \subseteq Silences /\ silences \subseteq Silences /\ open \subseteq Silences
  /\ log \subseteq Event
  /\ observer.pc \in {"idle", "save", "record", "filter", "post"}
  /\ repeater.pc \in {"idle", "record", "filter", "post"}
  /\ reloader.pc \in {"idle", "states", "silences", "install"}
  /\ acker.pc \in {"idle", "save"}
  /\ silencer.pc \in {"idle", "add", "remove"}
  /\ told \in [Rules -> {"nothing", "firing", "resolved"}]
  /\ unlogged \subseteq Event /\ dropped \subseteq unlogged /\ unsaved \subseteq Rules
  /\ {ts, acks, edits, faults} \subseteq Nat

Init ==
  /\ ruleRows = [r \in Rules |-> "on"] /\ rules = [r \in Rules |-> "absent"]
  /\ stateRows = [r \in Rules |-> NONE]
  /\ states = [r \in Rules |-> NONE] /\ live = [r \in Rules |-> NONE]
  /\ silenceRows \in SUBSET Silences /\ silences = {} /\ open = {}
  /\ log = {} /\ unlogged = {} /\ dropped = {} /\ unsaved = {}
  /\ observer = Idle /\ repeater = Idle /\ reloader = Idle /\ acker = Idle /\ silencer = Idle
  /\ told = [r \in Rules |-> "nothing"]
  /\ ts = 0 /\ acks = 0 /\ edits = 0 /\ faults = 0

Together == acks + edits + faults

(* Any call of the database or the receiver may fail. *)
Fault ==
  /\ faults < MaxFaults /\ Together < MaxTogether
  /\ faults' = faults + 1

-----------------------------------------------------------------------------
(* Observe: evaluate under the lock, save, then deliver.                   *)

Current(r) == IF states[r] = NONE THEN NewState ELSE states[r]

Observe(readings) ==
  LET evaluated == {r \in Rules : Reaches(rules[r])}
      e         == [r \in evaluated |-> EvaluateValue(RuleRecord(r), Current(r), readings[r], ts + 1)]
      changed   == {r \in evaluated : e[r].transition # "none"}
      events    == {[rule |-> r, firing |-> e[r].transition = "fired", ts |-> ts + 1] : r \in changed}
  IN
  /\ observer = Idle
  /\ ts < MaxObserved
  /\ ts' = ts + 1
  /\ states' = [r \in Rules |-> IF r \in evaluated THEN e[r].state ELSE states[r]]
  /\ live' = [r \in Rules |->
       IF r \in evaluated
       THEN EvaluateValue(RuleRecord(r), IF live[r] = NONE THEN NewState ELSE live[r],
                          readings[r], ts + 1).state
       ELSE live[r]]
  /\ unlogged' = unlogged \cup events
  /\ observer' = IF evaluated = {} THEN Idle
                 ELSE [pc |-> "save", dirty |-> [r \in evaluated |-> e[r].state], alerts |-> events]
  /\ UNCHANGED <<database, rules, silences, repeater, reloader, acker, silencer, open, told,
                 counts, dropped, unsaved>>

(* One transaction.  It fails as a whole, by the foreign key if a rule in   *)
(* hand is gone, or by any error, which is logged and that is all: memory   *)
(* stays ahead of what is stored.  In the variant with a fault the streak   *)
(* is not saved.                                                            *)
SavedWithoutStreak(rows, dirty) ==
  [r \in Rules |-> IF r \in DOMAIN dirty THEN [dirty[r] EXCEPT !.streak = 0] ELSE rows[r]]

Saved(rows, dirty) == [r \in Rules |-> IF r \in DOMAIN dirty THEN dirty[r] ELSE rows[r]]

Orphans(dirty) == {r \in DOMAIN dirty : ruleRows[r] = "absent"}

Save(dirty) ==
  \/ /\ Orphans(dirty) = {}
     /\ stateRows' = Saved(stateRows, dirty)
     /\ unsaved' = unsaved \ DOMAIN dirty
     /\ UNCHANGED faults
  \/ /\ \/ Orphans(dirty) # {} /\ UNCHANGED faults
        \/ Fault
     /\ unsaved' = unsaved \cup DOMAIN dirty
     /\ UNCHANGED stateRows

SaveStates ==
  /\ observer.pc = "save"
  /\ Save(observer.dirty)
  /\ observer' = IF observer.alerts = {} THEN Idle
                 ELSE [pc |-> "record", alerts |-> observer.alerts]
  /\ UNCHANGED <<ruleRows, silenceRows, log, memory, repeater, reloader, acker, silencer,
                 world, acks, edits, unlogged, dropped, live>>

-----------------------------------------------------------------------------
(* deliver: record everything, drop what a silence covers, post the rest.  *)

Silenced == silences \cap open # {}

(* Everything is recorded; in the variant with a fault, what is delivered.  *)
RecordedUnlessSilenced(alerts) == IF Silenced THEN {} ELSE alerts

Recorded(alerts) == alerts

(* Deliver by the goroutine whose record is t, next being what becomes of it. *)
(* A failed insert is logged, and delivery goes on without it.                *)
Record(t, next) ==
  /\ t.pc = "record"
  /\ \/ /\ log' = log \cup Recorded(t.alerts)
        /\ unlogged' = unlogged \ Recorded(t.alerts)
        /\ dropped' = dropped \ Recorded(t.alerts)
        /\ UNCHANGED faults
     \/ /\ Fault
        /\ dropped' = dropped \cup (unlogged \cap t.alerts)
        /\ UNCHANGED <<log, unlogged>>
  /\ next = [pc |-> "filter", alerts |-> t.alerts]
  /\ UNCHANGED <<ruleRows, stateRows, silenceRows, memory, reloader, acker, silencer,
                 world, acks, edits, unsaved, live>>

Filter(t, next) ==
  /\ t.pc = "filter"
  /\ next = IF Silenced THEN Idle ELSE [pc |-> "post", alerts |-> t.alerts]
  /\ UNCHANGED <<database, memory, reloader, acker, silencer, world, counts, ghosts>>

Post(t, next) ==
  /\ t.pc = "post"
  /\ \/ /\ told' = [r \in Rules |->
             IF \E e \in t.alerts : e.rule = r
             THEN IF (CHOOSE e \in t.alerts : e.rule = r).firing THEN "firing" ELSE "resolved"
             ELSE told[r]]
        /\ UNCHANGED faults
     \/ Fault /\ UNCHANGED told
  /\ next = Idle
  /\ UNCHANGED <<database, memory, reloader, acker, silencer, ts, open, acks, edits, ghosts>>

Deliver(t, next) == Record(t, next) \/ Filter(t, next) \/ Post(t, next)

ObserverDelivers == Deliver(observer, observer') /\ UNCHANGED repeater

RepeaterDelivers == Deliver(repeater, repeater') /\ UNCHANGED observer

(* Repeat: what is firing now, dated by when it began.  Firing lists every  *)
(* rule in memory, whether or not it still reaches the target.  In the      *)
(* variant with a fault, not what an operator has seen.                     *)
Fires(r) == rules[r] # "absent" /\ states[r] # NONE /\ states[r].firing

FiringUnacked == {r \in Rules : Fires(r) /\ ~Acked(states[r])}

Firing == {r \in Rules : Fires(r)}

Repeat ==
  /\ repeater = Idle
  /\ Firing # {}
  /\ repeater' = [pc |-> "record",
                  alerts |-> {[rule |-> r, firing |-> TRUE, ts |-> states[r].since] : r \in Firing}]
  /\ UNCHANGED <<database, memory, observer, reloader, acker, silencer, world, counts, ghosts>>

-----------------------------------------------------------------------------
(* Reload: read the rules, the states and the silences, each from the       *)
(* database as it is at that moment, then install them under the lock.      *)

ReadRules ==
  /\ reloader = Idle
  /\ reloader' = [pc |-> "states", rules |-> ruleRows]
  /\ UNCHANGED <<database, memory, observer, repeater, acker, silencer, world, counts, ghosts>>

ReadStates ==
  /\ reloader.pc = "states"
  /\ reloader' = [pc |-> "silences", rules |-> reloader.rules, states |-> stateRows]
  /\ UNCHANGED <<database, memory, observer, repeater, acker, silencer, world, counts, ghosts>>

ReadSilences ==
  /\ reloader.pc = "silences"
  /\ reloader' = [pc |-> "install", rules |-> reloader.rules, states |-> reloader.states,
                  silences |-> silenceRows]
  /\ UNCHANGED <<database, memory, observer, repeater, acker, silencer, world, counts, ghosts>>

(* A state in memory is newer than the snapshot; the variant with a fault   *)
(* takes the stored one.                                                    *)
InstalledStored(inMemory, stored) == IF stored # NONE THEN stored ELSE inMemory

Installed(inMemory, stored) == IF inMemory # NONE THEN inMemory ELSE stored

(* Silences are replaced by what was read; in the variant, never. *)
RefreshedNever(stored) == silences

Refreshed(stored) == stored

Install ==
  LET Known(r) == reloader.rules[r] # "absent" IN
  /\ reloader.pc = "install"
  /\ rules' = reloader.rules
  /\ states' = [r \in Rules |-> IF Known(r) THEN Installed(states[r], reloader.states[r]) ELSE NONE]
  /\ live' = [r \in Rules |-> IF ~Known(r) THEN NONE
                              ELSE IF live[r] # NONE THEN live[r] ELSE reloader.states[r]]
  /\ silences' = Refreshed(reloader.silences)
  /\ reloader' = Idle
  /\ UNCHANGED <<database, observer, repeater, acker, silencer, world, counts, unlogged, dropped,
                 unsaved>>

(* A read that fails, or a tree or rule the reload cannot resolve: memory   *)
(* stays as it is until the next reload.                                    *)
ReloadFails ==
  /\ reloader # Idle
  /\ Fault
  /\ reloader' = Idle
  /\ UNCHANGED <<database, memory, observer, repeater, acker, silencer, world, acks, edits, ghosts>>

-----------------------------------------------------------------------------
(* The operator.                                                           *)

(* Acknowledge, or withdraw it: under the lock, then saved at once. *)
Acknowledge(r, ack) ==
  /\ acker = Idle /\ acks < MaxAcks /\ Together < MaxTogether
  /\ states[r] # NONE /\ states[r].firing
  /\ acks' = acks + 1
  /\ states' = [states EXCEPT ![r] = WithAck(@, ack)]
  /\ live' = [live EXCEPT ![r] = WithAck(@, ack)]
  /\ acker' = [pc |-> "save", dirty |-> [x \in {r} |-> states'[r]]]
  /\ UNCHANGED <<database, rules, silences, observer, repeater, reloader, silencer, world,
                 edits, faults, unlogged, dropped, unsaved>>

SaveAck ==
  /\ acker.pc = "save"
  /\ Save(acker.dirty)
  /\ acker' = Idle
  /\ UNCHANGED <<ruleRows, silenceRows, log, memory, observer, repeater, reloader, silencer,
                 world, acks, edits, unlogged, dropped, live>>

(* A silence is stored, or deleted, and then added to memory, or taken out. *)
CreateSilence(s) ==
  /\ silencer = Idle /\ edits < MaxEdits /\ Together < MaxTogether
  /\ s \notin silenceRows
  /\ edits' = edits + 1
  /\ silenceRows' = silenceRows \cup {s}
  /\ silencer' = [pc |-> "add", silence |-> s]
  /\ UNCHANGED <<ruleRows, stateRows, log, memory, observer, repeater, reloader, acker, world,
                 acks, faults, ghosts>>

DeleteSilence(s) ==
  /\ silencer = Idle /\ edits < MaxEdits /\ Together < MaxTogether
  /\ s \in silenceRows
  /\ edits' = edits + 1
  /\ silenceRows' = silenceRows \ {s}
  /\ silencer' = [pc |-> "remove", silence |-> s]
  /\ UNCHANGED <<ruleRows, stateRows, log, memory, observer, repeater, reloader, acker, world,
                 acks, faults, ghosts>>

(* In the variant with a fault the change waits for the next reload. *)
AppliedLater(inForce) == inForce

Applied(inForce) ==
  IF silencer.pc = "add" THEN inForce \cup {silencer.silence} ELSE inForce \ {silencer.silence}

ApplySilence ==
  /\ silencer # Idle
  /\ silences' = Applied(silences)
  /\ silencer' = Idle
  /\ UNCHANGED <<database, rules, states, observer, repeater, reloader, acker, world, counts,
                 ghosts>>

(* A silence's window opens or closes. *)
PassWindow(s) ==
  /\ open' = IF s \in open THEN open \ {s} ELSE open \cup {s}
  /\ UNCHANGED <<database, memory, observer, repeater, reloader, acker, silencer, ts, told,
                 counts, ghosts>>

(* A rule is enabled, disabled, or no longer the nearest. *)
EditRule(r, standing) ==
  /\ edits < MaxEdits /\ Together < MaxTogether
  /\ ruleRows[r] # "absent" /\ standing # ruleRows[r] /\ standing # "absent"
  /\ edits' = edits + 1
  /\ ruleRows' = [ruleRows EXCEPT ![r] = standing]
  /\ UNCHANGED <<stateRows, silenceRows, log, memory, observer, repeater, reloader, acker,
                 silencer, world, acks, faults, ghosts>>

DeleteRule(r) ==
  /\ edits < MaxEdits /\ Together < MaxTogether
  /\ ruleRows[r] # "absent"
  /\ edits' = edits + 1
  /\ stateRows' = [stateRows EXCEPT ![r] = NONE]
  /\ ruleRows' = [ruleRows EXCEPT ![r] = "absent"]
  /\ UNCHANGED <<silenceRows, log, memory, observer, repeater, reloader, acker, silencer, world,
                 acks, faults, ghosts>>

(* The process dies anywhere and starts again with nothing in memory. *)
Crash ==
  /\ Fault
  /\ rules' = [r \in Rules |-> "absent"]
  /\ states' = [r \in Rules |-> NONE] /\ live' = [r \in Rules |-> NONE]
  /\ silences' = {} /\ unlogged' = {} /\ dropped' = {} /\ unsaved' = {}
  /\ observer' = Idle /\ repeater' = Idle /\ reloader' = Idle /\ acker' = Idle /\ silencer' = Idle
  /\ UNCHANGED <<database, world, acks, edits>>

-----------------------------------------------------------------------------
Observer ==
  \/ \E readings \in [Rules -> Readings] : Observe(readings)
  \/ SaveStates
  \/ ObserverDelivers

Repeater == Repeat \/ RepeaterDelivers

Reloader == ReadRules \/ ReadStates \/ ReadSilences \/ Install \/ ReloadFails

Operator ==
  \/ \E r \in Rules, ack \in BOOLEAN : Acknowledge(r, ack)
  \/ SaveAck
  \/ \E s \in Silences : CreateSilence(s) \/ DeleteSilence(s)
  \/ ApplySilence
  \/ \E r \in Rules, standing \in Standing : EditRule(r, standing)
  \/ \E r \in Rules : DeleteRule(r)

Next ==
  \/ Observer
  \/ Repeater
  \/ Reloader
  \/ Operator
  \/ \E s \in Silences : PassWindow(s)
  \/ Crash

Spec == Init /\ [][Next]_vars

(* The writer finishes what it began, the repeat's ticker keeps ticking, and *)
(* the engine reloads again and again.  Nothing else need ever happen.       *)
Fairness ==
  /\ WF_vars(SaveStates) /\ WF_vars(ObserverDelivers)
  /\ WF_vars(Repeater)
  /\ WF_vars(Reloader)
  /\ WF_vars(ApplySilence)

FairSpec == Spec /\ Fairness

-----------------------------------------------------------------------------
(* Properties that hold.                                                    *)

(* A rule's standing is moved by its measurements and its acknowledgements  *)
(* alone: a reload that read the database while measurements were evaluated *)
(* neither rolls a streak back nor revives an ended episode                 *)
(* (manager.go:186-193).                                                    *)
ReloadLosesNoProgress == states = live

(* Once the writer is done with a batch, a transition of this process that  *)
(* is missing from the log is one whose insert failed, which deliver only   *)
(* reports (manager.go:602-604); silences, receivers that do not answer,    *)
(* saves that failed and repeats that log the same episode lose nothing.    *)
OnlyFailedInsertsAreMissing == observer = Idle => unlogged \subseteq dropped

(* Between batches, the stored state of a rule is the one in memory, so a   *)
(* restart resumes it where it stood, part-way streaks included, except     *)
(* after a save that failed, by an error or by the absence of a rule saved  *)
(* with it: the next save that succeeds heals that, an earlier failure      *)
(* leaving no trace.  All as long as nobody acknowledges anything (see      *)
(* RestartRevivesNothing).                                                  *)
RestartLosesNothing ==
  observer = Idle /\ acks = 0 =>
    \A r \in Rules :
      states[r] # NONE /\ ruleRows[r] # "absent" /\ r \notin unsaved => stateRows[r] = states[r]

(* An alert that goes on firing is in the log in the end, dated by when it  *)
(* began, even if the insert that should have recorded it failed; and if it *)
(* is unsilenced it is announced, even if its firing fell in a maintenance  *)
(* window or a post failed, and the receiver's last word of it is that it   *)
(* fires (docs/alerting.md, "whatever is still firing is re-announced").    *)
IsLogged(r) == [rule |-> r, firing |-> TRUE, ts |-> states[r].since] \in log

FiringIsReannounced ==
  \A r \in Rules :
    /\ <>[]Fires(r) => <>[](Fires(r) /\ IsLogged(r))
    /\ <>[](Fires(r) /\ ~Silenced) => <>[](told[r] = "firing")

(* When operators stop editing silences, the ones in force become the ones  *)
(* stored, whatever reloads and restarts the edits raced with, and whatever *)
(* reloads failed before one succeeded.                                     *)
SilencesConverge == <>[](silences = silenceRows)

-----------------------------------------------------------------------------
(* What the comments and the documentation say and the code does not do.   *)

(* With nothing under way, what a restart would find firing is firing       *)
(* ("must not resolve and re-fire because smokeng was restarted",           *)
(* store/alerts.go:131-133).                                                *)
RestartRevivesNothing ==
  observer = Idle /\ acker = Idle =>
    \A r \in Rules :
      states[r] # NONE /\ stateRows[r] # NONE /\ stateRows[r].firing => states[r].firing

(* A receiver that was sent everything knows which alerts still fire        *)
(* ("receivers that track state stay in sync", docs/alerting.md:184).       *)
ReceiverStaysInSync ==
  observer = Idle /\ repeater = Idle =>
    \A r \in Rules : told[r] = "firing" => states[r].firing
=============================================================================
