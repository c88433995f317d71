------------------------------ MODULE Delivery ------------------------------
(***************************************************************************)
(* What measurement delivery promises, without its mechanism.              *)
(*                                                                         *)
(* A remote agent writes one row per key (a target and the start of an     *)
(* interval) into its own database, and the row leaves that database only  *)
(* once the master has settled the key: it holds a row for it, or it has   *)
(* refused it.  Whatever the master holds never changes again.             *)
(*                                                                         *)
(* internal/agent/agent.go:5-9 and internal/api/ingest.go:118-120 say this *)
(* in prose; AgentDelivery is the code that has to keep it.                *)
(***************************************************************************)
CONSTANTS
  Keys,   \* (target, interval start): the primary key of a row, one agent's
  Vals,   \* what a row says: sent, received, flags, samples, series
  NONE    \* no row

VARIABLES
  buffered,  \* the agent's outbox: Keys -> Vals or NONE
  stored,    \* the master's table, this agent's rows: Keys -> Vals or NONE
  refused,   \* keys of which the master answered for a row without storing it
  written    \* every <<key, value>> the agent ever committed to its outbox

vars == <<buffered, stored, refused, written>>

Settled(k) == stored[k] # NONE \/ k \in refused

Init ==
  /\ buffered = [k \in Keys |-> NONE]
  /\ stored   = [k \in Keys |-> NONE]
  /\ refused  = {}
  /\ written  = {}

(* The agent commits rows; a row for a key it already buffers replaces it. *)
Write ==
  /\ \E new \in [Keys -> Vals \cup {NONE}] :
       /\ buffered' = [k \in Keys |-> IF new[k] = NONE THEN buffered[k] ELSE new[k]]
       /\ \A k \in Keys : new[k] # NONE => <<k, new[k]>> \in written'
  /\ written \subseteq written'
  /\ UNCHANGED <<stored, refused>>

(* The master settles keys: it fills empty places with rows the agent really *)
(* wrote, and refuses others.                                                *)
Settle ==
  /\ stored' \in [Keys -> Vals \cup {NONE}]
  /\ \A k \in Keys : stored'[k] = stored[k] \/ (stored[k] = NONE /\ <<k, stored'[k]>> \in written)
  /\ refused \subseteq refused'
  /\ refused' \subseteq Keys
  /\ UNCHANGED <<buffered, written>>

(* The agent forgets rows whose keys are settled. *)
Forget ==
  /\ \E S \in SUBSET {k \in Keys : Settled(k)} :
       buffered' = [k \in Keys |-> IF k \in S THEN NONE ELSE buffered[k]]
  /\ UNCHANGED <<stored, refused, written>>

Next == Write \/ Settle \/ Forget

Spec == Init /\ [][Next]_vars
=============================================================================
