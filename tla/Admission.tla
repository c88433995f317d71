----------------------------- MODULE Admission -----------------------------
(***************************************************************************)
(* Which signed requests of agents the master lets in                      *)
(* (internal/ingest/sign.go): a timestamp within the allowed skew, a       *)
(* signature, a nonce not seen before, and a budget of requests per agent. *)
(*                                                                         *)
(* The network keeps every request it has seen and may hand it over again. *)
(* A handler reads the clock before it waits for the cache's lock, so the  *)
(* time a check is made with may be behind that of the check before it.    *)
(* Times are in ticks and a bucket's tokens in parts, RefillTicks to a     *)
(* token, one of which comes back with every tick.                         *)
(***************************************************************************)
EXTENDS Integers, FiniteSets, Sequences

CONSTANTS
  Senders, Nonces,                       \* enrolled agents; random values they sign
  SkewAllowed, NonceKept, SweepEvery,    \* MaxSkew, NonceTTL, nonceSweepEvery
  BurstSize, RefillTicks,                \* the budget
  Late,                                  \* how far behind a handler's reading may be
  MaxChecks, LastSecond                  \* bounds: checks in one life of the master; the clock

ASSUME AdmissionAssumption ==
  /\ {SkewAllowed, NonceKept, SweepEvery, BurstSize, RefillTicks, Late} \subseteq Nat
  /\ {MaxChecks, LastSecond} \subseteq Nat
  /\ 2 * SkewAllowed <= NonceKept /\ BurstSize > 0 /\ RefillTicks > 0

VARIABLES
  second,     \* the master's clock
  signed,     \* requests the network has seen
  seen,       \* nonceCache.seen: nonce |-> when it was admitted
  swept,      \* nonceCache.swept
  buckets,    \* rateLimiters.buckets: agent |-> parts left, and when they were counted
  (* ghost *)
  verdicts    \* what was checked since the master started, in order

admissionVars == <<second, signed, seen, swept, buckets, verdicts>>

AdmissionInit ==
  /\ second = Late /\ signed = {}
  /\ seen = <<>> /\ swept = Late - SweepEvery /\ buckets = <<>>
  /\ verdicts = <<>>

(* An agent signs with its own clock, which may be wrong by more than is    *)
(* allowed, and a nonce of its own.                                         *)
Sign(a, nonce, stamp) ==
  /\ \A r \in signed : r.nonce # nonce
  /\ signed' = signed \cup {[agent |-> a, nonce |-> nonce, stamp |-> stamp]}
  /\ UNCHANGED <<second, seen, swept, buckets, verdicts>>

Fresh(r, now) == now - r.stamp \in -SkewAllowed..SkewAllowed

(* Nonces past their time are dropped, a sweep every so often. *)
Swept(now) ==
  IF now - swept >= SweepEvery
  THEN [n \in {m \in DOMAIN seen : now - seen[m] <= NonceKept} |-> seen[n]]
  ELSE seen

(* A nonce is remembered for as long as its timestamp is good on either     *)
(* side; in the variant with a fault for as long as on one.                 *)
KnownOneSided(cache, nonce, now) == nonce \in DOMAIN cache /\ now - cache[nonce] <= SkewAllowed

Known(cache, nonce, now) == nonce \in DOMAIN cache /\ now - cache[nonce] <= NonceKept

Least(x, y) == IF x <= y THEN x ELSE y

(* A bucket as it stands at a time: full when there is none, and never more *)
(* than full.                                                               *)
Level(a, now) ==
  IF a \in DOMAIN buckets
  THEN Least(BurstSize * RefillTicks, buckets[a].parts + (now - buckets[a].last))
  ELSE BurstSize * RefillTicks

Count(a, parts, now) ==
  buckets' = [b \in DOMAIN buckets \cup {a} |->
               IF b = a THEN [parts |-> parts, last |-> now] ELSE buckets[b]]

Verdict(r, now, answer) ==
  verdicts' = Append(verdicts, [request |-> r, at |-> now, answer |-> answer])

(* Check: a stamp out of range changes nothing; a replay changes nothing    *)
(* but what the sweep drops, least of all the budget; a request over the    *)
(* budget does not leave its nonce.                                         *)
Admit(r, now) ==
  LET cache == Swept(now) IN
  /\ swept' = IF now - swept >= SweepEvery THEN now ELSE swept
  /\ \/ /\ Known(cache, r.nonce, now)
        /\ seen' = cache
        /\ Verdict(r, now, "replay")
        /\ UNCHANGED buckets
     \/ /\ ~Known(cache, r.nonce, now)
        /\ Level(r.agent, now) < RefillTicks
        /\ Count(r.agent, Level(r.agent, now), now)
        /\ seen' = cache
        /\ Verdict(r, now, "limited")
     \/ /\ ~Known(cache, r.nonce, now)
        /\ Level(r.agent, now) >= RefillTicks
        /\ Count(r.agent, Level(r.agent, now) - RefillTicks, now)
        /\ seen' = [n \in DOMAIN cache \cup {r.nonce} |-> IF n = r.nonce THEN now ELSE cache[n]]
        /\ Verdict(r, now, "ok")

Check(r, now) ==
  /\ Len(verdicts) < MaxChecks
  /\ Fresh(r, now)
  /\ Admit(r, now)
  /\ UNCHANGED <<second, signed>>

(* The master is restarted: what it remembers is gone. *)
Forget ==
  /\ verdicts # <<>>
  /\ seen' = <<>> /\ swept' = Late - SweepEvery /\ buckets' = <<>> /\ verdicts' = <<>>
  /\ UNCHANGED <<second, signed>>

SecondPasses ==
  /\ second < LastSecond
  /\ second' = second + 1
  /\ UNCHANGED <<signed, seen, swept, buckets, verdicts>>

AdmissionNext ==
  \/ \E a \in Senders, nonce \in Nonces, off \in -SkewAllowed..SkewAllowed : Sign(a, nonce, second + off)
  \/ \E r \in signed, behind \in 0..Late : Check(r, second - behind)
  \/ Forget
  \/ SecondPasses

AdmissionSpec == AdmissionInit /\ [][AdmissionNext]_admissionVars

-----------------------------------------------------------------------------
Answered(answer) == {k \in DOMAIN verdicts : verdicts[k].answer = answer}

(* In one life of the master a request is let in once, however often it is  *)
(* repeated and however the handlers overlap, but for one whose sender's    *)
(* clock was ahead by all that is allowed, less how late a handler may be:  *)
(* such a nonce is forgotten as soon as its stamp goes out of range, by a   *)
(* handler that read the clock after one that still waits (sign.go:260-267).*)
AdmittedOnce ==
  \A j, k \in Answered("ok") :
    j < k /\ verdicts[j].request = verdicts[k].request
      => verdicts[j].request.stamp > verdicts[j].at + SkewAllowed - Late
=============================================================================
